----------------------------- MODULE MetadataRow -----------------------------
(* dbn_metadata: its one row, from the metadata block of one file.  The block   *)
(* is laid out by version; the reader picks its fields by offset.  A byte of the *)
(* block is named by the field it belongs to and its place there, so a field    *)
(* read from a wrong place is told from the right one.                          *)
EXTENDS Readers

CONSTANTS
    Files       \* what the path may hold

(*   exists   the file can be opened and is in one of the two formats          *)
(*   prefix   its first bytes are "DBN"                                        *)
(*   version  the byte behind them                                             *)
(*   frame    the length of the metadata frame the prelude announces            *)
(*   size     the bytes that can be read, prelude included                      *)
(*   fields   the values the writer put into the block                          *)

(* The block of a version holds the fields of that version, each with a value.   *)
BlockFields(v) ==
    {"dataset", "schema", "start", "end", "limit", "stype_in", "stype_out", "ts_out"}
        \cup (IF v > 1 THEN {"symbol_cstr_len"} ELSE {})

ASSUME FilesAssumption ==
    \A f \in Files :
        /\ f.version \in Versions
        /\ f.frame \in Nat /\ f.size \in Nat
        /\ BlockFields(f.version) \subseteq DOMAIN f.fields

VARIABLES
    file,
    emitted,    \* DbnMetadataGlobalState::emitted
    rows,       \* the rows returned
    pc,
    fault

vars == <<file, emitted, rows, pc, fault>>

PreludeSize == 8
FixedMetadataLen == 100
DatasetCstrLen == 16
SymbolCstrLenV1 == 22
NULL == "NULL"
Garbage == "garbage"

-----------------------------------------------------------------------------
(* The encoding, by version.                                                   *)
Field(name, bytes) == [k \in 1..bytes |-> <<name, k>>]

Fixed ==
    [v \in Versions |->
        Field("dataset", 16) \o Field("schema", 2) \o Field("start", 8) \o Field("end", 8)
        \o Field("limit", 8) \o (IF v = 1 THEN Field("record_count", 8) ELSE <<>>)
        \o Field("stype_in", 1) \o Field("stype_out", 1) \o Field("ts_out", 1)
        \o (IF v = 1 THEN Field("reserved", 47)
            ELSE Field("symbol_cstr_len", 2) \o Field("reserved", 53))]

(* ReadLE and the copies: size bytes of meta_buf from offset on, which end with  *)
(* the frame.                                                                  *)
Read(f, offset, size) ==
    LET name == Fixed[f.version][offset + 1][1]
    IN  IF /\ offset + size <= f.frame
           /\ SubSeq(Fixed[f.version], offset + 1, offset + size) = Field(name, size)
           /\ name \in DOMAIN f.fields
        THEN f.fields[name] ELSE Garbage

OffSchema == 16
OffStart == 18
OffEnd == 26
OffLimit == 34

(* A slip: the offset of version 1 for the versions after it.                  *)
OffStypeSwapped(v) == IF v = 1 THEN 42 ELSE 50

OffStype(v) == IF v = 1 THEN 50 ELSE 42

(* A slip: two bytes that version 1 does not have.                             *)
SymbolCstrLenAlways(f) == Read(f, OffStype(f.version) + 3, 2)

SymbolCstrLen(f) ==
    IF f.version > 1 THEN Read(f, OffStype(f.version) + 3, 2) ELSE SymbolCstrLenV1

(* OpenAndParseFile.  The null values of schema and stype_in leave them unset.  *)
Metadata(f) ==
    [version |-> f.version, dataset |-> Read(f, 0, DatasetCstrLen), schema |-> Read(f, OffSchema, 2),
     start |-> Read(f, OffStart, 8), end |-> Read(f, OffEnd, 8), limit |-> Read(f, OffLimit, 8),
     stype_in |-> Read(f, OffStype(f.version), 1), stype_out |-> Read(f, OffStype(f.version) + 1, 1),
     ts_out |-> Read(f, OffStype(f.version) + 2, 1), symbol_cstr_len |-> SymbolCstrLen(f)]

-----------------------------------------------------------------------------
(* The texts of the cells.                                                     *)
SchemaNames ==
    [mbo |-> "mbo", mbp1 |-> "mbp-1", mbp10 |-> "mbp-10", tbbo |-> "tbbo", trades |-> "trades",
     ohlcv_1s |-> "ohlcv-1s", ohlcv_1m |-> "ohlcv-1m", ohlcv_1h |-> "ohlcv-1h",
     ohlcv_1d |-> "ohlcv-1d", definition |-> "definition", statistics |-> "statistics",
     status |-> "status", imbalance |-> "imbalance", ohlcv_eod |-> "ohlcv-eod",
     cmbp1 |-> "cmbp-1", cbbo_1s |-> "cbbo-1s", cbbo_1m |-> "cbbo-1m", bbo_1s |-> "bbo-1s",
     bbo_1m |-> "bbo-1m"]

(* A slip: the case of a schema names its neighbour.                           *)
SchemaToCstrSlip(s) ==
    IF s = "cbbo_1m" THEN "cbbo-1s" ELSE IF s \in DOMAIN SchemaNames THEN SchemaNames[s] ELSE "unknown"

SchemaToCstr(s) == IF s \in DOMAIN SchemaNames THEN SchemaNames[s] ELSE "unknown"

STypes ==
    {"instrument_id", "raw_symbol", "smart", "continuous", "parent", "nasdaq_symbol", "cms_symbol",
     "isin", "us_code", "bbg_comp_id", "bbg_comp_ticker", "figi", "figi_ticker"}
STypeToCstr(s) == IF s \in STypes THEN s ELSE "unknown"

(* The cells DbnMetadataScan writes.                                           *)
Row(md) ==
    [md EXCEPT !.schema = IF @ = NULL THEN NULL ELSE SchemaToCstr(@),
               !.stype_in = IF @ = NULL THEN NULL ELSE STypeToCstr(@),
               !.stype_out = STypeToCstr(@)]

-----------------------------------------------------------------------------
Init ==
    /\ file \in Files
    /\ emitted = FALSE
    /\ rows = <<>>
    /\ pc = "idle"
    /\ fault = "none"

(* DuckDB asks for a chunk.                                                    *)
GetChunk ==
    /\ pc = "idle"
    /\ pc' = IF emitted THEN "finished" ELSE "open"
    /\ emitted' = TRUE
    /\ UNCHANGED <<file, rows, fault>>

Throw(what) == pc' = "failed" /\ fault' = what

(* The first check of OpenInput and OpenAndParseFile the file fails.            *)
OpenFails ==
    /\ pc = "open"
    /\ \/ ~file.exists /\ Throw("cannot_open")
       \/ file.exists /\ file.size < PreludeSize /\ Throw("short_prelude")
       \/ file.exists /\ file.size >= PreludeSize /\ ~file.prefix /\ Throw("missing_prefix")
       \/ /\ file.exists /\ file.size >= PreludeSize /\ file.prefix
          /\ file.frame < FixedMetadataLen
          /\ Throw("frame_too_short")
       \/ /\ file.exists /\ file.prefix /\ file.frame >= FixedMetadataLen
          /\ file.size >= PreludeSize
          /\ file.size < PreludeSize + file.frame
          /\ Throw("short_frame")
    /\ UNCHANGED <<file, emitted, rows>>

(* A slip: the length of the frame is not checked.                             *)
EmitRowUnchecked ==
    /\ pc = "open"
    /\ file.exists
    /\ file.prefix
    /\ file.size >= PreludeSize + file.frame
    /\ rows' = Append(rows, Row(Metadata(file)))
    /\ pc' = "idle"
    /\ UNCHANGED <<file, emitted, fault>>

(* A slip: emitted is cleared once the row is written.                         *)
EmitRowAgain ==
    /\ pc = "open"
    /\ file.exists
    /\ file.size >= PreludeSize + file.frame
    /\ rows' = Append(rows, Row(Metadata(file)))
    /\ emitted' = (Len(rows) > 0)
    /\ pc' = "idle"
    /\ UNCHANGED <<file, fault>>

EmitRow ==
    /\ pc = "open"
    /\ file.exists
    /\ file.prefix
    /\ file.frame >= FixedMetadataLen
    /\ file.size >= PreludeSize + file.frame
    /\ rows' = Append(rows, Row(Metadata(file)))
    /\ pc' = "idle"
    /\ UNCHANGED <<file, emitted, fault>>

Over == pc \in {"finished", "failed"} /\ UNCHANGED vars

Step == GetChunk \/ OpenFails \/ EmitRow

Next == Step \/ Over

(* DuckDB asks for chunks until one is empty.                                  *)
Spec == Init /\ [][Next]_vars /\ WF_vars(Step)

-----------------------------------------------------------------------------
TypeOK ==
    /\ emitted \in BOOLEAN
    /\ Len(rows) <= 1
    /\ pc \in {"idle", "open", "finished", "failed"}
    /\ fault # "none" => pc = "failed"

(* The row shows what the writer put into the block, in every version and       *)
(* whatever its length: no field is taken from its neighbour's place, the        *)
(* schema and stype_in are NULL exactly where the block has none, and only a      *)
(* symbol type that the encoding does not define is not shown by its name.        *)
RowIsTheBlock ==
    \A i \in 1..Len(rows) :
        LET row == rows[i]
            written == file.fields
        IN  /\ row.version = file.version
            /\ \A name \in {"dataset", "start", "end", "limit", "ts_out"} : row[name] = written[name]
            /\ row.symbol_cstr_len = IF file.version = 1 THEN 22 ELSE written.symbol_cstr_len
            /\ row.stype_in =
                   IF written.stype_in \in STypes \cup {NULL} THEN written.stype_in ELSE "unknown"
            /\ row.stype_out =
                   IF written.stype_out \in STypes THEN written.stype_out ELSE "unknown"
            /\ row.schema = NULL <=> written.schema = NULL

(* SchemaToCstr has no case for tcbbo, which LookupSchemaHandler dispatches.    *)
Unnamed == {"tcbbo"}

(* The schemas read_dbn dispatches are told apart by the text of the row: each    *)
(* but the one that is left out has a name, and no two have the same.            *)
SchemaIsTold ==
    \A i \in 1..Len(rows) :
        file.fields.schema \in Schemas \ Unnamed =>
            /\ rows[i].schema # "unknown"
            /\ \A s \in Schemas : SchemaToCstr(s) = rows[i].schema => s = file.fields.schema

(* A scan ends: with one row where the file begins with a whole metadata block,  *)
(* with an error otherwise.                                                    *)
Answers ==
    <>(IF /\ file.exists
          /\ file.prefix
          /\ file.frame >= FixedMetadataLen
          /\ file.size >= PreludeSize + file.frame
       THEN pc = "finished" /\ Len(rows) = 1
       ELSE pc = "failed")

=============================================================================
