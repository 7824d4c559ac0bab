------------------------------ MODULE TableScan ------------------------------
(* The life of one query: bind chooses the columns and the scan, maybe after    *)
(* probing the first file; initialisation opens the files again; the scan reads *)
(* the records of its type with the struct of the DBN version found there.      *)
(* Between these steps other processes may replace files.  Chunks, filters and  *)
(* the bytes of the files are the subject of DbnScan, FilterPushdown, DbnReader. *)
EXTENDS Readers

CONSTANTS
    Disks,          \* what the matched paths hold when the query is bound
    Replacements,   \* contents that may be put in place of a file
    MaxReplacements,\* bound on how often that happens
    Functions       \* the table functions that are called

Absent == [schema |-> "absent"]
NoSchema == "NULL"
RowId == -1

(* What may be read under a path: nothing, or a capture of a known version.     *)
OnDisk == UNION {{d[k] : k \in 1..Len(d)} : d \in Disks}
Contents == OnDisk \cup Replacements

IsCapture(c) ==
    /\ c.version \in Versions
    /\ Len(c.records) \in Nat
    /\ \A i \in 1..Len(c.records) : c.records[i].size \in Nat

ASSUME ContentsAssumption ==
    /\ \A d \in Disks : d \in Seq(Contents)
    /\ \A c \in Contents : c = Absent \/ IsCapture(c)
ASSUME FunctionsAssumption ==
    Functions \subseteq Schemas \cup {"read_dbn", "symbol_mapping", "system", "dbn_records"}

VARIABLES
    disk,       \* the files ExpandPaths finds for the pattern, in order
    function,   \* the table function called, and whether with symbols := true
    symbols,
    bound,      \* what bind returned: names, layout, scan and rtype
    columnIds,  \* column_ids
    open,       \* the contents input_ reads; a replaced file stays readable
    cur,        \* its place among the paths
    pos,        \* records taken from it
    first,      \* first_metadata_
    rows,       \* the records delivered, with the size of the struct they filled
    read,       \* the contents opened since initialisation
    replaced,   \* replacements so far
    pc,
    fault

boundVars == <<function, symbols, bound>>
readerVars == <<open, cur, pos, first, read>>
vars == <<disk, boundVars, columnIds, readerVars, rows, replaced, pc, fault>>

NotBound == [reader |-> Trades, names |-> <<>>, layout |-> HeaderLayoutStandard, rtype |-> NoRType]
NoMetadata == [schema |-> "none"]
Metadata(c) == [schema |-> c.schema, version |-> c.version]

Init ==
    /\ disk \in Disks
    /\ function \in Functions
    /\ symbols \in BOOLEAN
    /\ symbols => TakesSymbols(function)
    /\ bound = NotBound
    /\ columnIds = <<>>
    /\ open = Absent
    /\ cur = 0
    /\ pos = 0
    /\ first = NoMetadata
    /\ rows = <<>>
    /\ read = <<>>
    /\ replaced = 0
    /\ pc = "bind"
    /\ fault = "none"

Throw(what) == pc' = "failed" /\ fault' = what

-----------------------------------------------------------------------------
(* Bind.                                                                      *)

(* MaybeAppendSymbolColumn: its logical id is the number of columns before.    *)
WithSymbolColumn(names) == IF symbols THEN Append(names, "symbol") ELSE names

Bound(handler, layout) ==
    [reader |-> handler.reader, names |-> WithSymbolColumn(handler.reader.names),
     layout |-> layout, rtype |-> handler.rtype]

BindTo(handler, layout) ==
    /\ bound' = Bound(handler, layout)
    /\ pc' = "init"
    /\ UNCHANGED fault

(* A slip: no case for statistics.                                            *)
DispatchedLayoutWithoutStatistics(s) ==
    IF s \in {"ohlcv_1s", "ohlcv_1m", "ohlcv_1h", "ohlcv_1d", "ohlcv_eod"} THEN HeaderLayoutOhlcv
    ELSE HeaderLayoutStandard

(* The layout read_dbn chooses: the one of the dispatched bind is thrown away. *)
DispatchedLayout(s) ==
    IF s \in {"ohlcv_1s", "ohlcv_1m", "ohlcv_1h", "ohlcv_1d", "ohlcv_eod"} THEN HeaderLayoutOhlcv
    ELSE IF s = "statistics" THEN HeaderLayoutStatistics
    ELSE HeaderLayoutStandard

(* ReadDbnBind: the first file is opened, its schema looked up, and closed.    *)
ReadDbnBind ==
    /\ pc = "bind"
    /\ function = "read_dbn"
    /\ \/ disk = <<>> /\ Throw("no_files_match") /\ UNCHANGED bound
       \/ /\ disk # <<>>
          /\ LET schema == Head(disk).schema IN
             IF schema = NoSchema THEN Throw("no_schema_in_metadata") /\ UNCHANGED bound
             ELSE IF LookupSchemaHandler(schema).rtype = NoRType
             THEN Throw("schema_not_recognized") /\ UNCHANGED bound
             ELSE BindTo(LookupSchemaHandler(schema), DispatchedLayout(schema))
    /\ UNCHANGED <<disk, function, symbols, columnIds, readerVars, rows, replaced>>

(* The bind of a schema's own function looks at no file.                       *)
SchemaBind ==
    /\ pc = "bind"
    /\ function \notin {"read_dbn", "dbn_records"}
    /\ IF disk = <<>> THEN Throw("no_files_match") /\ UNCHANGED bound
       ELSE BindTo(Registered(function), Registered(function).reader.layout)
    /\ UNCHANGED <<disk, function, symbols, columnIds, readerVars, rows, replaced>>

(* dbn_records takes one path as it is.                                        *)
DbnRecordsBind ==
    /\ pc = "bind"
    /\ function = "dbn_records"
    /\ BindTo(Registered(function), Registered(function).reader.layout)
    /\ UNCHANGED <<disk, function, symbols, columnIds, readerVars, rows, replaced>>

(* Another process renames a new file over one of the paths, or removes it.    *)
ReplaceFile ==
    /\ pc \in {"init", "scan"}
    /\ replaced < MaxReplacements
    /\ \E k \in 1..Len(disk), c \in Replacements :
        /\ disk[k] # c
        /\ disk' = [disk EXCEPT ![k] = c]
    /\ replaced' = replaced + 1
    /\ UNCHANGED <<boundVars, columnIds, readerVars, rows, pc, fault>>

-----------------------------------------------------------------------------
(* ReadDbnInitGlobal, with the DbnFileReader it constructs.                    *)

Paths == IF function = "dbn_records" THEN 1 ELSE Len(disk)

OpenFile(k, then) ==
    LET c == IF k <= Len(disk) THEN disk[k] ELSE Absent IN
    \/ /\ c = Absent
       /\ Throw("cannot_open")
       /\ UNCHANGED readerVars
    \/ /\ c # Absent
       /\ first # NoMetadata
       /\ Metadata(c) # first
       /\ Throw("inconsistent_files")
       /\ UNCHANGED readerVars
    \/ /\ c # Absent
       /\ first \in {NoMetadata, Metadata(c)}
       /\ open' = c
       /\ cur' = k
       /\ pos' = 0
       /\ first' = Metadata(c)
       /\ read' = Append(read, c)
       /\ pc' = then
       /\ UNCHANGED fault

(* The projections the optimizer asks for: every column, none, a row id, or    *)
(* the last column after the header.                                           *)
Projections ==
    LET n == Len(bound.names) IN
    {[i \in 1..n |-> i - 1], <<>>, <<RowId>>, <<n - 1, bound.layout.instrument_id, RowId>>}

InitGlobal ==
    /\ pc = "init"
    /\ columnIds' \in Projections
    /\ OpenFile(1, "scan")
    /\ UNCHANGED <<disk, boundVars, rows, replaced>>

-----------------------------------------------------------------------------
(* The scan.  Version() is asked for in every call; it is the first file's.    *)
Struct == bound.reader.struct[first.version]

AtRecord == pc = "scan" /\ pos < Len(open.records)
Current == open.records[pos + 1]
Expected == bound.rtype \in {AnyRType, Current.rtype}

(* A slip: the size of the record is not compared.                            *)
ReadRecordUnchecked ==
    /\ AtRecord
    /\ Expected
    /\ pos' = pos + 1
    /\ rows' = Append(rows, [file |-> Len(read), at |-> pos + 1, struct |-> Struct])
    /\ UNCHANGED <<disk, boundVars, columnIds, open, cur, first, read, replaced, pc, fault>>

ReadRecord ==
    /\ AtRecord
    /\ Expected
    /\ bound.rtype = AnyRType \/ Current.size = Struct
    /\ pos' = pos + 1
    /\ rows' = Append(rows, [file |-> Len(read), at |-> pos + 1,
                             struct |-> IF bound.rtype = AnyRType THEN Current.size ELSE Struct])
    /\ UNCHANGED <<disk, boundVars, columnIds, open, cur, first, read, replaced, pc, fault>>

SkipRecord ==
    /\ AtRecord
    /\ ~Expected
    /\ pos' = pos + 1
    /\ UNCHANGED <<disk, boundVars, columnIds, open, cur, first, read, rows, replaced, pc, fault>>

SizeMismatch ==
    /\ AtRecord
    /\ Expected
    /\ bound.rtype # AnyRType
    /\ Current.size # Struct
    /\ Throw("record_size_mismatch")
    /\ UNCHANGED <<disk, boundVars, columnIds, readerVars, rows, replaced>>

AtEnd == pc = "scan" /\ pos = Len(open.records)

NextFile ==
    /\ AtEnd
    /\ cur < Paths
    /\ OpenFile(cur + 1, "scan")
    /\ UNCHANGED <<disk, boundVars, columnIds, rows, replaced>>

Finish ==
    /\ AtEnd
    /\ cur = Paths
    /\ pc' = "finished"
    /\ UNCHANGED <<disk, boundVars, columnIds, readerVars, rows, replaced, fault>>

Over == pc \in {"finished", "failed"} /\ UNCHANGED vars

Next ==
    \/ ReadDbnBind \/ SchemaBind \/ DbnRecordsBind \/ ReplaceFile \/ InitGlobal
    \/ ReadRecord \/ SkipRecord \/ SizeMismatch \/ NextFile \/ Finish \/ Over

Spec == Init /\ [][Next]_vars

-----------------------------------------------------------------------------
Conforms(c) ==
    \A i \in 1..Len(c.records) : c.records[i].size = WireSize(c.records[i].rtype, c.version)

(* A capture of a schema: its records, among messages of the session.          *)
CaptureOf(c, s) ==
    /\ c.schema = s
    /\ Conforms(c)
    /\ \A i \in 1..Len(c.records) : c.records[i].rtype \in {RTypeOf(s), "SymbolMapping", "System"}

(* The layout that sorts filters into header and body ones names the columns    *)
(* the bind declared, whichever of the two bind paths chose it: otherwise a     *)
(* filter on one column would be enforced on the field of another.              *)
LayoutNamesHeader ==
    pc \notin {"bind", "failed"} =>
        \A field \in {"ts_event", "instrument_id", "publisher_id"} :
            bound.names[bound.layout[field] + 1] = field

(* No projection asks for more slots than the pointer arrays of the scan have,  *)
(* the symbol column included: the only check in the code is a debug assertion. *)
SlotsFit ==
    pc = "scan" => bound.reader.slots = NoArrays \/ Len(columnIds) <= bound.reader.slots

(* A row is a record of the scan's own type and fills its struct exactly, even  *)
(* where the file was replaced by one of another schema, version or layout      *)
(* after the bind.                                                             *)
RowsFitTheirStruct ==
    \A i \in 1..Len(rows) :
        LET r == read[rows[i].file].records[rows[i].at] IN
        bound.rtype \in {AnyRType, r.rtype} /\ r.size = rows[i].struct

(* Captures that keep to their version's encoding are never refused for the     *)
(* size of a record, by any reader and whatever was replaced between bind and   *)
(* initialisation: the version is taken from the file that is read.             *)
ConformingCaptureIsRead ==
    (\A i \in 1..Len(read) : Conforms(read[i])) => fault # "record_size_mismatch"

(* read_dbn and the schema's own function both deliver exactly the records of    *)
(* the schema, from every matched file, each once and in order: the two dispatch *)
(* tables agree with the encoding.                                             *)
Before(a, b) == a.file < b.file \/ (a.file = b.file /\ a.at < b.at)

DeliversAll(s) ==
    /\ \A n \in 1..Len(rows) : disk[rows[n].file].records[rows[n].at].rtype = RTypeOf(s)
    /\ \A k \in 1..Len(disk) : \A i \in 1..Len(disk[k].records) :
        disk[k].records[i].rtype = RTypeOf(s) =>
            \E n \in 1..Len(rows) : rows[n].file = k /\ rows[n].at = i
    /\ \A m, n \in 1..Len(rows) : m < n => Before(rows[m], rows[n])

EveryRecordOfTheSchema ==
    \A s \in Schemas :
        /\ pc = "finished"
        /\ function \in {"read_dbn", s}
        /\ replaced = 0
        /\ \A k \in 1..Len(disk) : CaptureOf(disk[k], s)
        => DeliversAll(s)

=============================================================================
