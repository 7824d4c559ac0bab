-------------------------------- MODULE Cells --------------------------------
(* One column of the output chunk: the scan writes its cells, record by record, *)
(* into a vector that is used again for the next chunk; the body filter keeps    *)
(* some of the rows; what is kept goes to DuckDB.  A cell may be written as a    *)
(* value, which leaves the vector's NULL mark alone, or as NULL, which leaves    *)
(* the value alone.                                                            *)
EXTENDS Columns, FiniteSets

CONSTANTS
    Scans,          \* the scans under consideration, by the names of ColumnsOf
    VectorSize,     \* STANDARD_VECTOR_SIZE
    MaxRecords      \* bound on the records of the file

ASSUME ScansAssumption == Scans \subseteq DOMAIN ColumnsOf
ASSUME VectorSizeAssumption == VectorSize \in Nat \ {0}
ASSUME MaxRecordsAssumption == MaxRecords \in Nat \ {0}

VARIABLES
    scan,
    version,    \* Version(), of the file
    id,         \* the logical id of the column
    fields,     \* what each record of the file holds in the column's field
    pos,        \* records taken from the reader
    n,          \* the rows of the chunk
    row,        \* the record each row is made of
    data,       \* the values of the vector
    null,       \* the rows marked NULL
    cells,      \* what has been delivered, by record
    pc

file == <<scan, version, id, fields>>
vars == <<file, pos, n, row, data, null, cells, pc>>

Slots == 1..VectorSize

TableOf == ColumnsOf[scan]
Name == TableOf.reader.names[id + 1]
Type == TableOf.types[id + 1]
Written == TableOf.writers[version]
Has == ~Lacks(version, Name)

(* A field is a value, its sentinel, or a number of characters; in a character  *)
(* array the last are told apart by where the terminator is: at once, soon, in   *)
(* the last place, or nowhere.                                                 *)
Mandatory == {"ts_event", "ts_recv"}
Texts == {"raw_symbol", "security_type", "exchange", "asset", "cfi", "currency", "settl_currency",
          "secsubtype", "group", "underlying", "strike_price_currency", "unit_of_measure",
          "leg_raw_symbol", "stype_in_symbol", "stype_out_symbol", "msg"}
Codes == {"stype_in", "stype_out", "code"}

Content(defined, chars) == [defined |-> defined, chars |-> chars]
FieldsOf(name, type, v) ==
    IF Lacks(v, name) THEN {Content(FALSE, 0)}
    ELSE IF name \in Texts
    THEN {Content(TRUE, c) : c \in {0, 1, Width(v, name) - 1, Width(v, name)}}
    ELSE IF name \in Codes THEN {Content(FALSE, 0), Content(TRUE, 1)}
    ELSE IF type = TEXT THEN {Content(TRUE, 0), Content(TRUE, 1)}
    ELSE IF type \in {F64, "BIGINT"} \/ (type = TS /\ name \notin Mandatory)
    THEN {Content(FALSE, 0), Content(TRUE, 0)}
    ELSE {Content(TRUE, 0)}

Init ==
    /\ scan \in Scans
    /\ version \in Versions
    /\ id \in 0..(Len(TableOf.reader.names) - 1)
    /\ \E k \in 1..MaxRecords : fields \in [1..k -> FieldsOf(Name, Type, version)]
    /\ pos = 0
    /\ n = 0
    /\ row = [i \in Slots |-> 0]
    /\ data = [i \in Slots |-> [at |-> 0, chars |-> 0]]
    /\ null = {}
    /\ cells = {}
    /\ pc = "idle"

-----------------------------------------------------------------------------
(* A slip: the NULL marks of the chunk before stay.                            *)
StartChunkUnreset ==
    /\ n' = 0
    /\ pc' = "scan"
    /\ UNCHANGED <<file, pos, row, data, null, cells>>

(* out.Reset() clears the NULL marks, not the values.                          *)
StartChunk ==
    /\ n' = 0
    /\ null' = {}
    /\ pc' = "scan"
    /\ UNCHANGED <<file, pos, row, data, cells>>

GetChunk == pc = "idle" /\ StartChunk

(* strnlen(p, max_n), where the array may have no terminator: then the search   *)
(* goes on in the members behind it.                                            *)
Strnlen(chars, width, most) ==
    IF chars < width THEN {IF chars < most THEN chars ELSE most}
    ELSE IF most <= width THEN {most} ELSE {width, most}

AtSlot(f, value) == [f EXCEPT ![n + 1] = value]
Own(chars) == [at |-> pos + 1, chars |-> chars]

EmitValue(writer) ==
    /\ writer.emit = "value"
    /\ data' = AtSlot(data, Own(0))
    /\ UNCHANGED null

(* A slip: the sentinel is written like any value.                             *)
EmitOptionalRaw(writer, field) ==
    /\ writer.emit = "optional"
    /\ data' = AtSlot(data, Own(0))
    /\ UNCHANGED null

EmitOptional(writer, field) ==
    /\ writer.emit = "optional"
    /\ IF field.defined THEN data' = AtSlot(data, Own(field.chars)) /\ UNCHANGED null
       ELSE null' = null \cup {n + 1} /\ UNCHANGED data

EmitChar1(writer, field) ==
    /\ writer.emit = "char"
    /\ data' = AtSlot(data, Own(field.chars))
    /\ UNCHANGED null

EmitCstr(writer, field) ==
    /\ writer.emit = "text"
    /\ \E c \in Strnlen(field.chars, Width(version, Name), writer.most) :
        data' = AtSlot(data, Own(c))
    /\ UNCHANGED null

SetInvalid(writer) ==
    /\ writer.emit = "null"
    /\ null' = null \cup {n + 1}
    /\ UNCHANGED data

Emit(writer, field) ==
    \/ EmitValue(writer) \/ EmitOptional(writer, field) \/ EmitChar1(writer, field)
    \/ EmitCstr(writer, field) \/ SetInvalid(writer)

(* A slip: the loop does not look at n.                                        *)
EmitRowBeyond ==
    /\ pc = "scan"
    /\ pos < Len(fields)
    /\ n' = n + 1
    /\ pos' = pos + 1
    /\ UNCHANGED <<file, row, data, null, cells, pc>>

(* A row of the loop.  An id without a case in the switch is left as it is.      *)
EmitRow ==
    /\ pc = "scan"
    /\ n < VectorSize
    /\ pos < Len(fields)
    /\ IF id \in DOMAIN Written THEN Emit(Written[id], fields[pos + 1]) ELSE UNCHANGED <<data, null>>
    /\ row' = AtSlot(row, pos + 1)
    /\ n' = n + 1
    /\ pos' = pos + 1
    /\ UNCHANGED <<file, cells, pc>>

(* NextAs skips the record, or header_filter rejects it.                       *)
SkipRecord ==
    /\ pc = "scan"
    /\ n < VectorSize
    /\ pos < Len(fields)
    /\ pos' = pos + 1
    /\ UNCHANGED <<file, n, row, data, null, cells, pc>>

InnerReturns ==
    /\ pc = "scan"
    /\ n = VectorSize \/ pos = Len(fields)
    /\ pc' = IF n = 0 THEN "finished" ELSE "filter"
    /\ UNCHANGED <<file, pos, n, row, data, null, cells>>

Cell(i) == [of |-> row[i], null |-> i \in null, at |-> data[i].at, chars |-> data[i].chars]

(* The rows the body filter keeps; without one, all.                            *)
ReturnChunk ==
    /\ pc = "filter"
    /\ \E kept \in SUBSET (1..n) \ {{}} :
        cells' = cells \cup {Cell(i) : i \in kept}
    /\ pc' = "idle"
    /\ UNCHANGED <<file, pos, n, row, data, null>>

(* The body filter keeps no row: the loop starts over.                          *)
ContinueLoop == pc = "filter" /\ StartChunk

Over == pc = "finished" /\ UNCHANGED vars

Next ==
    \/ GetChunk \/ EmitRow \/ SkipRecord \/ InnerReturns \/ ReturnChunk \/ ContinueLoop \/ Over

Spec == Init /\ [][Next]_vars

-----------------------------------------------------------------------------
(* The chunk: rows and marks of the slots, and cells of records read.           *)
TypeOK ==
    /\ n \in 0..VectorSize
    /\ pos \in 0..Len(fields)
    /\ row \in [Slots -> 0..pos]
    /\ null \subseteq 1..VectorSize
    /\ \A c \in cells : c.of \in 1..pos
    /\ pc \in {"idle", "scan", "filter", "finished"}

(* The columns documented to be NULL where the field is undefined: every price,  *)
(* the optional timestamps, the quantity of a statistic, and the codes.          *)
OptionalTimestamps == {"ts_ref", "auction_time", "expiration", "activation"}
Nullable == Type = F64 \/ Name \in OptionalTimestamps \cup Codes \cup {"quantity"}

(* The columns whose bound is not the length of their array in every version:    *)
(* a text that comes near the end of the array is cut off before it or followed   *)
(* by the next member, so the properties ask only short texts of them.           *)
OddlyBounded == {"raw_symbol", "leg_raw_symbol", "asset"}

(* The sentinel is looked for where, and only where, the column may be NULL, a    *)
(* field the struct lacks is NULL, and a text is read up to the end of its array. *)
EmitsFor(writer) ==
    /\ writer.emit = "null" <=> ~Has
    /\ writer.emit = "optional" <=> Has /\ Nullable
    /\ writer.emit = "value" => Type # TEXT /\ Name \notin Texts \cup Codes
    /\ writer.emit = "text" =>
        LET width == Width(version, Name) IN
        /\ Name \in Texts
        /\ IF Name \in OddlyBounded THEN writer.most \in Nat \ {0, 1} ELSE writer.most = width

(* Every column the bind declares is written in the loop of every version, in     *)
(* the way its type and its struct ask for, and through a pointer of the type     *)
(* DuckDB reads it with: GetData does not convert.                               *)
WrittenAsDeclared ==
    /\ Len(TableOf.types) = Len(TableOf.reader.names)
    /\ id \in DOMAIN Written
    /\ EmitsFor(Written[id])
    /\ Written[id].emit # "null" => Written[id].storage = Physical(Type)

(* A cell is NULL exactly if the struct of the file's version lacks the field or *)
(* the field holds the sentinel of a nullable column, and is otherwise the value  *)
(* of its own record, whole.                                                   *)
AsPromised(c) ==
    LET field == fields[c.of] IN
    IF ~Has \/ (Nullable /\ ~field.defined) THEN c.null
    ELSE /\ ~c.null
         /\ c.at = c.of
         /\ c.chars = field.chars \/ (Name \in OddlyBounded /\ field.chars > 1)

(* Every delivered cell is what it should be: no mark or value of an earlier      *)
(* chunk shows through, and no version's loop forgets a field.                   *)
CellsAsPromised == \A c \in cells : AsPromised(c)

(* No timestamp but those every record has is delivered as its sentinel.         *)
UndefinedTimestampIsNull ==
    \A c \in cells : Type = TS /\ ~fields[c.of].defined => c.null

=============================================================================
