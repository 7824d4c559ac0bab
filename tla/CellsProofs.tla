----------------------------- MODULE CellsProofs -----------------------------
(* The columns of all fifteen scans are written, in the loop of every version,   *)
(* in the way their types and their structs ask for; and so every delivered      *)
(* cell is what it should be, for chunks of any size, files of any length and    *)
(* whatever the filters skip: nothing is left over from a row or a chunk before.  *)
EXTENDS Cells, TLAPS

Fields == FieldsOf(Name, Type, version)

(* The file does not change, and the vector keeps its slots.                    *)
ShapeInv ==
    /\ version \in Versions
    /\ fields \in Seq(Fields)
    /\ data = [i \in Slots |-> data[i]]

(* The rows of the chunk are made of records read; a NULL mark belongs to one.    *)
RowsInv ==
    pc \in {"scan", "filter"} =>
        /\ \A i \in 1..n : row[i] \in 1..pos
        /\ null \subseteq 1..n

(* The rows on their way are right already.                                     *)
PromisedInv == pc \in {"scan", "filter"} => \A i \in 1..n : AsPromised(Cell(i))

StateInv == TypeOK /\ ShapeInv /\ RowsInv
IInv == StateInv /\ PromisedInv /\ CellsAsPromised

-----------------------------------------------------------------------------
(* What the proofs need of a file's fields.                                    *)
LEMMA TextWidth ==
    ASSUME NEW name \in Texts, NEW v
    PROVE  Width(v, name) \in Nat /\ Width(v, name) > 2
<1>1. CASE name \in {"raw_symbol", "leg_raw_symbol", "stype_in_symbol", "stype_out_symbol"}
  <2>1. Width(v, name) = SymbolCstrLen(v)
    BY <1>1 DEF Width
  <2> QED
    BY <2>1 DEF SymbolCstrLen
<1>2. CASE name = "asset"
  <2>1. Width(v, name) = AssetCstrLen(v)
    BY <1>2 DEF Width
  <2> QED
    BY <2>1 DEF AssetCstrLen
<1>3. CASE name \in {"currency", "settl_currency", "strike_price_currency"}
  <2>1. Width(v, name) = 4
    BY <1>3 DEF Width
  <2> QED
    BY <2>1
<1>4. CASE name \in {"exchange", "secsubtype"}
  <2>1. Width(v, name) = IF name = "exchange" THEN 5 ELSE 6
    BY <1>4 DEF Width
  <2> QED
    BY <2>1
<1>5. CASE name \in {"cfi", "security_type", "group", "underlying"}
  <2>1. Width(v, name) = IF name \in {"cfi", "security_type"} THEN 7 ELSE 21
    BY <1>5 DEF Width
  <2> QED
    BY <2>1
<1>6. CASE name \in {"unit_of_measure", "msg"}
  <2>1. Width(v, name) = IF name = "msg" THEN IF v = 1 THEN 64 ELSE 303 ELSE 31
    BY <1>6 DEF Width
  <2> QED
    BY <2>1
<1> QED
  BY <1>1, <1>2, <1>3, <1>4, <1>5, <1>6 DEF Texts

LEMMA FieldContents ==
    ASSUME version \in Versions, Has, NEW field \in Fields
    PROVE  /\ Name \in Texts => field.chars \in {0, 1, Width(version, Name) - 1, Width(version, Name)}
           /\ Type # TEXT /\ Name \notin Texts \cup Codes => field.chars = 0
<1>1. Fields = IF Name \in Texts
               THEN {Content(TRUE, c) : c \in {0, 1, Width(version, Name) - 1, Width(version, Name)}}
               ELSE IF Name \in Codes THEN {Content(FALSE, 0), Content(TRUE, 1)}
               ELSE IF Type = TEXT THEN {Content(TRUE, 0), Content(TRUE, 1)}
               ELSE IF Type \in {F64, "BIGINT"} \/ (Type = TS /\ Name \notin Mandatory)
               THEN {Content(FALSE, 0), Content(TRUE, 0)}
               ELSE {Content(TRUE, 0)}
  BY DEF Fields, FieldsOf, Has
<1> QED
  BY <1>1 DEF Content

LEMMA SlotsAre ==
    ASSUME StateInv
    PROVE  /\ VectorSize \in Nat \ {0} /\ n \in Nat /\ n <= VectorSize
           /\ Len(fields) \in Nat /\ pos \in Nat /\ pos <= Len(fields)
           /\ 1..n \subseteq Slots
BY VectorSizeAssumption DEF StateInv, ShapeInv, TypeOK, Slots

(* What depends on the file alone stays.                                       *)
LEMMA SameFile ==
    ASSUME UNCHANGED file
    PROVE  /\ fields' = fields /\ version' = version
           /\ Fields' = Fields /\ Name' = Name /\ Type' = Type
           /\ Written' = Written /\ Has' = Has /\ Nullable' = Nullable
           /\ \A c : AsPromised(c)' <=> AsPromised(c)
<1>1. scan' = scan /\ version' = version /\ id' = id /\ fields' = fields
  BY DEF file
<1>2. TableOf' = TableOf
  BY <1>1 DEF TableOf
<1>3. Name' = Name /\ Type' = Type /\ Written' = Written
  BY <1>1, <1>2 DEF Name, Type, Written
<1>4. Has' = Has /\ Fields' = Fields /\ Nullable' = Nullable
  BY <1>1, <1>3 DEF Has, Fields, Nullable
<1>5. \A c : AsPromised(c)' <=> AsPromised(c)
  BY <1>1, <1>3, <1>4 DEF AsPromised
<1> QED
  BY <1>1, <1>3, <1>4, <1>5

-----------------------------------------------------------------------------
LEMMA InitIInv == Init => IInv
<1> SUFFICES ASSUME Init
             PROVE  IInv
  OBVIOUS
<1>1. PICK k \in 1..MaxRecords : fields \in [1..k -> FieldsOf(Name, Type, version)]
  BY DEF Init
<1>2. k \in Nat
  BY <1>1, MaxRecordsAssumption
<1> DEFINE F == FieldsOf(Name, Type, version)
<1>3. F = Fields
  BY DEF Fields
<1>4. fields \in [1..k -> F]
  BY <1>1
<1> HIDE DEF F
<1>5. fields \in Seq(F) /\ Len(fields) = k
  BY <1>2, <1>4
<1>6. ShapeInv
  BY <1>3, <1>5 DEF Init, ShapeInv
<1>7. TypeOK
  BY <1>2, <1>5, VectorSizeAssumption DEF Init, TypeOK, Slots
<1> QED
  BY <1>6, <1>7 DEF Init, IInv, StateInv, RowsInv, PromisedInv, CellsAsPromised

(* A chunk begins without rows and without marks.                              *)
LEMMA StartChunkIInv ==
    ASSUME StateInv, StartChunk
    PROVE  /\ StateInv'
           /\ PromisedInv'
           /\ CellsAsPromised => CellsAsPromised'
<1>1. UNCHANGED file /\ n' = 0 /\ null' = {} /\ pc' = "scan" /\ UNCHANGED <<pos, row, data, cells>>
  BY DEF StartChunk
<1>2. ShapeInv'
  BY <1>1, SameFile DEF StateInv, ShapeInv, Slots
<1>3. TypeOK'
  BY <1>1, SameFile, SlotsAre DEF StateInv, TypeOK, Slots
<1>4. RowsInv' /\ PromisedInv'
  BY <1>1 DEF RowsInv, PromisedInv
<1>5. CellsAsPromised => CellsAsPromised'
  BY <1>1, SameFile DEF CellsAsPromised
<1> QED
  BY <1>2, <1>3, <1>4, <1>5 DEF StateInv

(* Writing a row: where the data goes, and what is marked.                      *)
LEMMA EmitState ==
    ASSUME StateInv, EmitRow
    PROVE  /\ UNCHANGED file /\ UNCHANGED cells /\ pc = "scan" /\ pc' = "scan"
           /\ n' = n + 1 /\ n + 1 \in Slots /\ pos' = pos + 1 /\ pos + 1 \in 1..Len(fields)
           /\ row' = [row EXCEPT ![n + 1] = pos + 1]
           /\ data' = [i \in Slots |-> data'[i]]
           /\ \A i \in 1..n : data'[i] = data[i]
           /\ null' = null \/ null' = null \cup {n + 1}
<1>1. /\ UNCHANGED file /\ UNCHANGED cells /\ pc = "scan" /\ pc' = "scan"
      /\ n' = n + 1 /\ n < VectorSize /\ pos' = pos + 1 /\ pos < Len(fields)
      /\ row' = [row EXCEPT ![n + 1] = pos + 1]
  BY DEF EmitRow, AtSlot
<1>2. n + 1 \in Slots /\ pos + 1 \in 1..Len(fields)
  BY <1>1, SlotsAre DEF Slots
<1>3. data' = data \/ \E value : data' = [data EXCEPT ![n + 1] = value]
  BY DEF EmitRow, Emit, EmitValue, EmitOptional, EmitChar1, EmitCstr, SetInvalid, AtSlot
<1>4. null' = null \/ null' = null \cup {n + 1}
  BY DEF EmitRow, Emit, EmitValue, EmitOptional, EmitChar1, EmitCstr, SetInvalid
<1>5. data = [i \in Slots |-> data[i]]
  BY DEF StateInv, ShapeInv
<1>6. data' = [i \in Slots |-> data'[i]] /\ \A i \in 1..n : data'[i] = data[i]
  <2>1. CASE data' = data
    BY <1>5, <2>1
  <2>2. ASSUME NEW value, data' = [data EXCEPT ![n + 1] = value]
        PROVE  data' = [i \in Slots |-> data'[i]] /\ \A i \in 1..n : data'[i] = data[i]
    BY <1>5, <2>2, SlotsAre
  <2> QED
    BY <1>3, <2>1, <2>2
<1> QED
  BY <1>1, <1>2, <1>4, <1>6

LEMMA EmitRowState ==
    ASSUME StateInv, EmitRow
    PROVE  StateInv'
<1>1. ShapeInv'
  BY EmitState, SameFile DEF StateInv, ShapeInv, Slots
<1>2. row' \in [Slots -> 0..pos']
  BY EmitState, SlotsAre DEF StateInv, TypeOK
<1>3. null' \subseteq 1..n' /\ \A i \in 1..n' : row'[i] \in 1..pos'
  <2>1. null \subseteq 1..n /\ \A i \in 1..n : row[i] \in 1..pos
    BY EmitState DEF StateInv, RowsInv
  <2>2. row \in [Slots -> 0..pos]
    BY DEF StateInv, TypeOK
  <2>3. null' \subseteq 1..n'
    BY <2>1, EmitState, SlotsAre
  <2>4. ASSUME NEW i \in 1..n'
        PROVE  row'[i] \in 1..pos'
    <3>1. CASE i = n + 1
      BY <2>2, <3>1, EmitState, SlotsAre
    <3>2. CASE i \in 1..n
      <4>1. row'[i] = row[i] /\ row[i] \in 1..pos
        BY <2>1, <2>2, <3>2, EmitState, SlotsAre
      <4> QED
        BY <4>1, EmitState, SlotsAre
    <3> QED
      BY <3>1, <3>2, <2>4, EmitState, SlotsAre
  <2> QED
    BY <2>3, <2>4
<1>4. TypeOK'
  <2>1. n' \in 0..VectorSize /\ pos' \in 0..Len(fields')
    BY EmitState, SameFile, SlotsAre DEF Slots
  <2>2. null' \subseteq 1..VectorSize
    BY <1>3, <2>1, SlotsAre, EmitState
  <2>3. \A c \in cells' : c.of \in 1..pos'
    BY EmitState, SlotsAre DEF StateInv, TypeOK
  <2> QED
    BY <1>2, <2>1, <2>2, <2>3, EmitState DEF TypeOK
<1> QED
  BY <1>1, <1>3, <1>4 DEF StateInv, RowsInv

(* The cell just written.                                                      *)
Emitted ==
    [of |-> row'[n + 1], null |-> n + 1 \in null', at |-> data'[n + 1].at, chars |-> data'[n + 1].chars]

LEMMA EmitsPromised ==
    ASSUME StateInv, WrittenAsDeclared, EmitRow
    PROVE  AsPromised(Emitted)
<1> DEFINE w == Written[id]
           f == fields[pos + 1]
           width == Width(version, Name)
<1>1. EmitsFor(w) /\ Emit(w, f)
  BY DEF WrittenAsDeclared, EmitRow
<1>2. f \in Fields /\ version \in Versions
  BY EmitState DEF StateInv, ShapeInv
<1>3. /\ row'[n + 1] = pos + 1 /\ n + 1 \notin null
      /\ data = [i \in Slots |-> data[i]] /\ n + 1 \in Slots
  <2>1. row \in [Slots -> 0..pos]
    BY DEF StateInv, TypeOK
  <2>2. null \subseteq 1..n
    BY EmitState DEF StateInv, RowsInv
  <2> QED
    BY <2>1, <2>2, EmitState, SlotsAre DEF StateInv, ShapeInv
<1>4. /\ Emitted.of = pos + 1 /\ Emitted.null = (n + 1 \in null')
      /\ Emitted.at = data'[n + 1].at /\ Emitted.chars = data'[n + 1].chars
  BY <1>3 DEF Emitted
<1> HIDE DEF w, f
<1>5. Has /\ ~Nullable => w.emit # "optional" /\ w.emit # "null"
  BY <1>1 DEF EmitsFor
<1>6. Has /\ Nullable => w.emit = "optional"
  BY <1>1 DEF EmitsFor
<1>7. ~Has => w.emit = "null"
  BY <1>1 DEF EmitsFor
<1>8. CASE ~Has
  <2>1. n + 1 \in null'
    BY <1>1, <1>7, <1>8 DEF Emit, EmitValue, EmitOptional, EmitChar1, EmitCstr, SetInvalid
  <2> QED
    BY <1>4, <1>8, <2>1 DEF AsPromised
<1>9. CASE Has /\ Nullable /\ ~f.defined
  <2>1. n + 1 \in null'
    BY <1>1, <1>6, <1>9 DEF Emit, EmitValue, EmitOptional, EmitChar1, EmitCstr, SetInvalid
  <2> QED
    BY <1>4, <1>9, <2>1 DEF AsPromised, f
<1>10. CASE Has /\ ~(Nullable /\ ~f.defined)
  <2>1. ASSUME NEW chars, data' = [data EXCEPT ![n + 1] = Own(chars)], null' = null
        PROVE  ~Emitted.null /\ Emitted.at = Emitted.of /\ Emitted.chars = chars
    <3>1. data'[n + 1] = [at |-> pos + 1, chars |-> chars]
      BY <1>3, <2>1 DEF Own
    <3>2. ~Emitted.null
      BY <1>3, <1>4, <2>1
    <3> QED
      BY <1>4, <3>1, <3>2
  <2>2. SUFFICES ASSUME TRUE
                 PROVE  \E chars : /\ data' = [data EXCEPT ![n + 1] = Own(chars)] /\ null' = null
                                   /\ chars = f.chars \/ (Name \in OddlyBounded /\ f.chars > 1)
    BY <1>4, <1>10, <2>1 DEF AsPromised, f
  <2>3. CASE EmitValue(w)
    <3>1. f.chars = 0
      BY <1>1, <1>2, <1>10, <2>3, FieldContents DEF EmitsFor, EmitValue
    <3> QED
      BY <2>3, <3>1 DEF EmitValue, AtSlot
  <2>4. CASE EmitOptional(w, f)
    BY <1>5, <1>10, <2>4 DEF EmitOptional, AtSlot
  <2>5. CASE EmitChar1(w, f)
    BY <2>5 DEF EmitChar1, AtSlot
  <2>6. CASE EmitCstr(w, f)
    <3>1. PICK chars \in Strnlen(f.chars, width, w.most) :
            data' = [data EXCEPT ![n + 1] = Own(chars)]
      BY <2>6 DEF EmitCstr, AtSlot
    <3>2. /\ Name \in Texts /\ width \in Nat /\ width > 2
          /\ f.chars \in {0, 1, width - 1, width}
          /\ IF Name \in OddlyBounded THEN w.most \in Nat \ {0, 1} ELSE w.most = width
      BY <1>1, <1>2, <1>10, <2>6, FieldContents, TextWidth DEF EmitsFor, EmitCstr
    <3> HIDE DEF width
    <3>3. chars = f.chars \/ (Name \in OddlyBounded /\ f.chars > 1)
      <4>1. CASE Name \in OddlyBounded
        <5>1. f.chars > 1 \/ (f.chars < width /\ f.chars < w.most /\ f.chars \in {0, 1})
          BY <3>2, <4>1
        <5> QED
          BY <3>1, <4>1, <5>1 DEF Strnlen
      <4>2. CASE Name \notin OddlyBounded
        BY <3>1, <3>2, <4>2 DEF Strnlen
      <4> QED
        BY <4>1, <4>2
    <3>4. null' = null
      BY <2>6 DEF EmitCstr
    <3> QED
      BY <3>1, <3>3, <3>4
  <2>7. CASE SetInvalid(w)
    BY <1>5, <1>6, <1>10, <2>7 DEF SetInvalid
  <2> QED
    BY <1>1, <2>3, <2>4, <2>5, <2>6, <2>7 DEF Emit
<1> QED
  BY <1>8, <1>9, <1>10

(* The rows before it stay as they are.                                        *)
LEMMA EmitRowPromised ==
    ASSUME IInv, WrittenAsDeclared, EmitRow
    PROVE  PromisedInv' /\ CellsAsPromised'
<1>1. StateInv
  BY DEF IInv
<1>2. ASSUME NEW i \in 1..n
      PROVE  [of |-> row'[i], null |-> i \in null', at |-> data'[i].at, chars |-> data'[i].chars] = Cell(i)
  <2>1. row'[i] = row[i] /\ data'[i] = data[i] /\ (i \in null' <=> i \in null)
    BY <1>1, EmitState, SlotsAre DEF StateInv, TypeOK
  <2> QED
    BY <2>1 DEF Cell
<1>3. ASSUME NEW i \in 1..(n + 1)
      PROVE  AsPromised([of |-> row'[i], null |-> i \in null', at |-> data'[i].at, chars |-> data'[i].chars])
  <2>1. CASE i \in 1..n
    <3>1. AsPromised(Cell(i))
      BY <1>1, <2>1, EmitState DEF IInv, PromisedInv
    <3> QED
      BY <1>2, <2>1, <3>1
  <2>2. CASE i = n + 1
    BY <1>1, <2>2, EmitsPromised DEF Emitted
  <2> QED
    BY <1>1, <2>1, <2>2, SlotsAre
<1>4. \A i \in 1..n' : AsPromised(Cell(i))'
  BY <1>1, <1>3, EmitState, SameFile DEF Cell
<1>5. CellsAsPromised'
  BY <1>1, EmitState, SameFile DEF IInv, CellsAsPromised
<1> QED
  BY <1>4, <1>5 DEF PromisedInv

-----------------------------------------------------------------------------
(* A record passed over, and the end of the inner scan: the chunk stays.        *)
LEMMA ChunkKept ==
    ASSUME StateInv, UNCHANGED <<file, n, row, data, null, cells>>,
           pos' \in pos..Len(fields), pc \in {"scan", "filter", "finished", "idle"},
           pc' \in {"scan", "filter", "finished", "idle"},
           pc' \in {"scan", "filter"} => pc \in {"scan", "filter"}
    PROVE  /\ StateInv'
           /\ PromisedInv => PromisedInv'
           /\ CellsAsPromised => CellsAsPromised'
<1>1. UNCHANGED file /\ n' = n /\ row' = row /\ data' = data /\ null' = null /\ cells' = cells
  OBVIOUS
<1>2. ShapeInv'
  BY <1>1, SameFile DEF StateInv, ShapeInv, Slots
<1>3. TypeOK'
  <2>1. 0..pos \subseteq 0..pos' /\ 1..pos \subseteq 1..pos' /\ pos' \in 0..Len(fields')
    BY <1>1, SlotsAre, SameFile
  <2>2. row \in [Slots -> 0..pos']
    BY <2>1 DEF StateInv, TypeOK
  <2> QED
    BY <1>1, <2>1, <2>2 DEF StateInv, TypeOK
<1>4. RowsInv'
  BY <1>1, SlotsAre DEF StateInv, RowsInv
<1>5. \A i : Cell(i)' = Cell(i)
  BY <1>1 DEF Cell
<1>6. PromisedInv => PromisedInv'
  BY <1>1, <1>5, SameFile DEF PromisedInv
<1>7. CellsAsPromised => CellsAsPromised'
  BY <1>1, SameFile DEF CellsAsPromised
<1> QED
  BY <1>2, <1>3, <1>4, <1>6, <1>7 DEF StateInv

LEMMA ReturnChunkIInv ==
    ASSUME StateInv, ReturnChunk
    PROVE  /\ StateInv' /\ PromisedInv'
           /\ PromisedInv /\ CellsAsPromised => CellsAsPromised'
<1>1. /\ UNCHANGED file /\ pos' = pos /\ n' = n /\ row' = row /\ data' = data /\ null' = null
      /\ pc = "filter" /\ pc' = "idle"
  BY DEF ReturnChunk
<1>2. PICK kept \in SUBSET (1..n) \ {{}} : cells' = cells \cup {Cell(i) : i \in kept}
  BY DEF ReturnChunk
<1>3. ShapeInv' /\ RowsInv' /\ PromisedInv'
  BY <1>1, SameFile DEF StateInv, ShapeInv, RowsInv, PromisedInv, Slots
<1>4. \A c \in cells' : c.of \in 1..pos
  <2>1. \A i \in 1..n : Cell(i).of \in 1..pos
    BY <1>1 DEF StateInv, RowsInv, Cell
  <2> QED
    BY <1>2, <2>1 DEF StateInv, TypeOK
<1>5. TypeOK'
  BY <1>1, <1>4, SameFile DEF StateInv, TypeOK, Slots
<1>6. PromisedInv /\ CellsAsPromised => CellsAsPromised'
  BY <1>1, <1>2, SameFile DEF PromisedInv, CellsAsPromised
<1> QED
  BY <1>3, <1>5, <1>6 DEF StateInv

(* The other steps of Next.                                                    *)
LEMMA SkipRecordIInv ==
    ASSUME StateInv, SkipRecord \/ InnerReturns \/ UNCHANGED vars
    PROVE  /\ StateInv'
           /\ PromisedInv => PromisedInv'
           /\ CellsAsPromised => CellsAsPromised'
<1>1. pc \in {"scan", "filter", "finished", "idle"} /\ pos \in Nat /\ Len(fields) \in Nat /\ pos <= Len(fields)
  BY SlotsAre DEF StateInv, TypeOK
<1>2. CASE SkipRecord
  BY <1>1, <1>2, ChunkKept DEF SkipRecord
<1>3. CASE InnerReturns
  BY <1>1, <1>3, ChunkKept DEF InnerReturns
<1>4. CASE UNCHANGED vars
  BY <1>1, <1>4, ChunkKept DEF vars
<1> QED
  BY <1>2, <1>3, <1>4

LEMMA NextStateInv ==
    ASSUME StateInv, [Next]_vars
    PROVE  StateInv'
<1>1. CASE GetChunk \/ ContinueLoop
  BY <1>1, StartChunkIInv DEF GetChunk, ContinueLoop
<1>2. CASE EmitRow
  BY <1>2, EmitRowState
<1>3. CASE SkipRecord \/ InnerReturns \/ Over \/ UNCHANGED vars
  BY <1>3, SkipRecordIInv DEF Over
<1>4. CASE ReturnChunk
  BY <1>4, ReturnChunkIInv
<1> QED
  BY <1>1, <1>2, <1>3, <1>4 DEF Next

LEMMA NextIInv ==
    ASSUME IInv, WrittenAsDeclared, [Next]_vars
    PROVE  IInv'
<1>1. StateInv /\ StateInv' /\ PromisedInv /\ CellsAsPromised
  BY NextStateInv DEF IInv
<1>2. CASE GetChunk \/ ContinueLoop
  BY <1>1, <1>2, StartChunkIInv DEF GetChunk, ContinueLoop, IInv
<1>3. CASE EmitRow
  BY <1>1, <1>3, EmitRowPromised DEF IInv
<1>4. CASE SkipRecord \/ InnerReturns \/ Over \/ UNCHANGED vars
  BY <1>1, <1>4, SkipRecordIInv DEF Over, IInv
<1>5. CASE ReturnChunk
  BY <1>1, <1>5, ReturnChunkIInv DEF IInv
<1> QED
  BY <1>2, <1>3, <1>4, <1>5 DEF Next

-----------------------------------------------------------------------------
(* The tables.  What WrittenAsDeclared asks of one column, in one version.       *)
Marked == Texts \cup Codes \cup OptionalTimestamps \cup {"quantity"}

Right(name, type, v, writer) ==
    LET has == ~Lacks(v, name)
        nullable == type = F64 \/ name \in OptionalTimestamps \cup Codes \cup {"quantity"}
    IN  /\ writer.emit = "null" <=> ~has
        /\ writer.emit = "optional" <=> has /\ nullable
        /\ writer.emit = "value" => type # TEXT /\ name \notin Texts \cup Codes
        /\ writer.emit = "text" =>
            LET width == Width(v, name) IN
            /\ name \in Texts
            /\ IF name \in OddlyBounded THEN writer.most \in Nat \ {0, 1} ELSE writer.most = width
        /\ writer.emit # "null" => writer.storage = Physical(type)

(* The cases of a switch, for the columns `names` of the types `types`.          *)
Fits(names, types, v, cases) ==
    \A c \in DOMAIN cases : Right(names[c + 1], types[c + 1], v, cases[c])

LEMMA AtFits ==
    ASSUME NEW names, NEW types, NEW v, NEW ids, NEW writer,
           \A c \in ids : Right(names[c + 1], types[c + 1], v, writer)
    PROVE  Fits(names, types, v, At(ids, writer))
BY DEF Fits, At

LEMMA CasesFit ==
    ASSUME NEW names, NEW types, NEW v, NEW f, NEW g,
           Fits(names, types, v, f), Fits(names, types, v, g)
    PROVE  Fits(names, types, v, f ++ g)
BY DEF Fits, ++

LEMMA Physicals ==
    /\ Physical(TS) = "int64_t" /\ Physical("BIGINT") = "int64_t"
    /\ Physical("UBIGINT") = "uint64_t"
    /\ Physical(U32) = "uint32_t" /\ Physical(U16) = "uint16_t" /\ Physical(U8) = "uint8_t"
    /\ Physical(I32) = "int32_t" /\ Physical("SMALLINT") = "int16_t"
    /\ Physical("TINYINT") = "int8_t"
    /\ Physical(F64) = "double" /\ Physical(TEXT) = "string_t" /\ Physical("BLOB") = "string_t"
BY DEF Physical, TEXT, F64, TS, U32, U16, U8, I32

LEMMA OtherTypes ==
    /\ {TS, "BIGINT", "UBIGINT", U32, U16, U8, I32, "SMALLINT", "TINYINT", "BLOB"}
           \cap {F64, TEXT} = {}
    /\ TEXT # F64
BY DEF TEXT, F64, TS, U32, U16, U8, I32

(* Columns of one type without a rule of their own: which the version has, and   *)
(* which every version has.                                                    *)
Ordinary(names, types, v, ids, type) ==
    \A c \in ids : ~Lacks(v, names[c + 1]) /\ names[c + 1] \notin Marked /\ types[c + 1] = type
Plain(names, types, ids, type) ==
    \A c \in ids : names[c + 1] \notin Marked \cup Deprecated \cup Legs /\ types[c + 1] = type

LEMMA LacksIs ==
    ASSUME NEW name
    PROVE  /\ Lacks(1, name) = LacksV1(name)
           /\ Lacks(2, name) = LacksV2(name)
           /\ Lacks(3, name) = LacksV3(name)
BY DEF Lacks

LEMMA EveryVersionHas ==
    ASSUME NEW v \in Versions, NEW name, name \notin Codes \cup Deprecated \cup Legs
    PROVE  ~Lacks(v, name)
<1>1. v \in {1, 2, 3}
  BY DEF Versions
<1> QED
  BY <1>1, LacksIs DEF LacksV1, LacksV2, LacksV3, Codes

LEMMA PlainIsOrdinary ==
    ASSUME NEW names, NEW types, NEW v \in Versions, NEW ids, NEW type,
           Plain(names, types, ids, type)
    PROVE  Ordinary(names, types, v, ids, type)
BY EveryVersionHas DEF Plain, Ordinary, Marked

LEMMA ValueFits ==
    ASSUME NEW names, NEW types, NEW v, NEW ids, NEW type, NEW storage,
           Ordinary(names, types, v, ids, type), type \notin {F64, TEXT}, Physical(type) = storage
    PROVE  Fits(names, types, v, At(ids, Value(storage)))
<1> SUFFICES ASSUME NEW c \in ids
             PROVE  Right(names[c + 1], types[c + 1], v, Value(storage))
  BY AtFits
<1> QED
  BY DEF Ordinary, Right, Marked, Value, Writer

LEMMA PxFits ==
    ASSUME NEW names, NEW types, NEW v, NEW ids, Ordinary(names, types, v, ids, F64)
    PROVE  Fits(names, types, v, At(ids, Px))
<1> SUFFICES ASSUME NEW c \in ids
             PROVE  Right(names[c + 1], types[c + 1], v, Px)
  BY AtFits
<1> QED
  BY Physicals DEF Ordinary, Right, Px, Writer

LEMMA CharFits ==
    ASSUME NEW names, NEW types, NEW v, NEW ids, Ordinary(names, types, v, ids, TEXT)
    PROVE  Fits(names, types, v, At(ids, Char))
<1> SUFFICES ASSUME NEW c \in ids
             PROVE  Right(names[c + 1], types[c + 1], v, Char)
  BY AtFits
<1> QED
  BY Physicals, OtherTypes DEF Ordinary, Right, Marked, Char, Writer

LEMMA TsOptFits ==
    ASSUME NEW names, NEW types, NEW v \in Versions, NEW ids,
           \A c \in ids : names[c + 1] \in OptionalTimestamps /\ types[c + 1] = TS
    PROVE  Fits(names, types, v, At(ids, TsOpt))
<1> SUFFICES ASSUME NEW c \in ids
             PROVE  Right(names[c + 1], types[c + 1], v, TsOpt)
  BY AtFits
<1>1. ~Lacks(v, names[c + 1])
  BY EveryVersionHas DEF OptionalTimestamps, Codes, Deprecated, Legs, DefinitionLegs
<1> QED
  BY <1>1, Physicals DEF Right, TsOpt, Writer

LEMMA NullFits ==
    ASSUME NEW names, NEW types, NEW v, NEW ids, \A c \in ids : Lacks(v, names[c + 1])
    PROVE  Fits(names, types, v, At(ids, Null))
<1> SUFFICES ASSUME NEW c \in ids
             PROVE  Right(names[c + 1], types[c + 1], v, Null)
  BY AtFits
<1> QED
  BY DEF Right, Null, Writer

(* A text every version has, whose bound is the length of its array, or is not.   *)
LEMMA CstrFits ==
    ASSUME NEW names, NEW types, NEW v, NEW ids, NEW most,
           \A c \in ids :
               /\ ~Lacks(v, names[c + 1]) /\ names[c + 1] \in Texts /\ types[c + 1] = TEXT
               /\ IF names[c + 1] \in OddlyBounded THEN most \in Nat \ {0, 1}
                  ELSE most = Width(v, names[c + 1])
    PROVE  Fits(names, types, v, At(ids, Cstr(most)))
<1> SUFFICES ASSUME NEW c \in ids
             PROVE  Right(names[c + 1], types[c + 1], v, Cstr(most))
  BY AtFits
<1>1. names[c + 1] \notin OptionalTimestamps \cup Codes \cup {"quantity"}
  BY DEF Texts, OptionalTimestamps, Codes
<1> QED
  BY <1>1, Physicals, OtherTypes DEF Right, Cstr, Writer

LEMMA TradesFit ==
    ASSUME NEW v \in Versions
    PROVE  Fits(TradeColumns, TradesTypes, v, TradesWriters)
<1> DEFINE N == TradeColumns
           T == TradesTypes
<1>1. /\ Plain(N, T, {0, 1}, TS) /\ Plain(N, T, {2, 5, 11}, U32) /\ Plain(N, T, {3}, U16)
      /\ Plain(N, T, {4}, F64) /\ Plain(N, T, {6, 7}, TEXT) /\ Plain(N, T, {8, 9}, U8)
      /\ Plain(N, T, {10}, I32)
  BY DEF Plain, Marked, Texts, Codes, OptionalTimestamps, Deprecated, Legs, DefinitionLegs,
         Header, TradeColumns, TradesTypes
<1> HIDE DEF N, T
<1> QED
  BY <1>1, PlainIsOrdinary, Physicals, OtherTypes, ValueFits, PxFits, CharFits, CasesFit
     DEF TradesWriters, N, T

LEMMA MboFit ==
    ASSUME NEW v \in Versions
    PROVE  Fits(Mbo.names, MboTypes, v, MboWriters)
<1> DEFINE N == Mbo.names
           T == MboTypes
<1>1. /\ Plain(N, T, {0, 1}, TS) /\ Plain(N, T, {2, 6, 12}, U32) /\ Plain(N, T, {3}, U16)
      /\ Plain(N, T, {4}, "UBIGINT") /\ Plain(N, T, {5}, F64) /\ Plain(N, T, {7, 8}, U8)
      /\ Plain(N, T, {9, 10}, TEXT) /\ Plain(N, T, {11}, I32)
  BY DEF Plain, Marked, Texts, Codes, OptionalTimestamps, Deprecated, Legs, DefinitionLegs,
         Mbo, Header, Reader, MboTypes
<1> HIDE DEF N, T
<1> QED
  BY <1>1, PlainIsOrdinary, Physicals, OtherTypes, ValueFits, PxFits, CharFits, CasesFit
     DEF MboWriters, N, T

LEMMA Mbp1Fit ==
    ASSUME NEW v \in Versions
    PROVE  Fits(Mbp1.names, Mbp1Types, v, Mbp1Writers)
<1> DEFINE N == Mbp1.names
           T == Mbp1Types
<1>1. /\ Plain(N, T, {0, 1}, TS) /\ Plain(N, T, {2, 12} \cup 6..9, U32) /\ Plain(N, T, {3}, U16)
      /\ Plain(N, T, {4, 5}, F64) /\ Plain(N, T, {10}, U8) /\ Plain(N, T, {11}, I32)
      /\ Plain(N, T, {13, 14}, TEXT)
  BY DEF Plain, Marked, Texts, Codes, OptionalTimestamps, Deprecated, Legs, DefinitionLegs,
         Mbp1, Header, Quote, Reader, Mbp1Types
<1> HIDE DEF N, T
<1> QED
  BY <1>1, PlainIsOrdinary, Physicals, OtherTypes, ValueFits, PxFits, CharFits, CasesFit
     DEF Mbp1Writers, N, T

LEMMA BboFit ==
    ASSUME NEW v \in Versions
    PROVE  Fits(Bbo.names, BboTypes, v, BboWriters)
<1> DEFINE N == Bbo.names
           T == BboTypes
<1>1. /\ Plain(N, T, {0, 1}, TS) /\ Plain(N, T, {2, 5} \cup 10..14, U32)
      /\ Plain(N, T, {3}, U16) /\ Plain(N, T, {4, 8, 9}, F64) /\ Plain(N, T, {6}, TEXT)
      /\ Plain(N, T, {7}, U8)
  BY DEF Plain, Marked, Texts, Codes, OptionalTimestamps, Deprecated, Legs, DefinitionLegs,
         Bbo, Header, Quote, Reader, BboTypes
<1> HIDE DEF N, T
<1> QED
  BY <1>1, PlainIsOrdinary, Physicals, OtherTypes, ValueFits, PxFits, CharFits, CasesFit
     DEF BboWriters, N, T

LEMMA CbboFit ==
    ASSUME NEW v \in Versions
    PROVE  Fits(Cbbo.names, CbboTypes, v, CbboWriters)
<1> DEFINE N == Cbbo.names
           T == CbboTypes
<1>1. /\ Plain(N, T, {0, 1}, TS) /\ Plain(N, T, {2, 5, 10, 11}, U32)
      /\ Plain(N, T, {3, 12, 13}, U16) /\ Plain(N, T, {4, 8, 9}, F64) /\ Plain(N, T, {6}, TEXT)
      /\ Plain(N, T, {7}, U8)
  BY DEF Plain, Marked, Texts, Codes, OptionalTimestamps, Deprecated, Legs, DefinitionLegs,
         Cbbo, Header, Quote, Reader, CbboTypes
<1> HIDE DEF N, T
<1> QED
  BY <1>1, PlainIsOrdinary, Physicals, OtherTypes, ValueFits, PxFits, CharFits, CasesFit
     DEF CbboWriters, N, T

LEMMA Cmbp1Fit ==
    ASSUME NEW v \in Versions
    PROVE  Fits(Cmbp1.names, Cmbp1Types, v, Cmbp1Writers)
<1> DEFINE N == Cmbp1.names
           T == Cmbp1Types
<1>1. /\ Plain(N, T, {0, 1}, TS) /\ Plain(N, T, {2, 5, 12, 13}, U32)
      /\ Plain(N, T, {3, 14, 15}, U16) /\ Plain(N, T, {4, 10, 11}, F64)
      /\ Plain(N, T, {6, 7}, TEXT) /\ Plain(N, T, {8}, U8) /\ Plain(N, T, {9}, I32)
  BY DEF Plain, Marked, Texts, Codes, OptionalTimestamps, Deprecated, Legs, DefinitionLegs,
         Cmbp1, Header, Quote, Reader, Cmbp1Types
<1> HIDE DEF N, T
<1> QED
  BY <1>1, PlainIsOrdinary, Physicals, OtherTypes, ValueFits, PxFits, CharFits, CasesFit
     DEF Cmbp1Writers, N, T

LEMMA OhlcvFit ==
    ASSUME NEW v \in Versions
    PROVE  Fits(Ohlcv.names, OhlcvTypes, v, OhlcvWriters)
<1> DEFINE N == Ohlcv.names
           T == OhlcvTypes
<1>1. /\ Plain(N, T, {0}, TS) /\ Plain(N, T, {1}, U32) /\ Plain(N, T, {2}, U16)
      /\ Plain(N, T, 3..6, F64) /\ Plain(N, T, {7}, "UBIGINT")
  BY DEF Plain, Marked, Texts, Codes, OptionalTimestamps, Deprecated, Legs, DefinitionLegs,
         Ohlcv, Reader, OhlcvTypes
<1> HIDE DEF N, T
<1> QED
  BY <1>1, PlainIsOrdinary, Physicals, OtherTypes, ValueFits, PxFits, CasesFit
     DEF OhlcvWriters, N, T

LEMMA StatusFit ==
    ASSUME NEW v \in Versions
    PROVE  Fits(Status.names, StatusTypes, v, StatusWriters)
<1> DEFINE N == Status.names
           T == StatusTypes
<1>1. /\ Plain(N, T, {0, 1}, TS) /\ Plain(N, T, {2}, U32) /\ Plain(N, T, 3..6, U16)
      /\ Plain(N, T, 7..9, TEXT)
  BY DEF Plain, Marked, Texts, Codes, OptionalTimestamps, Deprecated, Legs, DefinitionLegs,
         Status, Header, Reader, StatusTypes
<1> HIDE DEF N, T
<1> QED
  BY <1>1, PlainIsOrdinary, Physicals, OtherTypes, ValueFits, CharFits, CasesFit
     DEF StatusWriters, N, T

LEMMA ImbalanceFit ==
    ASSUME NEW v \in Versions
    PROVE  Fits(Imbalance.names, ImbalanceTypes, v, ImbalanceWriters)
<1> DEFINE N == Imbalance.names
           T == ImbalanceTypes
<1>1. /\ Plain(N, T, {0, 1}, TS) /\ Plain(N, T, {2} \cup 12..15, U32) /\ Plain(N, T, {3}, U16)
      /\ Plain(N, T, {4} \cup 6..11, F64) /\ Plain(N, T, {16, 17, 21, 22}, TEXT)
      /\ Plain(N, T, 18..20, U8)
  BY DEF Plain, Marked, Texts, Codes, OptionalTimestamps, Deprecated, Legs, DefinitionLegs,
         Imbalance, Header, Reader, ImbalanceTypes
<1>2. /\ \A c \in {5} : N[c + 1] \in OptionalTimestamps /\ T[c + 1] = TS
  BY DEF OptionalTimestamps, Imbalance, Header, Reader, ImbalanceTypes
<1> HIDE DEF N, T
<1> QED
  BY <1>1, <1>2, PlainIsOrdinary, Physicals, OtherTypes, ValueFits, PxFits, CharFits, TsOptFits,
     CasesFit
     DEF ImbalanceWriters, N, T

LEMMA StatisticsFit ==
    ASSUME NEW v \in Versions
    PROVE  Fits(StatisticsColumns, StatisticsTypes, v, StatisticsWriters)
<1> DEFINE N == StatisticsColumns
           T == StatisticsTypes
<1>1. /\ Plain(N, T, {0, 1}, TS) /\ Plain(N, T, {3, 7}, U32) /\ Plain(N, T, {4, 9, 10}, U16)
      /\ Plain(N, T, {5}, F64) /\ Plain(N, T, {8}, I32) /\ Plain(N, T, {11, 12}, U8)
  BY DEF Plain, Marked, Texts, Codes, OptionalTimestamps, Deprecated, Legs, DefinitionLegs,
         StatisticsColumns, StatisticsTypes
<1>2. /\ \A c \in {2} : N[c + 1] \in OptionalTimestamps /\ T[c + 1] = TS
      /\ \A c \in {6} : N[c + 1] = "quantity" /\ T[c + 1] = "BIGINT"
  BY DEF OptionalTimestamps, StatisticsColumns, StatisticsTypes
<1> HIDE DEF N, T
<1>3. Fits(N, T, v, At({6}, Quantity))
  <2>1. Right(N[6 + 1], T[6 + 1], v, Quantity)
    <3>1. ~Lacks(v, "quantity") /\ Physical("BIGINT") = "int64_t"
      BY EveryVersionHas, Physicals DEF Codes, Deprecated, Legs, DefinitionLegs
    <3> QED
      BY <1>2, <3>1 DEF Right, Quantity, Writer
  <2> QED
    BY <2>1, AtFits
<1> QED
  BY <1>1, <1>2, <1>3, PlainIsOrdinary, Physicals, OtherTypes, ValueFits, PxFits, TsOptFits,
     CasesFit
     DEF StatisticsWriters, N, T

LEMMA DbnRecordsFit ==
    ASSUME NEW v \in Versions
    PROVE  Fits(Records.names, DbnRecordsTypes, v, DbnRecordsWriters)
<1> DEFINE N == Records.names
           T == DbnRecordsTypes
<1>1. /\ Plain(N, T, {0}, TS) /\ Plain(N, T, {1, 2}, U8) /\ Plain(N, T, {3}, U16)
      /\ Plain(N, T, {4}, U32) /\ Plain(N, T, {5}, "BLOB")
  BY DEF Plain, Marked, Texts, Codes, OptionalTimestamps, Deprecated, Legs, DefinitionLegs,
         Records, Reader, DbnRecordsTypes
<1> HIDE DEF N, T
<1> QED
  BY <1>1, PlainIsOrdinary, Physicals, OtherTypes, ValueFits, CasesFit
     DEF DbnRecordsWriters, N, T

(* The levels: the default branch tells a column by its place in its level.      *)
LEMMA LevelsFit ==
    ASSUME NEW v \in Versions
    PROVE  Fits(TradeColumns \o LevelColumns, Mbp10Types, v,
                [c \in 12..71 |-> IF (c - 12) % 6 \in {0, 1} THEN Px ELSE Value("uint32_t")])
<1> DEFINE N == TradeColumns \o LevelColumns
           T == Mbp10Types
           prices == {12, 13, 18, 19, 24, 25, 30, 31, 36, 37, 42, 43, 48, 49, 54, 55, 60, 61,
                      66, 67}
           counts == {14, 15, 16, 17, 20, 21, 22, 23, 26, 27, 28, 29, 32, 33, 34, 35, 38, 39,
                      40, 41, 44, 45, 46, 47, 50, 51, 52, 53, 56, 57, 58, 59, 62, 63, 64, 65, 68,
                      69, 70, 71}
<1>1. \A c \in 12..71 : IF (c - 12) % 6 \in {0, 1} THEN c \in prices ELSE c \in counts
  OBVIOUS
<1>2. Plain(N, T, prices, F64)
  BY DEF Plain, Marked, Texts, Codes, OptionalTimestamps, Deprecated, Legs, DefinitionLegs,
         Header, TradeColumns, LevelColumns, TradesTypes, LevelTypes, Mbp10Types
<1>3. Plain(N, T, counts, U32)
  BY DEF Plain, Marked, Texts, Codes, OptionalTimestamps, Deprecated, Legs, DefinitionLegs,
         Header, TradeColumns, LevelColumns, TradesTypes, LevelTypes, Mbp10Types
<1> HIDE DEF N, T, prices, counts
<1>4. Fits(N, T, v, At(prices, Px)) /\ Fits(N, T, v, At(counts, Value("uint32_t")))
  BY <1>2, <1>3, PlainIsOrdinary, Physicals, OtherTypes, ValueFits, PxFits
<1>5. /\ \A c \in prices : Right(N[c + 1], T[c + 1], v, Px)
      /\ \A c \in counts : Right(N[c + 1], T[c + 1], v, Value("uint32_t"))
  BY <1>4 DEF Fits, At
<1> QED
  BY <1>1, <1>5 DEF Fits, N, T

LEMMA Mbp10Fit ==
    ASSUME NEW v \in Versions
    PROVE  Fits(TradeColumns \o LevelColumns, Mbp10Types, v, Mbp10Writers)
<1> DEFINE N == TradeColumns \o LevelColumns
           T == Mbp10Types
<1>1. /\ Plain(N, T, {0, 1}, TS) /\ Plain(N, T, {2, 5, 11}, U32) /\ Plain(N, T, {3}, U16)
      /\ Plain(N, T, {4}, F64) /\ Plain(N, T, {6, 7}, TEXT) /\ Plain(N, T, {8, 9}, U8)
      /\ Plain(N, T, {10}, I32)
  BY DEF Plain, Marked, Texts, Codes, OptionalTimestamps, Deprecated, Legs, DefinitionLegs,
         Header, TradeColumns, LevelColumns, TradesTypes, LevelTypes, Mbp10Types
<1> HIDE DEF N, T
<1>2. Fits(N, T, v, TradesWriters)
  BY <1>1, PlainIsOrdinary, Physicals, OtherTypes, ValueFits, PxFits, CharFits, CasesFit
     DEF TradesWriters
<1> QED
  BY <1>2, LevelsFit, CasesFit DEF Mbp10Writers, N, T

LEMMA Widths ==
    ASSUME NEW v
    PROVE  /\ Width(v, "security_type") = 7 /\ Width(v, "cfi") = 7 /\ Width(v, "exchange") = 5
           /\ Width(v, "currency") = 4 /\ Width(v, "settl_currency") = 4
           /\ Width(v, "strike_price_currency") = 4 /\ Width(v, "secsubtype") = 6
           /\ Width(v, "group") = 21 /\ Width(v, "underlying") = 21 /\ Width(v, "unit_of_measure") = 31
           /\ Width(v, "stype_in_symbol") = SymbolCstrLen(v)
           /\ Width(v, "stype_out_symbol") = SymbolCstrLen(v)
           /\ Width(v, "msg") = IF v = 1 THEN 64 ELSE 303
BY DEF Width

LEMMA LegsAre ==
    Legs = {"leg_count", "leg_index", "leg_instrument_id", "leg_raw_symbol", "leg_instrument_class",
            "leg_side", "leg_price", "leg_delta", "leg_ratio_price_numerator",
            "leg_ratio_price_denominator", "leg_ratio_qty_numerator", "leg_ratio_qty_denominator",
            "leg_underlying_id"}
BY DEF Legs, DefinitionLegs

(* What only some versions have.                                               *)
LEMMA SomeVersionsHave ==
    /\ \A name \in Legs : ~Lacks(3, name)
    /\ \A name \in Deprecated : Lacks(3, name)
    /\ \A v \in {2, 3}, name \in Codes : ~Lacks(v, name)
<1>1. ASSUME NEW name \in Legs PROVE ~Lacks(3, name)
  BY <1>1, LacksIs, LegsAre DEF LacksV3, Deprecated
<1>2. ASSUME NEW name \in Deprecated PROVE Lacks(3, name)
  BY <1>2, LacksIs DEF LacksV3
<1>3. ASSUME NEW v \in {2, 3}, NEW name \in Codes PROVE ~Lacks(v, name)
  <2>1. name \notin Legs /\ name \notin Deprecated
    BY LegsAre DEF Codes, Deprecated
  <2> QED
    BY <2>1, LacksIs DEF LacksV2, LacksV3
<1> QED
  BY <1>1, <1>2, <1>3

(* The columns of definition that every version has,                            *)
LEMMA DefinitionCommonFit ==
    ASSUME NEW v \in Versions
    PROVE  Fits(DefinitionColumns, DefinitionTypes, v, DefinitionCommon)
<1> DEFINE N == DefinitionColumns
           T == DefinitionTypes
<1>1. /\ Plain(N, T, {5, 46, 51, 55}, TEXT) /\ Plain(N, T, 19..27, F64)
      /\ Plain(N, T, {28}, "UBIGINT") /\ Plain(N, T, {0, 1}, TS)
      /\ Plain(N, T, {2, 29, 33, 34, 38}, U32)
      /\ Plain(N, T, {30, 31, 32, 35, 36, 37, 39, 40, 41}, I32) /\ Plain(N, T, {42}, "SMALLINT")
      /\ Plain(N, T, {3} \cup 43..45, U16) /\ Plain(N, T, 47..50 \cup 52..54 \cup {58}, U8)
      /\ Plain(N, T, {56, 57}, "TINYINT")
  BY DEF Plain, Marked, Texts, Codes, OptionalTimestamps, Deprecated, Legs, DefinitionLegs,
         Header, DefinitionColumns, DefinitionTypes
<1>2. \A c \in {17, 18} : N[c + 1] \in OptionalTimestamps /\ T[c + 1] = TS
  BY DEF OptionalTimestamps, Header, DefinitionColumns, DefinitionLegs, DefinitionTypes
<1>3. /\ N[4 + 1] = "raw_symbol" /\ N[6 + 1] = "security_type" /\ N[9 + 1] = "cfi"
      /\ N[7 + 1] = "exchange" /\ N[8 + 1] = "asset" /\ N[10 + 1] = "currency"
      /\ N[11 + 1] = "settl_currency" /\ N[15 + 1] = "strike_price_currency"
      /\ N[12 + 1] = "secsubtype" /\ N[13 + 1] = "group" /\ N[14 + 1] = "underlying"
      /\ N[16 + 1] = "unit_of_measure"
  BY DEF Header, DefinitionColumns, DefinitionLegs
<1>4. \A c \in {4, 6, 7, 8, 9, 10, 11, 12, 13, 14, 15, 16} :
          T[c + 1] = TEXT /\ N[c + 1] \in Texts /\ ~Lacks(v, N[c + 1])
  <2>1. \A c \in {4, 6, 7, 8, 9, 10, 11, 12, 13, 14, 15, 16} :
            T[c + 1] = TEXT /\ N[c + 1] \in Texts /\ N[c + 1] \notin Codes \cup Deprecated \cup Legs
    BY <1>3, LegsAre DEF DefinitionTypes, Texts, Codes, Deprecated
  <2> QED
    BY <2>1, EveryVersionHas
<1> HIDE DEF N, T
<1>5. Fits(N, T, v, DefinitionNumbers) /\ Fits(N, T, v, DefinitionPrices)
  <2>1. Fits(N, T, v, DefinitionNumbers)
    <3>1. /\ Fits(N, T, v, At({0, 1}, Value("int64_t")))
          /\ Fits(N, T, v, At({2, 29, 33, 34, 38}, Value("uint32_t")))
      BY <1>1, PlainIsOrdinary, Physicals, OtherTypes, ValueFits
    <3>2. /\ Fits(N, T, v, At({30, 31, 32, 35, 36, 37, 39, 40, 41}, Value("int32_t")))
          /\ Fits(N, T, v, At({42}, Value("int16_t")))
      BY <1>1, PlainIsOrdinary, Physicals, OtherTypes, ValueFits
    <3>3. Fits(N, T, v, At({3} \cup 43..45, Value("uint16_t")))
      BY <1>1, PlainIsOrdinary, Physicals, OtherTypes, ValueFits
    <3>4. Fits(N, T, v, At(47..50 \cup 52..54 \cup {58}, Value("uint8_t")))
      BY <1>1, PlainIsOrdinary, Physicals, OtherTypes, ValueFits
    <3>5. Fits(N, T, v, At({56, 57}, Value("int8_t")))
      BY <1>1, PlainIsOrdinary, Physicals, OtherTypes, ValueFits
    <3> DEFINE wide == At({0, 1}, Value("int64_t")) ++ At({2, 29, 33, 34, 38}, Value("uint32_t"))
                       ++ At({30, 31, 32, 35, 36, 37, 39, 40, 41}, Value("int32_t"))
                       ++ At({42}, Value("int16_t"))
               narrow == wide ++ At({3} \cup 43..45, Value("uint16_t"))
                         ++ At(47..50 \cup 52..54 \cup {58}, Value("uint8_t"))
    <3>6. DefinitionNumbers = narrow ++ At({56, 57}, Value("int8_t"))
      BY DEF DefinitionNumbers
    <3>7. Fits(N, T, v, wide)
      BY <3>1, <3>2, CasesFit
    <3> HIDE DEF wide
    <3>8. Fits(N, T, v, narrow)
      BY <3>3, <3>4, <3>7, CasesFit
    <3> HIDE DEF narrow
    <3> QED
      BY <3>5, <3>6, <3>8, CasesFit
  <2>2. Fits(N, T, v, DefinitionPrices)
    BY <1>1, <1>2, PlainIsOrdinary, Physicals, OtherTypes, ValueFits, PxFits, TsOptFits, CasesFit
       DEF DefinitionPrices
  <2> QED
    BY <2>1, <2>2
<1>6. Fits(N, T, v, DefinitionTexts)
  <2>1. Fits(N, T, v, At({4}, Cstr(64))) /\ Fits(N, T, v, At({8}, Cstr(11)))
    <3>1. "raw_symbol" \in OddlyBounded /\ "asset" \in OddlyBounded
      BY DEF OddlyBounded
    <3> QED
      BY <1>3, <1>4, <3>1, CstrFits
  <2>2. /\ Fits(N, T, v, At({6, 9}, Cstr(7))) /\ Fits(N, T, v, At({7}, Cstr(5)))
        /\ Fits(N, T, v, At({10, 11, 15}, Cstr(4))) /\ Fits(N, T, v, At({12}, Cstr(6)))
        /\ Fits(N, T, v, At({13, 14}, Cstr(21))) /\ Fits(N, T, v, At({16}, Cstr(31)))
    <3>1. \A c \in {6, 7, 9, 10, 11, 12, 13, 14, 15, 16} : N[c + 1] \notin OddlyBounded
      BY <1>3 DEF OddlyBounded
    <3> QED
      BY <1>3, <1>4, <3>1, Widths, CstrFits
  <2> QED
    BY <1>1, <2>1, <2>2, PlainIsOrdinary, CharFits, CasesFit DEF DefinitionTexts
<1> QED
  BY <1>5, <1>6, CasesFit DEF DefinitionCommon, N, T

(* and those that version 3 added or dropped.                                  *)
LEMMA DefinitionChanges ==
    /\ \A c \in 59..71 : DefinitionColumns[c + 1] \in Legs
    /\ \A c \in 72..75 : DefinitionColumns[c + 1] \in Deprecated
    /\ \A c \in {59, 60, 61, 63, 64, 65, 66, 67, 68, 69, 70, 71, 72, 73, 74, 75} :
          DefinitionColumns[c + 1] \notin Marked
    /\ DefinitionColumns[62 + 1] = "leg_raw_symbol"
BY LegsAre DEF Deprecated, Marked, Texts, Codes, OptionalTimestamps, Header, DefinitionColumns,
   DefinitionLegs

LEMMA DefinitionV3Fit == Fits(DefinitionColumns, DefinitionTypes, 3, DefinitionV3)
<1> DEFINE N == DefinitionColumns
           T == DefinitionTypes
<1>1. /\ \A c \in 59..71 : ~Lacks(3, N[c + 1])
      /\ \A c \in 72..75 : Lacks(3, N[c + 1])
  BY SomeVersionsHave, DefinitionChanges
<1>2. /\ \A c \in {59, 60} : T[c + 1] = U16
      /\ \A c \in {61, 71} : T[c + 1] = U32
      /\ \A c \in {62, 63, 64} : T[c + 1] = TEXT
      /\ \A c \in {65, 66} : T[c + 1] = F64
      /\ \A c \in {67, 68, 69, 70} : T[c + 1] = I32
  BY DEF DefinitionTypes
<1>3. \A c \in {59, 60, 61, 63, 64, 65, 66, 67, 68, 69, 70, 71} : N[c + 1] \notin Marked
  BY DefinitionChanges
<1>4. N[62 + 1] = "leg_raw_symbol"
  BY DefinitionChanges
<1> HIDE DEF N, T
<1>5. /\ Ordinary(N, T, 3, {59, 60}, U16) /\ Ordinary(N, T, 3, {61, 71}, U32)
      /\ Ordinary(N, T, 3, {63, 64}, TEXT) /\ Ordinary(N, T, 3, {65, 66}, F64)
      /\ Ordinary(N, T, 3, 67..70, I32)
  BY <1>1, <1>2, <1>3 DEF Ordinary
<1>6. Fits(N, T, 3, At({62}, Cstr(64)))
  BY <1>1, <1>2, <1>4, CstrFits DEF Texts, OddlyBounded
<1>7. Fits(N, T, 3, At(72..75, Null))
  BY <1>1, NullFits
<1>8. Fits(N, T, 3, DefinitionCommon)
  BY DefinitionCommonFit DEF N, T, Versions
<1> QED
  BY <1>5, <1>6, <1>7, <1>8, Physicals, OtherTypes, ValueFits, PxFits, CharFits, CasesFit
     DEF DefinitionV3, N, T

LEMMA DefinitionV2Fit ==
    ASSUME NEW v \in {1, 2}
    PROVE  /\ Fits(DefinitionColumns, DefinitionTypes, v, DefinitionV2)
           /\ Fits(DefinitionColumns, DefinitionTypes, v, DefinitionV1)
<1> DEFINE N == DefinitionColumns
           T == DefinitionTypes
<1>1. /\ \A c \in 59..71 : Lacks(v, N[c + 1])
      /\ \A c \in 72..75 : ~Lacks(v, N[c + 1])
  <2>1. \A name \in Legs : Lacks(v, name)
    BY LacksIs DEF LacksV1, LacksV2
  <2>2. \A name \in Deprecated : ~Lacks(v, name)
    BY LacksIs, LegsAre DEF LacksV1, LacksV2, Deprecated
  <2> QED
    BY <2>1, <2>2, DefinitionChanges
<1>2. T[72 + 1] = F64 /\ T[73 + 1] = U16 /\ T[74 + 1] = U8 /\ T[75 + 1] = U8
  BY DEF DefinitionTypes
<1>3. \A c \in {72, 73, 74, 75} : N[c + 1] \notin Marked
  BY DefinitionChanges
<1> HIDE DEF N, T
<1>4. /\ Ordinary(N, T, v, {72}, F64) /\ Ordinary(N, T, v, {73}, U16)
      /\ Ordinary(N, T, v, {74, 75}, U8)
  BY <1>1, <1>2, <1>3 DEF Ordinary
<1>5. Fits(N, T, v, At(59..71, Null))
  BY <1>1, NullFits
<1>6. Fits(N, T, v, DefinitionCommon)
  BY DefinitionCommonFit DEF N, T, Versions
<1> QED
  BY <1>4, <1>5, <1>6, Physicals, OtherTypes, ValueFits, PxFits, CasesFit
     DEF DefinitionV2, DefinitionV1, N, T

LEMMA SymbolMappingFit ==
    ASSUME NEW v \in Versions
    PROVE  Fits(SymbolMapping.names, SymbolMappingTypes, v,
                IF v = 1 THEN SymbolMappingV1 ELSE SymbolMappingWriters)
<1> DEFINE N == SymbolMapping.names
           T == SymbolMappingTypes
<1>1. /\ Plain(N, T, {0, 7, 8}, TS) /\ Plain(N, T, {1}, U32) /\ Plain(N, T, {2}, U16)
  BY DEF Plain, Marked, Texts, Codes, OptionalTimestamps, Deprecated, Legs, DefinitionLegs,
         SymbolMapping, Reader, SymbolMappingTypes
<1>2. /\ \A c \in {3, 5} : N[c + 1] \in {"stype_in", "stype_out"} /\ T[c + 1] = TEXT
      /\ \A c \in {4, 6} : N[c + 1] \in {"stype_in_symbol", "stype_out_symbol"} /\ T[c + 1] = TEXT
  BY DEF SymbolMapping, Reader, SymbolMappingTypes
<1> HIDE DEF N, T
<1>3. Fits(N, T, v, SymbolMappingHeader)
  BY <1>1, PlainIsOrdinary, Physicals, OtherTypes, ValueFits, CasesFit DEF SymbolMappingHeader
<1>4. Fits(N, T, v, At({4, 6}, Cstr(IF v = 1 THEN 22 ELSE 71)))
  <2> SUFFICES ASSUME NEW c \in {4, 6}
               PROVE  /\ ~Lacks(v, N[c + 1]) /\ N[c + 1] \in Texts /\ T[c + 1] = TEXT
                      /\ N[c + 1] \notin OddlyBounded
                      /\ Width(v, N[c + 1]) = IF v = 1 THEN 22 ELSE 71
    BY CstrFits
  <2>1. N[c + 1] \in Texts /\ N[c + 1] \notin OddlyBounded \cup Codes \cup Deprecated \cup Legs
    BY <1>2, LegsAre DEF Texts, OddlyBounded, Codes, Deprecated
  <2> QED
    BY <1>2, <2>1, EveryVersionHas, Widths DEF SymbolCstrLen
<1>5. CASE v = 1
  <2>1. \A c \in {3, 5} : Lacks(v, N[c + 1])
    BY <1>2, <1>5, LacksIs DEF LacksV1
  <2>2. Fits(N, T, v, At({3, 5}, Null))
    BY <2>1, NullFits
  <2> QED
    BY <1>3, <1>4, <1>5, <2>2, CasesFit DEF SymbolMappingV1, N, T
<1>6. CASE v # 1
  <2>1. \A c \in {3, 5} : ~Lacks(v, N[c + 1]) /\ N[c + 1] \in Codes
    <3>1. v \in {2, 3}
      BY <1>6 DEF Versions
    <3> QED
      BY <1>2, <3>1, SomeVersionsHave DEF Codes
  <2>2. Fits(N, T, v, At({3, 5}, Code))
    <3>1. \A c \in {3, 5} : Right(N[c + 1], T[c + 1], v, Code)
      BY <1>2, <2>1, Physicals DEF Right, Code, Writer
    <3> QED
      BY <3>1, AtFits
  <2> QED
    BY <1>3, <1>4, <1>6, <2>2, CasesFit DEF SymbolMappingWriters, N, T
<1> QED
  BY <1>5, <1>6

LEMMA SystemFit ==
    ASSUME NEW v \in Versions
    PROVE  Fits(System.names, SystemTypes, v, IF v = 1 THEN SystemV1 ELSE SystemWriters)
<1> DEFINE N == System.names
           T == SystemTypes
<1>1. /\ Plain(N, T, {0}, TS) /\ Plain(N, T, {1}, U32) /\ Plain(N, T, {2}, U16)
  BY DEF Plain, Marked, Texts, Codes, OptionalTimestamps, Deprecated, Legs, DefinitionLegs,
         System, Reader, SystemTypes
<1>2. /\ \A c \in {4} : N[c + 1] \in {"code"} /\ T[c + 1] = TEXT
      /\ \A c \in {3} : N[c + 1] \in {"msg"} /\ T[c + 1] = TEXT
  BY DEF System, Reader, SystemTypes
<1> HIDE DEF N, T
<1>3. Fits(N, T, v, SystemHeader)
  BY <1>1, PlainIsOrdinary, Physicals, OtherTypes, ValueFits, CasesFit DEF SystemHeader
<1>4. Fits(N, T, v, At({3}, Cstr(IF v = 1 THEN 64 ELSE 303)))
  <2> SUFFICES ASSUME NEW c \in {3}
               PROVE  /\ ~Lacks(v, N[c + 1]) /\ N[c + 1] \in Texts /\ T[c + 1] = TEXT
                      /\ N[c + 1] \notin OddlyBounded
                      /\ Width(v, N[c + 1]) = IF v = 1 THEN 64 ELSE 303
    BY CstrFits
  <2>1. N[c + 1] \in Texts /\ N[c + 1] \notin OddlyBounded \cup Codes \cup Deprecated \cup Legs
    BY <1>2, LegsAre DEF Texts, OddlyBounded, Codes, Deprecated
  <2> QED
    BY <1>2, <2>1, EveryVersionHas, Widths DEF SymbolCstrLen
<1>5. CASE v = 1
  <2>1. \A c \in {4} : Lacks(v, N[c + 1])
    BY <1>2, <1>5, LacksIs DEF LacksV1
  <2>2. Fits(N, T, v, At({4}, Null))
    BY <2>1, NullFits
  <2> QED
    BY <1>3, <1>4, <1>5, <2>2, CasesFit DEF SystemV1, N, T
<1>6. CASE v # 1
  <2>1. \A c \in {4} : ~Lacks(v, N[c + 1]) /\ N[c + 1] \in Codes
    <3>1. v \in {2, 3}
      BY <1>6 DEF Versions
    <3> QED
      BY <1>2, <3>1, SomeVersionsHave DEF Codes
  <2>2. Fits(N, T, v, At({4}, Code))
    <3>1. \A c \in {4} : Right(N[c + 1], T[c + 1], v, Code)
      BY <1>2, <2>1, Physicals DEF Right, Code, Writer
    <3> QED
      BY <3>1, AtFits
  <2> QED
    BY <1>3, <1>4, <1>6, <2>2, CasesFit DEF SystemWriters, N, T
<1> QED
  BY <1>5, <1>6

-----------------------------------------------------------------------------
(* A switch with a case for each of the columns.                               *)
HasCase(cases, c) == c \in DOMAIN cases

LEMMA HasCases ==
    /\ \A ids, writer, c : HasCase(At(ids, writer), c) <=> c \in ids
    /\ \A f, g, c : HasCase(f ++ g, c) <=> HasCase(f, c) \/ HasCase(g, c)
BY DEF HasCase, At, ++

LEMMA LevelsHave ==
    \A c \in 12..71 :
        HasCase([i \in 12..71 |-> IF (i - 12) % 6 \in {0, 1} THEN Px ELSE Value("uint32_t")], c)
BY DEF HasCase

(* A table is written as declared: each of its columns, in a version.            *)
TableFits(table, v) ==
    /\ Len(table.types) = Len(table.reader.names)
    /\ \A c \in 0..(Len(table.reader.names) - 1) : HasCase(table.writers[v], c)
    /\ Fits(table.reader.names, table.types, v, table.writers[v])

LEMMA TablesAre ==
    /\ ColumnsOf.trades = Table(Trades, TradesTypes, Every(TradesWriters))
    /\ ColumnsOf.mbo = Table(Mbo, MboTypes, Every(MboWriters))
    /\ ColumnsOf.mbp1 = Table(Mbp1, Mbp1Types, Every(Mbp1Writers))
    /\ ColumnsOf.mbp10 = Table(Mbp10, Mbp10Types, Every(Mbp10Writers))
    /\ ColumnsOf.bbo = Table(Bbo, BboTypes, Every(BboWriters))
    /\ ColumnsOf.cbbo = Table(Cbbo, CbboTypes, Every(CbboWriters))
    /\ ColumnsOf.cmbp1 = Table(Cmbp1, Cmbp1Types, Every(Cmbp1Writers))
    /\ ColumnsOf.ohlcv = Table(Ohlcv, OhlcvTypes, Every(OhlcvWriters))
    /\ ColumnsOf.status = Table(Status, StatusTypes, Every(StatusWriters))
    /\ ColumnsOf.imbalance = Table(Imbalance, ImbalanceTypes, Every(ImbalanceWriters))
    /\ ColumnsOf.statistics = Table(Statistics, StatisticsTypes, Every(StatisticsWriters))
    /\ ColumnsOf.definition =
          Table(Definition, DefinitionTypes, <<DefinitionV1, DefinitionV2, DefinitionV3>>)
    /\ ColumnsOf.symbol_mapping =
          Table(SymbolMapping, SymbolMappingTypes,
                <<SymbolMappingV1, SymbolMappingWriters, SymbolMappingWriters>>)
    /\ ColumnsOf.system = Table(System, SystemTypes, <<SystemV1, SystemWriters, SystemWriters>>)
    /\ ColumnsOf.dbn_records = Table(Records, DbnRecordsTypes, Every(DbnRecordsWriters))
BY DEF ColumnsOf

LEMMA OneLoop ==
    ASSUME NEW reader, NEW names, NEW types, NEW writers, NEW v \in Versions, NEW count,
           reader.names = names, Len(names) = count, Len(types) = count,
           \A c \in 0..(count - 1) : HasCase(writers, c),
           Fits(names, types, v, writers)
    PROVE  TableFits(Table(reader, types, Every(writers)), v)
BY DEF TableFits, Table, Every

(* A loop of its own for a version or two.                                     *)
LEMMA OwnLoop ==
    ASSUME NEW reader, NEW names, NEW types, NEW loops, NEW v, NEW count,
           reader.names = names, Len(names) = count, Len(types) = count,
           \A c \in 0..(count - 1) : HasCase(loops[v], c),
           Fits(names, types, v, loops[v])
    PROVE  TableFits(Table(reader, types, loops), v)
BY DEF TableFits, Table

(* The tables with one loop for every version.                                 *)
LEMMA OneLoopTables ==
    ASSUME NEW v \in Versions
    PROVE  /\ TableFits(ColumnsOf.trades, v) /\ TableFits(ColumnsOf.mbo, v)
           /\ TableFits(ColumnsOf.mbp1, v) /\ TableFits(ColumnsOf.mbp10, v)
           /\ TableFits(ColumnsOf.bbo, v) /\ TableFits(ColumnsOf.cbbo, v)
           /\ TableFits(ColumnsOf.cmbp1, v) /\ TableFits(ColumnsOf.ohlcv, v)
           /\ TableFits(ColumnsOf.status, v) /\ TableFits(ColumnsOf.imbalance, v)
           /\ TableFits(ColumnsOf.statistics, v) /\ TableFits(ColumnsOf.dbn_records, v)
<1>1. TableFits(ColumnsOf.trades, v)
  <2>1. Trades.names = TradeColumns /\ Len(TradeColumns) = 12 /\ Len(TradesTypes) = 12
    BY DEF Trades, Reader, Header, TradeColumns, TradesTypes
  <2>2. \A c \in 0..(12 - 1) : HasCase(TradesWriters, c)
    BY HasCases DEF TradesWriters
  <2> QED
    BY <2>1, <2>2, TradesFit, OneLoop, TablesAre
<1>2. TableFits(ColumnsOf.mbo, v)
  <2>1. Len(Mbo.names) = 13 /\ Len(MboTypes) = 13
    BY DEF Mbo, Reader, Header, MboTypes
  <2>2. \A c \in 0..(13 - 1) : HasCase(MboWriters, c)
    BY HasCases DEF MboWriters
  <2> QED
    BY <2>1, <2>2, MboFit, OneLoop, TablesAre
<1>3. TableFits(ColumnsOf.mbp1, v)
  <2>1. Len(Mbp1.names) = 15 /\ Len(Mbp1Types) = 15
    BY DEF Mbp1, Reader, Header, Quote, Mbp1Types
  <2>2. \A c \in 0..(15 - 1) : HasCase(Mbp1Writers, c)
    BY HasCases DEF Mbp1Writers
  <2> QED
    BY <2>1, <2>2, Mbp1Fit, OneLoop, TablesAre
<1>4. TableFits(ColumnsOf.bbo, v)
  <2>1. Len(Bbo.names) = 15 /\ Len(BboTypes) = 15
    BY DEF Bbo, Reader, Header, Quote, BboTypes
  <2>2. \A c \in 0..(15 - 1) : HasCase(BboWriters, c)
    BY HasCases DEF BboWriters
  <2> QED
    BY <2>1, <2>2, BboFit, OneLoop, TablesAre
<1>5. TableFits(ColumnsOf.cbbo, v)
  <2>1. Len(Cbbo.names) = 14 /\ Len(CbboTypes) = 14
    BY DEF Cbbo, Reader, Header, Quote, CbboTypes
  <2>2. \A c \in 0..(14 - 1) : HasCase(CbboWriters, c)
    BY HasCases DEF CbboWriters
  <2> QED
    BY <2>1, <2>2, CbboFit, OneLoop, TablesAre
<1>6. TableFits(ColumnsOf.cmbp1, v)
  <2>1. Len(Cmbp1.names) = 16 /\ Len(Cmbp1Types) = 16
    BY DEF Cmbp1, Reader, Header, Quote, Cmbp1Types
  <2>2. \A c \in 0..(16 - 1) : HasCase(Cmbp1Writers, c)
    BY HasCases DEF Cmbp1Writers
  <2> QED
    BY <2>1, <2>2, Cmbp1Fit, OneLoop, TablesAre
<1>7. TableFits(ColumnsOf.ohlcv, v)
  <2>1. Len(Ohlcv.names) = 8 /\ Len(OhlcvTypes) = 8
    BY DEF Ohlcv, Reader, OhlcvTypes
  <2>2. \A c \in 0..(8 - 1) : HasCase(OhlcvWriters, c)
    BY HasCases DEF OhlcvWriters
  <2> QED
    BY <2>1, <2>2, OhlcvFit, OneLoop, TablesAre
<1>8. TableFits(ColumnsOf.status, v)
  <2>1. Len(Status.names) = 10 /\ Len(StatusTypes) = 10
    BY DEF Status, Reader, Header, StatusTypes
  <2>2. \A c \in 0..(10 - 1) : HasCase(StatusWriters, c)
    BY HasCases DEF StatusWriters
  <2> QED
    BY <2>1, <2>2, StatusFit, OneLoop, TablesAre
<1>9. TableFits(ColumnsOf.imbalance, v)
  <2>1. Len(Imbalance.names) = 23 /\ Len(ImbalanceTypes) = 23
    BY DEF Imbalance, Reader, Header, ImbalanceTypes
  <2>2. \A c \in 0..(23 - 1) : HasCase(ImbalanceWriters, c)
    BY HasCases DEF ImbalanceWriters
  <2> QED
    BY <2>1, <2>2, ImbalanceFit, OneLoop, TablesAre
<1>10. TableFits(ColumnsOf.statistics, v)
  <2>1. /\ Statistics.names = StatisticsColumns
        /\ Len(StatisticsColumns) = 13 /\ Len(StatisticsTypes) = 13
    BY DEF Statistics, Reader, StatisticsColumns, StatisticsTypes
  <2>2. \A c \in 0..(13 - 1) : HasCase(StatisticsWriters, c)
    BY HasCases DEF StatisticsWriters
  <2> QED
    BY <2>1, <2>2, StatisticsFit, OneLoop, TablesAre
<1>11. TableFits(ColumnsOf.dbn_records, v)
  <2>1. Len(Records.names) = 6 /\ Len(DbnRecordsTypes) = 6
    BY DEF Records, Reader, DbnRecordsTypes
  <2>2. \A c \in 0..(6 - 1) : HasCase(DbnRecordsWriters, c)
    BY HasCases DEF DbnRecordsWriters
  <2> QED
    BY <2>1, <2>2, DbnRecordsFit, OneLoop, TablesAre
<1>12. TableFits(ColumnsOf.mbp10, v)
  <2>1. /\ Mbp10.names = TradeColumns \o LevelColumns
        /\ Len(TradeColumns \o LevelColumns) = 72 /\ Len(Mbp10Types) = 72
    BY DEF Mbp10, Reader, Header, TradeColumns, LevelColumns, TradesTypes, LevelTypes,
           Mbp10Types
  <2>2. \A c \in 0..(72 - 1) : HasCase(Mbp10Writers, c)
    BY LevelsHave, HasCases DEF TradesWriters, Mbp10Writers
  <2> QED
    BY <2>1, <2>2, Mbp10Fit, OneLoop, TablesAre
<1> QED
  BY <1>1, <1>2, <1>3, <1>4, <1>5, <1>6, <1>7, <1>8, <1>9,
     <1>10, <1>11, <1>12

LEMMA DefinitionTable ==
    ASSUME NEW v \in Versions
    PROVE  TableFits(ColumnsOf.definition, v)
<1> DEFINE loops == <<DefinitionV1, DefinitionV2, DefinitionV3>>
<1>1. /\ Definition.names = DefinitionColumns
      /\ Len(DefinitionColumns) = 76 /\ Len(DefinitionTypes) = 76
  BY DEF Definition, Reader, Header, DefinitionLegs, DefinitionColumns, DefinitionTypes
<1>2. \A c \in 0..58 : HasCase(DefinitionCommon, c)
  BY HasCases DEF DefinitionCommon, DefinitionTexts, DefinitionPrices, DefinitionNumbers
<1>3. \A c \in 0..75 :
          HasCase(DefinitionV1, c) /\ HasCase(DefinitionV2, c) /\ HasCase(DefinitionV3, c)
  <2>1. \A c \in 0..75 : HasCase(DefinitionV3, c)
    BY <1>2, HasCases DEF DefinitionV3
  <2>2. \A c \in 0..75 : HasCase(DefinitionV2, c)
    BY <1>2, HasCases DEF DefinitionV2
  <2>3. \A c \in 0..75 : HasCase(DefinitionV1, c)
    BY <1>2, HasCases DEF DefinitionV1
  <2> QED
    BY <2>1, <2>2, <2>3
<1>4. v \in {1, 2, 3}
  BY DEF Versions
<1>5. /\ loops[1] = DefinitionV1 /\ loops[2] = DefinitionV2 /\ loops[3] = DefinitionV3
  OBVIOUS
<1> HIDE DEF loops
<1>6. \A c \in 0..75 : HasCase(loops[v], c)
  BY <1>3, <1>4, <1>5
<1>7. Fits(DefinitionColumns, DefinitionTypes, v, loops[v])
  BY <1>4, <1>5, DefinitionV3Fit, DefinitionV2Fit
<1>8. TableFits(Table(Definition, DefinitionTypes, loops), v)
  <2> DEFINE table == Table(Definition, DefinitionTypes, loops)
  <2>1. table.reader = Definition /\ table.types = DefinitionTypes /\ table.writers = loops
    BY DEF Table
  <2> HIDE DEF table
  <2>2. table.reader.names = DefinitionColumns /\ Len(table.reader.names) - 1 = 75
    <3>1. table.reader.names = DefinitionColumns
      BY <1>1, <2>1
    <3>2. Len(table.reader.names) = 76
      BY <1>1, <3>1
    <3> QED
      BY <3>1, <3>2
  <2>3. Len(table.types) = Len(table.reader.names)
    BY <1>1, <2>1, <2>2
  <2>4. \A c \in 0..(Len(table.reader.names) - 1) : HasCase(table.writers[v], c)
    <3>1. \A c \in 0..75 : HasCase(table.writers[v], c)
      BY <1>6, <2>1
    <3> QED
      BY <2>2, <3>1
  <2>5. Fits(table.reader.names, table.types, v, table.writers[v])
    BY <1>7, <2>1, <2>2
  <2> QED
    BY <2>3, <2>4, <2>5 DEF TableFits, table
<1> QED
  BY <1>8, TablesAre DEF loops

LEMMA SymbolMappingTable ==
    ASSUME NEW v \in Versions
    PROVE  TableFits(ColumnsOf.symbol_mapping, v)
<1> DEFINE loops == <<SymbolMappingV1, SymbolMappingWriters, SymbolMappingWriters>>
<1>1. Len(SymbolMapping.names) = 9 /\ Len(SymbolMappingTypes) = 9
  BY DEF SymbolMapping, Reader, SymbolMappingTypes
<1>2. \A c \in 0..(9 - 1) : HasCase(SymbolMappingV1, c) /\ HasCase(SymbolMappingWriters, c)
  BY HasCases DEF SymbolMappingV1, SymbolMappingWriters, SymbolMappingHeader
<1>3. loops[v] = IF v = 1 THEN SymbolMappingV1 ELSE SymbolMappingWriters
  BY DEF Versions
<1> HIDE DEF loops
<1>4. TableFits(Table(SymbolMapping, SymbolMappingTypes, loops), v)
  BY <1>1, <1>2, <1>3, SymbolMappingFit, OwnLoop
<1> QED
  BY <1>4, TablesAre DEF loops

LEMMA SystemTable ==
    ASSUME NEW v \in Versions
    PROVE  TableFits(ColumnsOf.system, v)
<1> DEFINE loops == <<SystemV1, SystemWriters, SystemWriters>>
<1>1. Len(System.names) = 5 /\ Len(SystemTypes) = 5
  BY DEF System, Reader, SystemTypes
<1>2. \A c \in 0..(5 - 1) : HasCase(SystemV1, c) /\ HasCase(SystemWriters, c)
  BY HasCases DEF SystemV1, SystemWriters, SystemHeader
<1>3. loops[v] = IF v = 1 THEN SystemV1 ELSE SystemWriters
  BY DEF Versions
<1> HIDE DEF loops
<1>4. TableFits(Table(System, SystemTypes, loops), v)
  BY <1>1, <1>2, <1>3, SystemFit, OwnLoop
<1> QED
  BY <1>4, TablesAre DEF loops

LEMMA EveryTable ==
    ASSUME NEW s \in DOMAIN ColumnsOf, NEW v \in Versions
    PROVE  TableFits(ColumnsOf[s], v)
<1>1. s \in {"trades", "mbo", "mbp1", "mbp10", "bbo", "cbbo", "cmbp1", "ohlcv", "status",
             "imbalance", "statistics", "definition", "symbol_mapping", "system", "dbn_records"}
  BY DEF ColumnsOf
<1> QED
  BY <1>1, OneLoopTables, DefinitionTable, SymbolMappingTable, SystemTable

-----------------------------------------------------------------------------
(* The scan, the version and the column are chosen once, from the tables.        *)
FileInv == scan \in Scans /\ version \in Versions /\ id \in 0..(Len(TableOf.reader.names) - 1)

LEMMA FileFits ==
    ASSUME FileInv
    PROVE  WrittenAsDeclared
<1>1. TableFits(TableOf, version)
  BY EveryTable, ScansAssumption DEF FileInv, TableOf
<1>2. id \in DOMAIN Written /\ Len(TableOf.types) = Len(TableOf.reader.names)
  BY <1>1 DEF FileInv, TableFits, HasCase, Written
<1>3. Right(Name, Type, version, Written[id])
  BY <1>1, <1>2 DEF TableFits, Fits, Name, Type, Written
<1>4. EmitsFor(Written[id])
  BY <1>3 DEF Right, EmitsFor, Has, Nullable
<1>5. Written[id].emit # "null" => Written[id].storage = Physical(Type)
  BY <1>3 DEF Right
<1> QED
  BY <1>2, <1>4, <1>5 DEF WrittenAsDeclared

LEMMA NextFileInv ==
    ASSUME FileInv, [Next]_vars
    PROVE  FileInv'
<1>1. UNCHANGED file
  BY DEF Next, vars, GetChunk, ContinueLoop, StartChunk, EmitRow, SkipRecord, InnerReturns,
         ReturnChunk, Over
<1> QED
  BY <1>1 DEF FileInv, file, TableOf

-----------------------------------------------------------------------------
(* The rows of a chunk and its NULL marks stay inside it, and every delivered     *)
(* cell is of a record that was read (TypeOK), for every chunk size and file.    *)
THEOREM CellsTypeCorrect == Spec => []TypeOK
<1>1. Init => StateInv
  BY InitIInv DEF IInv
<1>2. StateInv /\ [Next]_vars => StateInv'
  BY NextStateInv
<1>3. StateInv => TypeOK
  BY DEF StateInv
<1> QED
  BY <1>1, <1>2, <1>3, PTL DEF Spec

(* Every column that a bind declares is written in the loop of every version: by  *)
(* a case of its own, NULL exactly if the struct lacks the field, looked at for   *)
(* its sentinel exactly if the column may be NULL, as a text up to the end of its  *)
(* array, and through a pointer of the type DuckDB reads the column with.         *)
THEOREM TablesCorrect == Spec => []WrittenAsDeclared
<1>1. Init => FileInv
  BY DEF Init, FileInv
<1>2. FileInv /\ [Next]_vars => FileInv'
  BY NextFileInv
<1>3. FileInv => WrittenAsDeclared
  BY FileFits
<1> QED
  BY <1>1, <1>2, <1>3, PTL DEF Spec

(* Every delivered cell is NULL where it has to be and otherwise the value of its *)
(* own record, for chunks of any size and files of any length.                  *)
THEOREM CellsCorrect == Spec => []CellsAsPromised
<1>1. Init => IInv
  BY InitIInv
<1>2. IInv /\ WrittenAsDeclared /\ [Next]_vars => IInv'
  BY NextIInv
<1>3. IInv => CellsAsPromised
  BY DEF IInv
<1> QED
  BY <1>1, <1>2, <1>3, TablesCorrect, PTL DEF Spec

=============================================================================
