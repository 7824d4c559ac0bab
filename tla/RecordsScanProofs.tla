-------------------------- MODULE RecordsScanProofs --------------------------
(* dbn_records delivers the rows its filters let pass, each once, and says it   *)
(* has finished only after the last, for every stream, query and chunk size.    *)
EXTENDS RecordsScan, TLAPS

(* The chunk holds records read since the last delivery that the header filter  *)
(* accepts, and every wanted one among those.                                  *)
ChunkInv ==
    pc \in {"scan", "scanned"} =>
        /\ \A n \in 1..Len(rows) : rows[n] \in (covered + 1)..pos /\ Record(rows[n]).header
        /\ \A p \in (covered + 1)..pos : Result!Wanted(p) => \E n \in 1..Len(rows) : rows[n] = p

(* The inner scan returns for a full chunk or at a clean end.                   *)
ScannedInv == pc = "scanned" => Len(rows) = VectorSize \/ (pos = Length /\ stream.clean)

(* A chunk that is delivered covers everything read.                           *)
CoveredInv == pc \in {"idle", "finished"} => covered = pos

(* What has been delivered is what the filters let pass of what was covered.     *)
DeliveredInv == delivered = Result!Rows(1, covered)

IInv == TypeOK /\ ChunkInOrder /\ ChunkInv /\ ScannedInv /\ CoveredInv /\ DeliveredInv

-----------------------------------------------------------------------------
LEMMA StreamOK ==
    ASSUME TypeOK
    PROVE  /\ Length \in Nat /\ pos \in Nat /\ pos <= Length
           /\ covered \in Nat /\ covered <= pos
           /\ rows \in Seq(1..pos) /\ Len(rows) \in Nat
           /\ VectorSize \in Nat \ {0}
<1>1. Length \in Nat
  BY StreamsAssumption DEF TypeOK, IsStream, Length
<1> QED
  BY <1>1, VectorSizeAssumption DEF TypeOK

LEMMA SameRecords ==
    /\ \A p : Result!Record(p) = Record(p)
    /\ Result!Length = Length
    /\ Result!NoColumn = NoColumn
    /\ Result!AnySymbol = AnySymbol
BY DEF Result!Record, Record, Result!Length, Length, Result!NoColumn, NoColumn,
    Result!AnySymbol, AnySymbol

(* What ScanResult wants of a stream without symbols.                          *)
LEMMA WantedIsKept ==
    ASSUME TypeOK, NEW p \in 1..Length
    PROVE  /\ Result!Wanted(p) <=> Record(p).header /\ (query.filtered => Record(p).body)
           /\ Result!Row(p) = [at |-> p, symbol |-> NoColumn]
<1>1. Record(p).kind = "row"
  BY RowsAssumption DEF TypeOK, Record, Length
<1>2. query.symbol = AnySymbol /\ ~query.shown
  BY RowsAssumption DEF TypeOK
<1> QED
  BY <1>1, <1>2, SameRecords DEF Result!Wanted, Result!Accepts, Result!Row

LEMMA SameStream ==
    ASSUME UNCHANGED <<stream, query>>
    PROVE  /\ Length' = Length
           /\ \A p : Record(p)' = Record(p)
           /\ \A p : Result!Wanted(p)' <=> Result!Wanted(p)
           /\ \A p, q : Result!Rows(p, q)' = Result!Rows(p, q)
<1>0. \A S : Result!Latest(S)' = Result!Latest(S)
  BY DEF Result!Latest
<1>1. /\ Length' = Length
      /\ \A p : Record(p)' = Record(p)
      /\ \A p : Result!Record(p)' = Result!Record(p)
  BY DEF Length, Record, Result!Record
<1>2. \A id, p : Result!Bindings(id, p)' = Result!Bindings(id, p)
  BY <1>1 DEF Result!Bindings
<1>3. \A p : Result!SymbolAt(p)' = Result!SymbolAt(p)
  BY <1>0, <1>1, <1>2 DEF Result!SymbolAt
<1>4. \A p : Result!Wanted(p)' <=> Result!Wanted(p)
  BY <1>1, <1>3 DEF Result!Wanted, Result!Accepts
<1>5. \A p, q : Result!Rows(p, q)' = Result!Rows(p, q)
  BY <1>3, <1>4 DEF Result!Rows, Result!Row
<1> QED
  BY <1>1, <1>4, <1>5

(* The rows up to a position are those up to an earlier one and the rest.      *)
LEMMA RowsSplit ==
    ASSUME NEW p \in Nat, NEW q \in Nat, p <= q
    PROVE  Result!Rows(1, q) = Result!Rows(1, p) \cup Result!Rows(p + 1, q)
<1>1. 1..q = (1..p) \cup ((p + 1)..q)
  OBVIOUS
<1> QED
  BY <1>1 DEF Result!Rows

-----------------------------------------------------------------------------
(* One lemma for each step.                                                   *)

LEMMA InitIInv == Init => IInv
<1> SUFFICES ASSUME Init PROVE IInv
  OBVIOUS
<1>1. Length \in Nat
  BY StreamsAssumption DEF Init, IsStream, Length
<1>2. TypeOK
  <2>1. pos = 0 /\ covered = 0 /\ built \in BOOLEAN
    BY DEF Init
  <2>2. pos \in 0..Length /\ covered \in 0..pos
    BY <1>1, <2>1
  <2>3. rows \in Seq(1..pos) /\ Len(rows) <= VectorSize
    <3>1. rows = <<>> /\ VectorSize \in Nat
      BY VectorSizeAssumption DEF Init
    <3> QED
      BY <3>1
  <2> QED
    BY <2>1, <2>2, <2>3 DEF Init, TypeOK
<1>3. DeliveredInv
  BY DEF Init, DeliveredInv, Result!Rows
<1> QED
  BY <1>2, <1>3 DEF Init, IInv, ChunkInOrder, ChunkInv, ScannedInv, CoveredInv

LEMMA DeliveredKept ==
    ASSUME IInv, UNCHANGED <<stream, query, delivered, covered>>
    PROVE  DeliveredInv'
BY SameStream DEF IInv, DeliveredInv

LEMMA StartChunkIInv ==
    ASSUME IInv, StartChunk, UNCHANGED <<covered, delivered>>, built' \in BOOLEAN,
           \A p \in (covered + 1)..pos : ~Result!Wanted(p)
    PROVE  IInv'
<1>1. UNCHANGED <<stream, query, pos>> /\ rows' = <<>> /\ pc' = "scan"
  BY DEF StartChunk
<1>2. TypeOK'
  BY <1>1, StreamOK, SameStream DEF IInv, TypeOK
<1>3. ChunkInv'
  BY <1>1, SameStream DEF ChunkInv
<1>4. ChunkInOrder'
  BY <1>1 DEF ChunkInOrder
<1> QED
  BY <1>1, <1>2, <1>3, <1>4, DeliveredKept DEF IInv, ScannedInv, CoveredInv

LEMMA GetChunkIInv ==
    ASSUME IInv, GetChunk
    PROVE  IInv'
<1>1. (covered + 1)..pos = {}
  BY StreamOK DEF GetChunk, IInv, CoveredInv
<1>2. built' \in BOOLEAN
  BY DEF GetChunk, IInv, TypeOK
<1> QED
  BY <1>1, <1>2, StartChunkIInv DEF GetChunk

(* The next record, whether it becomes a row or not.                           *)
LEMMA NextRecordFacts ==
    ASSUME IInv, NextRecord
    PROVE  /\ pc = "scan" /\ pos' = pos + 1 /\ pos + 1 \in 1..Length
           /\ Len(rows) < VectorSize
           /\ (covered + 1)..(pos + 1) = ((covered + 1)..pos) \cup {pos + 1}
           /\ pos + 1 \in (covered + 1)..(pos + 1)
           /\ rows \in Seq(1..(pos + 1))
<1>1. pc = "scan" /\ pos' = pos + 1 /\ pos < Length /\ Len(rows) < VectorSize
  BY DEF NextRecord
<1>2. /\ Length \in Nat /\ pos \in Nat /\ covered \in Nat /\ covered <= pos
      /\ rows \in Seq(1..pos)
  BY StreamOK DEF IInv
<1> QED
  BY <1>1, <1>2

LEMMA EmitRowIInv ==
    ASSUME IInv, EmitRow
    PROVE  IInv'
<1>1. /\ UNCHANGED <<stream, query, built, covered, delivered, pc>>
      /\ Record(pos + 1).header /\ rows' = Append(rows, pos + 1) /\ NextRecord
  BY DEF EmitRow
<1>2. /\ pc = "scan" /\ pos' = pos + 1 /\ pos + 1 \in 1..Length /\ Len(rows) < VectorSize
      /\ (covered + 1)..(pos + 1) = ((covered + 1)..pos) \cup {pos + 1}
      /\ pos + 1 \in (covered + 1)..(pos + 1)
      /\ rows \in Seq(1..(pos + 1))
  BY <1>1, NextRecordFacts
<1>3. /\ Len(rows) \in Nat /\ VectorSize \in Nat /\ pos \in Nat /\ Length \in Nat
      /\ covered \in Nat /\ covered <= pos
  BY StreamOK DEF IInv
<1>4. /\ rows' \in Seq(1..pos') /\ Len(rows') = Len(rows) + 1
      /\ \A n \in 1..Len(rows) : rows'[n] = rows[n]
      /\ rows'[Len(rows) + 1] = pos + 1
  BY <1>1, <1>2, <1>3
<1>5. TypeOK'
  BY <1>1, <1>2, <1>3, <1>4, SameStream DEF IInv, TypeOK
<1>6. ChunkInv'
  <2>1. ASSUME NEW n \in 1..Len(rows')
        PROVE  rows'[n] \in (covered + 1)..(pos + 1) /\ Record(rows'[n]).header
    <3>1. CASE n \in 1..Len(rows)
      BY <1>2, <1>4, <3>1 DEF IInv, ChunkInv
    <3>2. CASE n = Len(rows) + 1
      BY <1>1, <1>2, <1>4, <3>2
    <3> QED
      BY <1>3, <1>4, <3>1, <3>2
  <2>2. ASSUME NEW p \in (covered + 1)..(pos + 1), Result!Wanted(p)
        PROVE  \E n \in 1..Len(rows') : rows'[n] = p
    <3>1. CASE p \in (covered + 1)..pos
      <4>1. PICK n \in 1..Len(rows) : rows[n] = p
        BY <1>2, <2>2, <3>1 DEF IInv, ChunkInv
      <4>2. n \in 1..Len(rows')
        BY <1>3, <1>4
      <4> QED
        BY <1>4, <4>1, <4>2
    <3>2. CASE p = pos + 1
      <4>1. Len(rows) + 1 \in 1..Len(rows')
        BY <1>3, <1>4
      <4> QED
        BY <1>4, <3>2, <4>1
    <3> QED
      BY <1>2, <3>1, <3>2
  <2> QED
    BY <1>1, <1>2, <2>1, <2>2, SameStream DEF ChunkInv
<1>7. ChunkInOrder'
  <2>1. \A n \in 1..Len(rows) : rows[n] > covered /\ \A m \in 1..(n - 1) : rows[m] < rows[n]
    BY <1>2 DEF IInv, ChunkInOrder
  <2>2. \A n \in 1..Len(rows) : rows[n] \in 1..pos
    BY <1>3 DEF IInv, TypeOK
  <2>3. ASSUME NEW n \in 1..Len(rows')
        PROVE  rows'[n] > covered /\ \A m \in 1..(n - 1) : rows'[m] < rows'[n]
    <3>1. CASE n \in 1..Len(rows)
      <4>1. \A m \in 1..(n - 1) : m \in 1..Len(rows)
        BY <1>3, <3>1
      <4> QED
        BY <1>4, <2>1, <3>1, <4>1
    <3>2. CASE n = Len(rows) + 1
      <4>1. \A m \in 1..(n - 1) : m \in 1..Len(rows)
        BY <1>3, <3>2
      <4> QED
        BY <1>3, <1>4, <2>2, <3>2, <4>1
    <3> QED
      BY <1>3, <1>4, <3>1, <3>2
  <2> QED
    BY <1>1, <2>3 DEF ChunkInOrder
<1> QED
  BY <1>1, <1>2, <1>5, <1>6, <1>7, DeliveredKept DEF IInv, ScannedInv, CoveredInv

LEMMA RejectRowIInv ==
    ASSUME IInv, RejectRow
    PROVE  IInv'
<1>1. /\ UNCHANGED <<stream, query, rows, built, covered, delivered, pc>>
      /\ ~Record(pos + 1).header /\ NextRecord
  BY DEF RejectRow
<1>2. /\ pc = "scan" /\ pos' = pos + 1 /\ pos + 1 \in 1..Length
      /\ (covered + 1)..(pos + 1) = ((covered + 1)..pos) \cup {pos + 1}
      /\ rows \in Seq(1..(pos + 1))
  BY <1>1, NextRecordFacts
<1>3. pos \in Nat /\ Length \in Nat /\ covered \in Nat /\ covered <= pos
  BY StreamOK DEF IInv
<1>4. TypeOK'
  BY <1>1, <1>2, <1>3, SameStream DEF IInv, TypeOK
<1>5. ~Result!Wanted(pos + 1)
  BY <1>1, <1>2, WantedIsKept DEF IInv
<1>6. ChunkInv'
  BY <1>1, <1>2, <1>5, SameStream DEF IInv, ChunkInv
<1>7. ChunkInOrder'
  BY <1>1 DEF IInv, ChunkInOrder
<1> QED
  BY <1>1, <1>2, <1>4, <1>6, <1>7, DeliveredKept DEF IInv, ScannedInv, CoveredInv

LEMMA ReaderThrowsIInv ==
    ASSUME IInv, ReaderThrows
    PROVE  IInv'
<1>1. UNCHANGED <<stream, query, pos, rows, built, covered, delivered>> /\ pc' = "failed"
  BY DEF ReaderThrows
<1> QED
  BY <1>1, DeliveredKept, SameStream DEF IInv, TypeOK, ChunkInOrder, ChunkInv, ScannedInv, CoveredInv

LEMMA InnerReturnsIInv ==
    ASSUME IInv, InnerReturns
    PROVE  IInv'
<1>1. /\ UNCHANGED <<stream, query, pos, rows, built, covered, delivered>>
      /\ pc = "scan" /\ pc' = "scanned"
      /\ Len(rows) = VectorSize \/ (pos = Length /\ stream.clean)
  BY DEF InnerReturns
<1>2. TypeOK'
  BY <1>1, SameStream DEF IInv, TypeOK
<1>3. ChunkInOrder' /\ ChunkInv' /\ ScannedInv'
  BY <1>1, SameStream DEF IInv, ChunkInOrder, ChunkInv, ScannedInv
<1> QED
  BY <1>1, <1>2, <1>3, DeliveredKept DEF IInv, CoveredInv

(* What has been read since the last delivery is what the chunk keeps.         *)
LEMMA ChunkRows ==
    ASSUME IInv, pc = "scanned"
    PROVE  /\ {[at |-> rows[n], symbol |-> NoColumn] : n \in Selected} = Result!Rows(covered + 1, pos)
           /\ Selected = {} => \A p \in (covered + 1)..pos : ~Result!Wanted(p)
<1>1. \A n \in 1..Len(rows) : rows[n] \in (covered + 1)..pos /\ Record(rows[n]).header
  BY DEF IInv, ChunkInv
<1>2. \A p \in (covered + 1)..pos : Result!Wanted(p) => \E n \in 1..Len(rows) : rows[n] = p
  BY DEF IInv, ChunkInv
<1>3. ASSUME NEW n \in 1..Len(rows)
      PROVE  /\ Kept(n) <=> Result!Wanted(rows[n])
             /\ Result!Row(rows[n]) = [at |-> rows[n], symbol |-> NoColumn]
  <2>1. rows[n] \in 1..Length /\ TypeOK
    BY <1>1, StreamOK DEF IInv
  <2> QED
    BY <1>1, <2>1, WantedIsKept DEF Kept
<1>4. \A n \in Selected : n \in 1..Len(rows) /\ Kept(n)
  BY DEF Selected
<1>5. \A p \in (covered + 1)..pos : Result!Wanted(p) => \E n \in Selected : rows[n] = p
  BY <1>2, <1>3 DEF Selected
<1>6. \A n \in Selected : /\ rows[n] \in (covered + 1)..pos /\ Result!Wanted(rows[n])
                          /\ [at |-> rows[n], symbol |-> NoColumn] = Result!Row(rows[n])
  BY <1>1, <1>3, <1>4
<1>7. {[at |-> rows[n], symbol |-> NoColumn] : n \in Selected} = {Result!Row(rows[n]) : n \in Selected}
  BY <1>6
<1>8. {Result!Row(rows[n]) : n \in Selected} = Result!Rows(covered + 1, pos)
  BY <1>5, <1>6 DEF Result!Rows
<1> QED
  BY <1>5, <1>7, <1>8

LEMMA ReturnEmptyIInv ==
    ASSUME IInv, ReturnEmpty
    PROVE  IInv' /\ stream.clean /\ pos = Length /\ Result!Rows(covered + 1, pos) = {}
<1>1. /\ UNCHANGED <<stream, query, pos, rows, built, delivered>>
      /\ pc = "scanned" /\ rows = <<>> /\ covered' = pos /\ pc' = "finished"
  BY DEF ReturnEmpty
<1>2. Len(rows) = 0 /\ VectorSize # 0
  BY <1>1, StreamOK DEF IInv
<1>3. pos = Length /\ stream.clean
  BY <1>1, <1>2 DEF IInv, ScannedInv
<1>4. Selected = {}
  BY <1>2 DEF Selected
<1>5. Result!Rows(covered + 1, pos) = {}
  BY <1>1, <1>4, ChunkRows
<1>6. TypeOK'
  BY <1>1, StreamOK, SameStream DEF IInv, TypeOK
<1>7. delivered = Result!Rows(1, pos)
  <2>1. Result!Rows(1, pos) = Result!Rows(1, covered) \cup Result!Rows(covered + 1, pos)
    BY StreamOK, RowsSplit DEF IInv
  <2> QED
    BY <1>5, <2>1 DEF IInv, DeliveredInv
<1>8. DeliveredInv'
  BY <1>1, <1>7, SameStream DEF DeliveredInv
<1> QED
  BY <1>1, <1>3, <1>5, <1>6, <1>8 DEF IInv, ChunkInOrder, ChunkInv, ScannedInv, CoveredInv

LEMMA ReturnChunkIInv ==
    ASSUME IInv, ReturnChunk
    PROVE  IInv'
<1>1. /\ UNCHANGED <<stream, query, pos, rows>>
      /\ pc = "scanned" /\ pc' = "idle" /\ covered' = pos /\ built' = query.filtered
      /\ delivered' = delivered \cup {[at |-> rows[n], symbol |-> NoColumn] : n \in Selected}
  BY DEF ReturnChunk
<1>2. built' \in BOOLEAN
  BY <1>1, RowsAssumption DEF IInv, TypeOK
<1>3. TypeOK'
  BY <1>1, <1>2, StreamOK, SameStream DEF IInv, TypeOK
<1>4. delivered' = Result!Rows(1, pos)
  <2>1. Result!Rows(1, pos) = Result!Rows(1, covered) \cup Result!Rows(covered + 1, pos)
    BY StreamOK, RowsSplit DEF IInv
  <2> QED
    BY <1>1, <2>1, ChunkRows DEF IInv, DeliveredInv
<1>5. DeliveredInv'
  BY <1>1, <1>4, SameStream DEF DeliveredInv
<1> QED
  BY <1>1, <1>3, <1>5 DEF IInv, ChunkInOrder, ChunkInv, ScannedInv, CoveredInv

LEMMA ContinueLoopIInv ==
    ASSUME IInv, ContinueLoop
    PROVE  IInv'
BY ChunkRows, StartChunkIInv DEF ContinueLoop

LEMMA StutterIInv ==
    ASSUME IInv, UNCHANGED vars
    PROVE  IInv'
BY SameStream DEF vars, IInv, TypeOK, ChunkInOrder, ChunkInv, ScannedInv, CoveredInv, DeliveredInv

LEMMA NextIInv == IInv /\ [Next]_vars => IInv'
<1> SUFFICES ASSUME IInv, [Next]_vars
             PROVE  IInv'
  OBVIOUS
<1>1. CASE GetChunk
  BY <1>1, GetChunkIInv
<1>2. CASE EmitRow
  BY <1>2, EmitRowIInv
<1>3. CASE RejectRow
  BY <1>3, RejectRowIInv
<1>4. CASE ReaderThrows
  BY <1>4, ReaderThrowsIInv
<1>5. CASE InnerReturns
  BY <1>5, InnerReturnsIInv
<1>6. CASE ReturnEmpty
  BY <1>6, ReturnEmptyIInv
<1>7. CASE ReturnChunk
  BY <1>7, ReturnChunkIInv
<1>8. CASE ContinueLoop
  BY <1>8, ContinueLoopIInv
<1>9. CASE UNCHANGED vars
  BY <1>9, StutterIInv
<1> QED
  BY <1>1, <1>2, <1>3, <1>4, <1>5, <1>6, <1>7, <1>8, <1>9 DEF Next, ScanStep, Over

-----------------------------------------------------------------------------
(* Every step is a step of ScanResult, or changes nothing there.               *)

LEMMA Unseen ==
    ASSUME UNCHANGED <<stream, query, covered, delivered>>,
           pc \notin {"finished", "failed"}, pc' \notin {"finished", "failed"}
    PROVE  UNCHANGED Result!vars
BY DEF Result!vars

LEMMA ReturnChunkIsChunk ==
    ASSUME IInv, ReturnChunk
    PROVE  Result!Chunk
<1>1. /\ UNCHANGED <<stream, query>> /\ pc = "scanned" /\ pc' = "idle" /\ covered' = pos
      /\ Selected # {}
      /\ delivered' = delivered \cup {[at |-> rows[n], symbol |-> NoColumn] : n \in Selected}
  BY DEF ReturnChunk
<1>2. {[at |-> rows[n], symbol |-> NoColumn] : n \in Selected} = Result!Rows(covered + 1, pos)
  BY <1>1, ChunkRows
<1>3. Result!Rows(covered + 1, pos) # {}
  BY <1>1, <1>2
<1>4. pos \in (covered + 1)..Length
  <2>1. PICK n \in 1..Len(rows) : rows[n] \in (covered + 1)..pos
    BY <1>1 DEF Selected, IInv, ChunkInv
  <2> QED
    BY <2>1, StreamOK DEF IInv
<1> QED
  BY <1>1, <1>2, <1>3, <1>4, SameRecords DEF Result!Chunk

LEMMA ReturnEmptyIsFinish ==
    ASSUME IInv, ReturnEmpty
    PROVE  Result!Finish
BY ReturnEmptyIInv, SameRecords DEF ReturnEmpty, Result!Finish

LEMMA ThrowIsFail ==
    ASSUME ReaderThrows
    PROVE  Result!Fail
BY DEF ReaderThrows, Result!Fail

LEMMA StepsAreResultSteps == IInv /\ [Next]_vars => [Result!Next]_(Result!vars)
<1> SUFFICES ASSUME IInv, [Next]_vars
             PROVE  [Result!Next]_(Result!vars)
  OBVIOUS
<1>1. CASE GetChunk \/ ContinueLoop
  BY <1>1, Unseen DEF GetChunk, ContinueLoop, StartChunk
<1>2. CASE EmitRow \/ RejectRow \/ InnerReturns
  BY <1>2, Unseen DEF EmitRow, RejectRow, InnerReturns, NextRecord
<1>3. CASE ReaderThrows
  BY <1>3, ThrowIsFail DEF Result!Next
<1>4. CASE ReturnEmpty
  BY <1>4, ReturnEmptyIsFinish DEF Result!Next
<1>5. CASE ReturnChunk
  BY <1>5, ReturnChunkIsChunk DEF Result!Next
<1>6. CASE UNCHANGED vars
  BY <1>6 DEF vars, Result!vars
<1> QED
  BY <1>1, <1>2, <1>3, <1>4, <1>5, <1>6 DEF Next, ScanStep, Over

-----------------------------------------------------------------------------
(* The inductive invariant holds of every scan.                                *)
THEOREM Invariant == Spec => []IInv
<1>1. Init => IInv
  BY InitIInv
<1>2. IInv /\ [Next]_vars => IInv'
  BY NextIInv
<1> QED
  BY <1>1, <1>2, PTL DEF Spec

(* The chunk never holds more rows than STANDARD_VECTOR_SIZE, each made of a     *)
(* record that was read.                                                       *)
THEOREM RecordsTypeCorrect == Spec => []TypeOK
<1>1. IInv => TypeOK
  BY DEF IInv
<1> QED
  BY <1>1, Invariant, PTL

(* dbn_records fills each chunk in the order of the file, with no record twice,   *)
(* and behind everything it delivered.                                         *)
THEOREM RecordsOrderCorrect == Spec => []ChunkInOrder
<1>1. IInv => ChunkInOrder
  BY DEF IInv
<1> QED
  BY <1>1, Invariant, PTL

(* What the chunks held so far is what the filters let pass of what was read.   *)
THEOREM RecordsDelivered == Spec => []DeliveredInv
<1>1. IInv => DeliveredInv
  BY DEF IInv
<1> QED
  BY <1>1, Invariant, PTL

(* Seen from DuckDB, dbn_records and its copy of the wrapper are ScanResult.    *)
THEOREM RecordsImplementResult == Spec => ImplementsScanResult
<1>1. Init => Result!Init
  BY DEF Init, Result!Init
<1>2. IInv /\ [Next]_vars => [Result!Next]_(Result!vars)
  BY StepsAreResultSteps
<1> QED
  BY <1>1, <1>2, Invariant, PTL DEF Spec, ImplementsScanResult, Result!Spec

-----------------------------------------------------------------------------
(* Chunks end.                                                                 *)
LEMMA Advances ==
    ASSUME IInv, Next, InChunk, InChunk'
    PROVE  StepsAhead' < StepsAhead
<1> DEFINE held == IF rows = <<>> THEN 0 ELSE 2
<1>1. Length \in Nat /\ pos \in Nat /\ pos <= Length /\ rows \in Seq(1..pos)
  BY StreamOK DEF IInv
<1>2. /\ held \in {0, 2}
      /\ StepsAhead = 3 * (Length - pos) + held + (IF pc = "scan" THEN 2 ELSE 1)
      /\ StepsAhead' = 3 * (Length' - pos') + held' + (IF pc' = "scan" THEN 2 ELSE 1)
  BY DEF StepsAhead
<1>3. CASE EmitRow
  <2>1. /\ UNCHANGED <<stream, pc>> /\ pc = "scan" /\ pos' = pos + 1
        /\ rows' = Append(rows, pos + 1)
    BY <1>3 DEF EmitRow, NextRecord
  <2>2. Length' = Length /\ rows' # <<>>
    BY <1>1, <2>1 DEF Length
  <2> QED
    BY <1>1, <2>1, <2>2 DEF StepsAhead
<1>4. CASE RejectRow
  <2>1. UNCHANGED <<stream, pc, rows>> /\ pc = "scan" /\ pos' = pos + 1
    BY <1>4 DEF RejectRow, NextRecord
  <2>2. held' = held
    BY <2>1
  <2> HIDE DEF held
  <2> QED
    BY <1>1, <1>2, <2>1, <2>2 DEF Length
<1>5. CASE InnerReturns
  <2>1. UNCHANGED <<stream, pos, rows>> /\ pc = "scan" /\ pc' = "scanned"
    BY <1>5 DEF InnerReturns
  <2>2. held' = held
    BY <2>1
  <2> HIDE DEF held
  <2> QED
    BY <1>1, <1>2, <2>1, <2>2 DEF Length
<1>6. CASE ContinueLoop
  <2>1. UNCHANGED <<stream, pos>> /\ pc = "scanned" /\ pc' = "scan" /\ rows # <<>> /\ rows' = <<>>
    BY <1>6 DEF ContinueLoop, StartChunk
  <2> QED
    BY <1>1, <2>1 DEF StepsAhead, Length
<1>7. CASE GetChunk \/ ReaderThrows \/ ReturnEmpty \/ ReturnChunk \/ Over
  BY <1>7 DEF GetChunk, ReaderThrows, ReturnEmpty, ReturnChunk, Over, InChunk
<1> QED
  BY <1>3, <1>4, <1>5, <1>6, <1>7 DEF Next, ScanStep

(* Inside a chunk each step leaves fewer to come, and never fewer than none: the  *)
(* lambda of dbn_records cannot loop for ever, whatever its filter rejects.       *)
THEOREM RecordsChunkAdvances == Spec => ChunkAdvances /\ [](StepsAhead \in Nat)
<1>1. IInv /\ [Next]_vars => [InChunk /\ InChunk' => StepsAhead' < StepsAhead]_vars
  BY Advances
<1>2. IInv => StepsAhead \in Nat
  BY StreamOK DEF IInv, StepsAhead
<1> QED
  BY <1>1, <1>2, Invariant, PTL DEF Spec, ChunkAdvances

=============================================================================
