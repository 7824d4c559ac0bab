---------------------------- MODULE DbnScanProofs ----------------------------
(* A scan delivers the wanted rows, each once and with the symbol in force     *)
(* where it stands, for every stream, query and chunk size.                    *)
EXTENDS DbnScan, TLAPS

(* The symbol bound to an id before position p of the stream.                  *)
SymbolOf(id, p) ==
    LET S == Result!Bindings(id, p)
    IN  IF S = {} THEN NoSymbol ELSE Record(Result!Latest(S)).symbol

(* live_symbols_ holds the bindings in force where the reader stands.          *)
LiveInv ==
    query.symbols =>
        \A id \in Ids :
            /\ live[id] = 0 => Result!Bindings(id, pos + 1) = {}
            /\ live[id] # 0 =>
                /\ Result!Bindings(id, pos + 1) # {}
                /\ pool[live[id]] = SymbolOf(id, pos + 1)

(* The slots of a chunk hold accepted records read since the last chunk, and    *)
(* every wanted one among those.                                               *)
ChunkInv ==
    InChunk =>
        /\ \A n \in 1..count : rows[n] \in (covered + 1)..pos /\ Result!Accepts(rows[n])
        /\ \A p \in (covered + 1)..pos : Result!Wanted(p) => \E n \in 1..count : rows[n] = p

(* The inner scan returns for a full chunk or at a clean end.                   *)
ScannedInv ==
    pc = "scanned" => count = VectorSize \/ (pos = Length /\ stream.clean)

(* A chunk is scanned into a symbol column without NULLs of an earlier chunk.   *)
ResetInv == pc \in {"scan", "scanned"} => invalid = {}

(* Once filled, the symbol column shows the snapshots.                         *)
FilledInv ==
    pc = "filter" =>
        /\ count > 0
        /\ query.shown => \A n \in 1..count : Symbol(n) = Result!SymbolAt(rows[n])

IdleInv == pc = "idle" => covered = pos
FinishedInv == pc = "finished" => covered = pos /\ pos = Length

IInv ==
    /\ TypeOK /\ LiveInv /\ SnapshotIsCurrent /\ ChunkInOrder /\ ChunkInv
    /\ ScannedInv /\ ResetInv /\ FilledInv /\ IdleInv /\ FinishedInv /\ DeliveredIsWanted

-----------------------------------------------------------------------------
(* Streams, slots and bindings.                                                *)

LEMMA StreamOK ==
    ASSUME stream \in Streams
    PROVE  Length \in Nat /\ \A p \in 1..Length : IsRecord(Record(p))
BY StreamsAssumption DEF IsStream, Length, Record

LEMMA SameRecords ==
    /\ \A p : Result!Record(p) = Record(p)
    /\ Result!Length = Length
    /\ Result!NoSymbol = NoSymbol
    /\ Result!NoColumn = NoColumn
    /\ Result!AnySymbol = AnySymbol
BY DEF Result!Record, Record, Result!Length, Length, Result!NoSymbol, NoSymbol,
    Result!NoColumn, NoColumn, Result!AnySymbol, AnySymbol

LEMMA SymbolAtIsSymbolOf ==
    ASSUME NEW p
    PROVE  Result!SymbolAt(p) = SymbolOf(Record(p).id, p)
BY SameRecords DEF Result!SymbolAt, SymbolOf

(* One more record adds itself to the bindings of its id if it is a mapping.    *)
LEMMA BindingsStep ==
    ASSUME NEW id, NEW p \in Nat \ {0}
    PROVE  Result!Bindings(id, p + 1) =
             Result!Bindings(id, p) \cup
               (IF Record(p).kind = "mapping" /\ Record(p).id = id THEN {p} ELSE {})
<1>1. 1..((p + 1) - 1) = (1..(p - 1)) \cup {p}
  OBVIOUS
<1> QED
  BY <1>1, SameRecords DEF Result!Bindings

LEMMA LatestIsLast ==
    ASSUME NEW p \in Nat, NEW S, p \in S, S \subseteq 1..p
    PROVE  Result!Latest(S) = p
<1>1. \A q \in S : (\A r \in S : r <= q) => q = p
  OBVIOUS
<1>2. \A r \in S : r <= p
  OBVIOUS
<1> QED
  BY <1>1, <1>2 DEF Result!Latest

LEMMA BoundByMapping ==
    ASSUME NEW p \in Nat \ {0}, Record(p).kind = "mapping"
    PROVE  /\ Result!Bindings(Record(p).id, p + 1) # {}
           /\ SymbolOf(Record(p).id, p + 1) = Record(p).symbol
<1> DEFINE S == Result!Bindings(Record(p).id, p + 1)
<1>1. p \in S /\ S \subseteq 1..p
  BY SameRecords DEF Result!Bindings
<1>2. Result!Latest(S) = p
  BY <1>1, LatestIsLast
<1> QED
  BY <1>1, <1>2 DEF SymbolOf

LEMMA NotRebound ==
    ASSUME NEW id, NEW p \in Nat \ {0}, ~(Record(p).kind = "mapping" /\ Record(p).id = id)
    PROVE  /\ Result!Bindings(id, p + 1) = Result!Bindings(id, p)
           /\ SymbolOf(id, p + 1) = SymbolOf(id, p)
BY BindingsStep DEF SymbolOf

(* ObserveSymbolMapping leaves the strings it stored before where they are.     *)
LEMMA ObservePool ==
    ASSUME TypeOK, NEW r, IsRecord(r), Observe(r)
    PROVE  /\ pool' \in Seq(Symbols)
           /\ Len(pool') \in Nat /\ Len(pool) \in Nat /\ Len(pool) <= Len(pool')
           /\ \A i \in 1..Len(pool) : pool'[i] = pool[i]
           /\ live' \in [Ids -> 0..Len(pool')]
           /\ live'[r.id] # 0 /\ pool'[live'[r.id]] = r.symbol
           /\ \A id \in Ids : id # r.id => live'[id] = live[id]
<1>1. /\ pool \in Seq(Symbols) /\ live \in [Ids -> 0..Len(pool)] /\ Len(pool) \in Nat
      /\ r.id \in Ids /\ r.symbol \in Symbols
  BY DEF TypeOK, IsRecord
<1>2. CASE Unchanged(r)
  <2>1. pool' = pool /\ live' = live
    BY <1>2 DEF Observe, trackVars
  <2> QED
    BY <1>1, <1>2, <2>1 DEF Unchanged
<1>3. CASE ~Unchanged(r)
  <2>1. pool' = Append(pool, r.symbol) /\ live' = [live EXCEPT ![r.id] = Len(pool) + 1]
    BY <1>3 DEF Observe
  <2>2. /\ pool' \in Seq(Symbols) /\ Len(pool') = Len(pool) + 1
        /\ \A i \in 1..Len(pool) : pool'[i] = pool[i]
        /\ pool'[Len(pool) + 1] = r.symbol
    BY <1>1, <2>1
  <2>3. live' \in [Ids -> 0..Len(pool')]
    BY <1>1, <2>1, <2>2
  <2> QED
    BY <1>1, <2>1, <2>2, <2>3
<1> QED
  BY <1>2, <1>3

-----------------------------------------------------------------------------
(* The stream and the query never change.                                      *)
LEMMA SameStream ==
    ASSUME UNCHANGED <<stream, query>>
    PROVE  /\ Length' = Length
           /\ \A p : Record(p)' = Record(p)
           /\ \A id, p : Result!Bindings(id, p)' = Result!Bindings(id, p)
           /\ \A id, p : SymbolOf(id, p)' = SymbolOf(id, p)
           /\ \A p : Result!SymbolAt(p)' = Result!SymbolAt(p)
           /\ \A p : Result!Accepts(p)' <=> Result!Accepts(p)
           /\ \A p : Result!Wanted(p)' <=> Result!Wanted(p)
           /\ \A p, q : Result!Rows(p, q)' = Result!Rows(p, q)
<1>0. \A S : Result!Latest(S)' = Result!Latest(S)
  BY DEF Result!Latest
<1>1. /\ Length' = Length
      /\ \A p : Record(p)' = Record(p)
      /\ \A p : Result!Record(p)' = Result!Record(p)
  BY DEF Length, Record, Result!Record
<1>2. \A id, p : Result!Bindings(id, p)' = Result!Bindings(id, p)
  BY <1>1 DEF Result!Bindings
<1>3. \A id, p : SymbolOf(id, p)' = SymbolOf(id, p)
  BY <1>1, <1>2, <1>0 DEF SymbolOf
<1>4. \A p : Result!SymbolAt(p)' = Result!SymbolAt(p)
  BY <1>1, <1>2, <1>0 DEF Result!SymbolAt
<1>5. \A p : Result!Accepts(p)' <=> Result!Accepts(p)
  BY <1>1 DEF Result!Accepts
<1>6. \A p : Result!Wanted(p)' <=> Result!Wanted(p)
  BY <1>1, <1>4, <1>5 DEF Result!Wanted
<1>7. \A p, q : Result!Rows(p, q)' = Result!Rows(p, q)
  BY <1>4, <1>6 DEF Result!Rows, Result!Row
<1> QED
  BY <1>1, <1>2, <1>3, <1>4, <1>5, <1>6, <1>7

LEMMA InitIInv == Init => IInv
<1> SUFFICES ASSUME Init PROVE IInv
  OBVIOUS
<1>1. Length \in Nat
  BY StreamOK DEF Init
<1>2. TypeOK
  BY <1>1, VectorSizeAssumption DEF Init, TypeOK, Slots
<1>3. \A id : Result!Bindings(id, 1) = {}
  BY DEF Result!Bindings
<1>4. LiveInv
  BY <1>3 DEF Init, LiveInv
<1>5. DeliveredIsWanted
  BY DEF Init, DeliveredIsWanted, Result!Rows
<1> QED
  BY <1>2, <1>4, <1>5 DEF Init, IInv, SnapshotIsCurrent, ChunkInOrder, ChunkInv, InChunk,
    ScannedInv, ResetInv, FilledInv, IdleInv, FinishedInv

(* Steps that change nothing the parts about bindings and deliveries speak of.  *)
LEMMA LiveKept ==
    ASSUME IInv, UNCHANGED <<stream, query, pool, live, pos>>
    PROVE  LiveInv'
BY SameStream DEF IInv, LiveInv

LEMMA DeliveredKept ==
    ASSUME IInv, UNCHANGED <<stream, query, delivered, covered>>
    PROVE  DeliveredIsWanted'
BY SameStream DEF IInv, DeliveredIsWanted

LEMMA SnapshotKept ==
    ASSUME IInv, UNCHANGED <<stream, query, pool, rows, count, scratch>>, pc # "idle"
    PROVE  SnapshotIsCurrent'
BY SameStream DEF IInv, SnapshotIsCurrent

LEMMA StartChunkIInv ==
    ASSUME IInv, StartChunk, UNCHANGED <<covered, delivered>>,
           \A p \in (covered + 1)..pos : ~Result!Wanted(p)
    PROVE  IInv'
<1>1. /\ UNCHANGED <<stream, query, pos, pool, live, rows, data, covered, delivered>>
      /\ count' = 0 /\ invalid' = {} /\ pc' = "scan"
      /\ scratch' = IF query.symbols THEN [n \in Slots |-> 0] ELSE scratch
  BY DEF StartChunk, trackVars
<1>2. TypeOK'
  BY <1>1, SameStream, VectorSizeAssumption DEF IInv, TypeOK, Slots
<1>3. LiveInv' /\ DeliveredIsWanted'
  BY <1>1, LiveKept, DeliveredKept
<1>4. ChunkInv'
  BY <1>1, SameStream DEF ChunkInv
<1> QED
  BY <1>1, <1>2, <1>3, <1>4 DEF IInv, SnapshotIsCurrent, ChunkInOrder, ScannedInv, ResetInv, FilledInv,
    IdleInv, FinishedInv

LEMMA GetChunkIInv ==
    ASSUME IInv, GetChunk
    PROVE  IInv'
<1>1. covered = pos /\ pos \in Nat
  BY StreamOK DEF GetChunk, IInv, IdleInv, TypeOK
<1>2. (covered + 1)..pos = {}
  BY <1>1
<1> QED
  BY <1>2, StartChunkIInv DEF GetChunk

-----------------------------------------------------------------------------
(* Records taken by the inner scan.                                            *)

LEMMA TakeFacts ==
    ASSUME IInv, NEW kinds, Take(kinds)
    PROVE  /\ pc = "scan" /\ count < VectorSize /\ count \in Nat /\ pos \in Nat
           /\ covered \in 0..pos /\ pos + 1 \in 1..Length /\ Length \in Nat
           /\ IsRecord(Record(pos + 1)) /\ Record(pos + 1).kind \in kinds
           /\ pos' = pos + 1
           /\ (covered + 1)..(pos + 1) = ((covered + 1)..pos) \cup {pos + 1}
<1>1. TypeOK /\ Length \in Nat /\ VectorSize \in Nat
  BY StreamOK, VectorSizeAssumption DEF IInv, TypeOK
<1>2. pos \in Nat /\ count \in Nat /\ covered \in 0..pos /\ pos + 1 \in 1..Length
  BY <1>1 DEF TypeOK, Take
<1> QED
  BY <1>1, <1>2, StreamOK DEF TypeOK, Take

LEMMA LiveStep ==
    ASSUME IInv, UNCHANGED <<stream, query, live, pool>>, pos \in Nat, pos' = pos + 1,
           Record(pos + 1).kind # "mapping"
    PROVE  LiveInv'
<1>1. (pos + 1) + 1 = pos' + 1 /\ pos + 1 \in Nat \ {0}
  OBVIOUS
<1>2. \A id : /\ Result!Bindings(id, pos' + 1) = Result!Bindings(id, pos + 1)
              /\ SymbolOf(id, pos' + 1) = SymbolOf(id, pos + 1)
  BY <1>1, NotRebound
<1> QED
  BY <1>2, SameStream DEF IInv, LiveInv

(* A record that is not wanted only moves the reader on.                       *)
LEMMA PassIInv ==
    ASSUME IInv, NEW kinds, Take(kinds), UNCHANGED <<stream, query, chunkVars, covered, delivered, pc>>,
           pool' \in Seq(Symbols), live' \in [Ids -> 0..Len(pool')], Len(pool) <= Len(pool'),
           Len(pool) \in Nat, Len(pool') \in Nat,
           \A i \in 1..Len(pool) : pool'[i] = pool[i],
           LiveInv', ~Result!Wanted(pos + 1)
    PROVE  IInv'
<1>1. /\ UNCHANGED <<rows, count, scratch, data, invalid>>
      /\ pc = "scan" /\ pc' = "scan" /\ pos' = pos + 1 /\ pos \in Nat /\ pos + 1 \in 1..Length
      /\ Length \in Nat
      /\ covered \in 0..pos /\ count \in Nat /\ count < VectorSize
  BY TakeFacts DEF chunkVars
<1>2. TypeOK'
  <2>1. rows' \in [Slots -> 0..pos'] /\ scratch' \in [Slots -> 0..Len(pool')]
    BY <1>1 DEF IInv, TypeOK
  <2> QED
    BY <1>1, <2>1, SameStream DEF IInv, TypeOK
<1>3. SnapshotIsCurrent'
  <2>1. \A n \in 1..count : scratch[n] \in 0..Len(pool)
    BY <1>1, VectorSizeAssumption DEF IInv, TypeOK, Slots
  <2> QED
    BY <1>1, <2>1, SameStream DEF IInv, SnapshotIsCurrent
<1>4. ChunkInv'
  <2>1. \A n \in 1..count : rows[n] \in (covered + 1)..(pos + 1) /\ Result!Accepts(rows[n])
    BY <1>1 DEF IInv, ChunkInv, InChunk
  <2>2. \A p \in (covered + 1)..(pos + 1) : Result!Wanted(p) => \E n \in 1..count : rows[n] = p
    BY <1>1, TakeFacts DEF IInv, ChunkInv, InChunk
  <2> QED
    BY <1>1, <2>1, <2>2, SameStream DEF ChunkInv
<1> QED
  BY <1>1, <1>2, <1>3, <1>4, DeliveredKept DEF IInv, ChunkInOrder, ScannedInv, ResetInv, FilledInv,
    IdleInv, FinishedInv

LEMMA NotRowNotWanted ==
    ASSUME NEW p, Record(p).kind # "row" \/ ~Record(p).header
    PROVE  ~Result!Wanted(p)
BY SameRecords DEF Result!Wanted, Result!Accepts

LEMMA PoolKept ==
    ASSUME IInv, UNCHANGED trackVars
    PROVE  /\ UNCHANGED <<pool, live>>
           /\ pool' \in Seq(Symbols) /\ live' \in [Ids -> 0..Len(pool')] /\ Len(pool) <= Len(pool')
           /\ Len(pool) \in Nat /\ Len(pool') \in Nat
           /\ \A i \in 1..Len(pool) : pool'[i] = pool[i]
BY DEF trackVars, IInv, TypeOK

LEMMA SkipIInv ==
    ASSUME IInv, SkipRecord \/ RejectRow
    PROVE  IInv'
<1>1. PICK kinds : /\ Take(kinds) /\ "mapping" \notin kinds
                   /\ Record(pos + 1).kind # "row" \/ ~Record(pos + 1).header
  BY DEF SkipRecord, RejectRow, Take
<1>2. UNCHANGED <<stream, query, trackVars, chunkVars, covered, delivered, pc>>
  BY DEF SkipRecord, RejectRow
<1>3. LiveInv'
  BY <1>1, <1>2, TakeFacts, LiveStep, PoolKept
<1> QED
  BY <1>1, <1>2, <1>3, PoolKept, NotRowNotWanted, PassIInv

LEMMA ObserveIInv ==
    ASSUME IInv, ObserveSymbolMapping
    PROVE  IInv'
<1> DEFINE r == Record(pos + 1)
<1>1. /\ Take({"mapping"}) /\ r.kind = "mapping" /\ IsRecord(r)
      /\ pos \in Nat /\ pos' = pos + 1
      /\ UNCHANGED <<stream, query, chunkVars, covered, delivered, pc>>
  BY TakeFacts DEF ObserveSymbolMapping
<1>2. ~Result!Wanted(pos + 1)
  BY <1>1, NotRowNotWanted
<1>3. CASE ~query.symbols
  <2>1. UNCHANGED trackVars
    BY <1>3 DEF ObserveSymbolMapping
  <2>2. LiveInv'
    BY <1>1, <1>3 DEF LiveInv
  <2> QED
    BY <1>1, <1>2, <2>1, <2>2, PoolKept, PassIInv
<1>4. CASE query.symbols
  <2>1. Observe(r) /\ TypeOK
    BY <1>4 DEF ObserveSymbolMapping, IInv
  <2>2. /\ pool' \in Seq(Symbols)
        /\ Len(pool') \in Nat /\ Len(pool) \in Nat /\ Len(pool) <= Len(pool')
        /\ \A i \in 1..Len(pool) : pool'[i] = pool[i]
        /\ live' \in [Ids -> 0..Len(pool')]
        /\ live'[r.id] # 0 /\ pool'[live'[r.id]] = r.symbol
        /\ \A id \in Ids : id # r.id => live'[id] = live[id]
    BY <1>1, <2>1, ObservePool
  <2>3. ASSUME NEW id \in Ids
        PROVE  /\ live'[id] = 0 => Result!Bindings(id, pos + 2) = {}
               /\ live'[id] # 0 =>
                    /\ Result!Bindings(id, pos + 2) # {}
                    /\ pool'[live'[id]] = SymbolOf(id, pos + 2)
    <3>1. (pos + 1) + 1 = pos + 2 /\ pos + 1 \in Nat \ {0}
      BY <1>1
    <3>2. CASE id = r.id
      BY <1>1, <2>2, <3>1, <3>2, BoundByMapping
    <3>3. CASE id # r.id
      <4>1. /\ Result!Bindings(id, pos + 2) = Result!Bindings(id, pos + 1)
            /\ SymbolOf(id, pos + 2) = SymbolOf(id, pos + 1)
        BY <3>1, <3>3, NotRebound
      <4>2. live[id] # 0 => live[id] \in 1..Len(pool)
        BY <2>1, <2>2 DEF TypeOK
      <4> QED
        BY <1>4, <2>2, <3>3, <4>1, <4>2 DEF IInv, LiveInv
    <3> QED
      BY <3>2, <3>3
  <2>4. LiveInv'
    <3>1. pos' + 1 = pos + 2
      BY <1>1
    <3> QED
      BY <1>1, <2>3, <3>1, SameStream DEF LiveInv
  <2> QED
    BY <1>1, <1>2, <2>2, <2>4, PassIInv
<1> QED
  BY <1>3, <1>4

LEMMA EmitRowIInv ==
    ASSUME IInv, EmitRow
    PROVE  IInv'
<1> DEFINE r == Record(pos + 1)
<1>1. /\ Take({"row"}) /\ r.kind = "row" /\ r.header /\ r.id \in Ids
      /\ rows' = [rows EXCEPT ![count + 1] = pos + 1]
      /\ scratch' = IF query.symbols THEN [scratch EXCEPT ![count + 1] = live[r.id]] ELSE scratch
      /\ count' = count + 1
      /\ UNCHANGED <<stream, query, pool, live, data, invalid, covered, delivered, pc>>
  BY TakeFacts DEF EmitRow, trackVars, IsRecord
<1>2. /\ pc = "scan" /\ count \in Nat /\ count < VectorSize /\ VectorSize \in Nat
      /\ pos \in Nat /\ pos' = pos + 1 /\ covered \in 0..pos
      /\ pos + 1 \in 1..Length /\ Length \in Nat
      /\ (covered + 1)..(pos + 1) = ((covered + 1)..pos) \cup {pos + 1}
  BY <1>1, TakeFacts, VectorSizeAssumption
<1>3. /\ rows \in [Slots -> 0..pos] /\ scratch \in [Slots -> 0..Len(pool)]
      /\ live \in [Ids -> 0..Len(pool)] /\ count + 1 \in Slots
      /\ 1..(count + 1) = (1..count) \cup {count + 1} /\ 1..count \subseteq Slots
  <2>1. /\ rows \in [Slots -> 0..pos] /\ scratch \in [Slots -> 0..Len(pool)]
        /\ live \in [Ids -> 0..Len(pool)]
    BY DEF IInv, TypeOK
  <2>2. count + 1 \in Slots /\ 1..count \subseteq Slots
    BY <1>2 DEF Slots
  <2>3. 1..(count + 1) = (1..count) \cup {count + 1}
    BY <1>2
  <2> QED
    BY <2>1, <2>2, <2>3
<1>4. /\ \A n \in 1..count : rows'[n] = rows[n] /\ scratch'[n] = scratch[n]
      /\ rows'[count + 1] = pos + 1
      /\ query.symbols => scratch'[count + 1] = live[r.id]
  BY <1>1, <1>2, <1>3
<1>5. TypeOK'
  <2>1. rows' \in [Slots -> 0..pos'] /\ scratch' \in [Slots -> 0..Len(pool)] /\ count' \in 0..VectorSize
    BY <1>1, <1>2, <1>3
  <2>2. covered \in 0..pos' /\ pos' \in 0..Length
    BY <1>2
  <2> QED
    BY <1>1, <2>1, <2>2, SameStream DEF IInv, TypeOK, Slots
<1>6. LiveInv'
  BY <1>1, <1>2, LiveStep
<1>7. SnapshotIsCurrent'
  <2>1. query.symbols => IF live[r.id] = 0 THEN Result!SymbolAt(pos + 1) = NoSymbol
                         ELSE pool[live[r.id]] = Result!SymbolAt(pos + 1)
    BY <1>1, SymbolAtIsSymbolOf DEF IInv, LiveInv, SymbolOf
  <2>2. query.symbols => \A n \in 1..count :
            IF scratch[n] = 0 THEN Result!SymbolAt(rows[n]) = NoSymbol
                              ELSE pool[scratch[n]] = Result!SymbolAt(rows[n])
    BY <1>2 DEF IInv, SnapshotIsCurrent
  <2> QED
    BY <1>1, <1>3, <1>4, <2>1, <2>2, SameStream DEF SnapshotIsCurrent
<1>8. ChunkInv'
  <2>1. Result!Accepts(pos + 1)
    BY <1>1, SameRecords DEF Result!Accepts
  <2>2. /\ \A n \in 1..count : rows[n] \in (covered + 1)..pos /\ Result!Accepts(rows[n])
        /\ \A p \in (covered + 1)..pos : Result!Wanted(p) => \E n \in 1..count : rows[n] = p
    BY <1>2 DEF IInv, ChunkInv, InChunk
  <2>3. \A n \in 1..(count + 1) : rows'[n] \in (covered + 1)..(pos + 1) /\ Result!Accepts(rows'[n])
    BY <1>2, <1>3, <1>4, <2>1, <2>2
  <2>4. \A p \in (covered + 1)..(pos + 1) : Result!Wanted(p) => \E n \in 1..(count + 1) : rows'[n] = p
    BY <1>2, <1>3, <1>4, <2>2
  <2> QED
    BY <1>1, <1>2, <2>3, <2>4, SameStream DEF ChunkInv
<1>9. ChunkInOrder'
  <2>1. \A n \in 1..count : rows[n] > covered /\ \A m \in 1..(n - 1) : rows[m] < rows[n]
    BY <1>2 DEF IInv, ChunkInOrder
  <2>2. \A n \in 1..count : rows[n] \in 0..pos
    BY <1>3
  <2>3. ASSUME NEW n \in 1..(count + 1)
        PROVE  rows'[n] > covered /\ \A m \in 1..(n - 1) : rows'[m] < rows'[n]
    <3>1. CASE n \in 1..count
      <4>1. \A m \in 1..(n - 1) : m \in 1..count
        BY <1>2, <3>1
      <4> QED
        BY <1>4, <2>1, <3>1, <4>1
    <3>2. CASE n = count + 1
      <4>1. \A m \in 1..(n - 1) : m \in 1..count
        BY <1>2, <3>2
      <4>2. \A m \in 1..(n - 1) : rows'[m] \in 0..pos
        BY <1>4, <2>2, <4>1
      <4> QED
        BY <1>2, <1>4, <3>2, <4>2
    <3> QED
      BY <1>3, <3>1, <3>2
  <2> QED
    BY <1>1, <2>3 DEF ChunkInOrder
<1> QED
  BY <1>1, <1>2, <1>5, <1>6, <1>7, <1>8, <1>9, DeliveredKept DEF IInv, ScannedInv, ResetInv, FilledInv,
    IdleInv, FinishedInv

LEMMA ThrowIInv ==
    ASSUME IInv, SizeMismatch \/ ReaderThrows
    PROVE  IInv'
<1>1. /\ UNCHANGED <<stream, query, pool, live, rows, count, scratch, data, invalid, covered, delivered>>
      /\ pc = "scan" /\ pc' = "failed"
  BY DEF SizeMismatch, ReaderThrows, Take, trackVars, chunkVars
<1>2. /\ pos \in Nat /\ covered \in 0..pos
      /\ pos' \in {pos, pos + 1} /\ pos' \in 0..Length /\ LiveInv'
  <2>1. CASE SizeMismatch
    BY <1>1, <2>1, TakeFacts, LiveStep DEF SizeMismatch
  <2>2. CASE ReaderThrows
    BY <1>1, <2>2, LiveKept, StreamOK DEF ReaderThrows, IInv, TypeOK
  <2> QED
    BY <2>1, <2>2
<1>3. TypeOK'
  <2>1. rows \in [Slots -> 0..pos'] /\ covered \in 0..pos'
    BY <1>2 DEF IInv, TypeOK
  <2> QED
    BY <1>1, <1>2, <2>1, SameStream DEF IInv, TypeOK
<1> QED
  BY <1>1, <1>2, <1>3, SnapshotKept, DeliveredKept DEF IInv, ChunkInOrder, ChunkInv, InChunk,
    ScannedInv, ResetInv, FilledInv, IdleInv, FinishedInv

LEMMA InnerReturnsIInv ==
    ASSUME IInv, InnerReturns
    PROVE  IInv'
<1>1. /\ UNCHANGED <<stream, query, pos, pool, live, rows, count, scratch, data, invalid, covered, delivered>>
      /\ pc = "scan" /\ pc' = "scanned"
      /\ count = VectorSize \/ (pos = Length /\ stream.clean)
  BY DEF InnerReturns, trackVars, chunkVars
<1>2. TypeOK' /\ ChunkInOrder'
  BY <1>1, SameStream DEF IInv, TypeOK, ChunkInOrder
<1>3. ChunkInv' /\ ScannedInv'
  BY <1>1, SameStream DEF IInv, ChunkInv, InChunk, ScannedInv
<1> QED
  BY <1>1, <1>2, <1>3, LiveKept, SnapshotKept, DeliveredKept DEF IInv, ResetInv, FilledInv, IdleInv, FinishedInv

-----------------------------------------------------------------------------
(* Between two chunks.                                                         *)

LEMMA RowsSplit ==
    ASSUME NEW a \in Nat, NEW b \in Nat, a <= b
    PROVE  Result!Rows(1, b) = Result!Rows(1, a) \cup Result!Rows(a + 1, b)
<1>1. 1..b = (1..a) \cup ((a + 1)..b)
  OBVIOUS
<1> QED
  BY <1>1 DEF Result!Rows

LEMMA ReturnEmptyIInv ==
    ASSUME IInv, ReturnEmpty
    PROVE  IInv' /\ stream.clean /\ pos = Length /\ Result!Rows(covered + 1, pos) = {}
<1>1. /\ UNCHANGED <<stream, query, pos, pool, live, rows, count, scratch, data, invalid, delivered>>
      /\ pc = "scanned" /\ pc' = "finished" /\ count = 0 /\ covered' = pos
  BY DEF ReturnEmpty, trackVars, chunkVars
<1>2. /\ pos = Length /\ stream.clean /\ pos \in Nat /\ covered \in Nat /\ covered <= pos
      /\ pos \in 0..Length
  BY <1>1, VectorSizeAssumption, StreamOK DEF IInv, ScannedInv, TypeOK
<1>3. \A p \in (covered + 1)..pos : ~Result!Wanted(p)
  BY <1>1 DEF IInv, ChunkInv, InChunk
<1>4. Result!Rows(covered + 1, pos) = {}
  BY <1>3 DEF Result!Rows
<1>5. TypeOK'
  <2>1. covered' \in 0..pos'
    BY <1>1, <1>2
  <2> QED
    BY <1>1, <2>1, SameStream DEF IInv, TypeOK
<1>6. DeliveredIsWanted'
  <2>1. delivered = Result!Rows(1, pos)
    <3>1. Result!Rows(1, pos) = Result!Rows(1, covered) \cup Result!Rows(covered + 1, pos)
      BY <1>2, RowsSplit
    <3> QED
      BY <1>4, <3>1 DEF IInv, DeliveredIsWanted
  <2>2. \A p, q : Result!Rows(p, q)' = Result!Rows(p, q)
    BY <1>1, SameStream
  <2> QED
    BY <1>1, <2>1, <2>2 DEF DeliveredIsWanted
<1>7. IdleInv' /\ FinishedInv'
  BY <1>1, <1>2, SameStream DEF IdleInv, FinishedInv
<1>8. LiveInv' /\ SnapshotIsCurrent'
  BY <1>1, LiveKept, SnapshotKept
<1> QED
  BY <1>1, <1>2, <1>4, <1>5, <1>6, <1>7, <1>8
  DEF IInv, ChunkInOrder, ChunkInv, InChunk, ScannedInv, ResetInv, FilledInv

LEMMA FillSymbolColumnIInv ==
    ASSUME IInv, FillSymbolColumn
    PROVE  IInv'
<1>1. /\ UNCHANGED <<stream, query, pos, pool, live, rows, count, scratch, covered, delivered>>
      /\ pc = "scanned" /\ pc' = "filter" /\ count > 0
  BY DEF FillSymbolColumn, trackVars
<1>2. /\ data \in [Slots -> Symbols \cup {NoSymbol}] /\ scratch \in [Slots -> 0..Len(pool)]
      /\ pool \in Seq(Symbols) /\ Len(pool) \in Nat /\ 1..count \subseteq Slots /\ invalid = {}
      /\ count \in Nat
  BY <1>1, VectorSizeAssumption DEF IInv, TypeOK, Slots, ResetInv
<1>3. CASE query.symbols /\ query.shown
  <2>1. /\ data' = [n \in Slots |->
                      IF n <= count /\ scratch[n] # 0 THEN pool[scratch[n]] ELSE data[n]]
        /\ invalid' = {n \in 1..count : scratch[n] = 0}
    BY <1>2, <1>3 DEF FillSymbolColumn
  <2>2. \A n \in Slots : scratch[n] # 0 => pool[scratch[n]] \in Symbols
    BY <1>2
  <2>3. data' \in [Slots -> Symbols \cup {NoSymbol}] /\ invalid' \subseteq Slots
    BY <1>2, <2>1, <2>2
  <2>4. TypeOK'
    BY <1>1, <2>3, SameStream DEF IInv, TypeOK
  <2>5. ASSUME NEW n \in 1..count
        PROVE  (IF n \in invalid' THEN NoSymbol ELSE data'[n]) = Result!SymbolAt(rows[n])
    <3>1. n \in Slots /\ n <= count
      BY <1>2
    <3>2. IF scratch[n] = 0 THEN Result!SymbolAt(rows[n]) = NoSymbol
                            ELSE pool[scratch[n]] = Result!SymbolAt(rows[n])
      BY <1>1, <1>3 DEF IInv, SnapshotIsCurrent
    <3> QED
      BY <2>1, <3>1, <3>2
  <2>6. FilledInv'
    BY <1>1, <1>3, <2>5, SameStream DEF FilledInv, Symbol
  <2> QED
    BY <1>1, <2>4, <2>6, SameStream, LiveKept, SnapshotKept, DeliveredKept
    DEF IInv, ChunkInOrder, ChunkInv, InChunk, ScannedInv, ResetInv, IdleInv, FinishedInv
<1>4. CASE ~(query.symbols /\ query.shown)
  <2>1. UNCHANGED <<data, invalid>> /\ ~query.shown
    BY <1>4, QueriesAssumption DEF FillSymbolColumn, IInv, TypeOK
  <2>2. TypeOK'
    BY <1>1, <2>1, SameStream DEF IInv, TypeOK
  <2> QED
    BY <1>1, <2>1, <2>2, SameStream, LiveKept, SnapshotKept, DeliveredKept
    DEF IInv, ChunkInOrder, ChunkInv, InChunk, ScannedInv, ResetInv, FilledInv, IdleInv, FinishedInv
<1> QED
  BY <1>3, <1>4

(* The body filter keeps the wanted rows, under the symbols ScanResult gives.   *)
LEMMA SelectedIsWanted ==
    ASSUME IInv, pc = "filter", NEW n \in 1..count
    PROVE  /\ n \in Selected <=> Result!Wanted(rows[n])
           /\ [at |-> rows[n], symbol |-> Symbol(n)] = Result!Row(rows[n])
<1>1. Result!Accepts(rows[n]) /\ query \in Queries
  BY DEF IInv, ChunkInv, InChunk, TypeOK
<1>2. query.shown => Symbol(n) = Result!SymbolAt(rows[n])
  BY DEF IInv, FilledInv
<1>3. ~query.shown => Symbol(n) = NoColumn
  BY DEF Symbol
<1>4. query.symbol # AnySymbol => query.shown
  BY <1>1, QueriesAssumption
<1>5. n \in Selected <=> Result!Wanted(rows[n])
  BY <1>1, <1>2, <1>4, SameRecords DEF Selected, Result!Wanted
<1>6. [at |-> rows[n], symbol |-> Symbol(n)] = Result!Row(rows[n])
  BY <1>2, <1>3, SameRecords DEF Result!Row
<1> QED
  BY <1>5, <1>6

(* The slice is the wanted part of what was read since the last chunk.         *)
LEMMA ChunkRows ==
    ASSUME IInv, pc = "filter"
    PROVE  /\ {[at |-> rows[n], symbol |-> Symbol(n)] : n \in Selected} = Result!Rows(covered + 1, pos)
           /\ Selected = {} => \A p \in (covered + 1)..pos : ~Result!Wanted(p)
<1>1. \A n \in Selected : n \in 1..count
  BY DEF Selected
<1>2. \A n \in 1..count : rows[n] \in (covered + 1)..pos
  BY DEF IInv, ChunkInv, InChunk
<1>3. \A p \in (covered + 1)..pos : Result!Wanted(p) => \E n \in 1..count : rows[n] = p
  BY DEF IInv, ChunkInv, InChunk
<1>4. \A p \in (covered + 1)..pos : Result!Wanted(p) => \E n \in Selected : rows[n] = p
  BY <1>3, SelectedIsWanted
<1>5. \A n \in Selected : /\ rows[n] \in (covered + 1)..pos /\ Result!Wanted(rows[n])
                          /\ [at |-> rows[n], symbol |-> Symbol(n)] = Result!Row(rows[n])
  BY <1>1, <1>2, SelectedIsWanted
<1>6. {[at |-> rows[n], symbol |-> Symbol(n)] : n \in Selected} = {Result!Row(rows[n]) : n \in Selected}
  BY <1>5
<1>7. {Result!Row(rows[n]) : n \in Selected} = Result!Rows(covered + 1, pos)
  BY <1>4, <1>5 DEF Result!Rows
<1> QED
  BY <1>4, <1>6, <1>7

LEMMA ReturnChunkIInv ==
    ASSUME IInv, ReturnChunk
    PROVE  IInv'
<1>1. /\ UNCHANGED <<stream, query, pos, pool, live, rows, count, scratch, data, invalid>>
      /\ pc = "filter" /\ pc' = "idle" /\ covered' = pos
      /\ delivered' = delivered \cup {[at |-> rows[n], symbol |-> Symbol(n)] : n \in Selected}
  BY DEF ReturnChunk, trackVars, chunkVars
<1>2. pos \in Nat /\ covered \in Nat /\ covered <= pos
  BY StreamOK DEF IInv, TypeOK
<1>3. TypeOK'
  <2>1. covered' \in 0..pos'
    BY <1>1, <1>2
  <2> QED
    BY <1>1, <2>1, SameStream DEF IInv, TypeOK
<1>4. DeliveredIsWanted'
  <2>1. delivered' = Result!Rows(1, covered) \cup Result!Rows(covered + 1, pos)
    BY <1>1, ChunkRows DEF IInv, DeliveredIsWanted
  <2>2. delivered' = Result!Rows(1, pos)
    BY <1>2, <2>1, RowsSplit
  <2>3. \A p, q : Result!Rows(p, q)' = Result!Rows(p, q)
    BY <1>1, SameStream
  <2> QED
    BY <1>1, <2>2, <2>3 DEF DeliveredIsWanted
<1>5. LiveInv'
  BY <1>1, LiveKept
<1> QED
  BY <1>1, <1>3, <1>4, <1>5
  DEF IInv, SnapshotIsCurrent, ChunkInOrder, ChunkInv, InChunk, ScannedInv, ResetInv, FilledInv,
    IdleInv, FinishedInv

LEMMA ContinueLoopIInv ==
    ASSUME IInv, ContinueLoop
    PROVE  IInv'
BY ChunkRows, StartChunkIInv DEF ContinueLoop

LEMMA StutterIInv ==
    ASSUME IInv, UNCHANGED vars
    PROVE  IInv'
<1>1. UNCHANGED <<stream, query, pos, pool, live, rows, count, scratch, data, invalid,
                  covered, delivered, pc>>
  BY DEF vars, trackVars, chunkVars
<1>2. TypeOK' /\ ChunkInOrder'
  BY <1>1, SameStream DEF IInv, TypeOK, ChunkInOrder
<1>3. LiveInv' /\ DeliveredIsWanted' /\ ChunkInv'
  BY <1>1, LiveKept, DeliveredKept, SameStream DEF IInv, ChunkInv, InChunk
<1>4. SnapshotIsCurrent'
  BY <1>1, SameStream DEF IInv, SnapshotIsCurrent
<1>5. FilledInv'
  BY <1>1, SameStream DEF IInv, FilledInv, Symbol
<1> QED
  BY <1>1, <1>2, <1>3, <1>4, <1>5, SameStream DEF IInv, ScannedInv, ResetInv, IdleInv, FinishedInv

LEMMA NextIInv == IInv /\ [Next]_vars => IInv'
<1> SUFFICES ASSUME IInv, [Next]_vars
             PROVE  IInv'
  OBVIOUS
<1>1. CASE GetChunk
  BY <1>1, GetChunkIInv
<1>2. CASE ObserveSymbolMapping
  BY <1>2, ObserveIInv
<1>3. CASE SkipRecord \/ RejectRow
  BY <1>3, SkipIInv
<1>4. CASE SizeMismatch \/ ReaderThrows
  BY <1>4, ThrowIInv
<1>5. CASE EmitRow
  BY <1>5, EmitRowIInv
<1>6. CASE InnerReturns
  BY <1>6, InnerReturnsIInv
<1>7. CASE ReturnEmpty
  BY <1>7, ReturnEmptyIInv
<1>8. CASE FillSymbolColumn
  BY <1>8, FillSymbolColumnIInv
<1>9. CASE ReturnChunk
  BY <1>9, ReturnChunkIInv
<1>10. CASE ContinueLoop
  BY <1>10, ContinueLoopIInv
<1>11. CASE UNCHANGED vars
  BY <1>11, StutterIInv
<1> QED
  BY <1>1, <1>2, <1>3, <1>4, <1>5, <1>6, <1>7, <1>8, <1>9, <1>10, <1>11 DEF Next, ScanStep, Over

-----------------------------------------------------------------------------
(* Every step of the scan is a step of ScanResult, or changes nothing there.   *)

LEMMA InitScanResult == Init => Result!Init
BY DEF Init, Result!Init

LEMMA Unseen ==
    ASSUME UNCHANGED <<stream, query, covered, delivered>>,
           pc \notin {"finished", "failed"}, pc' \notin {"finished", "failed"}
    PROVE  UNCHANGED Result!vars
BY DEF Result!vars

LEMMA ReturnChunkIsChunk ==
    ASSUME IInv, ReturnChunk
    PROVE  Result!Chunk
<1>1. /\ UNCHANGED <<stream, query>> /\ pc = "filter" /\ pc' = "idle" /\ covered' = pos
      /\ Selected # {}
      /\ delivered' = delivered \cup {[at |-> rows[n], symbol |-> Symbol(n)] : n \in Selected}
  BY DEF ReturnChunk
<1>2. delivered' = delivered \cup Result!Rows(covered + 1, pos)
  BY <1>1, ChunkRows
<1>3. Result!Rows(covered + 1, pos) # {}
  BY <1>1, ChunkRows
<1>4. pos \in (covered + 1)..Length
  <2>1. PICK n \in 1..count : rows[n] \in (covered + 1)..pos
    BY <1>1 DEF Selected, IInv, ChunkInv, InChunk
  <2>2. pos \in 0..Length /\ covered \in 0..pos /\ Length \in Nat
    BY StreamOK DEF IInv, TypeOK
  <2> QED
    BY <2>1, <2>2
<1> QED
  BY <1>1, <1>2, <1>3, <1>4, SameRecords DEF Result!Chunk

LEMMA ReturnEmptyIsFinish ==
    ASSUME IInv, ReturnEmpty
    PROVE  Result!Finish
<1>1. stream.clean /\ pos = Length /\ Result!Rows(covered + 1, pos) = {}
  BY ReturnEmptyIInv
<1> QED
  BY <1>1, SameRecords DEF ReturnEmpty, Result!Finish

LEMMA ThrowIsFail ==
    ASSUME IInv, SizeMismatch \/ ReaderThrows
    PROVE  Result!Fail
<1>1. /\ UNCHANGED <<stream, query, covered, delivered>> /\ pc = "scan" /\ pc' = "failed"
  BY DEF SizeMismatch, ReaderThrows, Take
<1>2. ~stream.clean \/ \E p \in (covered + 1)..Length : Record(p).kind = "wrong_size"
  <2>1. CASE SizeMismatch
    <3>1. Record(pos + 1).kind = "wrong_size" /\ pos + 1 \in 1..Length /\ covered \in 0..pos
          /\ pos \in Nat /\ Length \in Nat
      BY <2>1, TakeFacts DEF SizeMismatch
    <3>2. pos + 1 \in (covered + 1)..Length
      BY <3>1
    <3> QED
      BY <3>1, <3>2
  <2>2. CASE ReaderThrows
    BY <2>2 DEF ReaderThrows
  <2> QED
    BY <2>1, <2>2
<1> QED
  BY <1>1, <1>2, SameRecords DEF Result!Fail

LEMMA ScanStepsAreResultSteps == IInv /\ [Next]_vars => [Result!Next]_(Result!vars)
<1> SUFFICES ASSUME IInv, [Next]_vars
             PROVE  [Result!Next]_(Result!vars)
  OBVIOUS
<1>1. CASE GetChunk \/ ContinueLoop
  BY <1>1, Unseen DEF GetChunk, ContinueLoop, StartChunk
<1>2. CASE ObserveSymbolMapping \/ SkipRecord \/ RejectRow \/ EmitRow
  BY <1>2, Unseen DEF ObserveSymbolMapping, SkipRecord, RejectRow, EmitRow, Take
<1>3. CASE SizeMismatch \/ ReaderThrows
  BY <1>3, ThrowIsFail DEF Result!Next
<1>4. CASE InnerReturns \/ FillSymbolColumn
  BY <1>4, Unseen DEF InnerReturns, FillSymbolColumn
<1>5. CASE ReturnEmpty
  BY <1>5, ReturnEmptyIsFinish DEF Result!Next
<1>6. CASE ReturnChunk
  BY <1>6, ReturnChunkIsChunk DEF Result!Next
<1>7. CASE UNCHANGED vars
  BY <1>7 DEF vars, Result!vars
<1> QED
  BY <1>1, <1>2, <1>3, <1>4, <1>5, <1>6, <1>7 DEF Next, ScanStep, Over

(* symbol_pool_ only grows.                                                    *)
LEMMA PoolGrows ==
    ASSUME IInv, [Next]_vars
    PROVE  \A i \in 1..Len(pool) : i <= Len(pool') /\ pool'[i] = pool[i]
<1>1. Len(pool) \in Nat
  BY DEF IInv, TypeOK
<1>2. CASE ObserveSymbolMapping
  <2>1. CASE query.symbols
    <3>1. IsRecord(Record(pos + 1)) /\ Observe(Record(pos + 1)) /\ TypeOK
      BY <1>2, <2>1, TakeFacts DEF ObserveSymbolMapping, IInv
    <3> QED
      BY <3>1, ObservePool
  <2>2. CASE ~query.symbols
    BY <1>1, <1>2, <2>2 DEF ObserveSymbolMapping, trackVars
  <2> QED
    BY <2>1, <2>2
<1>3. CASE ~ObserveSymbolMapping
  <2>1. pool' = pool
    BY <1>3 DEF Next, ScanStep, Over, GetChunk, StartChunk, SkipRecord, SizeMismatch, RejectRow,
      EmitRow, ReaderThrows, InnerReturns, ReturnEmpty, FillSymbolColumn, ReturnChunk,
      ContinueLoop, trackVars, vars
  <2> QED
    BY <1>1, <2>1
<1> QED
  BY <1>2, <1>3

-----------------------------------------------------------------------------
(* The inductive invariant holds of every scan.                                *)
THEOREM ScanInvariant == Spec => []IInv
<1>1. Init => IInv
  BY InitIInv
<1>2. IInv /\ [Next]_vars => IInv'
  BY NextIInv
<1> QED
  BY <1>1, <1>2, PTL DEF Spec

(* Every slot index, snapshot and cursor of the scan stays in range: n never    *)
(* passes STANDARD_VECTOR_SIZE and no snapshot points past symbol_pool_.        *)
THEOREM ScanTypeCorrect == Spec => []TypeOK
<1>1. IInv => TypeOK
  BY DEF IInv
<1> QED
  BY <1>1, ScanInvariant, PTL

(* The symbol snapshotted for a row is the one bound where the row stands in    *)
(* the stream, whatever mappings the same chunk reads later.                    *)
THEOREM SnapshotCorrect == Spec => []SnapshotIsCurrent
<1>1. IInv => SnapshotIsCurrent
  BY DEF IInv
<1> QED
  BY <1>1, ScanInvariant, PTL

(* A chunk holds its rows in stream order, after those of earlier chunks.       *)
THEOREM ChunkOrderCorrect == Spec => []ChunkInOrder
<1>1. IInv => ChunkInOrder
  BY DEF IInv
<1> QED
  BY <1>1, ScanInvariant, PTL

(* The chunks returned so far hold exactly the wanted rows of the stream up to  *)
(* where the last one ended, each with its symbol.                              *)
THEOREM DeliveredCorrect == Spec => []DeliveredIsWanted
<1>1. IInv => DeliveredIsWanted
  BY DEF IInv
<1> QED
  BY <1>1, ScanInvariant, PTL

(* ScanWithBodyFilter returns an empty chunk only when every wanted row of the  *)
(* whole stream was returned before it.                                         *)
THEOREM EmptyEndCorrect == Spec => []EmptyOnlyAtEnd
<1>1. IInv => EmptyOnlyAtEnd
  BY DEF IInv, EmptyOnlyAtEnd, FinishedInv, DeliveredIsWanted
<1> QED
  BY <1>1, ScanInvariant, PTL

(* No step moves or changes a string symbol_pool_ holds, so the snapshots of a  *)
(* chunk stay good until it is filled.                                          *)
THEOREM PoolCorrect == Spec => PoolIsStable
<1>1. IInv /\ [Next]_vars => [\A i \in 1..Len(pool) : i <= Len(pool') /\ pool'[i] = pool[i]]_vars
  BY PoolGrows
<1> QED
  BY <1>1, ScanInvariant, PTL DEF Spec, PoolIsStable

(* Seen from DuckDB, which gets a chunk, an empty chunk or an exception, the    *)
(* scan is ScanResult.                                                          *)
THEOREM ScanImplementsResult == Spec => ImplementsScanResult
<1>1. Init => Result!Init
  BY InitScanResult
<1>2. IInv /\ [Next]_vars => [Result!Next]_(Result!vars)
  BY ScanStepsAreResultSteps
<1> QED
  BY <1>1, <1>2, ScanInvariant, PTL DEF Spec, ImplementsScanResult, Result!Spec
-----------------------------------------------------------------------------
(* Chunks end.                                                                 *)
HasRowsInv == pc = "filter" => count > 0

LEMMA NextHasRows ==
    ASSUME IInv, HasRowsInv, [Next]_vars
    PROVE  HasRowsInv'
<1>1. CASE FillSymbolColumn
  BY <1>1 DEF FillSymbolColumn, HasRowsInv
<1>2. CASE UNCHANGED vars
  BY <1>2 DEF vars, chunkVars, HasRowsInv
<1>3. CASE Next /\ ~FillSymbolColumn
  BY <1>3 DEF Next, ScanStep, HasRowsInv, IInv, TypeOK, GetChunk, StartChunk, Take, ObserveSymbolMapping,
              SkipRecord, SizeMismatch, RejectRow, EmitRow, ReaderThrows, InnerReturns, ReturnEmpty,
              ReturnChunk, ContinueLoop, Over, vars, chunkVars
<1> QED
  BY <1>1, <1>2, <1>3

LEMMA Advances ==
    ASSUME IInv, HasRowsInv, Next, InChunk, InChunk'
    PROVE  StepsAhead' < StepsAhead
<1>1. Length \in Nat /\ pos \in Nat /\ pos <= Length /\ count \in Nat
  BY StreamOK, VectorSizeAssumption DEF IInv, TypeOK
<1>2. CASE ObserveSymbolMapping \/ SkipRecord \/ RejectRow
  <2>1. UNCHANGED <<stream, count, pc>> /\ pos' = pos + 1
    BY <1>2 DEF ObserveSymbolMapping, SkipRecord, RejectRow, Take, chunkVars
  <2> DEFINE held == (IF count > 0 THEN 3 ELSE 0)
                        + (CASE pc = "scan" -> 2 [] pc = "scanned" -> 1 [] OTHER -> 0)
  <2>2. Length' = Length /\ held' = held
    BY <2>1 DEF Length
  <2>3. held \in Nat
    OBVIOUS
  <2>4. StepsAhead = 4 * (Length - pos) + held /\ StepsAhead' = 4 * (Length' - pos') + held'
    BY <1>1, <2>1, <2>2, <2>3 DEF StepsAhead
  <2> HIDE DEF held
  <2> QED
    BY <1>1, <2>1, <2>2, <2>3, <2>4
<1>3. CASE EmitRow
  <2>1. UNCHANGED stream /\ pc = "scan" /\ pc' = "scan" /\ pos' = pos + 1 /\ count' = count + 1
    BY <1>3 DEF EmitRow, Take
  <2>2. Length' = Length
    BY <2>1 DEF Length
  <2>3. StepsAhead' = 4 * (Length - (pos + 1)) + 5
    BY <1>1, <2>1, <2>2 DEF StepsAhead
  <2>4. StepsAhead >= 4 * (Length - pos) + 2
    BY <1>1, <2>1 DEF StepsAhead
  <2>5. StepsAhead \in Int
    BY <1>1 DEF StepsAhead
  <2> QED
    BY <1>1, <2>3, <2>4, <2>5
<1>4. CASE InnerReturns
  <2>1. UNCHANGED <<stream, pos, count>> /\ pc = "scan" /\ pc' = "scanned"
    BY <1>4 DEF InnerReturns, chunkVars
  <2> QED
    BY <1>1, <2>1 DEF StepsAhead, Length
<1>5. CASE FillSymbolColumn
  <2>1. UNCHANGED <<stream, pos, count>> /\ pc = "scanned" /\ pc' = "filter"
    BY <1>5 DEF FillSymbolColumn
  <2> QED
    BY <1>1, <2>1 DEF StepsAhead, Length
<1>6. CASE ContinueLoop
  <2>1. UNCHANGED <<stream, pos>> /\ pc = "filter" /\ pc' = "scan" /\ count' = 0 /\ count > 0
    BY <1>6 DEF ContinueLoop, StartChunk, HasRowsInv
  <2> QED
    BY <1>1, <2>1 DEF StepsAhead, Length
<1>7. CASE GetChunk \/ SizeMismatch \/ ReaderThrows \/ ReturnEmpty \/ ReturnChunk \/ Over
  BY <1>7 DEF GetChunk, SizeMismatch, ReaderThrows, ReturnEmpty, ReturnChunk, Over, InChunk
<1> QED
  BY <1>2, <1>3, <1>4, <1>5, <1>6, <1>7 DEF Next, ScanStep

(* Inside a chunk each step leaves fewer to come, and never fewer than none:      *)
(* ScanWithBodyFilter cannot loop for ever, whatever its filter rejects.         *)
THEOREM ChunksAdvance == Spec => ChunkAdvances /\ [](StepsAhead \in Nat)
<1>1. Init => HasRowsInv
  BY DEF Init, HasRowsInv
<1>2. IInv /\ HasRowsInv /\ [Next]_vars => HasRowsInv'
  BY NextHasRows
<1>3. IInv /\ HasRowsInv /\ [Next]_vars => [InChunk /\ InChunk' => StepsAhead' < StepsAhead]_vars
  BY Advances
<1>4. ASSUME IInv PROVE StepsAhead \in Nat
  <2>1. Length - pos \in Nat
    BY <1>4, StreamOK DEF IInv, TypeOK
  <2> QED
    BY <2>1 DEF StepsAhead
<1> QED
  BY <1>1, <1>2, <1>3, <1>4, ScanInvariant, PTL DEF Spec, ChunkAdvances

=============================================================================
