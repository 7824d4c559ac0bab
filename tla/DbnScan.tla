------------------------------- MODULE DbnScan -------------------------------
(* One table-function scan: DuckDB asks ScanWithBodyFilter for a chunk; the    *)
(* inner scan pulls records with NextAs until the chunk is full or the stream   *)
(* ends; symbols are snapshotted per row, materialized, and the body filter     *)
(* slices the chunk.  One action per record read and per step of the wrapper.   *)
EXTENDS ScanInput

CONSTANTS
    VectorSize      \* STANDARD_VECTOR_SIZE

ASSUME VectorSizeAssumption == VectorSize \in Nat \ {0}

VARIABLES
    stream,     \* what NextRecordView yields (see RecordStream)
    query,
    pos,        \* the records NextAs has taken from the reader
    pool,       \* symbol_pool_
    live,       \* live_symbols_, 0 where an id has no entry
    rows,       \* the records the slots of the output chunk hold
    count,      \* n, then out.size()
    scratch,    \* sym_scratch, 0 for nullptr
    data,       \* the strings of the symbol column
    invalid,    \* the slots of the symbol column marked NULL
    covered,    \* pos when the last chunk was delivered
    delivered,  \* every row delivered so far
    pc

chunkVars == <<rows, count, scratch, data, invalid>>
trackVars == <<pool, live>>
vars == <<stream, query, pos, trackVars, chunkVars, covered, delivered, pc>>

Result == INSTANCE ScanResult WITH
    upto <- covered, result <- delivered,
    status <- IF pc \in {"finished", "failed"} THEN pc ELSE "open"

Record(p) == stream.records[p]
Length == Len(stream.records)
Slots == 1..VectorSize

Init ==
    /\ stream \in Streams
    /\ query \in Queries
    /\ pos = 0
    /\ pool = <<>>
    /\ live = [id \in Ids |-> 0]
    /\ rows = [n \in Slots |-> 0]
    /\ count = 0
    /\ scratch = [n \in Slots |-> 0]
    /\ data = [n \in Slots |-> NoSymbol]
    /\ invalid = {}
    /\ covered = 0
    /\ delivered = {}
    /\ pc = "idle"

(* Slips: the chunk is not reset; n starts where it was.                        *)
StartChunkUnreset ==
    /\ count' = 0
    /\ scratch' = IF query.symbols THEN [n \in Slots |-> 0] ELSE scratch
    /\ pc' = "scan"
    /\ UNCHANGED <<stream, query, pos, trackVars, rows, data, invalid>>

StartChunkKeepsCount ==
    /\ scratch' = IF query.symbols THEN [n \in Slots |-> 0] ELSE scratch
    /\ invalid' = {}
    /\ pc' = "scan"
    /\ UNCHANGED <<stream, query, pos, trackVars, rows, data, count>>

(* sym_scratch.fill(nullptr), out.Reset() and the call of Inner.               *)
StartChunk ==
    /\ count' = 0
    /\ scratch' = IF query.symbols THEN [n \in Slots |-> 0] ELSE scratch
    /\ invalid' = {}
    /\ pc' = "scan"
    /\ UNCHANGED <<stream, query, pos, trackVars, rows, data>>

(* DuckDB asks for the next chunk.                                             *)
GetChunk == pc = "idle" /\ StartChunk /\ UNCHANGED <<covered, delivered>>

-----------------------------------------------------------------------------
(* The loop of the inner scan, one record of NextAs at a time.                 *)

(* A slip: the loop does not look at n.                                        *)
TakeBeyond(kinds) ==
    /\ pc = "scan"
    /\ pos < Length
    /\ Record(pos + 1).kind \in kinds
    /\ pos' = pos + 1

Take(kinds) ==
    /\ pc = "scan"
    /\ count < VectorSize
    /\ pos < Length
    /\ Record(pos + 1).kind \in kinds
    /\ pos' = pos + 1

(* ObserveSymbolMapping, and the skip of a record of another rtype.            *)
Rebound(r) == live[r.id] # 0    \* a slip: any entry counts as unchanged

Unchanged(r) == live[r.id] # 0 /\ pool[live[r.id]] = r.symbol

(* A slip: the string is overwritten where it is.                              *)
ObserveInPlace(r) ==
    IF live[r.id] # 0
    THEN /\ pool' = [pool EXCEPT ![live[r.id]] = r.symbol]
         /\ UNCHANGED live
    ELSE /\ pool' = Append(pool, r.symbol)
         /\ live' = [live EXCEPT ![r.id] = Len(pool) + 1]

Observe(r) ==
    IF Unchanged(r) THEN UNCHANGED trackVars
    ELSE /\ pool' = Append(pool, r.symbol)
         /\ live' = [live EXCEPT ![r.id] = Len(pool) + 1]

ObserveSymbolMapping ==
    /\ Take({"mapping"})
    /\ IF query.symbols THEN Observe(Record(pos + 1)) ELSE UNCHANGED trackVars
    /\ UNCHANGED <<stream, query, chunkVars, covered, delivered, pc>>

SkipRecord ==
    /\ Take({"other", "odd_mapping"})
    /\ UNCHANGED <<stream, query, trackVars, chunkVars, covered, delivered, pc>>

SizeMismatch ==
    /\ Take({"wrong_size"})
    /\ pc' = "failed"
    /\ UNCHANGED <<stream, query, trackVars, chunkVars, covered, delivered>>

(* header_filter.Matches rejects the record.                                   *)
RejectRow ==
    /\ Take({"row"})
    /\ ~Record(pos + 1).header
    /\ UNCHANGED <<stream, query, trackVars, chunkVars, covered, delivered, pc>>

(* NoteSymbol and the writes of the row.                                       *)
EmitRow ==
    /\ Take({"row"})
    /\ Record(pos + 1).header
    /\ rows' = [rows EXCEPT ![count + 1] = pos + 1]
    /\ scratch' = IF query.symbols
                  THEN [scratch EXCEPT ![count + 1] = live[Record(pos + 1).id]]
                  ELSE scratch
    /\ count' = count + 1
    /\ UNCHANGED <<stream, query, trackVars, data, invalid, covered, delivered, pc>>

(* NextRecordView throws instead of answering nullptr.                         *)
ReaderThrows ==
    /\ pc = "scan"
    /\ count < VectorSize
    /\ pos = Length
    /\ ~stream.clean
    /\ pc' = "failed"
    /\ UNCHANGED <<stream, query, pos, trackVars, chunkVars, covered, delivered>>

InnerReturns ==
    /\ pc = "scan"
    /\ count = VectorSize \/ (pos = Length /\ stream.clean)
    /\ pc' = "scanned"
    /\ UNCHANGED <<stream, query, pos, trackVars, chunkVars, covered, delivered>>

-----------------------------------------------------------------------------
(* ScanWithBodyFilter, after Inner.                                            *)

(* An empty chunk: PhysicalTableScan takes it for the end of the scan.         *)
ReturnEmpty ==
    /\ pc = "scanned"
    /\ count = 0
    /\ pc' = "finished"
    /\ covered' = pos
    /\ UNCHANGED <<stream, query, pos, trackVars, chunkVars, delivered>>

FillSymbolColumn ==
    /\ pc = "scanned"
    /\ count > 0
    /\ IF query.symbols /\ query.shown
       THEN /\ data' = [n \in Slots |->
                          IF n <= count /\ scratch[n] # 0 THEN pool[scratch[n]] ELSE data[n]]
            /\ invalid' = invalid \cup {n \in 1..count : scratch[n] = 0}
       ELSE UNCHANGED <<data, invalid>>
    /\ pc' = "filter"
    /\ UNCHANGED <<stream, query, pos, trackVars, rows, count, scratch, covered, delivered>>

Symbol(n) ==
    IF ~query.shown THEN NoColumn
    ELSE IF n \in invalid THEN NoSymbol ELSE data[n]

(* EvalBodyFilterExpr: the rows the slice keeps.                               *)
Selected ==
    {n \in 1..count :
        query.filtered =>
            /\ Record(rows[n]).body
            /\ query.symbol # AnySymbol => Symbol(n) = query.symbol}

ReturnChunk ==
    /\ pc = "filter"
    /\ Selected # {}
    /\ delivered' = delivered \cup {[at |-> rows[n], symbol |-> Symbol(n)] : n \in Selected}
    /\ covered' = pos
    /\ pc' = "idle"
    /\ UNCHANGED <<stream, query, pos, trackVars, chunkVars>>

(* Slips: the emptied chunk is returned; the loop does not call Inner again.   *)
ReturnEmptiedChunk ==
    /\ pc = "filter"
    /\ Selected = {}
    /\ pc' = "finished"
    /\ covered' = pos
    /\ UNCHANGED <<stream, query, pos, trackVars, chunkVars, delivered>>

ContinueWithoutInner == pc = "filter" /\ Selected = {} /\ UNCHANGED vars

(* The filter rejected the whole chunk: not the end, so the loop goes on.      *)
ContinueLoop ==
    /\ pc = "filter"
    /\ Selected = {}
    /\ StartChunk
    /\ UNCHANGED <<covered, delivered>>

-----------------------------------------------------------------------------
ScanStep ==
    \/ ObserveSymbolMapping \/ SkipRecord \/ SizeMismatch \/ RejectRow \/ EmitRow
    \/ ReaderThrows \/ InnerReturns \/ ReturnEmpty \/ FillSymbolColumn
    \/ ReturnChunk \/ ContinueLoop

Over == pc \in {"finished", "failed"} /\ UNCHANGED vars

Next == GetChunk \/ ScanStep \/ Over

(* A chunk that was asked for is worked on until it is returned; a query with  *)
(* a LIMIT may never ask for another.                                          *)
Spec == Init /\ [][Next]_vars /\ WF_vars(ScanStep)

-----------------------------------------------------------------------------
(* The fields of the scan: the inner loop fills at most STANDARD_VECTOR_SIZE    *)
(* slots, and no snapshot points past symbol_pool_.                             *)
TypeOK ==
    /\ stream \in Streams
    /\ query \in Queries
    /\ pos \in 0..Length
    /\ pool \in Seq(Symbols)
    /\ live \in [Ids -> 0..Len(pool)]
    /\ rows \in [Slots -> 0..pos]
    /\ count \in 0..VectorSize
    /\ scratch \in [Slots -> 0..Len(pool)]
    /\ data \in [Slots -> Symbols \cup {NoSymbol}]
    /\ invalid \subseteq Slots
    /\ covered \in 0..pos
    /\ pc \in {"idle", "scan", "scanned", "filter", "finished", "failed"}

(* The snapshot of every row in the chunk is the symbol in force where the row  *)
(* stands in the stream, not where the chunk ended: mappings read later in the  *)
(* same chunk do not reach back.                                                *)
SnapshotIsCurrent ==
    query.symbols /\ pc # "idle" =>
        \A n \in 1..count :
            IF scratch[n] = 0 THEN Result!SymbolAt(rows[n]) = NoSymbol
                              ELSE pool[scratch[n]] = Result!SymbolAt(rows[n])

(* The strings behind pointers handed out earlier never change: a rebinding     *)
(* appends to symbol_pool_.                                                     *)
PoolIsStable == [][\A i \in 1..Len(pool) : i <= Len(pool') /\ pool'[i] = pool[i]]_vars

(* The rows of a chunk are in stream order and come after every row delivered   *)
(* before.                                                                      *)
ChunkInOrder ==
    pc \in {"scan", "scanned", "filter"} =>
        \A n \in 1..count : rows[n] > covered /\ \A m \in 1..(n - 1) : rows[m] < rows[n]

(* What has been delivered is exactly the wanted part of what was read, with    *)
(* the right symbols: no row is lost to the header filter, the body filter, a   *)
(* chunk boundary or a chunk the filter emptied, and none it should not have is  *)
(* added.  That none comes twice is ChunkInOrder's part.                        *)
DeliveredIsWanted == delivered = Result!Rows(1, covered)

(* An empty chunk is returned only when every wanted record was delivered: an   *)
(* earlier one would make PhysicalTableScan stop.                               *)
EmptyOnlyAtEnd ==
    pc = "finished" => pos = Length /\ delivered = Result!Rows(1, Length)

(* A chunk that was asked for is returned, or the scan throws.                  *)
ChunkReturns == pc = "scan" ~> pc \in {"idle", "finished", "failed"}

(* The steps that a chunk may still take: every record is read once, is written  *)
(* into at most one chunk, and that chunk is judged once.                       *)
StepsAhead ==
    4 * (Length - pos) + (IF count > 0 THEN 3 ELSE 0)
        + (CASE pc = "scan" -> 2 [] pc = "scanned" -> 1 [] OTHER -> 0)
InChunk == pc \in {"scan", "scanned", "filter"}

(* The loop of ScanWithBodyFilter scans again only after it read on: each step    *)
(* leaves fewer to come, across the chunks the filter empties.                  *)
ChunkAdvances == [][InChunk /\ InChunk' => StepsAhead' < StepsAhead]_vars

(* The chunks of the scan are those of ScanResult.                              *)
ImplementsScanResult == Result!Spec

=============================================================================
