----------------------------- MODULE RecordsScan -----------------------------
(* The scan of dbn_records and its own copy of the wrapper: every record of the *)
(* file is a row unless the header filter rejects it, there are no symbols, and  *)
(* the expression of the body filter is built on the first chunk that has rows,  *)
(* and kept.                                                                   *)
EXTENDS ScanInput

CONSTANTS
    VectorSize      \* STANDARD_VECTOR_SIZE

ASSUME VectorSizeAssumption == VectorSize \in Nat \ {0}

(* dbn_records takes every type for its own and projects no symbol.             *)
ASSUME RowsAssumption ==
    /\ \A s \in Streams : \A p \in 1..Len(s.records) : s.records[p].kind = "row"
    /\ \A q \in Queries :
        q.filtered \in BOOLEAN /\ ~q.symbols /\ ~q.shown /\ q.symbol = AnySymbol

VARIABLES
    stream,     \* what NextRecordRaw yields
    query,      \* filtered: there are filters, on whatever columns
    pos,        \* the records taken from the reader
    rows,       \* the records in the chunk, one for each row
    built,      \* body_filter_built
    covered,    \* pos when the last chunk was delivered
    delivered,  \* every row delivered so far
    pc

vars == <<stream, query, pos, rows, built, covered, delivered, pc>>

Result == INSTANCE ScanResult WITH
    upto <- covered, result <- delivered,
    status <- IF pc \in {"finished", "failed"} THEN pc ELSE "open"

Record(p) == stream.records[p]
Length == Len(stream.records)

Init ==
    /\ stream \in Streams
    /\ query \in Queries
    /\ pos = 0
    /\ rows = <<>>
    /\ built = FALSE
    /\ covered = 0
    /\ delivered = {}
    /\ pc = "idle"

(* A slip: the chunk is not reset.                                             *)
StartChunkUnreset ==
    /\ pc' = "scan"
    /\ UNCHANGED <<stream, query, pos, rows>>

(* out.Reset() and the call of DbnRecordsScan.                                 *)
StartChunk ==
    /\ rows' = <<>>
    /\ pc' = "scan"
    /\ UNCHANGED <<stream, query, pos>>

GetChunk == pc = "idle" /\ StartChunk /\ UNCHANGED <<built, covered, delivered>>

(* A slip: the record is taken before the loop looks at n.                      *)
NextRecordEager ==
    /\ pc = "scan"
    /\ pos < Length
    /\ pos' = pos + 1

(* NextRecordRaw, while the chunk has room.                                    *)
NextRecord ==
    /\ pc = "scan"
    /\ Len(rows) < VectorSize
    /\ pos < Length
    /\ pos' = pos + 1

(* A slip: a record fills two rows.                                            *)
EmitRowTwice ==
    /\ NextRecord
    /\ Record(pos + 1).header
    /\ rows' = rows \o <<pos + 1, pos + 1>>
    /\ UNCHANGED <<stream, query, built, covered, delivered, pc>>

EmitRow ==
    /\ NextRecord
    /\ Record(pos + 1).header
    /\ rows' = Append(rows, pos + 1)
    /\ UNCHANGED <<stream, query, built, covered, delivered, pc>>

RejectRow ==
    /\ NextRecord
    /\ ~Record(pos + 1).header
    /\ UNCHANGED <<stream, query, rows, built, covered, delivered, pc>>

ReaderThrows ==
    /\ pc = "scan"
    /\ Len(rows) < VectorSize
    /\ pos = Length
    /\ ~stream.clean
    /\ pc' = "failed"
    /\ UNCHANGED <<stream, query, pos, rows, built, covered, delivered>>

InnerReturns ==
    /\ pc = "scan"
    /\ Len(rows) = VectorSize \/ (pos = Length /\ stream.clean)
    /\ pc' = "scanned"
    /\ UNCHANGED <<stream, query, pos, rows, built, covered, delivered>>

ReturnEmpty ==
    /\ pc = "scanned"
    /\ rows = <<>>
    /\ covered' = pos
    /\ pc' = "finished"
    /\ UNCHANGED <<stream, query, pos, rows, built, delivered>>

(* A slip: only the chunk that builds the expression is filtered.              *)
KeptOnce(n) == query.filtered /\ ~built => Record(rows[n]).body

(* The rows the expression keeps, if there is one: without filters none is built. *)
Kept(n) == query.filtered => Record(rows[n]).body
Selected == {n \in 1..Len(rows) : Kept(n)}

ReturnChunk ==
    /\ pc = "scanned"
    /\ Selected # {}
    /\ delivered' = delivered \cup {[at |-> rows[n], symbol |-> NoColumn] : n \in Selected}
    /\ built' = query.filtered
    /\ covered' = pos
    /\ pc' = "idle"
    /\ UNCHANGED <<stream, query, pos, rows>>

(* A slip: the emptied chunk is returned.                                      *)
ReturnEmptiedChunk ==
    /\ pc = "scanned"
    /\ rows # <<>>
    /\ Selected = {}
    /\ covered' = pos
    /\ pc' = "finished"
    /\ UNCHANGED <<stream, query, pos, rows, built, delivered>>

(* A slip: the loop does not scan again.                                       *)
ContinueWithoutScan ==
    /\ pc = "scanned"
    /\ rows # <<>>
    /\ Selected = {}
    /\ UNCHANGED vars

(* The filter rejected the whole chunk: the loop goes on.                      *)
ContinueLoop ==
    /\ pc = "scanned"
    /\ rows # <<>>
    /\ Selected = {}
    /\ built' = TRUE
    /\ StartChunk
    /\ UNCHANGED <<covered, delivered>>

ScanStep ==
    \/ EmitRow \/ RejectRow \/ ReaderThrows \/ InnerReturns
    \/ ReturnEmpty \/ ReturnChunk \/ ContinueLoop

Over == pc \in {"finished", "failed"} /\ UNCHANGED vars

Next == GetChunk \/ ScanStep \/ Over

(* A chunk that was asked for is worked on until it is returned.               *)
Spec == Init /\ [][Next]_vars /\ WF_vars(ScanStep)

-----------------------------------------------------------------------------
TypeOK ==
    /\ stream \in Streams
    /\ query \in Queries
    /\ pos \in 0..Length
    /\ rows \in Seq(1..pos)
    /\ Len(rows) <= VectorSize
    /\ built \in BOOLEAN
    /\ covered \in 0..pos
    /\ pc \in {"idle", "scan", "scanned", "finished", "failed"}

(* The rows of a chunk are in the order of the file, no record fills two of      *)
(* them, and all come after every row delivered before: the copy of the wrapper  *)
(* neither repeats a row nor hands out a chunk again.                           *)
ChunkInOrder ==
    pc \in {"scan", "scanned"} =>
        \A n \in 1..Len(rows) : rows[n] > covered /\ \A m \in 1..(n - 1) : rows[m] < rows[n]

(* Seen from DuckDB the chunks are those of ScanResult: the copy of the wrapper  *)
(* loses no record and lets none through that the filters reject, applies the    *)
(* expression built on an early chunk to every later one, and returns an empty   *)
(* chunk only at the end.  That no record comes twice is ChunkInOrder's part.    *)
ImplementsScanResult == Result!Spec

(* The steps that a chunk may still take.                                       *)
StepsAhead ==
    3 * (Length - pos) + (IF rows = <<>> THEN 0 ELSE 2) + (IF pc = "scan" THEN 2 ELSE 1)
InChunk == pc \in {"scan", "scanned"}

(* The lambda's loop scans again only after it read on: each step leaves fewer    *)
(* to come, across the chunks the filter empties.                               *)
ChunkAdvances == [][InChunk /\ InChunk' => StepsAhead' < StepsAhead]_vars

(* A chunk that was asked for is returned, or the scan throws.                  *)
ChunkReturns == pc = "scan" ~> pc \in {"idle", "finished", "failed"}

=============================================================================
