----------------------------- MODULE ScanResult -----------------------------
(* What a scan of one schema promises its query: the wanted records of the     *)
(* stream, each with the symbol bound to its instrument when the record        *)
(* appeared, in chunks that follow one another in the stream and are empty only *)
(* at the end.  The order of the rows inside a chunk is not stated here.        *)
EXTENDS ScanInput

VARIABLES
    stream,     \* the records and how they end
    query,
    upto,       \* the position in the stream the chunks so far cover
    result,     \* the rows delivered, named by their position
    status      \* "open", "finished" or "failed"

vars == <<stream, query, upto, result, status>>

Length == Len(stream.records)
Record(p) == stream.records[p]

(* The mappings in force for an id just before position p.                     *)
Bindings(id, p) ==
    {q \in 1..(p - 1) : Record(q).kind = "mapping" /\ Record(q).id = id}
Latest(S) == CHOOSE q \in S : \A r \in S : r <= q
SymbolAt(p) ==
    LET S == Bindings(Record(p).id, p)
    IN  IF S = {} THEN NoSymbol ELSE Record(Latest(S)).symbol

Accepts(p) == Record(p).kind = "row" /\ Record(p).header
Wanted(p) ==
    /\ Accepts(p)
    /\ query.filtered =>
        /\ Record(p).body
        /\ query.symbol # AnySymbol => SymbolAt(p) = query.symbol

Row(p) == [at |-> p, symbol |-> IF query.shown THEN SymbolAt(p) ELSE NoColumn]
Rows(from, to) == {Row(p) : p \in {p \in from..to : Wanted(p)}}

Init ==
    /\ stream \in Streams
    /\ query \in Queries
    /\ upto = 0
    /\ result = {}
    /\ status = "open"

Chunk ==
    /\ status = "open"
    /\ \E p \in (upto + 1)..Length :
        /\ Rows(upto + 1, p) # {}
        /\ result' = result \cup Rows(upto + 1, p)
        /\ upto' = p
    /\ UNCHANGED <<stream, query, status>>

Finish ==
    /\ status = "open"
    /\ stream.clean
    /\ Rows(upto + 1, Length) = {}
    /\ status' = "finished"
    /\ upto' = Length
    /\ UNCHANGED <<stream, query, result>>

Fail ==
    /\ status = "open"
    /\ \/ ~stream.clean
       \/ \E p \in (upto + 1)..Length : Record(p).kind = "wrong_size"
    /\ status' = "failed"
    /\ UNCHANGED <<stream, query, upto, result>>

Next == Chunk \/ Finish \/ Fail

Spec == Init /\ [][Next]_vars

=============================================================================
