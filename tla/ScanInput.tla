------------------------------ MODULE ScanInput ------------------------------
(* What a scan of one schema is given: the records NextRecordView yields, and   *)
(* how the query uses the scan.                                                *)
EXTENDS Integers, Sequences

CONSTANTS
    Symbols,    \* output symbols
    Ids,        \* instrument ids
    Streams,    \* the record streams a scan may read
    Queries     \* how a query may use the scan

(* A record is what the scan looks at:                                         *)
(*   kind    "row" (the expected rtype and size), "wrong_size" (the expected    *)
(*           rtype, another size), "mapping" (a SymbolMappingMsg),              *)
(*           "odd_mapping" (one of unrecognized length) or "other"              *)
(*   id      hd.instrument_id                                                   *)
(*   header  whether header_filter.Matches accepts it                           *)
(*   body    whether the filters on body columns other than symbol do           *)
(*   symbol  the symbol a mapping binds to id                                   *)
(* A stream ends cleanly or with an exception of the reader.  A query may ask   *)
(* for symbols, project the symbol column, filter, and filter on the symbol.    *)
NoSymbol == "NULL"
AnySymbol == "any"
NoColumn == "no_column"

IsRecord(r) ==
    /\ r.kind \in {"row", "wrong_size", "mapping", "odd_mapping", "other"}
    /\ r.id \in Ids
    /\ r.symbol \in Symbols

IsStream(s) ==
    /\ Len(s.records) \in Nat
    /\ \A p \in 1..Len(s.records) : IsRecord(s.records[p])

ASSUME StreamsAssumption == \A s \in Streams : IsStream(s)
ASSUME QueriesAssumption ==
    \A q \in Queries :
        /\ q.shown => q.symbols
        /\ q.symbol # AnySymbol => q.shown /\ q.filtered
ASSUME SymbolsAssumption == NoSymbol \notin Symbols

=============================================================================
