----------------------------- MODULE MCDbnScan -----------------------------
(* All streams up to a length of rows and symbol mappings, and of rows the       *)
(* filters accept and reject; every kind of query.                             *)
EXTENDS DbnScan

CONSTANTS
    MaxMapped,      \* records in a stream with symbol mappings
    MaxFiltered,    \* records in a stream with rows the filters reject
    MaxOdd          \* records in a stream with odd ones

MCIds == {1, 2}
MCSymbols == {"a", "b"}

R(kind, id, header, body, symbol) ==
    [kind |-> kind, id |-> id, header |-> header, body |-> body, symbol |-> symbol]

MappedRecords ==
    {R("row", id, TRUE, TRUE, "a") : id \in MCIds} \cup {R("mapping", 1, FALSE, FALSE, s) : s \in MCSymbols}

FilteredRecords ==
    {R("row", 1, TRUE, TRUE, "a"), R("row", 1, FALSE, TRUE, "a"), R("row", 1, TRUE, FALSE, "a"),
     R("mapping", 1, FALSE, FALSE, "a")}

OddRecords ==
    {R("wrong_size", 1, TRUE, TRUE, "a"), R("odd_mapping", 1, FALSE, FALSE, "b"),
     R("other", 1, FALSE, FALSE, "a"), R("row", 1, TRUE, TRUE, "a"), R("mapping", 1, FALSE, FALSE, "a")}

UpTo(most, records) == UNION {[1..n -> records] : n \in 0..most}

MCStreams ==
    {[records |-> rs, clean |-> clean] :
        rs \in UpTo(MaxMapped, MappedRecords) \cup UpTo(MaxFiltered, FilteredRecords)
              \cup UpTo(MaxOdd, OddRecords),
        clean \in BOOLEAN}

Query(symbols, shown, filtered, symbol) ==
    [symbols |-> symbols, shown |-> shown, filtered |-> filtered, symbol |-> symbol]

MCQueries ==
    {Query(TRUE, TRUE, FALSE, AnySymbol), Query(TRUE, FALSE, TRUE, AnySymbol), Query(TRUE, TRUE, TRUE, "a"),
     Query(FALSE, FALSE, FALSE, AnySymbol), Query(FALSE, FALSE, TRUE, AnySymbol)}

=============================================================================
