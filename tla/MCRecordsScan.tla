---------------------------- MODULE MCRecordsScan ----------------------------
(* All streams up to a length of records that pass both filters, the header      *)
(* filter only, or none; with and without filters.                              *)
EXTENDS RecordsScan

CONSTANTS
    MaxLength       \* records in a stream

Row(header, body) ==
    [kind |-> "row", id |-> 1, header |-> header, body |-> body, symbol |-> "a"]

RowStreams ==
    {[records |-> rs, clean |-> clean] :
        rs \in UNION {[1..n -> {Row(TRUE, TRUE), Row(TRUE, FALSE), Row(FALSE, FALSE)}] : n \in 0..MaxLength},
        clean \in BOOLEAN}

RecordQueries ==
    {[symbols |-> FALSE, shown |-> FALSE, filtered |-> f, symbol |-> AnySymbol] : f \in BOOLEAN}

=============================================================================
