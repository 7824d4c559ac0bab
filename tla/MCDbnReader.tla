---------------------------- MODULE MCDbnReader ----------------------------
(* Small files for DbnReader: lengths count bytes, a header has two, a trailer *)
(* one and the metadata block three.                                           *)
EXTENDS DbnReader

CONSTANTS
    MaxRecords,     \* records per file
    Lengths,        \* the length fields that occur
    Tails,          \* bytes of an unfinished record at the end of a file
    Damages         \* the values of damaged

MetaBytes == 3

Bodies == UNION {[1..n -> Lengths] : n \in 0..MaxRecords}

(* Where record k of the body starts, and where the body ends.                 *)
Start(body, ts, k) ==
    LET total[n \in 0..(k - 1)] ==
            IF n = 0 THEN MetaBytes ELSE total[n - 1] + body[n] + ts
    IN  total[k - 1]

BodyEnd(body, ts) == Start(body, ts, Len(body) + 1)

(* A file with these records and then tail bytes of one more of length last.   *)
MakeFile(body, tail, last, ts, damaged, schema) ==
    LET trailer == IF ts THEN TrailerLen ELSE 0
        end     == BodyEnd(body, trailer)
    IN  [magic   |-> IF damaged THEN "zstd" ELSE "dbn",
         size    |-> end + tail,
         damaged |-> damaged,
         prefix  |-> TRUE,
         frame   |-> 1,
         tsOut   |-> ts,
         schema  |-> schema,
         version |-> 3,
         length  |-> [at \in 0..(end + tail - 1) |->
                        IF \E k \in DOMAIN body : Start(body, trailer, k) = at
                        THEN body[CHOOSE k \in DOMAIN body : Start(body, trailer, k) = at]
                        ELSE IF at = end THEN last ELSE 0]]

Whole(body, ts, schema) == MakeFile(body, 0, 0, ts, FALSE, schema)

SingleFiles ==
    {<<MakeFile(body, tail, last, ts, damaged, "trades")>> :
        body \in Bodies, tail \in Tails, last \in {3}, ts \in BOOLEAN, damaged \in Damages}

(* Files no reader opens, one for each check that fails.                       *)
Good == Whole(<<3>>, FALSE, "trades")
Unreadable ==
    {[Good EXCEPT !.magic = m] : m \in {"missing", "short", "other"}}
    \cup {[Good EXCEPT !.size = 1, !.length = [at \in 0..0 |-> 0]],
          [Good EXCEPT !.size = 2, !.length = [at \in 0..1 |-> 0]],
          [Good EXCEPT !.frame = 0],
          [Good EXCEPT !.magic = "zstd", !.prefix = FALSE],
          [Good EXCEPT !.magic = "zstd", !.size = 2, !.damaged = TRUE,
                       !.length = [at \in 0..1 |-> 0]]}

SomeFiles ==
    {Good, Whole(<<>>, FALSE, "trades"), Whole(<<2, 4>>, FALSE, "trades"),
     Whole(<<3, 2>>, TRUE, "trades"), Whole(<<2>>, FALSE, "mbo"),
     [Good EXCEPT !.version = 2],
     MakeFile(<<2>>, 1, 0, FALSE, FALSE, "trades"),
     MakeFile(<<3>>, 2, 4, FALSE, TRUE, "trades")}
    \cup Unreadable

MCInputs ==
    SingleFiles \cup {<<f>> : f \in Unreadable} \cup SomeFiles \X SomeFiles
    \cup {Whole(<<>>, FALSE, "trades"), Good} \X {Whole(<<>>, FALSE, "trades"), Good} \X SomeFiles

=============================================================================
