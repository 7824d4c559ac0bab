----------------------------- MODULE ByteSource -----------------------------
(* What IDbnInput promises the record reader: each Read hands over the next   *)
(* bytes of the capture, in order and each once; it hands over fewer than it   *)
(* was asked for only when the capture has no more, or it throws because the    *)
(* compressed file is damaged.                                                 *)
EXTENDS Integers

CONSTANTS
    Sources,    \* [content, damaged]: the bytes that decode, and whether an error follows
    Requests    \* the byte counts callers ask for

VARIABLES
    source,     \* the capture being read
    delivered,  \* how many of its bytes earlier calls have handed over
    asked,      \* what the call that is under way was asked for, 0 between calls
    answer,     \* what the last call returned
    fault       \* what was thrown

vars == <<source, delivered, asked, answer, fault>>

Left == source.content - delivered

Bytes(from, count) == [i \in 0..(count - 1) |-> from + i]

NoAnswer == [asked |-> 0, bytes |-> Bytes(0, 0)]

Init ==
    /\ source \in Sources
    /\ delivered = 0
    /\ asked = 0
    /\ answer = NoAnswer
    /\ fault = "none"

Read(n) ==
    /\ asked = 0
    /\ fault = "none"
    /\ asked' = n
    /\ answer' = NoAnswer
    /\ UNCHANGED <<source, delivered, fault>>

Return(count) ==
    /\ answer' = [asked |-> asked, bytes |-> Bytes(delivered, count)]
    /\ delivered' = delivered + count
    /\ asked' = 0
    /\ UNCHANGED <<source, fault>>

Full == asked > 0 /\ fault = "none" /\ asked <= Left /\ Return(asked)

EndOfFile ==
    /\ asked > 0
    /\ fault = "none"
    /\ asked > Left
    /\ ~source.damaged
    /\ Return(Left)

(* The error may show when the last good bytes are decoded, before anybody has *)
(* asked for more.                                                             *)
Damaged ==
    /\ asked > 0
    /\ fault = "none"
    /\ asked >= Left
    /\ source.damaged
    /\ fault' = "decompression_error"
    /\ UNCHANGED <<source, delivered, asked, answer>>

Next ==
    \/ \E n \in Requests : Read(n)
    \/ Full \/ EndOfFile \/ Damaged
    \/ fault # "none" /\ UNCHANGED vars

(* A call always comes to an end.                                             *)
Spec == Init /\ [][Next]_vars /\ WF_vars(Full \/ EndOfFile \/ Damaged)

=============================================================================
