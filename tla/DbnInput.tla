------------------------------ MODULE DbnInput ------------------------------
(* The two byte inputs of the decoder, FileInput and ZstdInput.  ZstdInput     *)
(* reads the compressed file block by block into in_buf_ and calls               *)
(* ZSTD_decompressStream until the caller's buffer is full.  The decompressor   *)
(* keeps decoded bytes the destination had no room for, so what was read, what   *)
(* was decoded and what was handed over are three different positions.           *)
(*                                                                               *)
(* A compressed file is the table of what its bytes decode to: decoded[i] is how  *)
(* many bytes of the capture the first i compressed bytes hold.  A byte of the    *)
(* capture is named by its offset.                                                *)
EXTENDS Integers

CONSTANTS
    Files,      \* the files a reader may be given
    InBufSize,  \* ZSTD_DStreamInSize(), the size of in_buf_
    Requests    \* the byte counts callers ask for

(*   zstd     the magic OpenInput found: ZstdInput or FileInput                *)
(*   size     the bytes on disk                                                *)
(*   decoded  see above; a plain file is its own capture                       *)
(*   sound    the leading bytes that decode without an error                   *)
(*   ends     the positions at which a Zstd frame is complete                  *)
IsFile(f) ==
    /\ f.zstd \in BOOLEAN
    /\ f.size \in Nat
    /\ f.decoded \in [0..f.size -> Nat]
    /\ f.decoded[0] = 0
    /\ \A i, j \in 0..f.size : i <= j => f.decoded[i] <= f.decoded[j]
    /\ f.sound \in 0..f.size
    /\ f.ends \subseteq 1..f.size
    /\ ~f.zstd => f.sound = f.size /\ \A i \in 0..f.size : f.decoded[i] = i

ASSUME InputAssumption ==
    /\ InBufSize \in Nat \ {0}
    /\ Requests \subseteq Nat \ {0}
    /\ \A f \in Files : IsFile(f)

VARIABLES
    file,       \* the file that is open
    fpos,       \* the bytes f_ has handed over
    zinSize,    \* zin_.size: the bytes in in_buf_
    zinPos,     \* zin_.pos: those of them the decompressor has taken
    fed,        \* (dstream_) the compressed bytes it has decoded
    held,       \* (dstream_) it has put a frame's last byte back to be called again
    flushed,    \* (dstream_) the decoded bytes it has handed over
    asked,      \* n of the Read that is under way, 0 between calls
    zoutPos,    \* zout.pos
    dst,        \* the caller's buffer, up to zout.pos
    pc,         \* where the call is
    answer,     \* what the last call returned
    fault       \* what was thrown

diskVars == <<file, fpos, zinSize>>
dstreamVars == <<fed, held, flushed>>
callVars == <<asked, zoutPos, dst>>
vars == <<diskVars, zinPos, dstreamVars, callVars, pc, answer, fault>>

Lesser(a, b) == IF a <= b THEN a ELSE b
Nothing == [i \in 0..-1 |-> i]
NoAnswer == [asked |-> 0, bytes |-> Nothing]

Content(f) == f.decoded[f.sound]
Damaged(f) == f.sound < f.size

(* The file has not been cut off inside a frame.                              *)
Whole(f) == f.zstd => f.size = 0 \/ Damaged(f) \/ f.size \in f.ends

Pending == file.decoded[fed] - flushed
Room == asked - zoutPos

Init ==
    /\ file \in Files
    /\ fpos = 0 /\ zinSize = 0 /\ zinPos = 0
    /\ fed = 0 /\ held = FALSE /\ flushed = 0
    /\ asked = 0 /\ zoutPos = 0 /\ dst = Nothing
    /\ pc = "idle"
    /\ answer = NoAnswer
    /\ fault = "none"

Read(n) ==
    /\ pc = "idle"
    /\ asked' = n
    /\ pc' = IF file.zstd THEN "loop" ELSE "read"
    /\ answer' = NoAnswer
    /\ UNCHANGED <<diskVars, zinPos, dstreamVars, zoutPos, dst, fault>>

(* FileInput::Read.                                                           *)
ReadFile ==
    /\ pc = "read"
    /\ LET got == Lesser(asked, file.size - fpos) IN
       /\ fpos' = fpos + got
       /\ answer' = [asked |-> asked, bytes |-> [i \in 0..(got - 1) |-> fpos + i]]
    /\ asked' = 0
    /\ pc' = "idle"
    /\ UNCHANGED <<file, zinSize, zinPos, dstreamVars, zoutPos, dst, fault>>

-----------------------------------------------------------------------------
(* ZstdInput::Read.                                                           *)

(* return zout.pos                                                            *)
Answered ==
    /\ answer' = [asked |-> asked, bytes |-> dst]
    /\ asked' = 0 /\ zoutPos' = 0 /\ dst' = Nothing
    /\ pc' = "idle"

(* A slip: one call of the decompressor is taken to fill the buffer.          *)
ReturnAfterOneCall ==
    /\ pc = "loop"
    /\ Room = 0 \/ zoutPos > 0
    /\ Answered
    /\ UNCHANGED <<diskVars, zinPos, dstreamVars, fault>>

ReturnFull ==
    /\ pc = "loop"
    /\ Room = 0
    /\ Answered
    /\ UNCHANGED <<diskVars, zinPos, dstreamVars, fault>>

InputTaken == pc = "loop" /\ Room > 0 /\ zinPos = zinSize

(* A slip: zin_.pos is not set back.                                          *)
FillInBufKeepingPos ==
    /\ InputTaken
    /\ fpos < file.size
    /\ zinSize' = Lesser(InBufSize, file.size - fpos)
    /\ fpos' = fpos + zinSize'
    /\ pc' = "decompress"
    /\ UNCHANGED <<file, zinPos, dstreamVars, callVars, answer, fault>>

FillInBuf ==
    /\ InputTaken
    /\ fpos < file.size
    /\ zinSize' = Lesser(InBufSize, file.size - fpos)
    /\ fpos' = fpos + zinSize'
    /\ zinPos' = 0
    /\ pc' = "decompress"
    /\ UNCHANGED <<file, dstreamVars, callVars, answer, fault>>

(* A slip: got == 0 is not looked at, and the decompressor called with nothing. *)
EndOfInputGoesOn ==
    /\ InputTaken
    /\ fpos = file.size
    /\ zinSize' = 0
    /\ zinPos' = 0
    /\ pc' = "decompress"
    /\ UNCHANGED <<file, fpos, dstreamVars, callVars, answer, fault>>

(* got == 0: the answer is short.                                             *)
EndOfInput ==
    /\ InputTaken
    /\ fpos = file.size
    /\ Answered
    /\ UNCHANGED <<diskVars, zinPos, dstreamVars, fault>>

CallDecompressor ==
    /\ pc = "loop"
    /\ Room > 0
    /\ zinPos < zinSize
    /\ pc' = "decompress"
    /\ UNCHANGED <<diskVars, zinPos, dstreamVars, callVars, answer, fault>>

-----------------------------------------------------------------------------
(* ZSTD_decompressStream, a step at a time.  It decodes no further before what  *)
(* it has decoded is handed over.                                              *)

NextByte == fpos - zinSize + zinPos + 1
MayDecode == pc = "decompress" /\ Pending = 0 /\ ~held /\ zinPos < zinSize

DecodeByte ==
    /\ MayDecode
    /\ NextByte = fed + 1
    /\ NextByte <= file.sound
    /\ fed' = NextByte
    /\ zinPos' = zinPos + 1
    /\ UNCHANGED <<diskVars, held, flushed, callVars, pc, answer, fault>>

Flush ==
    /\ pc = "decompress"
    /\ Pending > 0
    /\ Room > 0
    /\ LET count == Lesser(Pending, Room) IN
       /\ flushed' = flushed + count
       /\ zoutPos' = zoutPos + count
       /\ dst' = [i \in 0..(zoutPos + count - 1) |->
                     IF i < zoutPos THEN dst[i] ELSE flushed + (i - zoutPos)]
    /\ UNCHANGED <<diskVars, zinPos, fed, held, asked, pc, answer, fault>>

(* Bytes that are damaged, or not the ones that come next.                    *)
Reject ==
    /\ MayDecode
    /\ NextByte # fed + 1 \/ NextByte > file.sound
    /\ fault' = "decompression_error"
    /\ pc' = "failed"
    /\ UNCHANGED <<diskVars, zinPos, dstreamVars, callVars, answer>>

(* It returns when the destination is full.  With output still to come of a    *)
(* frame whose last byte it has taken, it puts that byte back: the caller      *)
(* would otherwise have no reason to call again.                                *)
ReturnHolding ==
    /\ pc = "decompress"
    /\ Pending > 0
    /\ Room = 0
    /\ held' = (held \/ fed \in file.ends)
    /\ zinPos' = IF held' /\ ~held THEN zinPos - 1 ELSE zinPos
    /\ pc' = "loop"
    /\ UNCHANGED <<diskVars, fed, flushed, callVars, answer, fault>>

ReturnReleasing ==
    /\ pc = "decompress"
    /\ Pending = 0
    /\ held
    /\ held' = FALSE
    /\ zinPos' = zinPos + 1
    /\ pc' = "loop"
    /\ UNCHANGED <<diskVars, fed, flushed, callVars, answer, fault>>

ReturnDone ==
    /\ pc = "decompress"
    /\ Pending = 0
    /\ ~held
    /\ zinPos = zinSize \/ Room = 0
    /\ pc' = "loop"
    /\ UNCHANGED <<diskVars, zinPos, dstreamVars, callVars, answer, fault>>

Decompressor == DecodeByte \/ Flush \/ Reject \/ ReturnHolding \/ ReturnReleasing \/ ReturnDone

-----------------------------------------------------------------------------
Serve == ReadFile \/ ReturnFull \/ FillInBuf \/ EndOfInput \/ CallDecompressor \/ Decompressor

(* After an exception the input is not read again.                            *)
Failed == pc = "failed" /\ UNCHANGED vars

Next == (\E n \in Requests : Read(n)) \/ Serve \/ Failed

(* A Read that has begun runs to its end; nobody has to call again.           *)
Spec == Init /\ [][Next]_vars /\ WF_vars(Serve)

-----------------------------------------------------------------------------
(* Properties.                                                                *)

(* The types, with the cursors in order: zin_.pos <= zin_.size <= in_buf_.size() *)
(* and zout.pos <= zout.size, so that neither the file read nor the decompressor *)
(* leaves its buffer.                                                             *)
TypeOK ==
    /\ file \in Files
    /\ fpos \in 0..file.size
    /\ zinSize \in 0..Lesser(InBufSize, fpos)
    /\ zinPos \in 0..zinSize
    /\ fed \in 0..file.sound
    /\ held \in BOOLEAN
    /\ flushed \in 0..file.decoded[fed]
    /\ asked \in Requests \cup {0}
    /\ zoutPos \in 0..Lesser(asked, flushed)
    /\ dst \in [0..(zoutPos - 1) -> Nat]
    /\ pc \in {"idle", "read", "loop", "decompress", "failed"}
    /\ fault \in {"none", "decompression_error"}

(* Whatever block boundaries, frame boundaries and buffer sizes do, a caller    *)
(* sees a ByteSource: nothing lost, repeated or reordered between the file, the  *)
(* decompressor and the destination, a short answer only at the end, and every   *)
(* call answered.  It holds of files that are not cut off inside a frame.        *)
Source == INSTANCE ByteSource WITH
    Sources   <- {[content |-> Content(f), damaged |-> Damaged(f)] : f \in Files},
    source    <- [content |-> Content(file), damaged |-> Damaged(file)],
    delivered <- IF file.zstd THEN flushed - zoutPos ELSE fpos

ImplementsByteSource == Source!Spec

(* "A value < n indicates EOF": after a short answer nothing that the bytes on   *)
(* disk decode to is left.                                                      *)
ShortMeansEnd ==
    pc = "idle" /\ answer.asked > 0
        => \/ DOMAIN answer.bytes = 0..(answer.asked - 1)
           \/ file.decoded[fed] = flushed

=============================================================================
