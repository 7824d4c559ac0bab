--------------------------- MODULE DbnInputProofs ---------------------------
(* Both inputs hand out the capture as a ByteSource does, for every file that  *)
(* is not cut off inside a frame and for every size of in_buf_ and of request. *)
EXTENDS DbnInput, TLAPS

Idle == pc = "idle" => asked = 0 /\ zoutPos = 0
Busy == pc \in {"read", "loop", "decompress", "failed"} => asked \in Requests
FaultInv == fault = "none" <=> pc # "failed"

(* Each input uses its own part of the state.                                 *)
PlainInv == ~file.zstd => pc \in {"idle", "read"} /\ zoutPos = 0
ZstdInv == file.zstd => pc # "read"

(* What the decompressor has decoded is what Read gave it, but for the byte     *)
(* it put back.                                                                *)
FedInv == file.zstd => fed = fpos - zinSize + zinPos + (IF held THEN 1 ELSE 0)
HeldInv == held => zinPos < zinSize /\ fed \in file.ends

(* Outside a call, output is outstanding at the end of a frame only with a     *)
(* byte put back.                                                              *)
FrameInv == pc # "decompress" /\ ~held /\ fed \in file.ends => Pending = 0

(* A frame's last byte whose output is outstanding was taken by this very call. *)
TakenInv == pc = "decompress" /\ ~held /\ fed \in file.ends /\ Pending > 0 => zinPos > 0

DstInv == dst = [i \in 0..(zoutPos - 1) |-> flushed - zoutPos + i]

IInv ==
    /\ TypeOK /\ Idle /\ Busy /\ FaultInv /\ PlainInv /\ ZstdInv
    /\ FedInv /\ HeldInv /\ FrameInv /\ TakenInv /\ DstInv

(* The value Source substitutes for delivered.                                *)
Delivered == IF file.zstd THEN flushed - zoutPos ELSE fpos

-----------------------------------------------------------------------------

LEMMA FileFacts ==
    ASSUME file \in Files
    PROVE  /\ IsFile(file)
           /\ file.size \in Nat
           /\ file.zstd \in BOOLEAN
           /\ file.sound \in 0..file.size
           /\ file.ends \subseteq 1..file.size
           /\ \A i \in 0..file.size : file.decoded[i] \in Nat
           /\ \A i, j \in 0..file.size : i <= j => file.decoded[i] <= file.decoded[j]
BY InputAssumption DEF IsFile

LEMMA LesserFacts ==
    \A a, b \in Int : /\ Lesser(a, b) \in {a, b}
                      /\ Lesser(a, b) <= a
                      /\ Lesser(a, b) <= b
BY DEF Lesser

(* The types of the numbers, without the operators TypeOK is stated with.      *)
LEMMA Numbers ==
    ASSUME IInv
    PROVE  /\ fpos \in Nat /\ fpos <= file.size
           /\ zinSize \in Nat /\ zinSize <= InBufSize /\ zinSize <= fpos
           /\ zinPos \in Nat /\ zinPos <= zinSize
           /\ fed \in Nat /\ fed <= file.sound /\ fed <= file.size
           /\ file.decoded[fed] \in Nat
           /\ flushed \in Nat /\ flushed <= file.decoded[fed]
           /\ asked \in Nat
           /\ zoutPos \in Nat /\ zoutPos <= asked /\ zoutPos <= flushed
           /\ held \in BOOLEAN
           /\ Pending \in Nat /\ Room \in Nat
           /\ InBufSize \in Nat \ {0}
<1>1. TypeOK
  BY DEF IInv
<1>2. IsFile(file) /\ file.sound \in 0..file.size
      /\ \A i \in 0..file.size : file.decoded[i] \in Nat
  BY <1>1, FileFacts DEF TypeOK
<1>3. fpos \in 0..file.size /\ zinSize \in 0..Lesser(InBufSize, fpos) /\ zinPos \in 0..zinSize
  BY <1>1 DEF TypeOK
<1>4. zinSize \in Nat /\ zinSize <= InBufSize /\ zinSize <= fpos
  BY <1>2, <1>3, InputAssumption DEF Lesser
<1>5. fed \in 0..file.sound /\ flushed \in 0..file.decoded[fed] /\ held \in BOOLEAN
  BY <1>1 DEF TypeOK
<1>6. fed \in 0..file.size /\ file.decoded[fed] \in Nat
  <2>1. file.size \in Nat
    BY <1>1, FileFacts DEF TypeOK
  <2>2. fed \in 0..file.size
    BY <1>2, <1>5, <2>1
  <2> QED
    BY <1>2, <2>2
<1>7. asked \in Nat /\ zoutPos \in 0..Lesser(asked, flushed)
  BY <1>1, InputAssumption DEF TypeOK
<1>8. zoutPos \in Nat /\ zoutPos <= asked /\ zoutPos <= flushed
  BY <1>5, <1>6, <1>7 DEF Lesser
<1> QED
  BY <1>2, <1>3, <1>4, <1>5, <1>6, <1>7, <1>8, InputAssumption DEF Pending, Room

LEMMA InitIInv ==
    ASSUME Init
    PROVE  IInv
<1>1. file \in Files /\ IsFile(file) /\ file.decoded[0] = 0 /\ file.sound \in Nat /\ file.size \in Nat
  BY FileFacts, InputAssumption DEF Init, IsFile
<1>2. TypeOK
  <2>1. 0 \in 0..file.decoded[0] /\ 0 \in 0..file.sound /\ 0 \in 0..file.size
    BY <1>1
  <2>2. 0 \in 0..Lesser(InBufSize, 0) /\ 0 \in 0..Lesser(0, 0)
    BY InputAssumption DEF Lesser
  <2>3. Nothing \in [0..(0 - 1) -> Nat]
    BY DEF Nothing
  <2> QED
    BY <1>1, <2>1, <2>2, <2>3 DEF Init, TypeOK
<1>3. DstInv
  BY DEF Init, DstInv, Nothing
<1>4. FrameInv
  BY <1>1 DEF Init, FrameInv, Pending
<1> QED
  BY <1>1, <1>2, <1>3, <1>4 DEF Init, IInv, Idle, Busy, FaultInv, PlainInv, ZstdInv, FedInv, HeldInv,
    TakenInv

-----------------------------------------------------------------------------
(* One lemma for each step.                                                   *)

LEMMA ReadStep ==
    ASSUME IInv, NEW n \in Requests, Read(n)
    PROVE  IInv'
<1>1. /\ pc = "idle" /\ asked' = n /\ zoutPos = 0
      /\ pc' = IF file.zstd THEN "loop" ELSE "read"
      /\ UNCHANGED <<file, fpos, zinSize, zinPos, fed, held, flushed, zoutPos, dst, fault>>
  BY DEF Read, diskVars, dstreamVars, IInv, Idle
<1>2. n \in Nat
  BY InputAssumption
<1>3. TypeOK'
  BY <1>1, <1>2, Numbers DEF IInv, TypeOK, Lesser
<1>4. Idle' /\ Busy' /\ FaultInv' /\ PlainInv' /\ ZstdInv'
  BY <1>1 DEF IInv, Idle, Busy, FaultInv, PlainInv, ZstdInv
<1>5. FedInv' /\ HeldInv' /\ FrameInv' /\ TakenInv' /\ DstInv'
  BY <1>1 DEF IInv, FedInv, HeldInv, FrameInv, TakenInv, DstInv, Pending
<1> QED
  BY <1>3, <1>4, <1>5 DEF IInv

LEMMA ReadFileStep ==
    ASSUME IInv, ReadFile
    PROVE  IInv'
<1> DEFINE got == Lesser(asked, file.size - fpos)
<1>1. /\ pc = "read" /\ pc' = "idle" /\ asked' = 0 /\ fpos' = fpos + got
      /\ UNCHANGED <<file, zinSize, zinPos, fed, held, flushed, zoutPos, dst, fault>>
  BY DEF ReadFile, dstreamVars
<1>2. ~file.zstd /\ zoutPos = 0
  BY <1>1, FileFacts DEF IInv, TypeOK, ZstdInv, PlainInv
<1>3. got \in Nat /\ got <= file.size - fpos
  <2>0. file.size \in Nat
    BY FileFacts DEF IInv, TypeOK
  <2>1. file.size - fpos \in Nat
    BY <2>0, Numbers
  <2> QED
    BY <2>1, Numbers, LesserFacts
<1> HIDE DEF got
<1>4. TypeOK'
  <2>1. fpos' \in 0..file.size /\ zinSize \in 0..Lesser(InBufSize, fpos')
    <3>1. file.size \in Nat
      BY FileFacts DEF IInv, TypeOK
    <3> QED
      BY <1>1, <1>3, <3>1, Numbers DEF Lesser
  <2>2. zoutPos \in 0..Lesser(asked', flushed)
    BY <1>1, <1>2, Numbers DEF Lesser
  <2> QED
    BY <1>1, <2>1, <2>2 DEF IInv, TypeOK
<1>5. Idle' /\ Busy' /\ FaultInv' /\ PlainInv' /\ ZstdInv'
  BY <1>1, <1>2 DEF IInv, Idle, Busy, FaultInv, PlainInv, ZstdInv
<1>6. FedInv' /\ HeldInv' /\ FrameInv' /\ TakenInv' /\ DstInv'
  BY <1>1, <1>2 DEF IInv, FedInv, HeldInv, FrameInv, TakenInv, DstInv, Pending
<1> QED
  BY <1>4, <1>5, <1>6 DEF IInv

LEMMA AnsweredStep ==
    ASSUME IInv, pc = "loop", Answered, UNCHANGED <<diskVars, zinPos, dstreamVars, fault>>
    PROVE  IInv'
<1>1. /\ asked' = 0 /\ zoutPos' = 0 /\ dst' = Nothing /\ pc' = "idle"
      /\ UNCHANGED <<file, fpos, zinSize, zinPos, fed, held, flushed, fault>>
  BY DEF Answered, diskVars, dstreamVars
<1>2. TypeOK'
  <2>1. zoutPos' \in 0..Lesser(asked', flushed') /\ dst' \in [0..(zoutPos' - 1) -> Nat]
    BY <1>1, Numbers DEF Lesser, Nothing
  <2> QED
    BY <1>1, <2>1 DEF IInv, TypeOK
<1>3. Idle' /\ Busy' /\ FaultInv' /\ PlainInv' /\ ZstdInv'
  BY <1>1 DEF IInv, Idle, Busy, FaultInv, PlainInv, ZstdInv
<1>4. FedInv' /\ HeldInv' /\ FrameInv' /\ TakenInv'
  BY <1>1 DEF IInv, FedInv, HeldInv, FrameInv, TakenInv, Pending
<1>5. DstInv'
  BY <1>1 DEF DstInv, Nothing
<1> QED
  BY <1>2, <1>3, <1>4, <1>5 DEF IInv

LEMMA FillInBufStep ==
    ASSUME IInv, FillInBuf
    PROVE  IInv'
<1>1. /\ pc = "loop" /\ zinPos = zinSize /\ fpos < file.size
      /\ zinSize' = Lesser(InBufSize, file.size - fpos)
      /\ fpos' = fpos + zinSize' /\ zinPos' = 0 /\ pc' = "decompress"
      /\ UNCHANGED <<file, fed, held, flushed, asked, zoutPos, dst, fault>>
  BY DEF FillInBuf, InputTaken, dstreamVars, callVars
<1>2. file.size \in Nat /\ file.zstd \in BOOLEAN
  BY FileFacts DEF IInv, TypeOK
<1>3. ~held /\ file.zstd
  BY <1>1, <1>2, Numbers DEF IInv, HeldInv, PlainInv
<1>4. zinSize' \in Nat /\ zinSize' <= InBufSize /\ zinSize' <= file.size - fpos
  BY <1>1, <1>2, Numbers, LesserFacts
<1>5. TypeOK'
  <2>1. fpos' \in 0..file.size /\ zinSize' \in 0..Lesser(InBufSize, fpos') /\ zinPos' \in 0..zinSize'
    BY <1>1, <1>2, <1>4, Numbers DEF Lesser
  <2> QED
    BY <1>1, <2>1 DEF IInv, TypeOK
<1>6. Idle' /\ Busy' /\ FaultInv' /\ PlainInv' /\ ZstdInv'
  BY <1>1, <1>3 DEF IInv, Idle, Busy, FaultInv, PlainInv, ZstdInv
<1>7. FedInv'
  BY <1>1, <1>3, <1>4, Numbers DEF IInv, FedInv
<1>8. HeldInv' /\ FrameInv' /\ TakenInv' /\ DstInv'
  <2>1. fed \in file.ends => Pending = 0
    BY <1>1, <1>3 DEF IInv, FrameInv
  <2>2. UNCHANGED Pending
    BY <1>1 DEF Pending
  <2> QED
    BY <1>1, <1>3, <2>1, <2>2 DEF IInv, HeldInv, FrameInv, TakenInv, DstInv
<1> QED
  BY <1>5, <1>6, <1>7, <1>8 DEF IInv

LEMMA CallDecompressorStep ==
    ASSUME IInv, CallDecompressor
    PROVE  IInv'
<1>1. /\ pc = "loop" /\ pc' = "decompress"
      /\ UNCHANGED <<file, fpos, zinSize, zinPos, fed, held, flushed, asked, zoutPos, dst, fault>>
  BY DEF CallDecompressor, diskVars, dstreamVars, callVars
<1>2. TypeOK' /\ Idle' /\ Busy' /\ FaultInv' /\ PlainInv' /\ ZstdInv'
  BY <1>1 DEF IInv, TypeOK, Idle, Busy, FaultInv, PlainInv, ZstdInv
<1>3. FedInv' /\ HeldInv' /\ FrameInv' /\ TakenInv' /\ DstInv'
  BY <1>1 DEF IInv, FedInv, HeldInv, FrameInv, TakenInv, DstInv, Pending
<1> QED
  BY <1>2, <1>3 DEF IInv

LEMMA DecodeByteStep ==
    ASSUME IInv, DecodeByte
    PROVE  IInv'
<1>1. /\ pc = "decompress" /\ Pending = 0 /\ ~held /\ zinPos < zinSize
      /\ NextByte = fed + 1 /\ NextByte <= file.sound
      /\ fed' = fed + 1 /\ zinPos' = zinPos + 1
      /\ UNCHANGED <<file, fpos, zinSize, held, flushed, asked, zoutPos, dst, pc, fault>>
  BY DEF DecodeByte, MayDecode, diskVars, callVars
<1>2. /\ file.sound \in 0..file.size
      /\ \A i, j \in 0..file.size : i <= j => file.decoded[i] <= file.decoded[j]
      /\ \A i \in 0..file.size : file.decoded[i] \in Nat
  BY FileFacts DEF IInv, TypeOK
<1>3. /\ fed + 1 \in 0..file.sound
      /\ file.decoded[fed + 1] \in Nat
      /\ file.decoded[fed] <= file.decoded[fed + 1]
  <2>1. NextByte = fed + 1 /\ fed + 1 <= file.sound
    BY <1>1
  <2>0. file.size \in Nat /\ file.sound \in Nat /\ file.sound <= file.size
    BY <1>2, FileFacts DEF IInv, TypeOK
  <2>2. fed + 1 \in 0..file.sound /\ fed + 1 \in 0..file.size /\ fed \in 0..file.size
    BY <2>0, <2>1, Numbers
  <2>3. fed <= fed + 1
    BY Numbers
  <2> QED
    BY <1>2, <2>2, <2>3
<1>4. TypeOK'
  <2>1. zinPos' \in 0..zinSize /\ fed' \in 0..file.sound /\ flushed \in 0..file.decoded[fed']
    BY <1>1, <1>3, Numbers
  <2> QED
    BY <1>1, <2>1 DEF IInv, TypeOK
<1>5. Idle' /\ Busy' /\ FaultInv' /\ PlainInv' /\ ZstdInv'
  BY <1>1 DEF IInv, Idle, Busy, FaultInv, PlainInv, ZstdInv
<1>6. FedInv' /\ HeldInv' /\ FrameInv' /\ TakenInv' /\ DstInv'
  <2>1. FedInv'
    BY <1>1, Numbers DEF IInv, FedInv
  <2>2. TakenInv'
    BY <1>1, Numbers DEF TakenInv
  <2>3. HeldInv' /\ FrameInv' /\ DstInv'
    BY <1>1 DEF IInv, HeldInv, FrameInv, DstInv
  <2> QED
    BY <2>1, <2>2, <2>3
<1> QED
  BY <1>4, <1>5, <1>6 DEF IInv

LEMMA FlushStep ==
    ASSUME IInv, Flush
    PROVE  IInv'
<1> DEFINE count == Lesser(Pending, Room)
<1>1. /\ pc = "decompress" /\ Pending > 0 /\ Room > 0
      /\ flushed' = flushed + count /\ zoutPos' = zoutPos + count
      /\ dst' = [i \in 0..(zoutPos + count - 1) |->
                    IF i < zoutPos THEN dst[i] ELSE flushed + (i - zoutPos)]
      /\ UNCHANGED <<file, fpos, zinSize, zinPos, fed, held, asked, pc, fault>>
  BY DEF Flush, diskVars
<1>2. count \in Nat /\ count <= Pending /\ count <= Room
  BY Numbers, LesserFacts
<1> HIDE DEF count
<1>3. DstInv'
  <2>0. flushed' - zoutPos' = flushed - zoutPos
    BY <1>1, <1>2, Numbers
  <2>1. \A i \in 0..(zoutPos + count - 1) :
          (IF i < zoutPos THEN dst[i] ELSE flushed + (i - zoutPos)) = flushed' - zoutPos' + i
    <3> TAKE i \in 0..(zoutPos + count - 1)
    <3>1. CASE i < zoutPos
      <4>1. i \in 0..(zoutPos - 1)
        BY <1>2, <3>1, Numbers
      <4>2. dst[i] = flushed - zoutPos + i
        BY <4>1 DEF IInv, DstInv
      <4> QED
        BY <2>0, <3>1, <4>2
    <3>2. CASE ~(i < zoutPos)
      <4>1. flushed + (i - zoutPos) = flushed - zoutPos + i
        BY <1>2, Numbers
      <4> QED
        BY <2>0, <3>2, <4>1
    <3> QED
      BY <3>1, <3>2
  <2>2. dst' = [i \in 0..(zoutPos + count - 1) |-> flushed' - zoutPos' + i]
    BY <1>1, <2>1, Zenon
  <2>3. 0..(zoutPos + count - 1) = 0..(zoutPos' - 1)
    <3>1. zoutPos' = zoutPos + count
      BY <1>1
    <3>2. zoutPos \in Nat /\ count \in Nat
      BY <1>2, Numbers
    <3> QED
      BY <3>1, <3>2
  <2>4. dst' = [i \in 0..(zoutPos' - 1) |-> flushed' - zoutPos' + i]
    BY <2>2, <2>3, Zenon
  <2> QED
    BY <2>4, Zenon DEF DstInv
<1>4. TypeOK'
  <2>1. flushed' \in 0..file.decoded[fed] /\ zoutPos' \in 0..Lesser(asked, flushed')
    <3>1. count <= file.decoded[fed] - flushed /\ count <= asked - zoutPos
      BY <1>2 DEF Pending, Room
    <3>2. /\ flushed + count \in 0..file.decoded[fed]
          /\ zoutPos + count \in Nat
          /\ zoutPos + count <= asked
          /\ zoutPos + count <= flushed + count
      BY <1>2, <3>1, Numbers
    <3>3. zoutPos + count \in 0..Lesser(asked, flushed + count)
      BY <3>2, LesserFacts DEF Lesser
    <3> QED
      BY <1>1, <3>2, <3>3
  <2>2. dst' \in [0..(zoutPos' - 1) -> Nat]
    <3>1. flushed' - zoutPos' \in Nat
      <4>1. flushed' = flushed + count /\ zoutPos' = zoutPos + count
        BY <1>1
      <4> QED
        BY <4>1, <1>2, Numbers
    <3> QED
      BY <1>3, <3>1 DEF DstInv
  <2> QED
    BY <1>1, <2>1, <2>2 DEF IInv, TypeOK
<1>5. Idle' /\ Busy' /\ FaultInv' /\ PlainInv' /\ ZstdInv'
  BY <1>1 DEF IInv, Idle, Busy, FaultInv, PlainInv, ZstdInv
<1>6. FedInv' /\ HeldInv' /\ FrameInv'
  BY <1>1 DEF IInv, FedInv, HeldInv, FrameInv
<1>7. TakenInv'
  BY <1>1 DEF IInv, TakenInv
<1> QED
  BY <1>3, <1>4, <1>5, <1>6, <1>7 DEF IInv

LEMMA RejectStep ==
    ASSUME IInv, Reject
    PROVE  IInv'
<1>1. /\ pc = "decompress" /\ Pending = 0 /\ ~held
      /\ fault' = "decompression_error" /\ pc' = "failed"
      /\ UNCHANGED <<file, fpos, zinSize, zinPos, fed, held, flushed, asked, zoutPos, dst>>
  BY DEF Reject, MayDecode, diskVars, dstreamVars, callVars
<1>2. TypeOK' /\ Idle' /\ Busy' /\ FaultInv' /\ PlainInv' /\ ZstdInv'
  BY <1>1 DEF IInv, TypeOK, Idle, Busy, FaultInv, PlainInv, ZstdInv
<1>3. FedInv' /\ HeldInv' /\ FrameInv' /\ TakenInv' /\ DstInv'
  BY <1>1 DEF IInv, FedInv, HeldInv, FrameInv, TakenInv, DstInv, Pending
<1> QED
  BY <1>2, <1>3 DEF IInv

LEMMA ReturnHoldingStep ==
    ASSUME IInv, ReturnHolding
    PROVE  IInv'
<1>1. /\ pc = "decompress" /\ Pending > 0
      /\ held' = (held \/ fed \in file.ends)
      /\ zinPos' = IF held' /\ ~held THEN zinPos - 1 ELSE zinPos
      /\ pc' = "loop"
      /\ UNCHANGED <<file, fpos, zinSize, fed, flushed, asked, zoutPos, dst, fault>>
  BY DEF ReturnHolding, diskVars, callVars
<1>2. file.ends \subseteq 1..file.size /\ file.size \in Nat /\ file.zstd \in BOOLEAN
  BY FileFacts DEF IInv, TypeOK
<1>3. file.zstd
  BY <1>1, <1>2 DEF IInv, PlainInv
<1>4. held' \in BOOLEAN /\ zinPos' \in 0..zinSize /\ (held' => zinPos' < zinSize /\ fed \in file.ends)
  <2>1. CASE held' /\ ~held
    <3>1. fed \in file.ends /\ zinPos' = zinPos - 1
      BY <1>1, <2>1
    <3>2. zinPos > 0
      BY <1>1, <2>1, <3>1 DEF IInv, TakenInv
    <3> QED
      BY <1>1, <3>1, <3>2, Numbers
  <2>2. CASE held
    BY <1>1, <2>2, Numbers DEF IInv, HeldInv
  <2>3. CASE ~held'
    BY <1>1, <2>3, Numbers
  <2> QED
    BY <2>1, <2>2, <2>3
<1>5. zinPos' + (IF held' THEN 1 ELSE 0) = zinPos + (IF held THEN 1 ELSE 0)
  BY <1>1, Numbers
<1>6. TypeOK'
  BY <1>1, <1>4 DEF IInv, TypeOK
<1>7. Idle' /\ Busy' /\ FaultInv' /\ PlainInv' /\ ZstdInv'
  BY <1>1, <1>3 DEF IInv, Idle, Busy, FaultInv, PlainInv, ZstdInv
<1>8. FedInv'
  <2>1. fed = fpos - zinSize + (zinPos + (IF held THEN 1 ELSE 0))
    BY <1>3, Numbers DEF IInv, FedInv
  <2>2. fed = fpos - zinSize + (zinPos' + (IF held' THEN 1 ELSE 0))
    BY <1>5, <2>1
  <2>3. zinPos' \in Nat
    BY <1>4, Numbers
  <2>4. UNCHANGED <<fed, fpos, zinSize>> /\ file' = file
    BY <1>1
  <2> QED
    BY <2>2, <2>3, <2>4, Numbers DEF FedInv
<1>9. HeldInv' /\ FrameInv' /\ TakenInv' /\ DstInv'
  BY <1>1, <1>4 DEF IInv, HeldInv, FrameInv, TakenInv, DstInv, Pending
<1> QED
  BY <1>6, <1>7, <1>8, <1>9 DEF IInv

LEMMA ReturnReleasingStep ==
    ASSUME IInv, ReturnReleasing
    PROVE  IInv'
<1>1. /\ pc = "decompress" /\ Pending = 0 /\ held
      /\ held' = FALSE /\ zinPos' = zinPos + 1 /\ pc' = "loop"
      /\ UNCHANGED <<file, fpos, zinSize, fed, flushed, asked, zoutPos, dst, fault>>
  BY DEF ReturnReleasing, diskVars, callVars
<1>2. zinPos < zinSize
  BY <1>1 DEF IInv, HeldInv
<1>3. file.zstd
  BY <1>1, FileFacts DEF IInv, TypeOK, PlainInv
<1>4. TypeOK'
  <2>1. zinPos' \in 0..zinSize
    BY <1>1, <1>2, Numbers
  <2> QED
    BY <1>1, <2>1 DEF IInv, TypeOK
<1>5. Idle' /\ Busy' /\ FaultInv' /\ PlainInv' /\ ZstdInv'
  BY <1>1, <1>3 DEF IInv, Idle, Busy, FaultInv, PlainInv, ZstdInv
<1>6. FedInv'
  BY <1>1, <1>3, Numbers DEF IInv, FedInv
<1>7. HeldInv' /\ FrameInv' /\ TakenInv' /\ DstInv'
  BY <1>1 DEF IInv, HeldInv, FrameInv, TakenInv, DstInv, Pending
<1> QED
  BY <1>4, <1>5, <1>6, <1>7 DEF IInv

LEMMA ReturnDoneStep ==
    ASSUME IInv, ReturnDone
    PROVE  IInv'
<1>1. /\ pc = "decompress" /\ Pending = 0 /\ ~held /\ pc' = "loop"
      /\ UNCHANGED <<file, fpos, zinSize, zinPos, fed, held, flushed, asked, zoutPos, dst, fault>>
  BY DEF ReturnDone, diskVars, dstreamVars, callVars
<1>2. TypeOK' /\ Idle' /\ Busy' /\ FaultInv' /\ PlainInv' /\ ZstdInv'
  BY <1>1, FileFacts DEF IInv, TypeOK, Idle, Busy, FaultInv, PlainInv, ZstdInv
<1>3. FedInv' /\ HeldInv' /\ FrameInv' /\ TakenInv' /\ DstInv'
  BY <1>1 DEF IInv, FedInv, HeldInv, FrameInv, TakenInv, DstInv, Pending
<1> QED
  BY <1>2, <1>3 DEF IInv

LEMMA NextIInv ==
    ASSUME IInv, [Next]_vars
    PROVE  IInv'
<1>1. CASE UNCHANGED vars
  <2>1. UNCHANGED <<file, fpos, zinSize, zinPos, fed, held, flushed, asked, zoutPos, dst, pc, fault>>
    BY <1>1 DEF vars, diskVars, dstreamVars, callVars
  <2>2. TypeOK' /\ Idle' /\ Busy' /\ FaultInv' /\ PlainInv' /\ ZstdInv'
    BY <2>1 DEF IInv, TypeOK, Idle, Busy, FaultInv, PlainInv, ZstdInv
  <2>3. FedInv' /\ HeldInv' /\ FrameInv' /\ TakenInv' /\ DstInv'
    BY <2>1 DEF IInv, FedInv, HeldInv, FrameInv, TakenInv, DstInv, Pending
  <2> QED
    BY <2>2, <2>3 DEF IInv
<1>2. CASE \E n \in Requests : Read(n)
  BY <1>2, ReadStep
<1>3. CASE ReadFile
  BY <1>3, ReadFileStep
<1>4. CASE ReturnFull \/ EndOfInput
  BY <1>4, AnsweredStep DEF ReturnFull, EndOfInput, InputTaken
<1>5. CASE FillInBuf
  BY <1>5, FillInBufStep
<1>6. CASE CallDecompressor
  BY <1>6, CallDecompressorStep
<1>7. CASE DecodeByte
  BY <1>7, DecodeByteStep
<1>8. CASE Flush
  BY <1>8, FlushStep
<1>9. CASE Reject
  BY <1>9, RejectStep
<1>10. CASE ReturnHolding
  BY <1>10, ReturnHoldingStep
<1>11. CASE ReturnReleasing
  BY <1>11, ReturnReleasingStep
<1>12. CASE ReturnDone
  BY <1>12, ReturnDoneStep
<1> QED
  BY <1>1, <1>2, <1>3, <1>4, <1>5, <1>6, <1>7, <1>8, <1>9, <1>10, <1>11, <1>12
    DEF Next, Serve, Decompressor, Failed

(* The cursors of the file, of in_buf_ and of the caller's buffer stay in       *)
(* bounds, whatever the file holds, cut off or not.                             *)
THEOREM TypeCorrect == Spec => []TypeOK
<1>1. IInv => TypeOK
  BY DEF IInv
<1> QED
  BY <1>1, InitIInv, NextIInv, PTL DEF Spec

-----------------------------------------------------------------------------
(* The refinement.                                                             *)

AllWhole == \A f \in Files : Whole(f)

LEMMA SameNames ==
    /\ Source!NoAnswer = NoAnswer
    /\ Source!Left = Content(file) - Delivered
    /\ \A from, count : Source!Bytes(from, count) = [i \in 0..(count - 1) |-> from + i]
BY DEF Source!NoAnswer, Source!Bytes, NoAnswer, Nothing, Source!Left,
    Delivered

LEMMA Hidden ==
    ASSUME UNCHANGED <<file, fpos, flushed, zoutPos, asked, answer, fault>>
    PROVE  UNCHANGED Source!vars
BY DEF Source!vars, Content, Damaged

(* The decompressor never gets ahead of the bytes that decode.                  *)
LEMMA ContentBound ==
    ASSUME IInv
    PROVE  Content(file) \in Nat /\ file.decoded[fed] <= Content(file)
<1>1. file.sound \in 0..file.size /\ file.size \in Nat /\ fed \in Nat /\ fed <= file.sound
  BY Numbers, FileFacts DEF IInv, TypeOK
<1>2. file.sound \in 0..file.size /\ fed \in 0..file.size
  BY <1>1
<1> QED
  BY <1>1, <1>2, FileFacts DEF IInv, TypeOK, Content

LEMMA AskedInCall ==
    ASSUME IInv, pc \in {"read", "loop", "decompress"}
    PROVE  asked > 0 /\ fault = "none"
<1>1. asked \in Requests
  BY DEF IInv, Busy
<1>2. asked \in Nat \ {0}
  BY <1>1, InputAssumption
<1>3. fault = "none"
  BY DEF IInv, FaultInv
<1> QED
  BY <1>2, <1>3

LEMMA InitMaps ==
    ASSUME Init
    PROVE  Source!Init
<1>1. Delivered = 0
  BY DEF Init, Delivered
<1> QED
  BY <1>1, SameNames DEF Init, Source!Init

LEMMA ReadMaps ==
    ASSUME IInv, NEW n \in Requests, Read(n)
    PROVE  Source!Read(n)
BY SameNames DEF IInv, Idle, FaultInv, Read, diskVars, dstreamVars, Source!Read, Content,
    Damaged

LEMMA ReadFileMaps ==
    ASSUME IInv, ReadFile
    PROVE  Source!Full \/ Source!EndOfFile
<1> DEFINE got == Lesser(asked, file.size - fpos)
<1>1. /\ pc = "read" /\ asked' = 0 /\ fpos' = fpos + got
      /\ answer' = [asked |-> asked, bytes |-> [i \in 0..(got - 1) |-> fpos + i]]
      /\ UNCHANGED <<file, flushed, zoutPos, fault>>
  BY DEF ReadFile, dstreamVars
<1>2. ~file.zstd /\ file.size \in Nat
  BY <1>1, FileFacts DEF IInv, TypeOK, ZstdInv
<1>3. file.sound = file.size /\ Content(file) = file.size /\ ~Damaged(file)
  BY <1>2, FileFacts DEF IInv, TypeOK, IsFile, Content, Damaged
<1>4. Delivered = fpos /\ Delivered' = Delivered + got
  BY <1>1, <1>2 DEF Delivered
<1>5. asked > 0 /\ fault = "none"
  BY <1>1, AskedInCall
<1>6. Source!Return(got)
  BY <1>1, <1>4, SameNames DEF Source!Return, Content, Damaged, Delivered
<1>7. CASE asked <= file.size - fpos
  BY <1>3, <1>4, <1>5, <1>6, <1>7, SameNames DEF Source!Full, Lesser
<1>8. CASE ~(asked <= file.size - fpos)
  <2>1. asked > file.size - fpos
    BY <1>2, <1>8, Numbers
  <2> QED
    BY <1>3, <1>4, <1>5, <1>6, <1>8, <2>1, SameNames DEF Source!EndOfFile, Lesser
<1> QED
  BY <1>7, <1>8

LEMMA AnsweredMaps ==
    ASSUME IInv, pc = "loop", Answered, UNCHANGED <<diskVars, zinPos, dstreamVars, fault>>
    PROVE  /\ Source!Return(zoutPos)
           /\ asked > 0 /\ fault = "none"
           /\ Delivered = flushed - zoutPos
           /\ file.zstd
<1>1. /\ asked' = 0 /\ zoutPos' = 0
      /\ answer' = [asked |-> asked, bytes |-> dst]
      /\ UNCHANGED <<file, fpos, flushed, fault>>
  BY DEF Answered, diskVars, dstreamVars
<1>2. file.zstd
  BY FileFacts DEF IInv, TypeOK, PlainInv
<1>3. Delivered = flushed - zoutPos /\ Delivered' = flushed
  BY <1>1, <1>2, Numbers DEF Delivered
<1>4. Delivered' = Delivered + zoutPos
  BY <1>3, Numbers
<1>5. dst = [i \in 0..(zoutPos - 1) |-> Delivered + i]
  BY <1>3 DEF IInv, DstInv
<1>6. Source!Return(zoutPos)
  BY <1>1, <1>4, <1>5, SameNames DEF Source!Return, Content, Damaged, Delivered
<1> QED
  BY <1>2, <1>3, <1>6, AskedInCall

LEMMA ReturnFullMaps ==
    ASSUME IInv, ReturnFull
    PROVE  Source!Full
<1>1. zoutPos = asked
  BY Numbers DEF ReturnFull, Room
<1>2. /\ Source!Return(zoutPos) /\ asked > 0 /\ fault = "none"
      /\ Delivered = flushed - zoutPos
  BY AnsweredMaps DEF ReturnFull
<1>3. asked <= Content(file) - Delivered
  BY <1>1, <1>2, ContentBound, Numbers
<1> QED
  BY <1>1, <1>2, <1>3, SameNames DEF Source!Full

(* The file is at its end and so is the frame: nothing is left to flush.       *)
LEMMA EndOfInputMaps ==
    ASSUME IInv, EndOfInput, AllWhole
    PROVE  Source!EndOfFile
<1>1. pc = "loop" /\ Room > 0 /\ zinPos = zinSize /\ fpos = file.size
  BY DEF EndOfInput, InputTaken
<1>2. /\ Source!Return(zoutPos) /\ asked > 0 /\ fault = "none"
      /\ Delivered = flushed - zoutPos /\ file.zstd
  BY <1>1, AnsweredMaps DEF EndOfInput
<1>3. ~held
  BY <1>1, Numbers DEF IInv, HeldInv
<1>4. file.sound \in 0..file.size /\ file.size \in Nat
  BY FileFacts DEF IInv, TypeOK
<1>5. fed = file.size /\ file.sound = file.size
  <2>1. fed = file.size
    BY <1>1, <1>2, <1>3, <1>4, Numbers DEF IInv, FedInv
  <2> QED
    BY <1>4, <2>1, Numbers
<1>6. ~Damaged(file) /\ Content(file) = file.decoded[fed]
  BY <1>4, <1>5 DEF Damaged, Content
<1>7. Pending = 0
  <2>1. file.size = 0 \/ file.size \in file.ends
    BY <1>2, <1>6 DEF AllWhole, Whole, IInv, TypeOK
  <2>2. CASE file.size \in file.ends
    BY <1>1, <1>3, <1>5, <2>2 DEF IInv, FrameInv
  <2>3. CASE file.size = 0
    <3>1. file.decoded[fed] = 0
      BY <1>5, <2>3, FileFacts DEF IInv, TypeOK, IsFile
    <3> QED
      BY <3>1, Numbers DEF Pending
  <2> QED
    BY <2>1, <2>2, <2>3
<1>8. flushed = Content(file) /\ asked > zoutPos
  BY <1>1, <1>6, <1>7, Numbers DEF Pending, Room
<1>9. Content(file) - Delivered = zoutPos
  BY <1>2, <1>8, Numbers
<1> QED
  BY <1>2, <1>6, <1>8, <1>9, SameNames DEF Source!EndOfFile

LEMMA FlushMaps ==
    ASSUME IInv, Flush
    PROVE  UNCHANGED Source!vars
<1> DEFINE count == Lesser(Pending, Room)
<1>1. /\ pc = "decompress" /\ flushed' = flushed + count /\ zoutPos' = zoutPos + count
      /\ UNCHANGED <<file, fpos, asked, answer, fault>>
  BY DEF Flush, diskVars
<1>2. count \in Nat
  BY Numbers, LesserFacts
<1> HIDE DEF count
<1>3. Delivered' = Delivered
  BY <1>1, <1>2, Numbers DEF Delivered
<1> QED
  BY <1>1, <1>3, SameNames DEF Source!vars, Delivered, Content, Damaged

LEMMA RejectMaps ==
    ASSUME IInv, Reject
    PROVE  Source!Damaged
<1>1. /\ pc = "decompress" /\ Pending = 0 /\ ~held
      /\ NextByte # fed + 1 \/ NextByte > file.sound
      /\ fault' = "decompression_error"
      /\ UNCHANGED <<file, fpos, flushed, asked, zoutPos, answer>>
  BY DEF Reject, MayDecode, diskVars, dstreamVars, callVars
<1>2. file.zstd /\ file.sound \in 0..file.size /\ file.size \in Nat
  BY <1>1, FileFacts DEF IInv, TypeOK, PlainInv
<1>3. NextByte = fed + 1
  BY <1>1, <1>2, Numbers DEF IInv, FedInv, NextByte
<1>4. fed = file.sound
  BY <1>1, <1>2, <1>3, Numbers
<1>5. NextByte <= file.size
  <2>1. zinPos < zinSize
    BY DEF Reject, MayDecode
  <2> QED
    BY <2>1, Numbers, <1>2 DEF NextByte
<1>6. Damaged(file)
  BY <1>2, <1>3, <1>4, <1>5, Numbers DEF Damaged
<1>7. Content(file) = flushed
  BY <1>1, <1>4, Numbers DEF Content, Pending
<1>8. Delivered = flushed - zoutPos /\ Delivered' = Delivered
  BY <1>1, <1>2 DEF Delivered
<1>9. Content(file) - Delivered = zoutPos
  BY <1>7, <1>8, Numbers
<1>10. asked > 0 /\ fault = "none" /\ asked >= zoutPos
  BY <1>1, Numbers, AskedInCall
<1> QED
  BY <1>1, <1>6, <1>8, <1>9, <1>10, SameNames DEF Source!Damaged, Content, Damaged, Delivered

LEMMA StepMaps ==
    ASSUME IInv, [Next]_vars, AllWhole
    PROVE  [Source!Next]_(Source!vars)
<1> USE DEF Source!Next
<1>1. CASE UNCHANGED vars
  BY <1>1, Hidden DEF vars, diskVars, dstreamVars, callVars
<1>2. CASE \E n \in Requests : Read(n)
  BY <1>2, ReadMaps
<1>3. CASE ReadFile
  BY <1>3, ReadFileMaps
<1>4. CASE ReturnFull
  BY <1>4, ReturnFullMaps
<1>5. CASE EndOfInput
  BY <1>5, EndOfInputMaps
<1>6. CASE Flush
  BY <1>6, FlushMaps
<1>7. CASE Reject
  BY <1>7, RejectMaps
<1>8. CASE DecodeByte \/ ReturnHolding \/ ReturnReleasing \/ ReturnDone
  BY <1>8, Hidden DEF DecodeByte, ReturnHolding, ReturnReleasing, ReturnDone, diskVars,
    dstreamVars, callVars
<1>9. CASE CallDecompressor
  BY <1>9, Hidden DEF CallDecompressor, diskVars, dstreamVars, callVars
<1>10. CASE FillInBuf
  <2>1. file.zstd
    BY <1>10, FileFacts DEF FillInBuf, InputTaken, IInv, TypeOK, PlainInv
  <2>2. UNCHANGED <<file, flushed, zoutPos, asked, answer, fault>>
    BY <1>10 DEF FillInBuf, dstreamVars, callVars
  <2> QED
    BY <2>1, <2>2 DEF Source!vars, Content, Damaged
<1> QED
  BY <1>1, <1>2, <1>3, <1>4, <1>5, <1>6, <1>7, <1>8, <1>9, <1>10
    DEF Next, Serve, Decompressor, Failed

(* What the callers of Read see is the capture, in order and each byte once,   *)
(* whatever the sizes of blocks, frames, in_buf_ and requests; a short answer   *)
(* only at its end; an exception only when the file is damaged.                 *)
THEOREM Implements == AllWhole => (Spec => Source!Init /\ [][Source!Next]_(Source!vars))
<1>1. ASSUME AllWhole, IInv, [Next]_vars
      PROVE  [Source!Next]_(Source!vars)
  BY <1>1, StepMaps
<1> SUFFICES ASSUME AllWhole
             PROVE  Spec => Source!Init /\ [][Source!Next]_(Source!vars)
  OBVIOUS
<1>2. IInv /\ [Next]_vars => [Source!Next]_(Source!vars)
  BY <1>1
<1> QED
  BY <1>2, InitIInv, NextIInv, InitMaps, PTL DEF Spec

=============================================================================
