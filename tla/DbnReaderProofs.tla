--------------------------- MODULE DbnReaderProofs ---------------------------
(* The reader's invariants, for every input, record length, trailer and block *)
(* size.                                                                       *)
EXTENDS DbnReader, TLAPS

Serving == pc \notin {"open", "failed"}

(* While the constructor runs nothing is open and nothing is buffered.        *)
OpeningInv ==
    pc = "open" => next = 1 /\ cur = 0 /\ ~firstOpened /\ inPos = 0 /\ bufLen = 0

(* While records are served, a consistent file is open and the buffer cannot  *)
(* hold more than the input has delivered.                                     *)
ServingInv ==
    Serving =>
        /\ cur \in 1..FileCount
        /\ next = cur + 1
        /\ inPos <= file.size
        /\ bufLen <= inPos
        /\ firstOpened
        /\ firstMeta = Meta(files[1])
        /\ metadata = firstMeta
        /\ metadata = Meta(file)

(* What each step of NextRecordView knows of the buffer.                       *)
FillInv == pc \in {"fill_header", "fill_body", "no_header", "no_body"} => bufPos = 0
NoHeaderInv == pc = "no_header" => Remaining < HeaderLen
NoBodyInv == pc = "no_body" => Remaining < Total
GotHeaderInv == pc = "got_header" => Remaining >= HeaderLen
GotBodyInv == pc = "got_body" => Remaining >= Total
DecodedInv ==
    /\ pc \in {"body", "fill_body", "no_body", "got_body", "copy"} =>
        hdrBytes \in HeaderLen..MaxRecordLen
    /\ pc \in {"body", "fill_body", "no_body", "got_body"} =>
        /\ Remaining >= HeaderLen
        /\ hdrBytes = RecordBytes(file, inPos - Remaining)

(* "No bytes" is only concluded of an intact input that has delivered all.     *)
DrainedInv ==
    pc \in {"no_header", "no_body"} \/ (Serving /\ ~inputOpen) =>
        inPos = file.size /\ ~file.damaged
ClosedInv == Serving /\ ~inputOpen => next > FileCount

IInv ==
    /\ TypeOK /\ OpeningInv /\ ServingInv /\ BufferHoldsInputTail
    /\ FillInv /\ NoHeaderInv /\ NoBodyInv /\ GotHeaderInv /\ GotBodyInv /\ DecodedInv
    /\ DrainedInv /\ ClosedInv /\ ViewIsOneRecord

-----------------------------------------------------------------------------
(* Facts about files.                                                          *)

LEMMA FilesOK ==
    ASSUME GivenFiles
    PROVE  FileCount \in Nat \ {0} /\ \A k \in 1..FileCount : IsFile(files[k])
BY InputsAssumption DEF GivenFiles, FileCount

LEMMA OpenedFile ==
    ASSUME NEW f, IsFile(f), OpenFault(f) = NoFault
    PROVE  BodyStart(f) \in Nat /\ BodyStart(f) <= f.size
BY SizesAssumption DEF IsFile, OpenFault, ReadExactFault, NoFault, BodyStart

LEMMA TrailerNat == \A m : Trailer(m) \in Nat
BY SizesAssumption DEF Trailer

LEMMA ProductNat == \A a, b \in Nat : a * b \in Nat
OBVIOUS

LEMMA RecordBytesNat ==
    ASSUME NEW f, IsFile(f), NEW at \in 0..(f.size - 1)
    PROVE  RecordBytes(f, at) \in Nat
BY ProductNat, SizesAssumption DEF IsFile, RecordBytes

-----------------------------------------------------------------------------
(* The initial states.                                                         *)

LEMMA InitIInv == Init => IInv
<1> SUFFICES ASSUME Init PROVE IInv
  OBVIOUS
<1>1. FileCount \in Nat \ {0}
  BY FilesOK DEF Init, GivenFiles
<1>2. TypeOK
  <2>1. (0..(bufSize - 1)) = {}
    BY DEF Init
  <2>2. buf \in [0..(bufSize - 1) -> Bytes]
    BY <2>1 DEF Init
  <2>3. FlagsOK
    BY DEF Init, FlagsOK
  <2> QED
    BY <1>1, <2>2, <2>3 DEF Init, TypeOK, BufferOK, GivenFiles
<1> QED
  BY <1>1, <1>2 DEF Init, IInv, OpeningInv, ServingInv, Serving, BufferHoldsInputTail, FillInv,
    NoHeaderInv, NoBodyInv, GotHeaderInv, GotBodyInv, DecodedInv, DrainedInv, ClosedInv,
    ViewIsOneRecord

-----------------------------------------------------------------------------
(* AdvanceToNextFile, with nothing left in the buffer.                         *)

LEMMA TakeNextPathIInv ==
    ASSUME IInv, NEW then \in {"ready", "header"}, TakeNextPath(then), Remaining = 0,
           pc \in {"open", "no_header"}
    PROVE  IInv'
<1> DEFINE f == files[next]
<1>1. TypeOK /\ OpeningInv /\ ServingInv /\ FillInv /\ ClosedInv
  BY DEF IInv
<1>2. /\ FileCount \in Nat \ {0}
      /\ next \in 1..FileCount
      /\ IsFile(f)
  BY <1>1, FilesOK DEF TypeOK, TakeNextPath
<1>3. bufPos = 0 /\ bufLen = 0
  BY <1>1 DEF TypeOK, BufferOK, OpeningInv, FillInv, Remaining
<1>4. files' = files /\ bufPos' = 0 /\ bufLen' = 0 /\ cur' = next /\ next' = next + 1
      /\ UNCHANGED <<buf, bufSize, hdrBytes, view, out>>
  BY <1>3 DEF TakeNextPath, bufVars
<1>5. CASE pc' = "failed"
  <2>0. UNCHANGED <<inPos, inputOpen, firstOpened>>
    BY <1>5 DEF TakeNextPath, Throw
  <2>a. FlagsOK'
    BY <1>1, <2>0 DEF TypeOK, FlagsOK
  <2>1. TypeOK'
    BY <1>1, <1>2, <1>3, <1>4, <1>5, <2>0, <2>a DEF TypeOK, BufferOK, GivenFiles, FileCount, Bytes
  <2> QED
    BY <1>3, <1>4, <1>5, <2>1 DEF IInv, OpeningInv, ServingInv, Serving, BufferHoldsInputTail,
      FillInv, NoHeaderInv, NoBodyInv, GotHeaderInv, GotBodyInv, DecodedInv, DrainedInv,
      ClosedInv, ViewIsOneRecord, Remaining
<1>6. CASE pc' # "failed"
  <2>1. /\ OpenFault(f) = NoFault /\ ~Mismatch(f)
        /\ inputOpen' = TRUE /\ inPos' = BodyStart(f)
        /\ metadata' = Meta(f) /\ firstOpened' = TRUE
        /\ firstMeta' = IF firstOpened THEN firstMeta ELSE Meta(f)
        /\ pc' = then
    BY <1>6 DEF TakeNextPath, Throw
  <2>2. BodyStart(f) \in Nat /\ BodyStart(f) <= f.size
    BY <1>2, <2>1, OpenedFile
  <2>a. FlagsOK'
    BY <2>1 DEF FlagsOK
  <2>3. TypeOK'
    BY <1>1, <1>2, <1>3, <1>4, <2>1, <2>2, <2>a DEF TypeOK, BufferOK, GivenFiles, FileCount, Bytes
  <2>4. firstMeta' = Meta(files[1]) /\ metadata' = firstMeta'
    BY <1>1, <1>2, <2>1 DEF OpeningInv, ServingInv, Serving, Mismatch
  <2>5. ServingInv'
    <3>1. file' = f
      BY <1>4 DEF file
    <3>2. metadata' = Meta(f)
      BY <2>1
    <3>3. FileCount' = FileCount
      BY <1>4 DEF FileCount
    <3> QED
      BY <1>2, <1>4, <2>1, <2>2, <2>4, <3>1, <3>2, <3>3 DEF ServingInv
  <2> QED
    BY <1>3, <1>4, <2>1, <2>3, <2>5 DEF IInv, OpeningInv, BufferHoldsInputTail,
      FillInv, NoHeaderInv, NoBodyInv, GotHeaderInv, GotBodyInv, DecodedInv, DrainedInv,
      ClosedInv, ViewIsOneRecord, Remaining
<1> QED
  BY <1>5, <1>6

-----------------------------------------------------------------------------
(* EnsureBytes: compaction and growth keep the unconsumed bytes.               *)

LEMMA FileTypes ==
    ASSUME TypeOK, ServingInv, Serving
    PROVE  /\ FileCount \in Nat \ {0}
           /\ cur \in 1..FileCount
           /\ IsFile(file)
           /\ file.size \in Nat
BY FilesOK DEF TypeOK, ServingInv, file, IsFile

LEMMA EnsureBytesBuffer ==
    ASSUME IInv, Serving, NEW n \in Nat, NEW loop, NEW enough,
           EnsureBytes(n, loop, enough)
    PROVE  /\ BufferOK'
           /\ Remaining' = Remaining
           /\ bufLen' <= inPos
           /\ BufferHoldsInputTail'
           /\ \/ pc' = enough /\ Remaining >= n
              \/ pc' = loop /\ bufPos' = 0
<1>1. BufferOK /\ BufferHoldsInputTail /\ bufLen <= inPos /\ inPos \in Nat
  BY DEF IInv, TypeOK, ServingInv
<1>2. cur' = cur /\ inPos' = inPos
  BY DEF EnsureBytes, fileVars
<1>3. CASE Remaining >= n
  <2>1. pc' = enough /\ UNCHANGED <<buf, bufSize, bufPos, bufLen>>
    BY <1>1, <1>3 DEF EnsureBytes, bufVars, BufferOK, Remaining
  <2> QED
    BY <1>1, <1>2, <1>3, <2>1 DEF BufferOK, BufferHoldsInputTail, Remaining, Bytes, FileCount,
      EnsureBytes, fileVars
<1>4. CASE Remaining < n
  <2>1. /\ bufPos' = 0 /\ bufLen' = Remaining /\ pc' = loop
        /\ bufSize' = IF bufSize < Want(n) THEN Want(n) ELSE bufSize
        /\ buf' = [i \in 0..(bufSize' - 1) |-> IF i < bufSize THEN Compacted(i) ELSE ZeroByte]
    BY <1>1, <1>4 DEF EnsureBytes, BufferOK, Remaining
  <2>2. bufSize' \in Nat /\ bufSize' >= bufSize
    BY <1>1, <2>1, SizesAssumption DEF Want, BufferOK
  <2>3. \A i \in 0..(bufSize - 1) : Compacted(i) \in Bytes
    BY <1>1 DEF Compacted, BufferOK, Remaining
  <2>4. ZeroByte \in Bytes
    BY FilesOK DEF IInv, TypeOK, ZeroByte, Bytes
  <2>5. buf' \in [0..(bufSize' - 1) -> Bytes]
    BY <1>1, <2>1, <2>2, <2>3, <2>4 DEF BufferOK
  <2>6. Bytes' = Bytes
    BY DEF EnsureBytes, fileVars, Bytes, FileCount
  <2>7. BufferOK'
    BY <1>1, <2>1, <2>2, <2>5, <2>6 DEF BufferOK, Remaining
  <2>8. ASSUME NEW i \in bufPos'..(bufLen' - 1)
        PROVE  buf'[i] = <<cur, inPos - (bufLen' - i)>>
    <3>1. i \in 0..(bufSize' - 1) /\ i < bufSize /\ i < Remaining
      BY <1>1, <2>1, <2>2 DEF BufferOK, Remaining
    <3>2. buf'[i] = buf[bufPos + i]
      BY <2>1, <3>1 DEF Compacted
    <3>3. bufPos + i \in bufPos..(bufLen - 1)
      BY <1>1, <2>1, <3>1 DEF BufferOK, Remaining
    <3>4. buf[bufPos + i] = <<cur, inPos - (bufLen - (bufPos + i))>>
      BY <1>1, <3>3 DEF BufferHoldsInputTail
    <3>5. inPos - (bufLen - (bufPos + i)) = inPos - (bufLen' - i)
      BY <1>1, <2>1, <3>1 DEF BufferOK, Remaining
    <3> QED
      BY <3>2, <3>4, <3>5
  <2>9. Remaining' = Remaining /\ bufLen' <= inPos
    BY <1>1, <2>1 DEF BufferOK, Remaining
  <2> QED
    BY <1>2, <2>1, <2>7, <2>8, <2>9 DEF BufferHoldsInputTail
<1> QED
  BY <1>1, <1>3, <1>4 DEF BufferOK, Remaining

(* The read loop appends what comes next in the file.                          *)
LEMMA RefillBuffer ==
    ASSUME IInv, Serving, bufPos = 0, NEW n \in Nat, NEW enough, NEW short,
           Refill(n, enough, short), UNCHANGED fileVars
    PROVE  /\ BufferOK'
           /\ bufPos' = 0
           /\ inPos' \in Nat /\ inPos' <= file.size /\ bufLen' <= inPos'
           /\ inPos' - Remaining' = inPos - Remaining
           /\ Remaining' >= Remaining
           /\ BufferHoldsInputTail'
           /\ \/ pc' = enough /\ Remaining' >= n
              \/ /\ pc' = short
                 /\ Remaining' < n
                 /\ inPos' = file.size
                 /\ ~file.damaged
              \/ pc' = "failed"
              \/ pc' = pc
<1>1. /\ BufferOK /\ BufferHoldsInputTail /\ bufLen <= inPos /\ inPos \in Nat
      /\ inPos <= file.size /\ DrainedInv /\ cur \in 1..FileCount
      /\ FileCount \in Nat \ {0} /\ file.size \in Nat
  BY FileTypes DEF IInv, TypeOK, ServingInv
<1>2. cur' = cur
  BY DEF fileVars
<1>3. Bytes' = Bytes
  BY DEF fileVars, Bytes, FileCount
<1>4. CASE UNCHANGED <<inPos, bufVars>>
  <2>1. UNCHANGED <<inPos, buf, bufSize, bufPos, bufLen>>
    BY <1>4 DEF bufVars
  <2>2. BufferOK' /\ BufferHoldsInputTail'
    BY <1>1, <1>2, <1>3, <2>1 DEF BufferOK, BufferHoldsInputTail
  <2>3. \/ pc' = enough /\ bufLen >= n
        \/ pc' = short /\ bufLen < n /\ (~inputOpen \/ (~file.damaged /\ Available = 0))
        \/ pc' = "failed"
        \/ pc' = pc
    BY DEF Refill, Throw
  <2>4. ~inputOpen \/ (~file.damaged /\ Available = 0) => inPos = file.size /\ ~file.damaged
    BY <1>1 DEF DrainedInv, Available
  <2> QED
    BY <1>1, <2>1, <2>2, <2>3, <2>4 DEF BufferOK, Remaining
<1>5. CASE /\ Got > 0
           /\ buf' = Filled(Got)
           /\ bufLen' = bufLen + Got
           /\ inPos' = inPos + Got
           /\ UNCHANGED <<bufSize, bufPos, pc, fault>>
  <2>1. Got \in Nat /\ bufLen + Got <= bufSize /\ inPos + Got <= file.size
    BY <1>1, <1>5 DEF Got, Space, Available, BufferOK
  <2>2. \A i \in 0..(bufSize - 1) : Filled(Got)[i] \in Bytes
    BY <1>1, <2>1 DEF Filled, BufferOK, Bytes
  <2>3. Filled(Got) \in [0..(bufSize - 1) -> Bytes]
    BY <2>2 DEF Filled
  <2>4. BufferOK'
    BY <1>1, <1>3, <1>5, <2>1, <2>3 DEF BufferOK
  <2>5. ASSUME NEW i \in bufPos'..(bufLen' - 1)
        PROVE  buf'[i] = <<cur, inPos' - (bufLen' - i)>>
    <3>1. i \in 0..(bufSize - 1)
      BY <1>1, <1>5, <2>1 DEF BufferOK
    <3>2. inPos' - (bufLen' - i) = inPos - (bufLen - i)
      BY <1>1, <1>5, <2>1, <3>1 DEF BufferOK
    <3>3. CASE i < bufLen
      <4>1. buf'[i] = buf[i]
        BY <1>1, <1>5, <3>1, <3>3 DEF Filled, BufferOK
      <4> QED
        BY <1>1, <1>5, <3>1, <3>2, <3>3, <4>1 DEF BufferHoldsInputTail, BufferOK
    <3>4. CASE i >= bufLen
      <4>1. buf'[i] = <<cur, inPos + (i - bufLen)>>
        BY <1>1, <1>5, <2>1, <3>1, <3>4 DEF Filled, BufferOK
      <4> QED
        BY <1>1, <3>1, <3>2, <4>1 DEF BufferOK
    <3> QED
      BY <1>1, <3>1, <3>3, <3>4 DEF BufferOK
  <2> QED
    BY <1>1, <1>2, <1>5, <2>1, <2>4, <2>5 DEF BufferOK, BufferHoldsInputTail, Remaining
<1> QED
  BY <1>4, <1>5 DEF Refill

-----------------------------------------------------------------------------
(* Every step keeps the invariant.                                             *)

LEMMA TotalNat ==
    ASSUME TypeOK
    PROVE  Total \in Nat
BY TrailerNat DEF TypeOK, Total

LEMMA EnsureHeaderIInv ==
    ASSUME IInv, EnsureHeader
    PROVE  IInv'
<1>1. pc = "header" /\ EnsureBytes(HeaderLen, "fill_header", "got_header")
  BY DEF EnsureHeader
<1>2. Serving
  BY <1>1 DEF Serving
<1>3. UNCHANGED <<fileVars, inPos, hdrBytes, view, out, fault>>
  BY <1>1 DEF EnsureBytes
<1>4. /\ BufferOK' /\ BufferHoldsInputTail' /\ Remaining' = Remaining /\ bufLen' <= inPos
      /\ \/ pc' = "got_header" /\ Remaining >= HeaderLen
         \/ pc' = "fill_header" /\ bufPos' = 0
  BY <1>1, <1>2, SizesAssumption, EnsureBytesBuffer
<1>5. UNCHANGED <<FileCount, file, cur, next, metadata, firstMeta, firstOpened, inputOpen, files>>
  BY <1>3 DEF fileVars, FileCount, file
<1>6. TypeOK'
  BY <1>3, <1>4, <1>5 DEF IInv, TypeOK, GivenFiles, FlagsOK
<1>7. ServingInv'
  BY <1>2, <1>3, <1>4, <1>5 DEF IInv, ServingInv
<1> QED
  BY <1>1, <1>2, <1>3, <1>4, <1>5, <1>6, <1>7 DEF IInv, OpeningInv, Serving, FillInv, NoHeaderInv,
    NoBodyInv, GotHeaderInv, GotBodyInv, DecodedInv, DrainedInv, ClosedInv, ViewIsOneRecord

LEMMA EnsureBodyIInv ==
    ASSUME IInv, EnsureBody
    PROVE  IInv'
<1>1. pc = "body" /\ EnsureBytes(Total, "fill_body", "got_body")
  BY DEF EnsureBody
<1>2. Serving
  BY <1>1 DEF Serving
<1>3. UNCHANGED <<fileVars, inPos, hdrBytes, view, out, fault>>
  BY <1>1 DEF EnsureBytes
<1>4. /\ BufferOK' /\ BufferHoldsInputTail' /\ Remaining' = Remaining /\ bufLen' <= inPos
      /\ \/ pc' = "got_body" /\ Remaining >= Total
         \/ pc' = "fill_body" /\ bufPos' = 0
  BY <1>1, <1>2, TotalNat, EnsureBytesBuffer DEF IInv
<1>5. UNCHANGED <<FileCount, file, cur, next, metadata, firstMeta, firstOpened, inputOpen, files>>
  BY <1>3 DEF fileVars, FileCount, file
<1>6. TypeOK' /\ Total' = Total
  BY <1>3, <1>4, <1>5 DEF IInv, TypeOK, GivenFiles, FlagsOK, Total
<1>7. ServingInv'
  BY <1>2, <1>3, <1>4, <1>5 DEF IInv, ServingInv
<1>8. DecodedInv'
  BY <1>1, <1>3, <1>4, <1>5 DEF IInv, DecodedInv, RecordBytes
<1> QED
  BY <1>1, <1>2, <1>3, <1>4, <1>5, <1>6, <1>7, <1>8 DEF IInv, OpeningInv, Serving, FillInv,
    NoHeaderInv, NoBodyInv, GotHeaderInv, GotBodyInv, DrainedInv, ClosedInv, ViewIsOneRecord

LEMMA FillHeaderIInv ==
    ASSUME IInv, FillHeader
    PROVE  IInv'
<1>1. /\ pc = "fill_header" /\ Refill(HeaderLen, "got_header", "no_header")
      /\ UNCHANGED <<fileVars, hdrBytes, view, out>>
  BY DEF FillHeader
<1>2. Serving /\ bufPos = 0
  BY <1>1 DEF Serving, IInv, FillInv
<1>3. UNCHANGED <<FileCount, file, cur, next, metadata, firstMeta, firstOpened, inputOpen, files>>
  BY <1>1 DEF fileVars, FileCount, file
<1>4. /\ BufferOK' /\ BufferHoldsInputTail' /\ bufPos' = 0
      /\ inPos' \in Nat /\ inPos' <= file.size /\ bufLen' <= inPos'
      /\ \/ pc' = "got_header" /\ Remaining' >= HeaderLen
         \/ pc' = "no_header" /\ Remaining' < HeaderLen /\ inPos' = file.size /\ ~file.damaged
         \/ pc' = "failed"
         \/ pc' = "fill_header"
  BY <1>1, <1>2, SizesAssumption, RefillBuffer
<1>5. TypeOK'
  BY <1>1, <1>3, <1>4 DEF IInv, TypeOK, GivenFiles, FlagsOK
<1>6. ServingInv'
  BY <1>2, <1>3, <1>4 DEF IInv, ServingInv
<1>7. DrainedInv'
  <2>1. inputOpen => inputOpen'
    BY <1>3
  <2>2. ~inputOpen => inPos = file.size /\ ~file.damaged
    BY <1>2 DEF IInv, DrainedInv
  <2>3. ~inputOpen => UNCHANGED inPos
    BY <1>1 DEF Refill
  <2> QED
    BY <1>3, <1>4, <2>1, <2>2, <2>3 DEF DrainedInv, Serving
<1> QED
  BY <1>1, <1>2, <1>3, <1>4, <1>5, <1>6, <1>7 DEF IInv, OpeningInv, Serving, FillInv,
    NoHeaderInv, NoBodyInv, GotHeaderInv, GotBodyInv, DecodedInv, ClosedInv, ViewIsOneRecord

LEMMA FillBodyIInv ==
    ASSUME IInv, FillBody
    PROVE  IInv'
<1>1. /\ pc = "fill_body" /\ Refill(Total, "got_body", "no_body")
      /\ UNCHANGED <<fileVars, hdrBytes, view, out>>
  BY DEF FillBody
<1>2. Serving /\ bufPos = 0
  BY <1>1 DEF Serving, IInv, FillInv
<1>3. UNCHANGED <<FileCount, file, cur, next, metadata, firstMeta, firstOpened, inputOpen, files>>
  BY <1>1 DEF fileVars, FileCount, file
<1>4. /\ BufferOK' /\ BufferHoldsInputTail' /\ bufPos' = 0
      /\ inPos' \in Nat /\ inPos' <= file.size /\ bufLen' <= inPos'
      /\ inPos' - Remaining' = inPos - Remaining /\ Remaining' >= Remaining
      /\ \/ pc' = "got_body" /\ Remaining' >= Total
         \/ pc' = "no_body" /\ Remaining' < Total /\ inPos' = file.size /\ ~file.damaged
         \/ pc' = "failed"
         \/ pc' = "fill_body"
  BY <1>1, <1>2, TotalNat, RefillBuffer DEF IInv
<1>5. TypeOK' /\ Total' = Total
  BY <1>1, <1>3, <1>4 DEF IInv, TypeOK, GivenFiles, FlagsOK, Total
<1>6. ServingInv'
  BY <1>2, <1>3, <1>4 DEF IInv, ServingInv
<1>7. DrainedInv'
  <2>1. inputOpen => inputOpen'
    BY <1>3
  <2>2. ~inputOpen => inPos = file.size /\ ~file.damaged
    BY <1>2 DEF IInv, DrainedInv
  <2>3. ~inputOpen => UNCHANGED inPos
    BY <1>1 DEF Refill
  <2> QED
    BY <1>3, <1>4, <2>1, <2>2, <2>3 DEF DrainedInv, Serving
<1>8. DecodedInv'
  <2>1. /\ Remaining >= HeaderLen /\ hdrBytes \in HeaderLen..MaxRecordLen
        /\ hdrBytes = RecordBytes(file, inPos - Remaining)
    BY <1>1 DEF IInv, DecodedInv
  <2>2. Remaining' >= HeaderLen
    <3>1. Remaining \in Int /\ Remaining' \in Int
      BY <1>4 DEF IInv, TypeOK, BufferOK, Remaining
    <3> QED
      BY <1>4, <2>1, <3>1, SizesAssumption
  <2> QED
    BY <1>1, <1>3, <1>4, <2>1, <2>2 DEF DecodedInv, RecordBytes
<1> QED
  BY <1>1, <1>2, <1>3, <1>4, <1>5, <1>6, <1>7, <1>8 DEF IInv, OpeningInv, Serving, FillInv,
    NoHeaderInv, NoBodyInv, GotHeaderInv, GotBodyInv, ClosedInv, ViewIsOneRecord

LEMMA NextRecordIInv ==
    ASSUME IInv, NextRecord
    PROVE  IInv'
<1>1. /\ pc = "ready" /\ pc' = "header"
      /\ UNCHANGED <<files, next, cur, inputOpen, metadata, firstMeta, firstOpened, inPos>>
      /\ UNCHANGED <<buf, bufSize, bufPos, bufLen, hdrBytes, view>>
  BY DEF NextRecord, fileVars, bufVars
<1>2. UNCHANGED <<FileCount, file, Remaining, Bytes>>
  BY <1>1 DEF FileCount, file, Remaining, Bytes
<1>3. TypeOK'
  BY <1>1, <1>2 DEF IInv, TypeOK, BufferOK, GivenFiles, FlagsOK
<1> QED
  BY <1>1, <1>2, <1>3 DEF IInv, OpeningInv, ServingInv, Serving, BufferHoldsInputTail, FillInv,
    NoHeaderInv, NoBodyInv, GotHeaderInv, GotBodyInv, DecodedInv, DrainedInv, ClosedInv,
    ViewIsOneRecord

LEMMA EndOfFilesIInv ==
    ASSUME IInv, EndOfFiles
    PROVE  IInv'
<1>1. /\ pc = "no_header" /\ Remaining = 0 /\ next > FileCount
      /\ inputOpen' = FALSE /\ pc' = "ready"
      /\ UNCHANGED <<files, next, cur, metadata, firstMeta, firstOpened, inPos>>
      /\ UNCHANGED <<buf, bufSize, bufPos, bufLen, hdrBytes, view>>
  BY DEF EndOfFiles, bufVars
<1>2. UNCHANGED <<FileCount, file, Remaining, Bytes>>
  BY <1>1 DEF FileCount, file, Remaining, Bytes
<1>3. FlagsOK'
  BY <1>1 DEF IInv, TypeOK, FlagsOK
<1>4. TypeOK'
  BY <1>1, <1>2, <1>3 DEF IInv, TypeOK, BufferOK, GivenFiles
<1>5. ServingInv'
  BY <1>1, <1>2 DEF IInv, ServingInv, Serving
<1>6. DrainedInv' /\ ClosedInv'
  BY <1>1, <1>2 DEF IInv, DrainedInv, ClosedInv
<1> QED
  BY <1>1, <1>2, <1>4, <1>5, <1>6 DEF IInv, OpeningInv, BufferHoldsInputTail, FillInv,
    NoHeaderInv, NoBodyInv, GotHeaderInv, GotBodyInv, DecodedInv, ViewIsOneRecord

(* The header read is the one at the position of the next record.              *)
LEMMA HeaderIsNext ==
    ASSUME IInv, pc = "got_header"
    PROVE  /\ HeaderField(buf[bufPos]) = RecordBytes(file, inPos - Remaining)
           /\ RecordBytes(file, inPos - Remaining) \in Nat
           /\ inPos - Remaining \in 0..(file.size - 1)
<1>1. /\ BufferOK /\ inPos \in Nat /\ inPos <= file.size /\ bufLen <= inPos
      /\ cur \in 1..FileCount /\ FileCount \in Nat \ {0} /\ IsFile(file) /\ file.size \in Nat
  BY FileTypes DEF IInv, TypeOK, ServingInv, Serving
<1>2. Remaining >= HeaderLen
  BY DEF IInv, GotHeaderInv
<1>3. bufPos \in bufPos..(bufLen - 1) /\ inPos - Remaining \in 0..(file.size - 1)
  BY <1>1, <1>2, SizesAssumption DEF BufferOK, Remaining
<1>4. buf[bufPos] = <<cur, inPos - (bufLen - bufPos)>>
  BY <1>3 DEF IInv, BufferHoldsInputTail
<1>5. buf[bufPos] # ZeroByte
  BY <1>1, <1>4 DEF ZeroByte
<1>6. HeaderField(buf[bufPos]) = RecordBytes(files[cur], inPos - Remaining)
  BY <1>4, <1>5 DEF HeaderField, Remaining
<1> QED
  BY <1>1, <1>3, <1>6, RecordBytesNat DEF file

LEMMA DecodeHeaderIInv ==
    ASSUME IInv, DecodeHeader
    PROVE  IInv'
<1>1. /\ pc = "got_header" /\ hdrBytes' = HeaderField(buf[bufPos])
      /\ \/ pc' = "failed"
         \/ pc' = "body" /\ hdrBytes' \in HeaderLen..MaxRecordLen
      /\ UNCHANGED <<files, next, cur, inputOpen, metadata, firstMeta, firstOpened, inPos>>
      /\ UNCHANGED <<buf, bufSize, bufPos, bufLen, view>>
  BY DEF DecodeHeader, Throw, fileVars, bufVars
<1>2. UNCHANGED <<FileCount, file, Remaining, Bytes>>
  BY <1>1 DEF FileCount, file, Remaining, Bytes
<1>3. hdrBytes' = RecordBytes(file, inPos - Remaining) /\ hdrBytes' \in Nat
  BY <1>1, HeaderIsNext
<1>4. TypeOK'
  BY <1>1, <1>2, <1>3 DEF IInv, TypeOK, BufferOK, GivenFiles, FlagsOK
<1>5. DecodedInv'
  BY <1>1, <1>2, <1>3 DEF IInv, GotHeaderInv, DecodedInv, RecordBytes
<1> QED
  BY <1>1, <1>2, <1>4, <1>5 DEF IInv, OpeningInv, ServingInv, Serving, BufferHoldsInputTail,
    FillInv, NoHeaderInv, NoBodyInv, GotHeaderInv, GotBodyInv, DrainedInv, ClosedInv,
    ViewIsOneRecord

LEMMA ReturnViewIInv ==
    ASSUME IInv, ReturnView
    PROVE  IInv'
<1>1. /\ pc = "got_body" /\ pc' = "copy" /\ view' = bufPos /\ bufPos' = bufPos + Total
      /\ UNCHANGED <<files, next, cur, inputOpen, metadata, firstMeta, firstOpened, inPos>>
      /\ UNCHANGED <<buf, bufSize, bufLen, hdrBytes>>
  BY DEF ReturnView, fileVars
<1>2. UNCHANGED <<FileCount, file, Bytes, Total>>
  BY <1>1 DEF FileCount, file, Bytes, Total
<1>3. /\ BufferOK /\ inPos \in Nat /\ bufLen <= inPos /\ Total \in Nat /\ Remaining >= Total
      /\ hdrBytes = RecordBytes(file, inPos - Remaining)
  BY <1>1, TotalNat DEF IInv, TypeOK, ServingInv, Serving, GotBodyInv, DecodedInv
<1>4. BufferOK' /\ Remaining' = Remaining - Total /\ view' \in Nat
  BY <1>1, <1>2, <1>3 DEF BufferOK, Remaining
<1>5. TypeOK'
  BY <1>1, <1>2, <1>4 DEF IInv, TypeOK, GivenFiles, FlagsOK
<1>6. BufferHoldsInputTail'
  BY <1>1, <1>3 DEF IInv, BufferHoldsInputTail, BufferOK, Remaining
<1>7. inPos' - Remaining' - Total' = inPos - Remaining
  BY <1>1, <1>2, <1>3, <1>4 DEF BufferOK, Remaining
<1>8. view' + Total' <= bufSize'
  BY <1>1, <1>2, <1>3 DEF BufferOK, Remaining
<1>9. ASSUME NEW i \in 0..(Total - 1)
      PROVE  buf[bufPos + i] = <<cur, (inPos - Remaining) + i>>
  <2>1. bufPos + i \in bufPos..(bufLen - 1)
    BY <1>3 DEF BufferOK, Remaining
  <2>2. inPos - (bufLen - (bufPos + i)) = (inPos - Remaining) + i
    BY <1>3 DEF BufferOK, Remaining
  <2> QED
    BY <2>1, <2>2 DEF IInv, BufferHoldsInputTail
<1>10. ViewIsOneRecord'
  BY <1>1, <1>2, <1>3, <1>7, <1>8, <1>9 DEF ViewIsOneRecord, RecordBytes
<1> QED
  BY <1>1, <1>2, <1>5, <1>6, <1>10 DEF IInv, OpeningInv, ServingInv, Serving, FillInv,
    NoHeaderInv, NoBodyInv, GotHeaderInv, GotBodyInv, DecodedInv, DrainedInv, ClosedInv

LEMMA NextRecordRawIInv ==
    ASSUME IInv, NextRecordRaw
    PROVE  IInv'
<1>1. /\ pc = "copy" /\ pc' = "ready"
      /\ UNCHANGED <<files, next, cur, inputOpen, metadata, firstMeta, firstOpened, inPos>>
      /\ UNCHANGED <<buf, bufSize, bufPos, bufLen, hdrBytes, view>>
  BY DEF NextRecordRaw, fileVars, bufVars
<1>2. UNCHANGED <<FileCount, file, Remaining, Bytes>>
  BY <1>1 DEF FileCount, file, Remaining, Bytes
<1>3. TypeOK'
  BY <1>1, <1>2 DEF IInv, TypeOK, BufferOK, GivenFiles, FlagsOK
<1> QED
  BY <1>1, <1>2, <1>3 DEF IInv, OpeningInv, ServingInv, Serving, BufferHoldsInputTail, FillInv,
    NoHeaderInv, NoBodyInv, GotHeaderInv, GotBodyInv, DecodedInv, DrainedInv, ClosedInv,
    ViewIsOneRecord

LEMMA ThrowingIInv ==
    ASSUME IInv, TruncatedHeader \/ ShortBody
    PROVE  IInv'
<1>1. /\ pc' = "failed"
      /\ UNCHANGED <<files, next, cur, inputOpen, metadata, firstMeta, firstOpened, inPos>>
      /\ UNCHANGED <<buf, bufSize, bufPos, bufLen, hdrBytes, view>>
  BY DEF TruncatedHeader, ShortBody, Throw, fileVars, bufVars
<1>2. UNCHANGED <<FileCount, Bytes>>
  BY <1>1 DEF FileCount, Bytes
<1>3. TypeOK'
  BY <1>1, <1>2 DEF IInv, TypeOK, BufferOK, GivenFiles, FlagsOK
<1> QED
  BY <1>1, <1>2, <1>3 DEF IInv, OpeningInv, ServingInv, Serving, BufferHoldsInputTail, FillInv,
    NoHeaderInv, NoBodyInv, GotHeaderInv, GotBodyInv, DecodedInv, DrainedInv, ClosedInv,
    ViewIsOneRecord

LEMMA StutterIInv ==
    ASSUME IInv, UNCHANGED vars
    PROVE  IInv'
<1>1. /\ UNCHANGED <<files, next, cur, inputOpen, metadata, firstMeta, firstOpened, inPos>>
      /\ UNCHANGED <<buf, bufSize, bufPos, bufLen, hdrBytes, view, pc>>
  BY DEF vars, fileVars, bufVars
<1>2. UNCHANGED <<FileCount, file, Remaining, Bytes, Total>>
  BY <1>1 DEF FileCount, file, Remaining, Bytes, Total
<1>3. TypeOK'
  BY <1>1, <1>2 DEF IInv, TypeOK, BufferOK, GivenFiles, FlagsOK
<1> QED
  BY <1>1, <1>2, <1>3 DEF IInv, OpeningInv, ServingInv, Serving, BufferHoldsInputTail, FillInv,
    NoHeaderInv, NoBodyInv, GotHeaderInv, GotBodyInv, DecodedInv, DrainedInv, ClosedInv,
    ViewIsOneRecord, RecordBytes

LEMMA NextIInv == IInv /\ [Next]_vars => IInv'
<1> SUFFICES ASSUME IInv, [Next]_vars PROVE IInv'
  OBVIOUS
<1>1. CASE Construct
  <2>1. Remaining = 0
    BY <1>1 DEF Construct, IInv, TypeOK, BufferOK, OpeningInv, Remaining
  <2> QED
    BY <1>1, <2>1, TakeNextPathIInv DEF Construct
<1>2. CASE NextFile
  BY <1>2, TakeNextPathIInv DEF NextFile
<1> QED
  BY <1>1, <1>2, NextRecordIInv, EnsureHeaderIInv, FillHeaderIInv, ThrowingIInv, EndOfFilesIInv,
    DecodeHeaderIInv, EnsureBodyIInv, FillBodyIInv, ReturnViewIInv, NextRecordRawIInv, StutterIInv
    DEF Next, NextRecordView, Failed

-----------------------------------------------------------------------------
(* In every run of the reader, for every input and every block size, the       *)
(* cursors of read_buf_ stay in order and inside it.                            *)
THEOREM TypeCorrect == Spec => []TypeOK
<1>1. IInv => TypeOK
  BY DEF IInv
<1> QED
  BY <1>1, InitIInv, NextIInv, PTL DEF Spec

(* The unconsumed bytes of read_buf_ are always the last ones the input         *)
(* delivered: EnsureBytes neither loses, repeats nor mixes bytes.               *)
THEOREM BufferCorrect == Spec => []BufferHoldsInputTail
<1>1. IInv => BufferHoldsInputTail
  BY DEF IInv
<1> QED
  BY <1>1, InitIInv, NextIInv, PTL DEF Spec

(* The pointer NextRecordView returns always shows one whole record and its     *)
(* ts_out trailer, also when fetching the body moved or grew the buffer.        *)
THEOREM ViewCorrect == Spec => []ViewIsOneRecord
<1>1. IInv => ViewIsOneRecord
  BY DEF IInv
<1> QED
  BY <1>1, InitIInv, NextIInv, PTL DEF Spec

(* While records are served, metadata_, first_metadata_ and the open file agree *)
(* on schema, version and ts_out.                                               *)
THEOREM MetadataCorrect == Spec => []MetadataOfEveryFile
<1>1. IInv => MetadataOfEveryFile
  BY DEF IInv, ServingInv, Serving, MetadataOfEveryFile
<1> QED
  BY <1>1, InitIInv, NextIInv, PTL DEF Spec

-----------------------------------------------------------------------------
(* Every step of the buffered reader is a step of RecordStream or changes      *)
(* nothing its callers can see, for every input, record length and block size. *)

(* The values Stream substitutes for the variables of RecordStream.            *)
NextPos == inPos - Remaining - (IF pc = "copy" THEN Total ELSE 0)
Status ==
    IF pc = "open" THEN "opening"
    ELSE IF pc \in {"ready", "failed"} THEN pc ELSE "pending"

-----------------------------------------------------------------------------
(* The operators of DbnFile, as RecordStream sees them.                        *)

LEMMA SameFiles ==
    /\ Stream!NoFault = NoFault
    /\ Stream!NoAnswer = NoAnswer
    /\ Stream!EndOfStream = EndOfStream
    /\ \A f : Stream!Meta(f) = Meta(f)
    /\ \A f : Stream!OpenFault(f) = OpenFault(f)
    /\ \A f : Stream!BodyStart(f) = BodyStart(f)
    /\ \A m : Stream!Trailer(m) = Trailer(m)
    /\ \A f, at : Stream!RecordBytes(f, at) = RecordBytes(f, at)
BY DEF Stream!NoFault, NoFault, Stream!NoAnswer, NoAnswer, Stream!EndOfStream, EndOfStream,
    Stream!Meta, Meta, Stream!OpenFault, OpenFault, Stream!ReadExactFault, ReadExactFault,
    Stream!BodyStart, BodyStart, Stream!Trailer, Trailer, Stream!RecordBytes, RecordBytes

LEMMA SameState ==
    /\ Stream!file = file
    /\ Stream!Left = file.size - NextPos
    /\ Stream!Total = RecordBytes(file, NextPos) + Trailer(Meta(file))
    /\ Stream!LegalLength <=> RecordBytes(file, NextPos) \in HeaderLen..MaxRecordLen
    /\ Stream!HasHeader <=> Status = "pending" /\ file.size - NextPos >= HeaderLen
    /\ Stream!AtEnd <=> Status = "pending" /\ file.size - NextPos = 0 /\ ~file.damaged
BY SameFiles DEF Stream!file, file, Stream!Left, Stream!Total, NextPos, Status,
    Stream!LegalLength, Stream!HasHeader, Stream!AtEnd

(* A step that changes neither of them and none of the visible variables.      *)
LEMMA Hidden ==
    ASSUME UNCHANGED <<files, cur, out, fault>>, NextPos' = NextPos, Status' = Status
    PROVE  UNCHANGED Stream!vars
BY DEF Stream!vars, NextPos, Status

LEMMA Thrown ==
    ASSUME NEW what, Throw(what), UNCHANGED <<files, out>>, NextPos' = NextPos
    PROVE  Stream!Throw(what)
BY DEF Throw, Stream!Throw, NextPos, Status

-----------------------------------------------------------------------------
(* One lemma for each kind of step.                                            *)

LEMMA OpenMaps ==
    ASSUME IInv, NEW then \in {"ready", "header"}, TakeNextPath(then),
           \/ pc = "open" /\ then = "ready"
           \/ pc = "no_header" /\ then = "header" /\ Remaining = 0
    PROVE  Stream!Construct \/ Stream!NextFile
<1> DEFINE f == files[next]
           after == IF then = "ready" THEN "ready" ELSE "pending"
<1>1. /\ TypeOK /\ OpeningInv /\ ServingInv /\ FillInv /\ DrainedInv
      /\ FileCount \in Nat \ {0}
  BY FilesOK DEF IInv, TypeOK
<1>2. Remaining = 0 /\ bufPos = 0 /\ bufLen = 0
  BY <1>1 DEF TypeOK, BufferOK, OpeningInv, FillInv, Remaining
<1>3. next = cur + 1 /\ cur < Len(files) /\ cur' = cur + 1 /\ UNCHANGED <<files, out>>
  BY <1>1 DEF TypeOK, OpeningInv, ServingInv, Serving, FileCount, TakeNextPath
<1>4. /\ UNCHANGED <<bufPos, bufLen>>
      /\ Remaining' = 0
  BY <1>2 DEF TakeNextPath, bufVars, Remaining
<1>5. Stream!Consistent(cur + 1) <=> ~Mismatch(f)
  BY <1>1, <1>3, SameFiles DEF Stream!Consistent, Mismatch, OpeningInv, ServingInv, Serving,
    TypeOK
<1>6. Stream!Open(after)
  <2>1. CASE OpenFault(f) = NoFault /\ ~Mismatch(f)
    <3>1. inPos' = BodyStart(f) /\ pc' = then /\ UNCHANGED fault
      BY <2>1 DEF TakeNextPath
    <3>2. BodyStart(f) \in Nat
      BY <1>1, <1>3, <2>1, FilesOK, OpenedFile DEF TypeOK, FileCount
    <3>3. NextPos' = BodyStart(f) /\ Status' = after
      BY <1>4, <3>1, <3>2 DEF NextPos, Status
    <3> QED
      BY <1>3, <1>5, <2>1, <3>1, <3>3, SameFiles DEF Stream!Open, NextPos, Status
  <2>2. CASE OpenFault(f) # NoFault
    <3>1. Throw(OpenFault(f)) /\ inPos' = inPos
      BY <2>2 DEF TakeNextPath
    <3>2. NextPos' = NextPos
      BY <1>2, <1>4, <3>1 DEF NextPos, Throw
    <3> QED
      BY <1>3, <2>2, <3>1, <3>2, SameFiles, Thrown DEF Stream!Open
  <2>3. CASE OpenFault(f) = NoFault /\ Mismatch(f)
    <3>1. Throw("inconsistent_files") /\ inPos' = inPos
      BY <2>3 DEF TakeNextPath
    <3>2. NextPos' = NextPos
      BY <1>2, <1>4, <3>1 DEF NextPos, Throw
    <3> QED
      BY <1>3, <1>5, <2>3, <3>1, <3>2, SameFiles, Thrown DEF Stream!Open
  <2> QED
    BY <2>1, <2>2, <2>3
<1>7. CASE pc = "open"
  BY <1>6, <1>7 DEF Stream!Construct, Status
<1>8. CASE pc = "no_header"
  <2>1. file.size - NextPos = 0 /\ ~file.damaged
    BY <1>1, <1>2, <1>8, FileTypes DEF DrainedInv, NextPos, Serving, TypeOK
  <2>2. Stream!AtEnd
    BY <1>8, <2>1, SameState DEF Status
  <2> QED
    BY <1>6, <1>8, <2>2 DEF Stream!NextFile
<1> QED
  BY <1>7, <1>8

LEMMA EnsureMaps ==
    ASSUME IInv, NEW n \in Nat, NEW loop, NEW enough, EnsureBytes(n, loop, enough),
           Serving, Status = "pending", pc # "copy",
           loop \in {"fill_header", "fill_body"}, enough \in {"got_header", "got_body"}
    PROVE  UNCHANGED Stream!vars
<1>1. Remaining' = Remaining /\ pc' \in {loop, enough}
  BY EnsureBytesBuffer
<1>2. UNCHANGED <<files, cur, inPos, out, fault>>
  BY DEF EnsureBytes, fileVars
<1> QED
  BY <1>1, <1>2, Hidden DEF NextPos, Status

LEMMA RefillMaps ==
    ASSUME IInv, NEW n \in Nat, NEW enough, NEW short, Refill(n, enough, short),
           UNCHANGED <<fileVars, hdrBytes, view, out>>,
           Serving, Status = "pending", pc # "copy", bufPos = 0,
           enough \in {"got_header", "got_body"}, short \in {"no_header", "no_body"}
    PROVE  UNCHANGED Stream!vars \/ Stream!Damaged
<1>1. /\ inPos' - Remaining' = inPos - Remaining
      /\ pc' \in {enough, short, pc, "failed"}
      /\ UNCHANGED <<files, cur, out>>
  BY RefillBuffer DEF fileVars
<1>2. NextPos' = NextPos
  BY <1>1 DEF NextPos
<1>3. CASE file.damaged /\ Throw("decompression_error")
  BY <1>1, <1>2, <1>3, Thrown, SameState DEF Stream!Damaged, Status
<1>4. CASE UNCHANGED fault /\ pc' \in {enough, short, pc}
  BY <1>1, <1>2, <1>4, Hidden DEF Status
<1> QED
  BY <1>3, <1>4 DEF Refill

LEMMA TruncatedMaps ==
    ASSUME IInv, TruncatedHeader \/ ShortBody
    PROVE  Stream!Truncated
<1>1. /\ pc \in {"no_header", "no_body"}
      /\ UNCHANGED <<files, cur, inPos, bufPos, bufLen, out>>
      /\ pc' = "failed"
  BY DEF TruncatedHeader, ShortBody, fileVars, bufVars, Throw
<1>2. /\ TypeOK /\ ServingInv /\ DrainedInv /\ NoHeaderInv /\ NoBodyInv /\ DecodedInv
      /\ Serving
  BY <1>1 DEF IInv, Serving
<1>3. inPos = file.size /\ ~file.damaged /\ Remaining \in Nat /\ file.size \in Nat
  BY <1>1, <1>2, FileTypes DEF DrainedInv, TypeOK, BufferOK, Remaining
<1>4. NextPos = inPos - Remaining /\ NextPos' = NextPos /\ Status = "pending"
  BY <1>1, <1>3 DEF NextPos, Status, Remaining
<1>5. file.size - NextPos = Remaining
  BY <1>3, <1>4
<1>6. CASE TruncatedHeader
  <2>1. Remaining \in 1..(HeaderLen - 1) /\ Throw("truncated_record_header")
    BY <1>2, <1>3, <1>6, SizesAssumption DEF TruncatedHeader, NoHeaderInv
  <2> QED
    BY <1>1, <1>3, <1>4, <1>5, <2>1, SameState, Thrown DEF Stream!Truncated
<1>7. CASE ShortBody
  <2>1. Throw("short_read_while_reading_record_body") /\ pc = "no_body"
    BY <1>7 DEF ShortBody
  <2>2. /\ Remaining >= HeaderLen /\ hdrBytes \in HeaderLen..MaxRecordLen
        /\ hdrBytes = RecordBytes(file, NextPos) /\ Remaining < Total
    BY <1>2, <1>4, <2>1 DEF DecodedInv, NoBodyInv
  <2>3. metadata = Meta(file)
    BY <1>2 DEF ServingInv
  <2>4. Stream!HasHeader /\ Stream!LegalLength /\ Stream!Left < Stream!Total
    BY <1>4, <1>5, <2>2, <2>3, SameState DEF Total
  <2> QED
    BY <1>1, <1>3, <1>4, <2>1, <2>4, SameState, Thrown DEF Stream!Truncated
<1> QED
  BY <1>6, <1>7

LEMMA EndMaps ==
    ASSUME IInv, EndOfFiles
    PROVE  Stream!End
<1>1. /\ pc = "no_header" /\ Remaining = 0 /\ next > FileCount
      /\ pc' = "ready" /\ out' = EndOfStream
      /\ UNCHANGED <<files, cur, inPos, bufPos, bufLen, fault>>
  BY DEF EndOfFiles, bufVars
<1>2. TypeOK /\ ServingInv /\ DrainedInv /\ Serving
  BY <1>1 DEF IInv, Serving
<1>3. /\ inPos = file.size /\ ~file.damaged /\ file.size \in Nat
      /\ cur = Len(files)
  BY <1>1, <1>2, FileTypes DEF DrainedInv, ServingInv, FileCount
<1>4. NextPos = inPos /\ NextPos' = NextPos /\ Status = "pending" /\ Status' = "ready"
  BY <1>1, <1>3 DEF NextPos, Status, Remaining
<1>5. Stream!AtEnd
  BY <1>3, <1>4, SameState
<1> QED
  BY <1>1, <1>3, <1>4, <1>5, SameFiles DEF Stream!End, NextPos, Status

LEMMA RequestMaps ==
    ASSUME IInv, NextRecord
    PROVE  Stream!Request
<1>1. /\ pc = "ready" /\ pc' = "header" /\ out' = NoAnswer
      /\ UNCHANGED <<files, cur, inPos, bufPos, bufLen, fault>>
  BY DEF NextRecord, fileVars, bufVars
<1>2. NextPos' = NextPos
  BY <1>1 DEF NextPos, Remaining
<1> QED
  BY <1>1, <1>2, SameFiles DEF Stream!Request, Status, NextPos

LEMMA DecodeMaps ==
    ASSUME IInv, DecodeHeader
    PROVE  UNCHANGED Stream!vars \/ Stream!BadRecord
<1>1. /\ pc = "got_header" /\ hdrBytes' = HeaderField(buf[bufPos])
      /\ UNCHANGED <<files, cur, inPos, bufPos, bufLen, out>>
      /\ pc' \in {"failed", "body"}
  BY DEF DecodeHeader, fileVars, bufVars, Throw
<1>2. TypeOK /\ ServingInv /\ GotHeaderInv /\ Serving
  BY <1>1 DEF IInv, Serving
<1>3. NextPos = inPos - Remaining /\ NextPos' = NextPos /\ Status = "pending"
  BY <1>1, <1>2 DEF NextPos, Status, Remaining, TypeOK, BufferOK
<1>4. hdrBytes' = RecordBytes(file, NextPos) /\ hdrBytes' \in Nat
  BY <1>1, <1>3, HeaderIsNext
<1>5. Stream!HasHeader
  <2>1. file.size - NextPos >= HeaderLen
    BY <1>1, <1>2, <1>3, FileTypes, SizesAssumption
      DEF GotHeaderInv, ServingInv, TypeOK, BufferOK, Remaining
  <2> QED
    BY <1>3, <2>1, SameState
<1>6. CASE hdrBytes' < HeaderLen /\ Throw("record_length_shorter_than_header")
  BY <1>1, <1>3, <1>4, <1>5, <1>6, SameFiles, SameState, Thrown DEF Stream!BadRecord, NextPos
<1>7. CASE hdrBytes' > MaxRecordLen /\ Throw("record_exceeds_reader_buffer")
  BY <1>1, <1>3, <1>4, <1>5, <1>7, SameFiles, SameState, Thrown DEF Stream!BadRecord, NextPos
<1>8. CASE pc' = "body" /\ UNCHANGED fault
  BY <1>1, <1>3, <1>8, Hidden DEF Status
<1> QED
  BY <1>6, <1>7, <1>8 DEF DecodeHeader

LEMMA ReturnMaps ==
    ASSUME IInv, ReturnView
    PROVE  UNCHANGED Stream!vars
<1>1. /\ pc = "got_body" /\ pc' = "copy" /\ bufPos' = bufPos + Total
      /\ UNCHANGED <<files, cur, inPos, bufLen, hdrBytes, metadata, out, fault>>
  BY DEF ReturnView, fileVars
<1>2. Total \in Nat /\ bufPos \in Nat /\ bufLen \in Nat /\ inPos \in Nat
  BY TotalNat DEF IInv, TypeOK, BufferOK
<1>3. Total' = Total /\ Remaining' = Remaining - Total
  BY <1>1, <1>2 DEF Total, Remaining
<1>4. NextPos' = NextPos
  BY <1>1, <1>2, <1>3 DEF NextPos, Remaining
<1> QED
  BY <1>1, <1>4, Hidden DEF Status

(* The bytes the caller copies are the record and its trailer.                 *)
LEMMA YieldMaps ==
    ASSUME IInv, NextRecordRaw
    PROVE  Stream!Yield
<1>1. /\ pc = "copy" /\ pc' = "ready"
      /\ UNCHANGED <<files, cur, inPos, bufPos, bufLen, hdrBytes, metadata, fault>>
  BY DEF NextRecordRaw, fileVars, bufVars
<1>2. TypeOK /\ ServingInv /\ ViewIsOneRecord /\ Serving
  BY <1>1 DEF IInv, Serving
<1>3. /\ Total \in Nat /\ Remaining \in Nat /\ inPos \in Nat /\ file.size \in Nat
      /\ inPos <= file.size /\ metadata = Meta(file) /\ hdrBytes \in Nat
      /\ Trailer(metadata) \in Nat
  BY <1>1, <1>2, TotalNat, TrailerNat, FileTypes DEF TypeOK, BufferOK, Remaining, ServingInv
<1>4. /\ NextPos = inPos - Remaining - Total
      /\ NextPos' = NextPos + Total
      /\ Status = "pending" /\ Status' = "ready"
  BY <1>1, <1>3 DEF NextPos, Status, Remaining
<1>5. /\ hdrBytes = RecordBytes(file, NextPos)
      /\ \A i \in 0..(Total - 1) : buf[view + i] = <<cur, NextPos + i>>
  BY <1>1, <1>2, <1>4 DEF ViewIsOneRecord
<1>6. Total = RecordBytes(file, NextPos) + Trailer(Meta(file))
  BY <1>3, <1>5 DEF Total
<1>7. hdrBytes \in HeaderLen..MaxRecordLen
  BY <1>1 DEF IInv, DecodedInv
<1>8. Stream!HasHeader /\ Stream!LegalLength /\ Stream!Left >= Stream!Total
  <2>1. file.size - NextPos >= Total /\ Total >= HeaderLen
    BY <1>3, <1>4, <1>7, SizesAssumption DEF Total
  <2>2. file.size - NextPos \in Int /\ file.size - NextPos >= HeaderLen
    BY <1>3, <1>4, <2>1, SizesAssumption
  <2>3. Stream!HasHeader
    BY <1>4, <2>2, SameState
  <2>4. Stream!LegalLength
    BY <1>5, <1>7, SameState
  <2>5. Stream!Left >= Stream!Total
    BY <1>6, <2>1, SameState
  <2> QED
    BY <2>3, <2>4, <2>5
<1>9. out' = [kind    |-> "record",
              body    |-> [i \in 0..(hdrBytes - 1) |-> <<cur, NextPos + i>>],
              trailer |-> [i \in 0..(Trailer(metadata) - 1) |-> <<cur, NextPos + (hdrBytes + i)>>]]
  <2>1. [i \in 0..(hdrBytes - 1) |-> buf[view + i]]
            = [i \in 0..(hdrBytes - 1) |-> <<cur, NextPos + i>>]
    BY <1>3, <1>5 DEF Total
  <2>2. [i \in 0..(Trailer(metadata) - 1) |-> buf[view + (hdrBytes + i)]]
            = [i \in 0..(Trailer(metadata) - 1) |-> <<cur, NextPos + (hdrBytes + i)>>]
    <3>1. \A i \in 0..(Trailer(metadata) - 1) : hdrBytes + i \in 0..(Total - 1)
      BY <1>3 DEF Total
    <3> QED
      BY <1>5, <3>1
  <2>3. out' = [kind    |-> "record",
                body    |-> [i \in 0..(hdrBytes - 1) |-> buf[view + i]],
                trailer |-> [i \in 0..(Trailer(metadata) - 1) |-> buf[view + (hdrBytes + i)]]]
    BY DEF NextRecordRaw, Answer
  <2> QED
    BY <2>1, <2>2, <2>3
<1>10. Stream!Answer(LAMBDA i : <<cur, NextPos + i>>, RecordBytes(file, NextPos), Meta(file))
        = out'
  BY <1>3, <1>5, <1>9, SameFiles DEF Stream!Answer
<1> QED
  BY <1>1, <1>4, <1>6, <1>8, <1>10, SameState, SameFiles DEF Stream!Yield, Status, NextPos

-----------------------------------------------------------------------------
(* The initial state and every step.                                           *)

LEMMA InitMaps ==
    ASSUME Init
    PROVE  Stream!Init
<1>1. Remaining = 0 /\ NextPos = 0 /\ Status = "opening"
  BY DEF Init, Remaining, NextPos, Status
<1> QED
  BY <1>1, SameFiles DEF Init, Stream!Init, NextPos, Status

LEMMA StepMaps ==
    ASSUME IInv, [Next]_vars
    PROVE  [Stream!Next]_(Stream!vars)
<1> USE DEF Stream!Next
<1>1. CASE Construct
  BY <1>1, OpenMaps DEF Construct
<1>2. CASE NextRecord
  BY <1>2, RequestMaps
<1>3. CASE EnsureHeader
  BY <1>3, EnsureMaps, SizesAssumption DEF EnsureHeader, Serving, Status
<1>4. CASE FillHeader
  <2>1. bufPos = 0
    BY <1>4 DEF FillHeader, IInv, FillInv
  <2> QED
    BY <1>4, <2>1, RefillMaps, SizesAssumption DEF FillHeader, Serving, Status
<1>5. CASE TruncatedHeader \/ ShortBody
  BY <1>5, TruncatedMaps
<1>6. CASE NextFile
  BY <1>6, OpenMaps DEF NextFile
<1>7. CASE EndOfFiles
  BY <1>7, EndMaps
<1>8. CASE DecodeHeader
  BY <1>8, DecodeMaps
<1>9. CASE EnsureBody
  <2>1. Total \in Nat
    BY TotalNat DEF IInv
  <2> QED
    BY <1>9, <2>1, EnsureMaps DEF EnsureBody, Serving, Status
<1>10. CASE FillBody
  <2>1. bufPos = 0 /\ Total \in Nat
    BY <1>10, TotalNat DEF FillBody, IInv, FillInv
  <2> QED
    BY <1>10, <2>1, RefillMaps DEF FillBody, Serving, Status
<1>11. CASE ReturnView
  BY <1>11, ReturnMaps
<1>12. CASE NextRecordRaw
  BY <1>12, YieldMaps
<1>13. CASE UNCHANGED vars
  <2>1. UNCHANGED <<files, cur, metadata, inPos, bufPos, bufLen, hdrBytes, out, pc, fault>>
    BY <1>13 DEF vars, fileVars, bufVars
  <2>2. NextPos' = NextPos /\ Status' = Status
    BY <2>1 DEF NextPos, Status, Remaining, Total
  <2> QED
    BY <2>1, <2>2, Hidden
<1> QED
  BY <1>1, <1>2, <1>3, <1>4, <1>5, <1>6, <1>7, <1>8, <1>9, <1>10, <1>11, <1>12, <1>13
    DEF Next, NextRecordView, Failed

(* The reader serves the records of its files, in file order and byte for byte, *)
(* then an end that stays, or throws for a reason the input gives: the safety   *)
(* part of ImplementsRecordStream, without its fairness.                        *)
THEOREM ReaderServesTheStream == Spec => Stream!Init /\ [][Stream!Next]_(Stream!vars)
<1>1. Init => Stream!Init
  BY InitMaps
<1>2. IInv /\ [Next]_vars => [Stream!Next]_(Stream!vars)
  BY StepMaps
<1> QED
  BY <1>1, <1>2, InitIInv, NextIInv, PTL DEF Spec

-----------------------------------------------------------------------------
(* After the last file.                                                        *)

(* Only calls that find nothing run while input_ is null.                      *)
EndInv ==
    Serving /\ ~inputOpen =>
        /\ pc \in {"ready", "header", "fill_header", "no_header"}
        /\ Remaining = 0
        /\ out \in {NoAnswer, EndOfStream}

(* The steps such a call can take.                                             *)
LEMMA EndSteps ==
    ASSUME IInv, EndInv, Serving, ~inputOpen, Next
    PROVE  /\ pc' \in {"ready", "header", "fill_header", "no_header"}
           /\ Remaining' = 0
           /\ out' \in {NoAnswer, EndOfStream}
           /\ UNCHANGED <<cur, inPos, inputOpen>>
<1>1. /\ pc \in {"ready", "header", "fill_header", "no_header"} /\ Remaining = 0
      /\ out \in {NoAnswer, EndOfStream} /\ next > FileCount
      /\ TypeOK /\ BufferOK
  BY DEF EndInv, IInv, ClosedInv, TypeOK
<1>2. CASE NextRecord
  BY <1>1, <1>2 DEF NextRecord, fileVars, bufVars, Remaining
<1>3. CASE EnsureHeader
  <2>1. EnsureBytes(HeaderLen, "fill_header", "got_header") /\ HeaderLen \in Nat \ {0}
    BY <1>3, SizesAssumption DEF EnsureHeader
  <2>2. Remaining' = 0 /\ pc' = "fill_header"
    BY <1>1, <2>1, EnsureBytesBuffer
  <2> QED
    BY <1>1, <2>1, <2>2 DEF EnsureBytes, fileVars
<1>4. CASE FillHeader
  <2>1. /\ pc = "fill_header" /\ Refill(HeaderLen, "got_header", "no_header")
        /\ UNCHANGED <<cur, inputOpen, out>>
    BY <1>4 DEF FillHeader, fileVars
  <2>2. bufPos = 0 /\ bufLen < HeaderLen
    BY <1>1, <2>1, SizesAssumption DEF IInv, FillInv, BufferOK, Remaining
  <2>3. pc' = "no_header" /\ UNCHANGED <<inPos, bufPos, bufLen>>
    BY <1>1, <2>1, <2>2, SizesAssumption DEF Refill, bufVars, BufferOK
  <2> QED
    BY <1>1, <2>1, <2>3 DEF Remaining
<1>5. CASE EndOfFiles
  <2>1. inputOpen = FALSE
    BY <1>1 DEF TypeOK, FlagsOK
  <2> QED
    BY <1>1, <1>5, <2>1 DEF EndOfFiles, bufVars, Remaining
<1>6. ~NextFile
  BY <1>1 DEF NextFile, TakeNextPath, TypeOK, FileCount
<1>7. ~(\/ Construct \/ TruncatedHeader \/ DecodeHeader \/ EnsureBody \/ FillBody \/ ShortBody
        \/ ReturnView \/ NextRecordRaw \/ Failed)
  BY <1>1 DEF Construct, TruncatedHeader, DecodeHeader, EnsureBody, FillBody, ShortBody,
    ReturnView, NextRecordRaw, Failed
<1> QED
  BY <1>2, <1>3, <1>4, <1>5, <1>6, <1>7 DEF Next, NextRecordView

LEMMA NextEndInv ==
    ASSUME IInv, EndInv, [Next]_vars
    PROVE  EndInv'
<1> SUFFICES ASSUME Serving', ~inputOpen'
             PROVE  /\ pc' \in {"ready", "header", "fill_header", "no_header"}
                    /\ Remaining' = 0
                    /\ out' \in {NoAnswer, EndOfStream}
  BY DEF EndInv
<1>1. CASE UNCHANGED vars
  BY <1>1 DEF vars, fileVars, bufVars, EndInv, Serving, Remaining
<1>2. CASE Next /\ Serving /\ ~inputOpen
  BY <1>2, EndSteps
<1>3. CASE Construct \/ NextFile
  BY <1>3 DEF Construct, NextFile, TakeNextPath, Throw, Serving
<1>4. CASE EndOfFiles
  BY <1>4 DEF EndOfFiles, bufVars, Remaining
<1>5. CASE Next /\ ~(Construct \/ NextFile \/ EndOfFiles) /\ inputOpen
  <2>1. inputOpen' = inputOpen
    BY <1>5 DEF Next, NextRecordView, Failed, NextRecord, EnsureHeader, FillHeader, EnsureBytes,
      TruncatedHeader, DecodeHeader, EnsureBody, FillBody, ShortBody, ReturnView, NextRecordRaw,
      vars, fileVars
  <2> QED
    BY <1>5, <2>1
<1>6. CASE Next /\ ~Serving /\ ~(Construct \/ NextFile \/ EndOfFiles)
  <2>1. pc = "failed" /\ UNCHANGED pc
    BY <1>6 DEF Next, NextRecordView, Failed, NextRecord, EnsureHeader, FillHeader,
      TruncatedHeader, DecodeHeader, EnsureBody, FillBody, ShortBody, ReturnView, NextRecordRaw,
      vars, Serving, Construct
  <2> QED
    BY <2>1 DEF Serving
<1> QED
  BY <1>1, <1>2, <1>3, <1>4, <1>5, <1>6

(* Once NextRecordView has answered nullptr it always will: no further call     *)
(* reads the null input_, opens a file or makes up a record.                    *)
THEOREM EndStays == Spec => EndIsFinal
<1>1. Init => EndInv
  BY DEF Init, EndInv, Serving
<1>2. IInv /\ EndInv /\ [Next]_vars => EndInv'
  BY NextEndInv
<1>3. IInv /\ EndInv /\ [Next]_vars =>
        [~inputOpen /\ cur > 0 => out' \in {NoAnswer, EndOfStream} /\ UNCHANGED <<cur, inPos, inputOpen>>]_vars
  <2> SUFFICES ASSUME IInv, EndInv, Next, ~inputOpen, cur > 0
               PROVE  \/ out' \in {NoAnswer, EndOfStream} /\ UNCHANGED <<cur, inPos, inputOpen>>
                      \/ UNCHANGED vars
    OBVIOUS
  <2>1. CASE Serving
    BY <2>1, EndSteps
  <2>2. CASE pc = "open"
    BY <2>2 DEF IInv, OpeningInv
  <2>3. CASE pc = "failed"
    BY <2>3 DEF Next, NextRecordView, Failed, NextRecord, EnsureHeader, FillHeader, NextFile,
      EndOfFiles, TruncatedHeader, DecodeHeader, EnsureBody, FillBody, ShortBody, ReturnView,
      NextRecordRaw, Construct
  <2> QED
    BY <2>1, <2>2, <2>3 DEF Serving
<1> QED
  BY <1>1, <1>2, <1>3, InitIInv, NextIInv, PTL DEF Spec, EndIsFinal

-----------------------------------------------------------------------------
(* Calls end.                                                                  *)
Places == {"header", "fill_header", "got_header", "no_header", "body", "fill_body",
           "got_body", "no_body", "copy"}

LEMMA Ahead ==
    /\ InCall <=> pc \in Places
    /\ StepsAhead["header"] = 7 /\ StepsAhead["fill_header"] = 6
    /\ StepsAhead["got_header"] = 5 /\ StepsAhead["no_header"] = 5
    /\ StepsAhead["body"] = 4 /\ StepsAhead["fill_body"] = 3
    /\ StepsAhead["got_body"] = 2 /\ StepsAhead["no_body"] = 2
    /\ StepsAhead["copy"] = 1
BY DEF InCall, StepsAhead, Places

Nearer == next' = next /\ cur' = cur /\ inPos' = inPos /\ StepsAhead[pc'] < StepsAhead[pc]

LEMMA EnsureNearer ==
    ASSUME EnsureHeader \/ EnsureBody
    PROVE  Nearer
<1>1. UNCHANGED <<next, cur, inPos>>
  BY DEF EnsureHeader, EnsureBody, EnsureBytes, fileVars
<1>2. CASE EnsureHeader
  <2>1. pc = "header" /\ pc' \in {"fill_header", "got_header"}
    BY <1>2 DEF EnsureHeader, EnsureBytes
  <2> QED
    BY <1>1, <2>1, Ahead DEF Nearer
<1>3. CASE EnsureBody
  <2>1. pc = "body" /\ pc' \in {"fill_body", "got_body"}
    BY <1>3 DEF EnsureBody, EnsureBytes
  <2> QED
    BY <1>1, <2>1, Ahead DEF Nearer
<1> QED
  BY <1>2, <1>3

LEMMA FillAdvances ==
    ASSUME IInv, FillHeader \/ FillBody, InCall, InCall'
    PROVE  next' = next /\ cur' = cur /\ (inPos' > inPos \/ Nearer)
<1>1. UNCHANGED <<next, cur>>
  BY DEF FillHeader, FillBody, fileVars
<1>2. pc \in {"fill_header", "fill_body"} /\ bufLen \in Nat /\ bufSize \in Nat /\ inPos \in Nat
  BY DEF IInv, TypeOK, BufferOK, FillHeader, FillBody
<1>3. Serving /\ inPos <= file.size /\ file.size \in Nat
  BY <1>2, FileTypes DEF IInv, ServingInv, Serving
<1>4. Got \in Int
  BY <1>2, <1>3 DEF Got, Space, Available
<1>5. CASE Got > 0 /\ inPos' = inPos + Got
  BY <1>1, <1>2, <1>4, <1>5
<1>6. CASE ~(Got > 0 /\ inPos' = inPos + Got)
  <2>1. CASE FillHeader
    <3>1. pc = "fill_header" /\ pc' \in {"got_header", "no_header", "failed"} /\ inPos' = inPos
      BY <1>6, <2>1 DEF FillHeader, Refill, Throw
    <3> QED
      BY <1>1, <3>1, Ahead DEF Nearer, InCall, StepsAhead
  <2>2. CASE FillBody
    <3>1. pc = "fill_body" /\ pc' \in {"got_body", "no_body", "failed"} /\ inPos' = inPos
      BY <1>6, <2>2 DEF FillBody, Refill, Throw
    <3> QED
      BY <1>1, <3>1, Ahead DEF Nearer, InCall, StepsAhead
  <2> QED
    BY <2>1, <2>2
<1> QED
  BY <1>5, <1>6

LEMMA ReturnNearer ==
    ASSUME ReturnView
    PROVE  Nearer
<1>1. UNCHANGED <<next, cur, inPos>> /\ pc = "got_body" /\ pc' = "copy"
  BY DEF ReturnView, fileVars
<1> QED
  BY <1>1, Ahead DEF Nearer

LEMMA DecodeNearer ==
    ASSUME DecodeHeader, InCall'
    PROVE  Nearer
<1>1. UNCHANGED <<next, cur, inPos>> /\ pc = "got_header" /\ pc' \in {"body", "failed"}
  BY DEF DecodeHeader, fileVars, Throw
<1>2. pc' # "failed"
  BY DEF InCall, StepsAhead
<1> QED
  BY <1>1, <1>2, Ahead DEF Nearer

LEMMA StepAdvances ==
    ASSUME IInv, Next, InCall, InCall'
    PROVE  next' > next \/ (next' = next /\ cur' = cur /\ inPos' > inPos) \/ Nearer
<1>1. pc \in Places /\ pc' \in Places
  BY Ahead DEF InCall, StepsAhead, Places
<1>2. CASE NextFile
  BY <1>2 DEF NextFile, TakeNextPath, IInv, TypeOK
<1>3. CASE Construct \/ NextRecord \/ TruncatedHeader \/ EndOfFiles \/ ShortBody \/ NextRecordRaw \/ Failed
  BY <1>1, <1>3 DEF Places, Construct, NextRecord, TruncatedHeader, EndOfFiles, ShortBody,
    NextRecordRaw, Failed, Throw
<1> QED
  BY <1>2, <1>3, EnsureNearer, FillAdvances, DecodeNearer, ReturnNearer DEF Next, NextRecordView

(* No step of a call turns a loop without progress, and the progress there can   *)
(* be is bounded: so many paths, so many bytes of the file, so many steps         *)
(* between them.                                                               *)
THEOREM CallsAdvance ==
    Spec => CallAdvances /\ [](InCall => inPos \in 0..file.size /\ next \in 1..(FileCount + 1))
<1>1. IInv /\ [Next]_vars =>
        [InCall /\ InCall' =>
            \/ next' > next
            \/ next' = next /\ cur' = cur /\ inPos' > inPos
            \/ /\ next' = next /\ cur' = cur /\ inPos' = inPos
               /\ StepsAhead[pc'] < StepsAhead[pc]]_vars
  BY StepAdvances DEF Nearer
<1>2. IInv => (InCall => inPos \in 0..file.size /\ next \in 1..(FileCount + 1))
  <2> SUFFICES ASSUME IInv, InCall PROVE inPos \in 0..file.size /\ next \in 1..(FileCount + 1)
    OBVIOUS
  <2>1. Serving
    BY Ahead DEF Serving, Places
  <2>2. file.size \in Nat
    BY <2>1, FileTypes DEF IInv, ServingInv
  <2> QED
    BY <2>1, <2>2 DEF IInv, TypeOK, ServingInv
<1> QED
  BY <1>1, <1>2, InitIInv, NextIInv, PTL DEF Spec, CallAdvances

-----------------------------------------------------------------------------
(* Errors of the decompressor.                                                 *)

(* The buffer never grows beyond a block or the longest record.                *)
SizeInv == bufSize <= MaxBuffered

(* Nothing was thrown yet while the reader serves.                             *)
FaultInv == pc # "failed" => fault = NoFault

LEMMA WantBounded ==
    ASSUME NEW n \in Nat, n <= MaxRecordLen + TrailerLen
    PROVE  Want(n) \in Nat /\ Want(n) <= MaxBuffered
BY SizesAssumption DEF Want, MaxBuffered

LEMMA EnsureBytesBounded ==
    ASSUME SizeInv, NEW n \in Nat, n <= MaxRecordLen + TrailerLen, NEW loop, NEW enough,
           EnsureBytes(n, loop, enough)
    PROVE  SizeInv'
<1>1. bufSize' = bufSize \/ bufSize' = Want(n)
  BY DEF EnsureBytes, bufVars
<1> QED
  BY <1>1, WantBounded DEF SizeInv, MaxBuffered

LEMMA NextSizeInv ==
    ASSUME IInv, SizeInv, [Next]_vars
    PROVE  SizeInv'
<1>1. CASE EnsureHeader
  BY <1>1, EnsureBytesBounded, SizesAssumption DEF EnsureHeader
<1>2. CASE EnsureBody
  <2>1. hdrBytes \in HeaderLen..MaxRecordLen /\ Trailer(metadata) \in 0..TrailerLen
    BY <1>2, SizesAssumption DEF EnsureBody, IInv, DecodedInv, Trailer
  <2>2. Total \in Nat /\ Total <= MaxRecordLen + TrailerLen
    BY <2>1, SizesAssumption DEF Total
  <2> QED
    BY <1>2, <2>2, EnsureBytesBounded DEF EnsureBody
<1>3. CASE FillHeader \/ FillBody
  <2>1. bufSize' = bufSize
    BY <1>3 DEF FillHeader, FillBody, Refill, bufVars
  <2> QED
    BY <2>1 DEF SizeInv, MaxBuffered
<1>4. CASE Construct \/ NextRecord \/ TruncatedHeader \/ NextFile \/ EndOfFiles \/ DecodeHeader
           \/ ShortBody \/ ReturnView \/ NextRecordRaw \/ Failed \/ UNCHANGED vars
  <2>1. bufSize' = bufSize
    BY <1>4 DEF Construct, NextRecord, TruncatedHeader, NextFile, TakeNextPath, EndOfFiles,
      DecodeHeader, ShortBody, ReturnView, NextRecordRaw, Failed, bufVars, vars
  <2> QED
    BY <2>1 DEF SizeInv, MaxBuffered
<1> QED
  BY <1>1, <1>2, <1>3, <1>4 DEF Next, NextRecordView

LEMMA NextFaultInv ==
    ASSUME FaultInv, [Next]_vars
    PROVE  FaultInv'
<1>1. CASE Construct \/ NextFile
  BY <1>1 DEF FaultInv, Construct, NextFile, TakeNextPath, Throw
<1>2. CASE EnsureHeader \/ FillHeader \/ DecodeHeader \/ EnsureBody \/ FillBody
  BY <1>2 DEF FaultInv, EnsureHeader, EnsureBody, EnsureBytes, FillHeader, FillBody, Refill,
    DecodeHeader, Throw
<1>3. CASE NextRecord \/ TruncatedHeader \/ EndOfFiles \/ ShortBody \/ ReturnView \/ NextRecordRaw
           \/ Failed \/ UNCHANGED vars
  BY <1>3 DEF FaultInv, NextRecord, TruncatedHeader, EndOfFiles, ShortBody, ReturnView,
    NextRecordRaw, Failed, Throw, vars
<1> QED
  BY <1>1, <1>2, <1>3 DEF Next, NextRecordView

(* The decompressor fails only when asked for more than is left before the     *)
(* damage, and it is asked for no more than the buffer has room for.           *)
LEMMA FailsNear ==
    ASSUME IInv, SizeInv, FaultInv, Next,
           fault' = "decompression_error", pc \in {"fill_header", "fill_body"}
    PROVE  file.size - (inPos - Remaining) <= MaxBuffered
<1>1. /\ bufPos = 0 /\ bufLen \in Nat /\ bufSize \in Nat /\ inPos \in Nat /\ MaxBuffered \in Nat
  BY SizesAssumption DEF IInv, FillInv, TypeOK, BufferOK, MaxBuffered
<1>2. file.size \in Nat
  BY FileTypes DEF IInv, Serving
<1>3. FillHeader \/ FillBody
  BY DEF Next, NextRecordView, Construct, NextRecord, EnsureHeader, TruncatedHeader, NextFile,
    EndOfFiles, DecodeHeader, EnsureBody, ShortBody, ReturnView, NextRecordRaw, Failed
<1>4. fault = NoFault
  BY DEF FaultInv
<1>5. Space >= Available
  BY <1>3, <1>4 DEF FillHeader, FillBody, Refill, NoFault
<1>6. file.size - inPos <= bufSize - bufLen
  BY <1>1, <1>2, <1>5 DEF Space, Available
<1> QED
  BY <1>1, <1>2, <1>6 DEF Remaining, SizeInv

(* An error of the decompressor withholds at most one buffer of what precedes    *)
(* the damage, for every file, record length and block size.                   *)
THEOREM DamageNoticedNear == Spec => DamageIsNear
<1>1. Init => SizeInv /\ FaultInv
  BY SizesAssumption DEF Init, SizeInv, FaultInv, MaxBuffered
<1>2. IInv /\ SizeInv /\ FaultInv /\ [Next]_vars => (SizeInv /\ FaultInv)'
  BY NextSizeInv, NextFaultInv
<1>3. IInv /\ SizeInv /\ FaultInv /\ [Next]_vars =>
        [fault' = "decompression_error" /\ pc \in {"fill_header", "fill_body"} =>
            file.size - (inPos - Remaining) <= MaxBuffered]_vars
  BY FailsNear
<1> QED
  BY <1>1, <1>2, <1>3, InitIInv, NextIInv, PTL DEF Spec, DamageIsNear

=============================================================================
