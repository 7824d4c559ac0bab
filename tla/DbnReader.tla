----------------------------- MODULE DbnReader -----------------------------
(* DbnFileReader: a reader that serves the records of a list of files from a *)
(* block buffer it compacts and refills (src/dbn_native_decoder.cpp).  One    *)
(* action per step of NextRecordView between two tests of its state: entering *)
(* EnsureBytes, one turn of its read loop, decoding the header, advancing to  *)
(* the next file, handing out the view, and the copy its caller makes of it.  *)
EXTENDS DbnFile

VARIABLES
    files,      \* the paths given to the constructor
    next,       \* remaining_paths_ are files[next], files[next + 1], ...
    cur,        \* the path last taken from remaining_paths_
    inputOpen,  \* input_ is not null
    inPos,      \* the bytes of files[cur] delivered by input_ so far
    metadata,   \* metadata_
    firstMeta,  \* first_metadata_
    firstOpened,\* first_opened_
    buf,        \* read_buf_
    bufSize,    \* read_buf_.size()
    bufPos,     \* buf_pos_
    bufLen,     \* buf_len_
    hdrBytes,   \* record_bytes of the header copied into *hdr
    view,       \* the pointer NextRecordView returns, as an index into read_buf_
    out,        \* the caller's copy of the record
    pc,
    fault       \* what was thrown

fileVars == <<files, next, cur, inputOpen, metadata, firstMeta, firstOpened>>
bufVars  == <<buf, bufSize, bufPos, bufLen>>
vars     == <<fileVars, inPos, bufVars, hdrBytes, view, out, pc, fault>>

NoMeta == [version |-> "none"]

(* What read_buf_.resize writes.                                             *)
ZeroByte == <<0, 0>>

FileCount == Len(files)
file == files[cur]
Remaining == bufLen - bufPos

(* The length field of the header that starts with this byte.                *)
HeaderField(byte) ==
    IF byte = ZeroByte THEN 0 ELSE RecordBytes(files[byte[1]], byte[2])

Init ==
    /\ files \in Inputs
    /\ next = 1
    /\ cur = 0
    /\ inputOpen = FALSE
    /\ inPos = 0
    /\ metadata = NoMeta
    /\ firstMeta = NoMeta
    /\ firstOpened = FALSE
    /\ buf = [i \in {} |-> ZeroByte]
    /\ bufSize = 0
    /\ bufPos = 0
    /\ bufLen = 0
    /\ hdrBytes = 0
    /\ view = 0
    /\ out = NoAnswer
    /\ pc = "open"
    /\ fault = NoFault

Throw(what) == pc' = "failed" /\ fault' = what

-----------------------------------------------------------------------------
(* AdvanceToNextFile and OpenAndParseFile; then is where a success goes.      *)

(* A slip: only the schema is compared.                                       *)
MismatchOfSchemaOnly(f) == firstOpened /\ f.schema # firstMeta.schema

Mismatch(f) == firstOpened /\ Meta(f) # firstMeta

TakeNextPath(then) ==
    /\ next <= FileCount
    /\ next' = next + 1
    /\ cur' = next
    /\ LET f == files[next] IN
       \/ /\ OpenFault(f) = NoFault
          /\ ~Mismatch(f)
          /\ inputOpen' = TRUE
          /\ inPos' = BodyStart(f)
          /\ metadata' = Meta(f)
          /\ firstMeta' = IF firstOpened THEN firstMeta ELSE Meta(f)
          /\ firstOpened' = TRUE
          /\ pc' = then
          /\ UNCHANGED fault
       \/ /\ OpenFault(f) # NoFault
          /\ Throw(OpenFault(f))
          /\ UNCHANGED <<inputOpen, inPos, metadata, firstMeta, firstOpened>>
       \/ /\ OpenFault(f) = NoFault
          /\ Mismatch(f)
          /\ Throw("inconsistent_files")
          /\ UNCHANGED <<inputOpen, inPos, metadata, firstMeta, firstOpened>>
    /\ UNCHANGED <<files, bufVars, hdrBytes, view, out>>

Construct == pc = "open" /\ TakeNextPath("ready")

-----------------------------------------------------------------------------
(* EnsureBytes(n).                                                            *)

(* A slip: room for a block behind what is asked for.                          *)
WantBlockBehind(n) == n + ReadBufSize

Want(n) == IF n > ReadBufSize THEN n ELSE ReadBufSize

(* A slip: the tail is not moved.                                             *)
CompactedWithoutMove(i) == buf[i]

(* The memmove of the unconsumed tail to the front.                           *)
Compacted(i) == IF i < Remaining THEN buf[bufPos + i] ELSE buf[i]

EnsureBytes(n, loop, enough) ==
    /\ \/ /\ Remaining >= n
          /\ pc' = enough
          /\ UNCHANGED bufVars
       \/ /\ Remaining < n
          /\ bufPos' = 0
          /\ bufLen' = Remaining
          /\ bufSize' = IF bufSize < Want(n) THEN Want(n) ELSE bufSize
          /\ buf' = [i \in 0..(bufSize' - 1) |->
                        IF i < bufSize THEN Compacted(i) ELSE ZeroByte]
          /\ pc' = loop
    /\ UNCHANGED <<fileVars, inPos, hdrBytes, view, out, fault>>

Space == bufSize - bufLen
Available == file.size - inPos
Got == IF Space < Available THEN Space ELSE Available

(* buf after input_->Read has put got bytes behind the ones it holds.         *)
Filled(got) ==
    [i \in 0..(bufSize - 1) |->
        IF i \in bufLen..(bufLen + got - 1) THEN <<cur, inPos + (i - bufLen)>>
                                            ELSE buf[i]]

(* A slip: the loop does not stop when Read returns 0.                        *)
RefillWithoutBreak(n, enough, short) ==
    \/ bufLen >= n /\ pc' = enough /\ UNCHANGED <<inPos, bufVars, fault>>
    \/ bufLen < n /\ ~inputOpen /\ pc' = short /\ UNCHANGED <<inPos, bufVars, fault>>
    \/ /\ bufLen < n
       /\ inputOpen
       /\ buf' = Filled(Got)
       /\ bufLen' = bufLen + Got
       /\ inPos' = inPos + Got
       /\ UNCHANGED <<bufSize, bufPos, pc, fault>>

(* One turn of the read loop of EnsureBytes(n), or its exit.                  *)
Refill(n, enough, short) ==
    \/ /\ bufLen >= n
       /\ pc' = enough
       /\ UNCHANGED <<inPos, bufVars, fault>>
    \/ /\ bufLen < n
       /\ ~inputOpen \/ (~file.damaged /\ Available = 0)
       /\ pc' = short
       /\ UNCHANGED <<inPos, bufVars, fault>>
    \/ /\ bufLen < n
       /\ inputOpen
       /\ file.damaged
       /\ Space >= Available
       /\ Throw("decompression_error")
       /\ UNCHANGED <<inPos, bufVars>>
    \/ /\ bufLen < n
       /\ inputOpen
       /\ file.damaged => Space <= Available
       /\ Got > 0
       /\ buf' = Filled(Got)
       /\ bufLen' = bufLen + Got
       /\ inPos' = inPos + Got
       /\ UNCHANGED <<bufSize, bufPos, pc, fault>>

-----------------------------------------------------------------------------
(* NextRecordView.                                                            *)

NextRecord ==
    /\ pc = "ready"
    /\ pc' = "header"
    /\ out' = NoAnswer
    /\ UNCHANGED <<fileVars, inPos, bufVars, hdrBytes, view, fault>>

EnsureHeader == pc = "header" /\ EnsureBytes(HeaderLen, "fill_header", "got_header")

FillHeader ==
    /\ pc = "fill_header"
    /\ Refill(HeaderLen, "got_header", "no_header")
    /\ UNCHANGED <<fileVars, hdrBytes, view, out>>

TruncatedHeader ==
    /\ pc = "no_header"
    /\ Remaining # 0
    /\ Throw("truncated_record_header")
    /\ UNCHANGED <<fileVars, inPos, bufVars, hdrBytes, view, out>>

(* A slip: the unconsumed bytes of a truncated record are not looked at.      *)
NextFileRegardless == pc = "no_header" /\ TakeNextPath("header")

(* A slip: the path of the exhausted file is still the first of the list.     *)
NextFileReopens ==
    /\ pc = "no_header"
    /\ Remaining = 0
    /\ next <= FileCount
    /\ inPos' = BodyStart(file)
    /\ pc' = "header"
    /\ UNCHANGED <<fileVars, bufVars, hdrBytes, view, out, fault>>

NextFile ==
    /\ pc = "no_header"
    /\ Remaining = 0
    /\ TakeNextPath("header")

(* A slip: the list of paths starts over.                                     *)
EndOfFilesRewinds ==
    /\ pc = "no_header"
    /\ Remaining = 0
    /\ next > FileCount
    /\ inputOpen' = FALSE
    /\ next' = 1
    /\ out' = EndOfStream
    /\ pc' = "ready"
    /\ UNCHANGED <<files, cur, metadata, firstMeta, firstOpened, inPos, bufVars, hdrBytes, view, fault>>

(* input_.reset(): the last file is exhausted.                                *)
EndOfFiles ==
    /\ pc = "no_header"
    /\ Remaining = 0
    /\ next > FileCount
    /\ inputOpen' = FALSE
    /\ out' = EndOfStream
    /\ pc' = "ready"
    /\ UNCHANGED <<files, next, cur, metadata, firstMeta, firstOpened, inPos, bufVars, hdrBytes, view, fault>>

DecodeHeader ==
    /\ pc = "got_header"
    /\ hdrBytes' = HeaderField(buf[bufPos])
    /\ \/ hdrBytes' < HeaderLen /\ Throw("record_length_shorter_than_header")
       \/ /\ hdrBytes' >= HeaderLen
          /\ hdrBytes' > MaxRecordLen
          /\ Throw("record_exceeds_reader_buffer")
       \/ /\ hdrBytes' \in HeaderLen..MaxRecordLen
          /\ pc' = "body"
          /\ UNCHANGED fault
    /\ UNCHANGED <<fileVars, inPos, bufVars, view, out>>

Total == hdrBytes + Trailer(metadata)

(* A slip: the trailer is not asked for.                                      *)
EnsureBodyWithoutTrailer ==
    pc = "body" /\ EnsureBytes(hdrBytes, "fill_body", "got_body")

EnsureBody == pc = "body" /\ EnsureBytes(Total, "fill_body", "got_body")

FillBody ==
    /\ pc = "fill_body"
    /\ Refill(Total, "got_body", "no_body")
    /\ UNCHANGED <<fileVars, hdrBytes, view, out>>

ShortBody ==
    /\ pc = "no_body"
    /\ Throw("short_read_while_reading_record_body")
    /\ UNCHANGED <<fileVars, inPos, bufVars, hdrBytes, view, out>>

(* Slips: the pointer is taken after buf_pos_ moved; the trailer is not       *)
(* consumed with its record.                                                  *)
ReturnViewLate ==
    /\ pc = "got_body"
    /\ bufPos' = bufPos + Total
    /\ view' = bufPos'
    /\ pc' = "copy"
    /\ UNCHANGED <<fileVars, inPos, buf, bufSize, bufLen, hdrBytes, out, fault>>

ReturnViewKeepsTrailer ==
    /\ pc = "got_body"
    /\ view' = bufPos
    /\ bufPos' = bufPos + hdrBytes
    /\ pc' = "copy"
    /\ UNCHANGED <<fileVars, inPos, buf, bufSize, bufLen, hdrBytes, out, fault>>

ReturnView ==
    /\ pc = "got_body"
    /\ view' = bufPos
    /\ bufPos' = bufPos + Total
    /\ pc' = "copy"
    /\ UNCHANGED <<fileVars, inPos, buf, bufSize, bufLen, hdrBytes, out, fault>>

(* NextRecordRaw, and the memcpy of NextAs: the copy out of the view.         *)
NextRecordRaw ==
    /\ pc = "copy"
    /\ out' = Answer(LAMBDA i : buf[view + i], hdrBytes, metadata)
    /\ pc' = "ready"
    /\ UNCHANGED <<fileVars, inPos, bufVars, hdrBytes, view, fault>>

-----------------------------------------------------------------------------
NextRecordView ==
    \/ EnsureHeader \/ FillHeader \/ TruncatedHeader \/ NextFile \/ EndOfFiles
    \/ DecodeHeader \/ EnsureBody \/ FillBody \/ ShortBody \/ ReturnView

(* After an exception the query is over.                                      *)
Failed == pc = "failed" /\ UNCHANGED vars

Next == Construct \/ NextRecord \/ NextRecordView \/ NextRecordRaw \/ Failed

(* A call that has begun runs to its end: the reader shares nothing and never *)
(* waits.  Nobody has to make another call.                                   *)
Spec == Init /\ [][Next]_vars /\ WF_vars(Construct \/ NextRecordView \/ NextRecordRaw)

-----------------------------------------------------------------------------
(* Properties.                                                                *)

Bytes == (0..FileCount) \X Nat
FlagsOK == inputOpen \in BOOLEAN /\ firstOpened \in BOOLEAN
BufferOK ==
    /\ bufSize \in Nat
    /\ buf \in [0..(bufSize - 1) -> Bytes]
    /\ bufLen \in 0..bufSize
    /\ bufPos \in 0..bufLen
GivenFiles == files \in Inputs

(* The types of the reader's fields, and the cursors in order: 0 <= buf_pos_  *)
(* <= buf_len_ <= read_buf_.size(), so that every memmove, Read and memcpy of  *)
(* EnsureBytes and NextRecordView stays inside read_buf_ and no unsigned       *)
(* difference of two cursors wraps.                                            *)
TypeOK ==
    /\ GivenFiles
    /\ next \in 1..(FileCount + 1)
    /\ cur \in 0..FileCount
    /\ FlagsOK
    /\ inPos \in Nat
    /\ BufferOK
    /\ hdrBytes \in Nat
    /\ view \in Nat
    /\ pc \in {"open", "ready", "header", "fill_header", "got_header", "no_header",
               "body", "fill_body", "got_body", "no_body", "copy", "failed"}

(* The bytes the reader holds and has not consumed are exactly the last ones   *)
(* input_ delivered, in order and of the current file only: compaction and     *)
(* refill neither lose nor repeat nor mix bytes, across blocks and files.      *)
BufferHoldsInputTail ==
    \A i \in bufPos..(bufLen - 1) : buf[i] = <<cur, inPos - (bufLen - i)>>

(* The view handed out is one whole record: the record's own first byte, its   *)
(* length as the header there says, and every byte up to the end of its ts_out *)
(* trailer contiguous in read_buf_, although the header was decoded before the *)
(* second EnsureBytes moved or reallocated the buffer.                         *)
ViewIsOneRecord ==
    pc = "copy" =>
        LET from == inPos - Remaining - Total IN
        /\ view + Total <= bufSize
        /\ hdrBytes = RecordBytes(file, from)
        /\ \A i \in 0..(Total - 1) : buf[view + i] = <<cur, from + i>>

(* metadata_ decides how many trailer bytes a record has and first_metadata_   *)
(* how the scans decode it: while records are served the two agree, with each  *)
(* other and with the file the bytes come from.                                *)
MetadataOfEveryFile ==
    pc \notin {"open", "failed"} => metadata = firstMeta /\ metadata = Meta(file)

(* Once NextRecordView has answered nullptr every later call does too: the     *)
(* null input_ is never read and no file is opened again.                      *)
EndIsFinal == [][~inputOpen /\ cur > 0 => out' \in {NoAnswer, EndOfStream} /\ UNCHANGED <<cur, inPos, inputOpen>>]_vars

(* read_buf_ is a block, or the longest record with its trailer if that is more. *)
MaxBuffered ==
    IF ReadBufSize > MaxRecordLen + TrailerLen THEN ReadBufSize ELSE MaxRecordLen + TrailerLen

(* EnsureBytes has a block decompressed before the records in it are served, so  *)
(* an error surfaces before intact records that precede it.  It is early by no   *)
(* more than one buffer: whatever was refilled, consumed and moved before, the   *)
(* next record then begins no further than that before the damage.              *)
DamageIsNear ==
    [][fault' = "decompression_error" /\ pc \in {"fill_header", "fill_body"} =>
        file.size - (inPos - Remaining) <= MaxBuffered]_vars

(* A call of the reader always returns or throws: neither the loop of          *)
(* EnsureBytes nor the loop over files runs for ever.                          *)
CallReturns == pc = "header" ~> pc \in {"ready", "failed"}

(* Where a call is between two of its loops, by the steps that may still come.   *)
StepsAhead ==
    [header |-> 7, fill_header |-> 6, got_header |-> 5, no_header |-> 5, body |-> 4,
     fill_body |-> 3, got_body |-> 2, no_body |-> 2, copy |-> 1]
InCall == pc \in DOMAIN StepsAhead

(* Every step inside a call takes the next path, or delivers bytes of the file,  *)
(* or comes nearer to the end of the call, and no step undoes what one before    *)
(* it gained: the nested loops of NextRecordView and EnsureBytes cannot turn      *)
(* round without progress.                                                     *)
CallAdvances ==
    [][InCall /\ InCall' =>
        \/ next' > next
        \/ next' = next /\ cur' = cur /\ inPos' > inPos
        \/ /\ next' = next /\ cur' = cur /\ inPos' = inPos
           /\ StepsAhead[pc'] < StepsAhead[pc]]_vars

(* What an observer of the calls sees is a RecordStream: the position of the   *)
(* next record is what input_ delivered less what is still in the buffer.      *)
Stream == INSTANCE RecordStream WITH
    pos    <- inPos - Remaining - (IF pc = "copy" THEN Total ELSE 0),
    status <- IF pc = "open" THEN "opening"
              ELSE IF pc \in {"ready", "failed"} THEN pc ELSE "pending"

ImplementsRecordStream == Stream!Spec

=============================================================================
