---------------------------- MODULE RecordStream ----------------------------
(* What DbnFileReader promises its callers: the records of the files, in file *)
(* order and byte for byte, one for each call; then the end, for every later   *)
(* call; or an exception that names what is wrong with the input.  There is no *)
(* buffer here.                                                                *)
EXTENDS DbnFile

VARIABLES
    files,      \* the paths given to the constructor, in order
    cur,        \* the file being read, 0 before the first one is open
    pos,        \* the offset of the next record in it
    status,     \* "opening", "ready", "pending" or "failed"
    out,        \* the answer of the last call
    fault       \* what was thrown

vars == <<files, cur, pos, status, out, fault>>

file == files[cur]
Left == file.size - pos
Total == RecordBytes(file, pos) + Trailer(Meta(file))

Init ==
    /\ files \in Inputs
    /\ cur = 0
    /\ pos = 0
    /\ status = "opening"
    /\ out = NoAnswer
    /\ fault = NoFault

Throw(what) ==
    /\ status' = "failed"
    /\ fault' = what
    /\ UNCHANGED <<files, pos, out>>

(* Every later file must agree with the first one.                            *)
Consistent(k) == k > 1 => Meta(files[k]) = Meta(files[1])

Open(next) ==
    /\ cur < Len(files)
    /\ cur' = cur + 1
    /\ LET f == files[cur + 1] IN
       \/ /\ OpenFault(f) = NoFault
          /\ Consistent(cur + 1)
          /\ pos' = BodyStart(f)
          /\ status' = next
          /\ UNCHANGED <<files, out, fault>>
       \/ OpenFault(f) # NoFault /\ Throw(OpenFault(f))
       \/ OpenFault(f) = NoFault /\ ~Consistent(cur + 1) /\ Throw("inconsistent_files")

Construct == status = "opening" /\ Open("ready")

Request ==
    /\ status = "ready"
    /\ status' = "pending"
    /\ out' = NoAnswer
    /\ UNCHANGED <<files, cur, pos, fault>>

HasHeader == status = "pending" /\ Left >= HeaderLen
LegalLength == RecordBytes(file, pos) \in HeaderLen..MaxRecordLen

Yield ==
    /\ HasHeader
    /\ LegalLength
    /\ Left >= Total
    /\ out' = Answer(LAMBDA i : <<cur, pos + i>>, RecordBytes(file, pos), Meta(file))
    /\ pos' = pos + Total
    /\ status' = "ready"
    /\ UNCHANGED <<files, cur, fault>>

(* A damaged input never reaches a clean end.                                 *)
AtEnd == status = "pending" /\ Left = 0 /\ ~file.damaged

NextFile == AtEnd /\ Open("pending")

End ==
    /\ AtEnd
    /\ cur = Len(files)
    /\ out' = EndOfStream
    /\ status' = "ready"
    /\ UNCHANGED <<files, cur, pos, fault>>

BadRecord ==
    /\ UNCHANGED cur
    /\ \/ /\ HasHeader
          /\ RecordBytes(file, pos) < HeaderLen
          /\ Throw("record_length_shorter_than_header")
       \/ /\ HasHeader
          /\ RecordBytes(file, pos) > MaxRecordLen
          /\ Throw("record_exceeds_reader_buffer")

Truncated ==
    /\ UNCHANGED cur
    /\ status = "pending"
    /\ ~file.damaged
    /\ \/ /\ Left \in 1..(HeaderLen - 1)
          /\ Throw("truncated_record_header")
       \/ /\ HasHeader
          /\ LegalLength
          /\ Left < Total
          /\ Throw("short_read_while_reading_record_body")

(* Blocks are decompressed ahead of the records in them, so the error may     *)
(* surface while intact records are still unread.                             *)
Damaged ==
    /\ UNCHANGED cur
    /\ status = "pending"
    /\ file.damaged
    /\ Throw("decompression_error")

Next ==
    \/ Construct \/ Request \/ Yield \/ NextFile \/ End
    \/ BadRecord \/ Truncated \/ Damaged
    \/ status = "failed" /\ UNCHANGED vars

Respond == Construct \/ Yield \/ NextFile \/ End \/ BadRecord \/ Truncated \/ Damaged

Spec == Init /\ [][Next]_vars /\ WF_vars(Respond)

=============================================================================
