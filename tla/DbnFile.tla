------------------------------ MODULE DbnFile ------------------------------
(* The part of a DBN file that the record reader depends on.  Offsets count  *)
(* decoded bytes, so a .dbn and a .dbn.zst of the same capture look alike.   *)
(* A byte is named by where it comes from, <<file, offset>>: two bytes are    *)
(* equal exactly when they are the same byte of the same file, which is what  *)
(* tells a correct copy from a lost, repeated or shifted one.                 *)
EXTENDS Integers, Sequences

CONSTANTS
    HeaderLen,          \* sizeof(databento::RecordHeader)
    LengthMultiplier,   \* kRecordHeaderLengthMultiplier
    MaxRecordLen,       \* DbnFileReader::kMaxRecordLen
    TrailerLen,         \* sizeof(std::uint64_t), the ts_out trailer
    PreludeLen,         \* kMetadataPreludeSize
    FixedMetadataLen,   \* kFixedMetadataLen
    ReadBufSize,        \* DbnFileReader::kReadBufSize
    Inputs              \* the lists of files a scan may be given

(* What is on disk under one path.                                           *)
(*   magic    what OpenInput finds: "missing" (cannot be opened), "short"     *)
(*            (fewer than four bytes), "dbn", "zstd" or "other"               *)
(*   size     the bytes the input can deliver, the metadata block included    *)
(*   damaged  the decompressor reports an error when asked for more than size *)
(*   prefix   the first three delivered bytes are "DBN"                       *)
(*   frame    the length of the metadata frame the prelude announces          *)
(*   length   the length field a record header at that offset would carry     *)
IsFile(f) ==
    /\ f.magic \in {"missing", "short", "dbn", "zstd", "other"}
    /\ f.size \in Nat
    /\ f.damaged \in BOOLEAN
    /\ f.prefix \in BOOLEAN
    /\ f.frame \in Nat
    /\ f.tsOut \in BOOLEAN
    /\ f.length \in [0..(f.size - 1) -> Nat]

ASSUME SizesAssumption ==
    /\ HeaderLen \in Nat \ {0}
    /\ LengthMultiplier \in Nat
    /\ MaxRecordLen \in Nat
    /\ HeaderLen <= MaxRecordLen
    /\ TrailerLen \in Nat
    /\ PreludeLen \in Nat
    /\ FixedMetadataLen \in Nat
    /\ ReadBufSize \in Nat \ {0}

ASSUME InputsAssumption ==
    \A paths \in Inputs :
        /\ Len(paths) \in Nat \ {0}
        /\ \A i \in 1..Len(paths) : IsFile(paths[i])

-----------------------------------------------------------------------------

Meta(f) == [version |-> f.version, schema |-> f.schema, tsOut |-> f.tsOut]

BodyStart(f) == PreludeLen + f.frame

NoFault == "none"

(* ReadExact(n) at offset at: an intact input delivers what it has, a damaged *)
(* one throws from inside Read.                                               *)
ReadExactFault(f, at, n, short) ==
    CASE at + n <= f.size -> NoFault
      [] f.damaged        -> "decompression_error"
      [] OTHER            -> short

(* The first check of OpenInput and OpenAndParseFile that f fails.            *)
OpenFault(f) ==
    LET prelude == ReadExactFault(f, 0, PreludeLen, "short_prelude")
        frame   == ReadExactFault(f, PreludeLen, f.frame, "short_metadata_frame")
    IN  CASE f.magic = "missing"          -> "cannot_open"
          [] f.magic = "short"            -> "no_magic"
          [] f.magic = "other"            -> "neither_DBN_nor_Zstd"
          [] prelude # NoFault            -> prelude
          [] ~f.prefix                    -> "missing_DBN_prefix"
          [] f.frame < FixedMetadataLen   -> "metadata_frame_too_short"
          [] OTHER                        -> frame

RecordBytes(f, at) == f.length[at] * LengthMultiplier

Trailer(m) == IF m.tsOut THEN TrailerLen ELSE 0

(* What NextRecordRaw leaves in its caller's memory: the record and, when the *)
(* file has one, its ts_out trailer.                                          *)
Answer(Byte(_), bytes, m) ==
    [kind    |-> "record",
     body    |-> [i \in 0..(bytes - 1) |-> Byte(i)],
     trailer |-> [i \in 0..(Trailer(m) - 1) |-> Byte(bytes + i)]]

NoAnswer == [kind |-> "none"]
EndOfStream == [kind |-> "end"]

=============================================================================
