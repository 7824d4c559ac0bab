---------------------------- MODULE MCMetadataRow ----------------------------
(* Every schema and none, in every version, and a symbol type nobody defined;    *)
(* frames shorter than the fixed part, of its length and longer; files cut off in *)
(* the prelude, in the frame or not.                                           *)
EXTENDS MetadataRow

CONSTANTS Frames, Cuts

Block1(schema, stype, tsOut) ==
    [dataset |-> "GLBX.MDP3", schema |-> schema, start |-> "start", end |-> "end", limit |-> "limit",
     record_count |-> "count", stype_in |-> stype,
     stype_out |-> IF stype = "undefined" THEN stype ELSE "instrument_id", ts_out |-> tsOut,
     symbol_cstr_len |-> "cstr_len"]

AllFiles ==
    {[exists |-> e, prefix |-> p, version |-> v, frame |-> n,
      size |-> IF c > n + 8 THEN n + 8 ELSE c, fields |-> Block1(s, t, TRUE)] :
        e \in BOOLEAN, p \in BOOLEAN, v \in Versions, n \in Frames, c \in Cuts,
        s \in Schemas \cup {"NULL"}, t \in {"raw_symbol", "NULL", "undefined"}}

=============================================================================
