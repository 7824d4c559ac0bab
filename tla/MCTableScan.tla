----------------------------- MODULE MCTableScan -----------------------------
(* Captures of one or two records in each version, alone or in pairs.          *)
EXTENDS TableScan

CONSTANTS
    Some,       \* the schemas of the captures
    Paired,     \* those that occur in pairs too
    Called      \* which functions are called on them besides read_dbn and their own

Rec(rtype, v) == [rtype |-> rtype, size |-> WireSize(rtype, v)]
Capture(s, v, rs) == [schema |-> s, version |-> v, records |-> rs]

(* Records of the schema, around messages of a live session.                   *)
Of(s, v) ==
    {Capture(s, v, <<Rec("SymbolMapping", v), Rec(RTypeOf(s), v), Rec("System", v), Rec(RTypeOf(s), v)>>),
     Capture(s, v, <<>>)}

(* A record in the layout of another version.                                  *)
Foreign(s) == {Capture(s, 3, <<Rec(RTypeOf(s), 3), Rec(RTypeOf(s), 1)>>)}

Mixed == {Capture(NoSchema, 2, <<Rec("Mbp0", 2), Rec("System", 2), Rec("Mbo", 2)>>),
          Capture("unknown", 3, <<>>)}

CapturesOf(schemas) ==
    UNION {Of(s, v) : s \in schemas, v \in Versions} \cup UNION {Foreign(s) : s \in schemas} \cup Mixed

MCReplacements ==
    {Absent, Capture("trades", 1, <<Rec("Mbp0", 1)>>),
     Capture("statistics", 1, <<Rec("Statistics", 1)>>),
     Capture("statistics", 2, <<Rec("Statistics", 2)>>),
     Capture("definition", 3, <<Rec("InstrumentDef", 3)>>)}

MCDisks ==
    {<<>>} \cup {<<c>> : c \in CapturesOf(Some)} \cup CapturesOf(Paired) \X CapturesOf(Paired)

MCFunctions == {"read_dbn"} \cup Some \cup Called

=============================================================================
