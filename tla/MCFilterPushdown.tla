-------------------------- MODULE MCFilterPushdown --------------------------
(* Small column types, filter trees up to an AND of two inside an optional     *)
(* filter, and the layouts and projections that tell columns apart.            *)
EXTENDS FilterPushdown

CONSTANTS Kinds     \* which top-level filters are pushed on header columns

MCLowest == [ts_event |-> -1, instrument_id |-> 0, publisher_id |-> 0]
MCHighest == [ts_event |-> 1, instrument_id |-> 2, publisher_id |-> 1]

Constant(field, op, c) ==
    LET sat == {v \in Domain(field) : Compare(op, v, c)}
    IN  [kind |-> "constant", op |-> op, value |-> c, sat |-> sat, must |-> sat]
In(values) == [kind |-> "in", values |-> values, sat |-> values, must |-> values]
And(f, g) ==
    [kind |-> "and", children |-> <<f, g>>, sat |-> f.sat \cap g.sat, must |-> f.must \cap g.must]
Or(f, g) ==
    [kind |-> "or", children |-> <<f, g>>, sat |-> f.sat \cup g.sat, must |-> f.must \cup g.must]
Optional(field, f) ==
    [kind |-> "optional", children |-> <<f>>, sat |-> f.sat, must |-> Domain(field)]
NotNull(field) == [kind |-> "not_null", sat |-> Domain(field), must |-> Domain(field)]

Ops == {"=", "<>", ">", ">=", "<", "<="}
Constants(field) == {Constant(field, op, c) : op \in Ops, c \in Domain(field)}
Ins(field) == {In(values) : values \in (SUBSET Domain(field)) \ {{}}}
Known(field) == {f \in Constants(field) : KnownComparison(field, f)}

Leaf(field) ==
    (IF "comparison" \in Kinds THEN Known(field) ELSE {})
    \cup (IF "boundary" \in Kinds
          THEN {f \in Constants(field) : f.op # "<>" /\ Boundary(field, f)} ELSE {})
    \cup (IF "unequal" \in Kinds THEN {f \in Constants(field) : f.op = "<>"} ELSE {})
    \cup (IF "in" \in Kinds THEN Ins(field) ELSE {})
    \cup (IF "not_null" \in Kinds THEN {NotNull(field)} ELSE {})

Tree(field) ==
    Leaf(field)
    \cup (IF "and" \in Kinds THEN {And(f, g) : f \in Known(field), g \in Leaf(field)} ELSE {})
    \cup (IF "or" \in Kinds THEN {Or(f, g) : f, g \in Known(field)} ELSE {})
    \cup (IF "optional" \in Kinds
          THEN {Optional(field, f) : f \in Leaf(field) \cup {And(NotNull(field), g) : g \in Leaf(field)}}
          ELSE {})

BodyFilters == {[kind |-> "constant", op |-> "=", value |-> 1, sat |-> {1}, must |-> {1}]}

(* Everything a tree of this field may contain.                                *)
MCFilters ==
    [field \in Fields |->
        LET trees == Tree(field) IN
        trees \cup UNION {{f.children[i] : i \in DOMAIN f.children} :
                            f \in {f \in trees : f.kind \in {"and", "or", "optional"}}}
              \cup {NotNull(field)} \cup Leaf(field)]

Standard == [ts_event |-> 0, instrument_id |-> 2, publisher_id |-> 3]
Ohlcv == [ts_event |-> 0, instrument_id |-> 1, publisher_id |-> 2]
Records == [ts_event |-> 0, instrument_id |-> 4, publisher_id |-> 3]
BodyColumn(layout) == CHOOSE c \in 1..4 : \A field \in Fields : layout[field] # c

Layouts == {Standard, Ohlcv, Records}

RowsOf(layout) ==
    {[c \in 0..4 |->
        IF c = layout["ts_event"] THEN t
        ELSE IF c = layout["instrument_id"] THEN i
        ELSE IF c = layout["publisher_id"] THEN p ELSE b] :
            t \in Domain("ts_event"), i \in Domain("instrument_id"),
            p \in Domain("publisher_id"), b \in 0..1}

MCRows == [layout \in Layouts |-> RowsOf(layout)]

(* One filter on a header column, one on a body column, in any projection.     *)
Pushed(layout, field, columnIds, filter) ==
    LET at(c) == (CHOOSE i \in DOMAIN columnIds : columnIds[i] = c) - 1 IN
    {[layout |-> layout, columnIds |-> columnIds,
      filters |-> <<[pidx |-> at(layout[field]), filter |-> filter],
                    [pidx |-> at(BodyColumn(layout)), filter |-> b]>>] : b \in BodyFilters}

Projections(layout, field) ==
    IF layout = Standard THEN {<<layout[field], BodyColumn(layout)>>}
                         ELSE {<<BodyColumn(layout), RowId, layout[field]>>}

OneField ==
    UNION {Pushed(layout, field, columnIds, filter) :
        <<layout, field, columnIds, filter>> \in
            UNION {{layout} \X {field} \X Projections(layout, field) \X Tree(field) :
                layout \in Layouts, field \in Fields}}

(* Filters on two header columns at once.                                      *)
TwoFields ==
    {[layout |-> Standard, columnIds |-> <<3, 0, 2>>,
      filters |-> <<[pidx |-> 2, filter |-> f], [pidx |-> 1, filter |-> g]>>] :
        f \in Known("instrument_id"), g \in Known("ts_event")}

MCPushdowns == OneField \cup TwoFields

=============================================================================
