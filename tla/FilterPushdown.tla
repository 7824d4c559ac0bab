--------------------------- MODULE FilterPushdown ---------------------------
(* What becomes of the filters DuckDB pushes into a scan: BuildHeaderFilter    *)
(* turns the ones on ts_event, instrument_id and publisher_id into the ranges  *)
(* and IN-lists of DbnHeaderFilter, BuildBodyFilterExpr makes one conjunction   *)
(* of the others, and a row is delivered when it passes both.                  *)
EXTENDS Integers, Sequences

CONSTANTS
    Lowest,     \* numeric_limits<T>::min() of each header field
    Highest,    \* numeric_limits<T>::max() of each header field
    Filters,    \* for each header field, and "body", the TableFilters that occur
    Pushdowns,  \* what InitGlobal may be given
    Rows        \* for each layout, rows as functions from logical column ids to values

Fields == {"ts_event", "instrument_id", "publisher_id"}
Domain(field) == Lowest[field]..Highest[field]
RowId == -1     \* COLUMN_IDENTIFIER_ROW_ID

Compare(op, v, c) ==
    \/ op = "=" /\ v = c
    \/ op = "<>" /\ v # c
    \/ op = ">" /\ v > c
    \/ op = ">=" /\ v >= c
    \/ op = "<" /\ v < c
    \/ op = "<=" /\ v <= c

(* A TableFilter on a header field; its constants have the column's type.  sat *)
(* is the set of values the predicate holds of; must is what the scan itself   *)
(* has to enforce: only what stands behind an OPTIONAL_FILTER is evaluated     *)
(* again above the scan.                                                       *)
IsFilter(field, f) ==
    /\ f.kind \in {"constant", "in", "and", "or", "optional", "not_null"}
    /\ f.kind = "constant" =>
        /\ f.value \in Domain(field)
        /\ f.sat = {v \in Domain(field) : Compare(f.op, v, f.value)}
        /\ f.must = f.sat
    /\ f.kind = "in" => f.sat = f.values /\ f.must = f.values
    /\ f.kind \in {"and", "optional"} =>
        /\ f.children \in Seq(Filters[field])
        /\ \A i \in 1..Len(f.children) : f.sat \subseteq f.children[i].sat
    /\ f.kind = "and" =>
        \A v \in Domain(field) : (\A i \in 1..Len(f.children) : v \in f.children[i].must) => v \in f.must

ASSUME LimitsAssumption ==
    \A field \in Fields : Lowest[field] \in Int /\ Highest[field] \in Int /\ Lowest[field] <= Highest[field]
ASSUME FiltersAssumption == \A field \in Fields : \A f \in Filters[field] : IsFilter(field, f)

VARIABLES
    query,      \* layout, column_ids and TableFilterSet, as InitGlobal gets them
    visited,    \* entries of the TableFilterSet taken so far
    work,       \* calls of IngestFilter still to run, the next one first
    hf,         \* DbnHeaderFilter
    anyActive,  \* any_active
    body,       \* the conjuncts of body_filter_expr, as entries of the filter set
    pc

vars == <<query, visited, work, hf, anyActive, body, pc>>

-----------------------------------------------------------------------------
(* DbnHeaderFilter.                                                            *)

WideOpen ==
    [field \in Fields |->
        [lo |-> Lowest[field], hi |-> Highest[field], active |-> FALSE, in |-> {}]]

LowerTo(lo, v) == IF v > lo THEN v ELSE lo
UpperTo(hi, v) == IF v < hi THEN v ELSE hi

(* A slip: tv + 1 and tv - 1 without their guards.                             *)
TightenWithoutGuard(field, f, r) ==
    CASE f.op = ">" -> [r EXCEPT !.lo = LowerTo(r.lo, f.value + 1), !.active = TRUE]
      [] f.op = "<" -> [r EXCEPT !.hi = UpperTo(r.hi, f.value - 1), !.active = TRUE]
      [] OTHER      -> r

(* TightenIntRange and TightenTsEventRange: an unsupported comparison leaves   *)
(* the range alone.                                                            *)
Tighten(field, f, r) ==
    CASE f.op = "="  -> [r EXCEPT !.lo = LowerTo(r.lo, f.value),
                                  !.hi = UpperTo(r.hi, f.value), !.active = TRUE]
      [] f.op = ">"  -> [r EXCEPT !.lo = IF f.value < Highest[field]
                                         THEN LowerTo(r.lo, f.value + 1) ELSE r.lo,
                                  !.active = TRUE]
      [] f.op = ">=" -> [r EXCEPT !.lo = LowerTo(r.lo, f.value), !.active = TRUE]
      [] f.op = "<"  -> [r EXCEPT !.hi = IF f.value > Lowest[field]
                                         THEN UpperTo(r.hi, f.value - 1) ELSE r.hi,
                                  !.active = TRUE]
      [] f.op = "<=" -> [r EXCEPT !.hi = UpperTo(r.hi, f.value), !.active = TRUE]
      [] OTHER       -> r

(* One field of Matches, for a record with this value in it.                   *)
FieldMatches(r, v) ==
    /\ r.active => v >= r.lo /\ v <= r.hi
    /\ r.in # {} => v \in r.in

-----------------------------------------------------------------------------
(* The header field a logical column shows, if any.                            *)
ColumnOf(field) == query.layout[field]
IsHeader(col) == \E field \in Fields : col = ColumnOf(field)
FieldOf(col) == CHOOSE field \in Fields : col = ColumnOf(field)

(* Matches(rec.hd).                                                            *)
Matches(row) ==
    anyActive => \A field \in Fields : FieldMatches(hf[field], row[ColumnOf(field)])

(* The keys of the TableFilterSet are projected slots; entries beyond          *)
(* column_ids and row-id slots are passed over.                                *)
Column(e) == query.columnIds[e.pidx + 1]
Usable(e) == e.pidx < Len(query.columnIds) /\ Column(e) # RowId

Init ==
    /\ query \in Pushdowns
    /\ visited = 0
    /\ work = <<>>
    /\ hf = WideOpen
    /\ anyActive = FALSE
    /\ body = {}
    /\ pc = "header"

(* A slip: the key is taken for a logical column id.                           *)
VisitEntryUntranslated ==
    /\ pc = "header"
    /\ work = <<>>
    /\ visited < Len(query.filters)
    /\ visited' = visited + 1
    /\ LET e == query.filters[visited + 1] IN
       work' = IF IsHeader(e.pidx)
               THEN <<[field |-> FieldOf(e.pidx), filter |-> e.filter]>>
               ELSE <<>>
    /\ UNCHANGED <<query, hf, anyActive, body, pc>>

(* One turn of the loop of BuildHeaderFilter.                                  *)
VisitEntry ==
    /\ pc = "header"
    /\ work = <<>>
    /\ visited < Len(query.filters)
    /\ visited' = visited + 1
    /\ LET e == query.filters[visited + 1] IN
       work' = IF Usable(e) /\ IsHeader(Column(e))
               THEN <<[field |-> FieldOf(Column(e)), filter |-> e.filter]>>
               ELSE <<>>
    /\ UNCHANGED <<query, hf, anyActive, body, pc>>

(* IngestFilter: one call, with the calls for its children put first.          *)
Calls(field, children) == [i \in 1..Len(children) |-> [field |-> field, filter |-> children[i]]]

Ingest(field, f) ==
    \/ /\ f.kind = "constant"
       /\ hf' = [hf EXCEPT ![field] = Tighten(field, f, @)]
       /\ work' = Tail(work)
    \/ /\ f.kind = "in"
       /\ hf' = IF field = "ts_event" THEN hf
                ELSE [hf EXCEPT ![field].in = @ \cup f.values]
       /\ work' = Tail(work)
    \/ /\ f.kind \in {"and", "optional"}
       /\ work' = Calls(field, f.children) \o Tail(work)
       /\ UNCHANGED hf
    \/ /\ f.kind \in {"or", "not_null"}
       /\ work' = Tail(work)
       /\ UNCHANGED hf

IngestFilter ==
    /\ work # <<>>
    /\ Ingest(Head(work).field, Head(work).filter)
    /\ UNCHANGED <<query, visited, anyActive, body, pc>>

HeaderFilterBuilt ==
    /\ pc = "header"
    /\ work = <<>>
    /\ visited = Len(query.filters)
    /\ anyActive' = \E field \in Fields : hf[field].active \/ hf[field].in # {}
    /\ pc' = "body"
    /\ UNCHANGED <<query, visited, work, hf, body>>

(* A slip: filters on body columns are dropped.                                *)
NoBodyFilterExpr ==
    /\ pc = "body"
    /\ pc' = "scanning"
    /\ UNCHANGED <<query, visited, work, hf, anyActive, body>>

(* On the first chunk with rows.                                               *)
BuildBodyFilterExpr ==
    /\ pc = "body"
    /\ body' = {query.filters[i] : i \in {i \in 1..Len(query.filters) :
                    Usable(query.filters[i]) /\ ~IsHeader(Column(query.filters[i]))}}
    /\ pc' = "scanning"
    /\ UNCHANGED <<query, visited, work, hf, anyActive>>

Scanning == pc = "scanning" /\ UNCHANGED vars

Next == VisitEntry \/ IngestFilter \/ HeaderFilterBuilt \/ BuildBodyFilterExpr \/ Scanning

Spec == Init /\ [][Next]_vars

Delivered(row) ==
    /\ Matches(row)
    /\ \A e \in body : row[Column(e)] \in e.filter.sat

-----------------------------------------------------------------------------
(* A pushdown is well formed: header columns of different fields differ, no two *)
(* filters are on one column (DuckDB makes one conjunction of them), a filter   *)
(* on a header column has the field's type, and so have its values.             *)
IsPushdown(q) ==
    /\ Len(q.filters) \in Nat
    /\ \A f, g \in Fields : q.layout[f] = q.layout[g] => f = g
    /\ \A i \in 1..Len(q.filters) : \A field \in Fields :
        LET e == q.filters[i] IN
        e.pidx < Len(q.columnIds) /\ q.columnIds[e.pidx + 1] = q.layout[field] =>
            e.filter \in Filters[field]
    /\ \A i, j \in 1..Len(q.filters) :
        LET c == q.filters[i].pidx
            d == q.filters[j].pidx
        IN  c < Len(q.columnIds) /\ d < Len(q.columnIds) /\ q.columnIds[c + 1] = q.columnIds[d + 1]
                => i = j
    /\ \A i \in 1..Len(q.filters) : q.filters[i].filter.sat \subseteq q.filters[i].filter.must
    /\ \A row \in Rows[q.layout] : \A field \in Fields : row[q.layout[field]] \in Domain(field)

ASSUME PushdownsAssumption == \A q \in Pushdowns : IsPushdown(q)

(* The filters of the WHERE clause, and those the scan alone enforces.         *)
Given == {query.filters[i] : i \in 1..Len(query.filters)}
Value(row, e) == row[query.columnIds[e.pidx + 1]]
Satisfied(row) == \A e \in Given : Usable(e) => Value(row, e) \in e.filter.sat
Enforced(row) == \A e \in Given : Usable(e) => Value(row, e) \in e.filter.must

(* The ranges stay inside the type of their field: tv + 1 and tv - 1 do not    *)
(* wrap around.                                                                *)
TypeOK ==
    /\ query \in Pushdowns
    /\ visited \in 0..Len(query.filters)
    /\ \A field \in Fields :
        /\ hf[field].lo \in Domain(field)
        /\ hf[field].hi \in Domain(field)
    /\ pc \in {"header", "body", "scanning"}

(* The pre-screen never drops a row of the result: a row that satisfies every  *)
(* predicate, optional ones included, is delivered, whichever filters the      *)
(* header filter understands, however they are nested and whatever the order   *)
(* of the projected columns.                                                   *)
NoRowLost ==
    pc = "scanning" => \A row \in Rows[query.layout] : Satisfied(row) => Delivered(row)

(* The row set is the one the predicate selects (test/sql/filter_pushdown.test *)
(* lines 4 to 9): nothing is delivered that a filter left to the scan rejects. *)
RowSetMatchesPredicate ==
    pc = "scanning" => \A row \in Rows[query.layout] : Delivered(row) => Enforced(row)

(* The same where the extension can keep the promise: of the filters on header *)
(* columns it has to enforce, each is a comparison it knows, with a constant   *)
(* that is not the last value of the type on the far side, or the only IN-list *)
(* of its column, or a conjunction of such.                                    *)
Boundary(field, f) ==
    \/ f.op = ">" /\ f.value = Highest[field]
    \/ f.op = "<" /\ f.value = Lowest[field]

KnownComparison(field, f) ==
    f.kind = "constant" /\ f.op \in {"=", ">", ">=", "<", "<="} /\ ~Boundary(field, f)
Harmless(field, f) == Domain(field) \subseteq f.must
OnlyIn(field, f) == f.kind = "in" /\ field # "ts_event" /\ f.values # {}

Supported(field, f) ==
    \/ Harmless(field, f) /\ f.kind # "optional"
    \/ KnownComparison(field, f)
    \/ OnlyIn(field, f)
    \/ f.kind = "and" /\ \A i \in 1..Len(f.children) :
        KnownComparison(field, f.children[i]) \/ Harmless(field, f.children[i])

SupportedRowSet ==
    (\A e \in Given : Usable(e) /\ IsHeader(Column(e)) => Supported(FieldOf(Column(e)), e.filter))
        => RowSetMatchesPredicate

=============================================================================
