-------------------------- MODULE FilterPushdownProofs --------------------------
(* The header filter and the body filter drop no row of the result, for every  *)
(* set of filters, every nesting of them and every column type.                *)
EXTENDS FilterPushdown, TLAPS

AllFilters == UNION {Filters[field] : field \in Fields}
AllValues == UNION {f.sat : f \in AllFilters}
Range(field) ==
    [lo : Domain(field), hi : Domain(field), active : BOOLEAN, in : SUBSET AllValues]

(* The fields of DbnHeaderFilter, as functions and records.                    *)
HeaderFilterOK ==
    /\ hf = [field \in Fields |-> hf[field]]
    /\ \A field \in Fields : hf[field] \in Range(field)

(* The rows that satisfy every filter given.                                   *)
ResultRows == {row \in Rows[query.layout] : Satisfied(row)}

(* A call of IngestFilter that every row of the result passes.                 *)
Pending ==
    {c \in [field : Fields, filter : AllFilters] :
        /\ c.filter \in Filters[c.field]
        /\ \A row \in ResultRows : row[ColumnOf(c.field)] \in c.filter.sat}

WorkInv == work \in Seq(Pending)

(* The ranges hold the rows of the result, whether they are active yet or not.  *)
Passes(r, v) == v >= r.lo /\ v <= r.hi /\ (r.in # {} => v \in r.in)
PassInv == \A row \in ResultRows : \A field \in Fields : Passes(hf[field], row[ColumnOf(field)])

BodyInv ==
    \A e \in body : e \in Given /\ Usable(e)

IInv == TypeOK /\ HeaderFilterOK /\ WorkInv /\ PassInv /\ BodyInv

-----------------------------------------------------------------------------
(* One comparison narrows the range of its field, and keeps in it every value  *)
(* the comparison holds of.                                                    *)
LEMMA TightenKeepsType ==
    ASSUME NEW field \in Fields, NEW f \in Filters[field], f.kind = "constant",
           NEW r \in Range(field)
    PROVE  Tighten(field, f, r) \in Range(field)
<1>1. /\ Lowest[field] \in Int /\ Highest[field] \in Int /\ f.value \in Domain(field)
      /\ r.lo \in Domain(field) /\ r.hi \in Domain(field)
  BY LimitsAssumption, FiltersAssumption DEF IsFilter, Range
<1>2. /\ LowerTo(r.lo, f.value) \in Domain(field) /\ UpperTo(r.hi, f.value) \in Domain(field)
      /\ f.value < Highest[field] => LowerTo(r.lo, f.value + 1) \in Domain(field)
      /\ f.value > Lowest[field] => UpperTo(r.hi, f.value - 1) \in Domain(field)
  BY <1>1 DEF LowerTo, UpperTo, Domain
<1> QED
  BY <1>1, <1>2 DEF Tighten, Range

LEMMA TightenKeepsRows ==
    ASSUME NEW field \in Fields, NEW f \in Filters[field], f.kind = "constant",
           NEW r \in Range(field), NEW v \in Domain(field), v \in f.sat, Passes(r, v)
    PROVE  Passes(Tighten(field, f, r), v)
<1>1. /\ Lowest[field] \in Int /\ Highest[field] \in Int /\ f.value \in Domain(field)
      /\ r.lo \in Domain(field) /\ r.hi \in Domain(field) /\ Compare(f.op, v, f.value)
  BY LimitsAssumption, FiltersAssumption DEF IsFilter, Range
<1>2. /\ f.value \in Int /\ r.lo \in Int /\ r.hi \in Int /\ v \in Int
      /\ v >= r.lo /\ v <= r.hi
  BY <1>1 DEF Domain, Passes
<1> DEFINE t == Tighten(field, f, r)
<1>3. v >= t.lo /\ v <= t.hi
  <2>1. CASE f.op = "="
    <3>1. t.lo = LowerTo(r.lo, f.value) /\ t.hi = UpperTo(r.hi, f.value)
      BY <2>1 DEF Tighten, Range
    <3>2. v = f.value
      BY <1>1, <2>1 DEF Compare
    <3> HIDE DEF t
    <3> QED
      BY <1>2, <3>1, <3>2 DEF LowerTo, UpperTo
  <2>2. CASE f.op = ">"
    <3>1. t.lo \in {r.lo, LowerTo(r.lo, f.value + 1)} /\ t.hi = r.hi
      BY <2>2 DEF Tighten, Range
    <3>2. v > f.value
      BY <1>1, <2>2 DEF Compare
    <3> HIDE DEF t
    <3> QED
      BY <1>2, <3>1, <3>2 DEF LowerTo
  <2>3. CASE f.op = ">="
    <3>1. t.lo = LowerTo(r.lo, f.value) /\ t.hi = r.hi
      BY <2>3 DEF Tighten, Range
    <3>2. v >= f.value
      BY <1>1, <2>3 DEF Compare
    <3> HIDE DEF t
    <3> QED
      BY <1>2, <3>1, <3>2 DEF LowerTo
  <2>4. CASE f.op = "<"
    <3>1. t.lo = r.lo /\ t.hi \in {r.hi, UpperTo(r.hi, f.value - 1)}
      BY <2>4 DEF Tighten, Range
    <3>2. v < f.value
      BY <1>1, <2>4 DEF Compare
    <3> HIDE DEF t
    <3> QED
      BY <1>2, <3>1, <3>2 DEF UpperTo
  <2>5. CASE f.op = "<="
    <3>1. t.lo = r.lo /\ t.hi = UpperTo(r.hi, f.value)
      BY <2>5 DEF Tighten, Range
    <3>2. v <= f.value
      BY <1>1, <2>5 DEF Compare
    <3> HIDE DEF t
    <3> QED
      BY <1>2, <3>1, <3>2 DEF UpperTo
  <2>6. CASE f.op \notin {"=", ">", ">=", "<", "<="}
    BY <1>2, <2>6 DEF Tighten
  <2> QED
    BY <2>1, <2>2, <2>3, <2>4, <2>5, <2>6
<1>4. Tighten(field, f, r).in = r.in
  BY DEF Tighten, Range
<1> QED
  BY <1>3, <1>4 DEF Passes

-----------------------------------------------------------------------------
LEMMA ColumnsOK ==
    ASSUME query \in Pushdowns
    PROVE  /\ Len(query.filters) \in Nat
           /\ \A i \in 1..Len(query.filters) : \A field \in Fields :
                LET e == query.filters[i] IN
                Usable(e) /\ Column(e) = ColumnOf(field) => e.filter \in Filters[field]
           /\ \A row \in Rows[query.layout] : \A field \in Fields : row[ColumnOf(field)] \in Domain(field)
BY PushdownsAssumption DEF IsPushdown, Usable, Column, ColumnOf

LEMMA FieldOfColumn ==
    ASSUME NEW col, IsHeader(col)
    PROVE  FieldOf(col) \in Fields /\ col = ColumnOf(FieldOf(col))
BY DEF IsHeader, FieldOf

LEMMA SamePending ==
    ASSUME UNCHANGED query
    PROVE  /\ ResultRows' = ResultRows /\ Pending' = Pending /\ Given' = Given
           /\ \A field : ColumnOf(field)' = ColumnOf(field)
           /\ \A e : Usable(e)' <=> Usable(e)
<1>1. /\ Given' = Given
      /\ \A field : ColumnOf(field)' = ColumnOf(field)
      /\ \A e : Usable(e)' <=> Usable(e)
      /\ \A row, e : Value(row, e)' = Value(row, e)
  BY DEF Given, ColumnOf, Usable, Column, Value
<1>2. \A row : Satisfied(row)' <=> Satisfied(row)
  BY <1>1 DEF Satisfied
<1>3. ResultRows' = ResultRows
  BY <1>2 DEF ResultRows
<1> QED
  BY <1>1, <1>3 DEF Pending

LEMMA InitIInv == Init => IInv
<1> SUFFICES ASSUME Init PROVE IInv
  OBVIOUS
<1>1. /\ query \in Pushdowns /\ visited = 0 /\ work = <<>> /\ hf = WideOpen /\ body = {}
      /\ pc = "header"
  BY DEF Init
<1>2. \A field \in Fields : WideOpen[field] \in Range(field) /\ WideOpen[field].in = {}
                            /\ WideOpen[field].lo = Lowest[field] /\ WideOpen[field].hi = Highest[field]
  BY LimitsAssumption DEF WideOpen, Range, Domain
<1>3. HeaderFilterOK
  BY <1>1, <1>2 DEF HeaderFilterOK, WideOpen
<1>4. TypeOK
  BY <1>1, <1>3, ColumnsOK DEF TypeOK, HeaderFilterOK, Range
<1>5. PassInv
  BY <1>1, <1>2, ColumnsOK, LimitsAssumption DEF PassInv, Passes, ResultRows, Domain
<1>6. WorkInv /\ BodyInv
  BY <1>1 DEF WorkInv, BodyInv
<1> QED
  BY <1>3, <1>4, <1>5, <1>6 DEF IInv

LEMMA VisitEntryIInv ==
    ASSUME IInv, VisitEntry
    PROVE  IInv'
<1> DEFINE e == query.filters[visited + 1]
           c == [field |-> FieldOf(Column(e)), filter |-> e.filter]
<1>1. /\ UNCHANGED <<query, hf, anyActive, body, pc>>
      /\ visited < Len(query.filters) /\ visited' = visited + 1
      /\ work' = IF Usable(e) /\ IsHeader(Column(e)) THEN <<c>> ELSE <<>>
  BY DEF VisitEntry
<1>2. /\ query \in Pushdowns /\ visited \in 0..Len(query.filters)
  BY DEF IInv, TypeOK
<1>3. visited + 1 \in 1..Len(query.filters) /\ e \in Given
  BY <1>1, <1>2, ColumnsOK DEF Given
<1>4. ASSUME Usable(e), IsHeader(Column(e))
      PROVE  c \in Pending
  <2>1. c.field \in Fields /\ Column(e) = ColumnOf(c.field)
    BY <1>4, FieldOfColumn
  <2>2. c.filter \in Filters[c.field] /\ c.filter \in AllFilters
    BY <1>2, <1>3, <1>4, <2>1, ColumnsOK DEF AllFilters
  <2>3. \A row \in ResultRows : row[ColumnOf(c.field)] \in c.filter.sat
    BY <1>3, <1>4, <2>1 DEF ResultRows, Satisfied, Value, Column
  <2> QED
    BY <2>1, <2>2, <2>3 DEF Pending
<1>5. WorkInv'
  BY <1>1, <1>4, SamePending DEF WorkInv
<1>6. TypeOK'
  BY <1>1, <1>2, <1>3, ColumnsOK DEF IInv, TypeOK
<1> QED
  BY <1>1, <1>5, <1>6, SamePending DEF IInv, HeaderFilterOK, PassInv, BodyInv

LEMMA IngestFilterIInv ==
    ASSUME IInv, IngestFilter
    PROVE  IInv'
<1> DEFINE field == Head(work).field
           f == Head(work).filter
<1>1. /\ work # <<>> /\ Ingest(field, f)
      /\ UNCHANGED <<query, visited, anyActive, body, pc>>
      /\ work \in Seq(Pending)
  BY DEF IngestFilter, IInv, WorkInv
<1>2. Head(work) \in Pending /\ Tail(work) \in Seq(Pending)
  BY <1>1
<1>3. /\ field \in Fields /\ f \in Filters[field] /\ IsFilter(field, f) /\ f \in AllFilters
      /\ \A row \in ResultRows : row[ColumnOf(field)] \in f.sat
  BY <1>2, FiltersAssumption DEF Pending
<1>4. /\ query \in Pushdowns /\ hf = [g \in Fields |-> hf[g]] /\ hf[field] \in Range(field)
      /\ \A row \in ResultRows : row[ColumnOf(field)] \in Domain(field)
                                 /\ Passes(hf[field], row[ColumnOf(field)])
  BY <1>3, ColumnsOK DEF IInv, TypeOK, HeaderFilterOK, PassInv, ResultRows
<1>5. work' \in Seq(Pending)
  <2>1. CASE f.kind \in {"and", "optional"}
    <3>1. /\ f.children \in Seq(Filters[field])
          /\ \A i \in 1..Len(f.children) : f.sat \subseteq f.children[i].sat
      BY <1>3, <2>1 DEF IsFilter
    <3>2. \A i \in 1..Len(f.children) :
            /\ f.children[i] \in Filters[field] /\ f.children[i] \in AllFilters
            /\ \A row \in ResultRows : row[ColumnOf(field)] \in f.children[i].sat
      BY <1>3, <3>1 DEF AllFilters
    <3>3. \A i \in 1..Len(f.children) : [field |-> field, filter |-> f.children[i]] \in Pending
      BY <1>3, <3>2 DEF Pending
    <3>4. Calls(field, f.children) \in Seq(Pending)
      BY <3>1, <3>3 DEF Calls
    <3>5. work' = Calls(field, f.children) \o Tail(work)
      BY <1>1, <2>1 DEF Ingest
    <3> QED
      BY <1>2, <3>4, <3>5
  <2>2. CASE f.kind \notin {"and", "optional"}
    BY <1>1, <1>2, <2>2 DEF Ingest
  <2> QED
    BY <2>1, <2>2
<1>6. PICK r : /\ r \in Range(field)
               /\ \A row \in ResultRows : Passes(r, row[ColumnOf(field)])
               /\ hf' = [hf EXCEPT ![field] = r]
  <2>1. CASE f.kind = "constant"
    <3>1. hf' = [hf EXCEPT ![field] = Tighten(field, f, hf[field])]
      BY <1>1, <2>1 DEF Ingest
    <3> QED
      BY <1>3, <1>4, <2>1, <3>1, TightenKeepsType, TightenKeepsRows
  <2>2. CASE f.kind = "in" /\ field # "ts_event"
    <3>1. hf' = [hf EXCEPT ![field] = [hf[field] EXCEPT !.in = @ \cup f.values]]
      BY <1>1, <2>2 DEF Ingest
    <3>2. f.values = f.sat /\ f.sat \subseteq AllValues
      BY <1>3, <2>2 DEF IsFilter, AllValues
    <3>3. [hf[field] EXCEPT !.in = @ \cup f.values] \in Range(field)
      BY <1>4, <3>2 DEF Range
    <3>4. \A row \in ResultRows : Passes([hf[field] EXCEPT !.in = @ \cup f.values], row[ColumnOf(field)])
      BY <1>3, <1>4, <3>2 DEF Passes, Range
    <3> QED
      BY <3>1, <3>3, <3>4
  <2>3. CASE f.kind # "constant" /\ ~(f.kind = "in" /\ field # "ts_event")
    <3>1. hf' = hf
      BY <1>1, <2>3 DEF Ingest
    <3>2. hf = [hf EXCEPT ![field] = hf[field]]
      BY <1>4
    <3> QED
      BY <1>4, <3>1, <3>2
  <2> QED
    BY <2>1, <2>2, <2>3
<1>7. HeaderFilterOK'
  BY <1>4, <1>6 DEF IInv, HeaderFilterOK
<1>8. PassInv'
  BY <1>1, <1>4, <1>6, SamePending DEF IInv, PassInv, HeaderFilterOK
<1>9. TypeOK'
  BY <1>1, <1>7 DEF IInv, TypeOK, HeaderFilterOK, Range
<1> QED
  BY <1>1, <1>5, <1>7, <1>8, <1>9, SamePending DEF IInv, WorkInv, BodyInv

LEMMA OtherIInv ==
    ASSUME IInv, HeaderFilterBuilt \/ BuildBodyFilterExpr \/ UNCHANGED vars
    PROVE  IInv'
<1>1. UNCHANGED <<query, visited, work, hf>> /\ pc' \in {"header", "body", "scanning"}
  BY DEF HeaderFilterBuilt, BuildBodyFilterExpr, vars, IInv, TypeOK
<1>2. BodyInv'
  <2>1. CASE BuildBodyFilterExpr
    BY <1>1, <2>1, SamePending DEF BuildBodyFilterExpr, BodyInv, Given
  <2>2. CASE ~BuildBodyFilterExpr
    BY <1>1, <2>2, SamePending DEF HeaderFilterBuilt, vars, IInv, BodyInv
  <2> QED
    BY <2>1, <2>2
<1> QED
  BY <1>1, <1>2, SamePending DEF IInv, TypeOK, HeaderFilterOK, WorkInv, PassInv

LEMMA IInvNoRowLost == IInv => NoRowLost
<1> SUFFICES ASSUME IInv, NEW row \in Rows[query.layout], Satisfied(row)
             PROVE  Delivered(row)
  BY DEF NoRowLost
<1>1. \A field \in Fields : FieldMatches(hf[field], row[ColumnOf(field)])
  BY DEF IInv, PassInv, Passes, FieldMatches, ResultRows
<1>2. \A e \in body : row[Column(e)] \in e.filter.sat
  BY DEF IInv, BodyInv, Satisfied, Value, Column
<1> QED
  BY <1>1, <1>2 DEF Delivered, Matches

-----------------------------------------------------------------------------
(* The inductive invariant holds of every pushdown.                            *)
THEOREM PushdownInvariant == Spec => []IInv
<1>1. Init => IInv
  BY InitIInv
<1>2. IInv /\ [Next]_vars => IInv'
  BY VisitEntryIInv, IngestFilterIInv, OtherIInv DEF Next, Scanning
<1> QED
  BY <1>1, <1>2, PTL DEF Spec

(* The bounds of the header filter stay inside the type of their field: the     *)
(* tv + 1 and tv - 1 of TightenIntRange and TightenTsEventRange never overflow.  *)
THEOREM RangesCorrect == Spec => []TypeOK
<1>1. IInv => TypeOK
  BY DEF IInv
<1> QED
  BY <1>1, PushdownInvariant, PTL

(* A row that satisfies every filter of the query passes Matches and the body   *)
(* filter, whichever filters the extension understands.                        *)
THEOREM NoRowLostCorrect == Spec => []NoRowLost
<1>1. IInv => NoRowLost
  BY IInvNoRowLost
<1> QED
  BY <1>1, PushdownInvariant, PTL

-----------------------------------------------------------------------------
(* The other direction: what the ranges and IN-lists let pass.                 *)

InRange(r, v) == r.active => v >= r.lo /\ v <= r.hi

(* The i-th entry of the filter set, and whether it is on a header column.      *)
Entry(i) == query.filters[i]
OnHeader(i) == Usable(Entry(i)) /\ IsHeader(Column(Entry(i)))
EntryField(i) == FieldOf(Column(Entry(i)))
EntryCall(i) == [field |-> EntryField(i), filter |-> Entry(i).filter]

(* What IngestFilter makes of a filter, and the calls waiting in a list.       *)
Parts(f) == IF f.kind = "and" THEN {f.children[i] : i \in 1..Len(f.children)} ELSE {f}
CallsIn(w) == {w[n] : n \in 1..Len(w)}

(* The calls still to run come from the entry visited last; an IN-list of its   *)
(* own is the only one.                                                        *)
CurrentInv ==
    work # <<>> =>
        /\ visited \in 1..Len(query.filters) /\ OnHeader(visited)
        /\ \A c \in CallsIn(work) : c.field = EntryField(visited)
        /\ Entry(visited).filter.kind = "in" => work = <<EntryCall(visited)>>

(* A comparison of a visited entry is waiting, or narrows the range.           *)
Waiting(i, g) == \E c \in CallsIn(work) : c.field = EntryField(i) /\ c.filter \in {g, Entry(i).filter}
Settled(i, g) == \A v \in Domain(EntryField(i)) : InRange(hf[EntryField(i)], v) => v \in g.sat
SettledInv ==
    \A i \in 1..visited : OnHeader(i) =>
        \A g \in Parts(Entry(i).filter) :
            KnownComparison(EntryField(i), g) => Waiting(i, g) \/ Settled(i, g)

(* An IN-list is waiting, or it is the field's; fields no entry is on have none. *)
InsInv ==
    /\ \A field \in Fields :
        (\A i \in 1..visited : OnHeader(i) => EntryField(i) # field) => hf[field].in = {}
    /\ \A i \in 1..visited : OnHeader(i) /\ OnlyIn(EntryField(i), Entry(i).filter) =>
        \/ hf[EntryField(i)].in = Entry(i).filter.values
        \/ hf[EntryField(i)].in = {} /\ i = visited /\ work = <<EntryCall(i)>>

(* Once the header filter is built nothing is left to do for it, and it is used  *)
(* if any field of it is; once the scan runs the body filter has all the rest.  *)
BuiltInv ==
    /\ pc # "header" =>
        /\ work = <<>> /\ visited = Len(query.filters)
        /\ anyActive \/ \A field \in Fields : ~hf[field].active /\ hf[field].in = {}
    /\ pc = "scanning" => \A e \in Given : Usable(e) /\ ~IsHeader(Column(e)) => e \in body

SInv == CurrentInv /\ SettledInv /\ InsInv /\ BuiltInv

-----------------------------------------------------------------------------
(* A comparison only narrows a range, and one that is known narrows it to the   *)
(* values it holds of.                                                         *)
LEMMA TightenNarrows ==
    ASSUME NEW field \in Fields, NEW f \in Filters[field], f.kind = "constant",
           NEW r \in Range(field), NEW v \in Domain(field), InRange(Tighten(field, f, r), v)
    PROVE  /\ InRange(r, v)
           /\ KnownComparison(field, f) => v \in f.sat
<1>1. /\ Lowest[field] \in Int /\ Highest[field] \in Int /\ f.value \in Domain(field)
      /\ r.lo \in Domain(field) /\ r.hi \in Domain(field)
      /\ f.sat = {w \in Domain(field) : Compare(f.op, w, f.value)}
  BY LimitsAssumption, FiltersAssumption DEF IsFilter, Range
<1>2. /\ f.value \in Int /\ r.lo \in Int /\ r.hi \in Int /\ v \in Int
      /\ f.value <= Highest[field] /\ f.value >= Lowest[field]
  BY <1>1 DEF Domain
<1> DEFINE t == Tighten(field, f, r)
           Goal == InRange(r, v) /\ (KnownComparison(field, f) => Compare(f.op, v, f.value))
<1>3. Goal
  <2>1. CASE f.op = "="
    <3>1. t.lo = LowerTo(r.lo, f.value) /\ t.hi = UpperTo(r.hi, f.value) /\ t.active
      BY <2>1 DEF Tighten, Range
    <3>2. v >= t.lo /\ v <= t.hi
      BY <3>1 DEF InRange
    <3> HIDE DEF t
    <3>3. v >= r.lo /\ v <= r.hi /\ v = f.value
      BY <1>2, <3>1, <3>2 DEF LowerTo, UpperTo
    <3> QED
      BY <2>1, <3>3 DEF InRange, Compare
  <2>2. CASE f.op = ">"
    <3>1. /\ t.lo = IF f.value < Highest[field] THEN LowerTo(r.lo, f.value + 1) ELSE r.lo
          /\ t.hi = r.hi /\ t.active
      BY <2>2 DEF Tighten, Range
    <3>2. v >= t.lo /\ v <= t.hi
      BY <3>1 DEF InRange
    <3> HIDE DEF t
    <3>3. v >= r.lo /\ v <= r.hi /\ (f.value < Highest[field] => v > f.value)
      BY <1>2, <3>1, <3>2 DEF LowerTo
    <3>4. KnownComparison(field, f) => f.value < Highest[field]
      <4>1. KnownComparison(field, f) => f.value # Highest[field]
        BY <2>2 DEF KnownComparison, Boundary
      <4> QED
        BY <1>1, <1>2, <4>1
    <3> QED
      BY <2>2, <3>3, <3>4 DEF InRange, Compare
  <2>3. CASE f.op = ">="
    <3>1. t.lo = LowerTo(r.lo, f.value) /\ t.hi = r.hi /\ t.active
      BY <2>3 DEF Tighten, Range
    <3>2. v >= t.lo /\ v <= t.hi
      BY <3>1 DEF InRange
    <3> HIDE DEF t
    <3>3. v >= r.lo /\ v <= r.hi /\ v >= f.value
      BY <1>2, <3>1, <3>2 DEF LowerTo
    <3> QED
      BY <2>3, <3>3 DEF InRange, Compare
  <2>4. CASE f.op = "<"
    <3>1. /\ t.hi = IF f.value > Lowest[field] THEN UpperTo(r.hi, f.value - 1) ELSE r.hi
          /\ t.lo = r.lo /\ t.active
      BY <2>4 DEF Tighten, Range
    <3>2. v >= t.lo /\ v <= t.hi
      BY <3>1 DEF InRange
    <3> HIDE DEF t
    <3>3. v >= r.lo /\ v <= r.hi /\ (f.value > Lowest[field] => v < f.value)
      BY <1>2, <3>1, <3>2 DEF UpperTo
    <3>4. KnownComparison(field, f) => f.value > Lowest[field]
      <4>1. KnownComparison(field, f) => f.value # Lowest[field]
        BY <2>4 DEF KnownComparison, Boundary
      <4> QED
        BY <1>1, <1>2, <4>1
    <3> QED
      BY <2>4, <3>3, <3>4 DEF InRange, Compare
  <2>5. CASE f.op = "<="
    <3>1. t.lo = r.lo /\ t.hi = UpperTo(r.hi, f.value) /\ t.active
      BY <2>5 DEF Tighten, Range
    <3>2. v >= t.lo /\ v <= t.hi
      BY <3>1 DEF InRange
    <3> HIDE DEF t
    <3>3. v >= r.lo /\ v <= r.hi /\ v <= f.value
      BY <1>2, <3>1, <3>2 DEF UpperTo
    <3> QED
      BY <2>5, <3>3 DEF InRange, Compare
  <2>6. CASE f.op \notin {"=", ">", ">=", "<", "<="}
    BY <2>6 DEF Tighten, KnownComparison
  <2> QED
    BY <2>1, <2>2, <2>3, <2>4, <2>5, <2>6
<1> QED
  BY <1>1, <1>3

(* The calls of a list are its first and the rest.                             *)
LEMMA CallsInSplit ==
    ASSUME NEW S, NEW w \in Seq(S), w # <<>>
    PROVE  CallsIn(w) = {Head(w)} \cup CallsIn(Tail(w))
<1>1. Len(w) \in Nat /\ Len(w) > 0 /\ Head(w) = w[1] /\ Len(Tail(w)) = Len(w) - 1
      /\ \A n \in 1..(Len(w) - 1) : Tail(w)[n] = w[n + 1]
  OBVIOUS
<1>2. ASSUME NEW n \in 1..Len(w)
      PROVE  w[n] \in {Head(w)} \cup CallsIn(Tail(w))
  <2>1. CASE n = 1
    BY <1>1, <2>1
  <2>2. CASE n # 1
    <3>1. n - 1 \in 1..(Len(w) - 1) /\ (n - 1) + 1 = n
      BY <1>1, <2>2
    <3>2. Tail(w)[n - 1] = w[n]
      BY <1>1, <3>1
    <3> QED
      BY <1>1, <3>1, <3>2 DEF CallsIn
  <2> QED
    BY <2>1, <2>2
<1>3. ASSUME NEW n \in 1..Len(Tail(w))
      PROVE  Tail(w)[n] \in CallsIn(w)
  <2>1. n + 1 \in 1..Len(w) /\ Tail(w)[n] = w[n + 1]
    BY <1>1
  <2> QED
    BY <2>1 DEF CallsIn
<1>4. Head(w) \in CallsIn(w)
  BY <1>1 DEF CallsIn
<1> QED
  BY <1>2, <1>3, <1>4 DEF CallsIn

LEMMA CallsInConcat ==
    ASSUME NEW S, NEW T, NEW v \in Seq(S), NEW w \in Seq(T)
    PROVE  CallsIn(v \o w) = CallsIn(v) \cup CallsIn(w)
<1>1. /\ Len(v) \in Nat /\ Len(w) \in Nat /\ Len(v \o w) = Len(v) + Len(w)
      /\ \A n \in 1..Len(v) : (v \o w)[n] = v[n]
      /\ \A n \in 1..Len(w) : (v \o w)[Len(v) + n] = w[n]
  OBVIOUS
<1>2. ASSUME NEW n \in 1..Len(v \o w)
      PROVE  (v \o w)[n] \in CallsIn(v) \cup CallsIn(w)
  <2>1. CASE n \in 1..Len(v)
    BY <1>1, <2>1 DEF CallsIn
  <2>2. CASE n \notin 1..Len(v)
    <3>1. n - Len(v) \in 1..Len(w) /\ Len(v) + (n - Len(v)) = n
      BY <1>1, <2>2
    <3>2. (v \o w)[n] = w[n - Len(v)]
      BY <1>1, <3>1
    <3> QED
      BY <3>1, <3>2 DEF CallsIn
  <2> QED
    BY <2>1, <2>2
<1>3. \A n \in 1..Len(v) : n \in 1..Len(v \o w)
  BY <1>1
<1>4. \A n \in 1..Len(w) : Len(v) + n \in 1..Len(v \o w)
  BY <1>1
<1>5. CallsIn(v) \subseteq CallsIn(v \o w)
  BY <1>1, <1>3 DEF CallsIn
<1>6. CallsIn(w) \subseteq CallsIn(v \o w)
  BY <1>1, <1>4 DEF CallsIn
<1>7. CallsIn(v \o w) \subseteq CallsIn(v) \cup CallsIn(w)
  BY <1>2 DEF CallsIn
<1> QED
  BY <1>5, <1>6, <1>7

(* Two entries are not on one header field.                                    *)
LEMMA EntriesDiffer ==
    ASSUME query \in Pushdowns, NEW i \in 1..Len(query.filters), NEW j \in 1..Len(query.filters),
           OnHeader(i), OnHeader(j), EntryField(i) = EntryField(j)
    PROVE  i = j
<1>1. Column(Entry(i)) = Column(Entry(j))
  BY FieldOfColumn DEF OnHeader, EntryField
<1> QED
  BY <1>1, PushdownsAssumption DEF IsPushdown, OnHeader, Usable, Column, Entry

LEMMA SameEntries ==
    ASSUME UNCHANGED query
    PROVE  /\ \A i : Entry(i)' = Entry(i)
           /\ \A i : OnHeader(i)' <=> OnHeader(i)
           /\ \A i : EntryField(i)' = EntryField(i)
           /\ \A i : EntryCall(i)' = EntryCall(i)
<1>1. /\ \A e : Usable(e)' <=> Usable(e)
      /\ \A e : Column(e)' = Column(e)
      /\ \A c : IsHeader(c)' <=> IsHeader(c)
      /\ \A c : FieldOf(c)' = FieldOf(c)
      /\ \A i : Entry(i)' = Entry(i)
  BY DEF Usable, Column, IsHeader, FieldOf, ColumnOf, Entry
<1> QED
  BY <1>1 DEF OnHeader, EntryField, EntryCall

LEMMA InitSInv == Init => SInv
<1> SUFFICES ASSUME Init PROVE SInv
  OBVIOUS
<1>1. visited = 0 /\ work = <<>> /\ hf = WideOpen /\ pc = "header"
  BY DEF Init
<1>2. 1..visited = {}
  BY <1>1
<1>3. \A field \in Fields : hf[field].in = {}
  BY <1>1 DEF WideOpen
<1> QED
  BY <1>1, <1>2, <1>3 DEF SInv, CurrentInv, SettledInv, InsInv, BuiltInv

LEMMA VisitEntrySInv ==
    ASSUME IInv, SInv, VisitEntry
    PROVE  SInv'
<1> DEFINE k == visited + 1
<1>1. /\ UNCHANGED <<query, hf, anyActive, body, pc>> /\ pc = "header" /\ work = <<>>
      /\ visited < Len(query.filters) /\ visited' = k
      /\ work' = IF OnHeader(k) THEN <<EntryCall(k)>> ELSE <<>>
  BY DEF VisitEntry, OnHeader, EntryCall, EntryField, Entry
<1>2. query \in Pushdowns /\ visited \in 0..Len(query.filters) /\ Len(query.filters) \in Nat
  BY ColumnsOK DEF IInv, TypeOK
<1>3. k \in 1..Len(query.filters) /\ 1..k = (1..visited) \cup {k} /\ k \notin 1..visited
      /\ \A i \in 1..visited : i \in 1..Len(query.filters)
  BY <1>1, <1>2
<1> HIDE DEF k
<1>4. CallsIn(work) = {}
  BY <1>1 DEF CallsIn
<1>5. OnHeader(k) => CallsIn(work') = {EntryCall(k)}
  BY <1>1 DEF CallsIn
<1>6. CurrentInv'
  <2> SUFFICES ASSUME work' # <<>>
               PROVE  /\ k \in 1..Len(query.filters) /\ OnHeader(k)
                      /\ \A c \in CallsIn(work') : c.field = EntryField(k)
                      /\ work' = <<EntryCall(k)>>
    BY <1>1, SameEntries DEF CurrentInv, CallsIn
  <2> QED
    BY <1>1, <1>3, <1>5 DEF EntryCall
<1>7. SettledInv'
  <2> SUFFICES ASSUME NEW i \in 1..k, OnHeader(i), NEW g \in Parts(Entry(i).filter),
                      KnownComparison(EntryField(i), g)
               PROVE  (\E c \in CallsIn(work') : c.field = EntryField(i) /\ c.filter \in {g, Entry(i).filter})
                      \/ Settled(i, g)
    BY <1>1, SameEntries DEF SettledInv, Waiting, Settled, CallsIn
  <2>1. CASE i \in 1..visited
    BY <1>4, <2>1 DEF SInv, SettledInv, Waiting
  <2>2. CASE i = k
    <3>1. EntryCall(k) \in CallsIn(work')
      BY <1>5, <2>2
    <3>2. EntryCall(k).field = EntryField(i) /\ EntryCall(k).filter \in {g, Entry(i).filter}
      BY <2>2 DEF EntryCall
    <3> QED
      BY <3>1, <3>2
  <2> QED
    BY <1>3, <2>1, <2>2
<1>8. InsInv'
  <2>1. \A field \in Fields :
            (\A i \in 1..k : OnHeader(i) => EntryField(i) # field) => hf[field].in = {}
    BY <1>3 DEF SInv, InsInv
  <2>2. ASSUME NEW i \in 1..k, OnHeader(i), OnlyIn(EntryField(i), Entry(i).filter)
        PROVE  \/ hf[EntryField(i)].in = Entry(i).filter.values
               \/ hf[EntryField(i)].in = {} /\ i = k /\ work' = <<EntryCall(i)>>
    <3>1. CASE i \in 1..visited
      <4>1. <<EntryCall(i)>> # <<>>
        OBVIOUS
      <4> QED
        BY <1>1, <2>2, <3>1, <4>1 DEF SInv, InsInv
    <3>2. CASE i = k
      <4>1. EntryField(k) \in Fields
        BY <2>2, <3>2, FieldOfColumn DEF OnHeader, EntryField
      <4>2. \A j \in 1..visited : OnHeader(j) => EntryField(j) # EntryField(k)
        BY <1>2, <1>3, <2>2, <3>2, EntriesDiffer
      <4> QED
        BY <1>1, <2>2, <3>2, <4>1, <4>2 DEF SInv, InsInv
    <3> QED
      BY <1>3, <3>1, <3>2
  <2> QED
    BY <1>1, <2>1, <2>2, SameEntries DEF InsInv
<1> QED
  BY <1>1, <1>6, <1>7, <1>8 DEF SInv, BuiltInv

(* What one call of IngestFilter does to the ranges and to the calls waiting.   *)
LEMMA IngestFacts ==
    ASSUME IInv, SInv, IngestFilter,
           NEW field, NEW f, field = Head(work).field, f = Head(work).filter
    PROVE  /\ visited \in 1..Len(query.filters) /\ OnHeader(visited)
           /\ field = EntryField(visited) /\ field \in Fields /\ f \in Filters[field] /\ pc = "header"
           /\ \A g \in Fields : g # field => hf'[g] = hf[g]
           /\ f.kind = "in" /\ field # "ts_event" => hf'[field].in = hf[field].in \cup f.values
           /\ \A v \in Domain(field) : InRange(hf'[field], v) =>
                InRange(hf[field], v) /\ (KnownComparison(field, f) => v \in f.sat)
           /\ \A c \in CallsIn(work) : c = [field |-> field, filter |-> f] \/ c \in CallsIn(work')
           /\ \A c \in CallsIn(work') : c.field = field
           /\ f.kind = "and" => \A g \in Parts(f) : [field |-> field, filter |-> g] \in CallsIn(work')
<1>1. /\ work # <<>> /\ Ingest(field, f) /\ work \in Seq(Pending)
  BY DEF IngestFilter, IInv, WorkInv
<1>2. /\ Head(work) \in Pending /\ Tail(work) \in Seq(Pending)
      /\ CallsIn(work) = {Head(work)} \cup CallsIn(Tail(work))
  BY <1>1, CallsInSplit
<1>3. /\ field \in Fields /\ f \in Filters[field] /\ IsFilter(field, f)
      /\ Head(work) = [field |-> field, filter |-> f]
  BY <1>2, FiltersAssumption DEF Pending
<1>4. /\ visited \in 1..Len(query.filters) /\ OnHeader(visited) /\ field = EntryField(visited)
      /\ \A c \in CallsIn(Tail(work)) : c.field = field
      /\ pc = "header"
  BY <1>1, <1>2 DEF SInv, CurrentInv, BuiltInv
<1>5. hf = [g \in Fields |-> hf[g]] /\ hf[field] \in Range(field)
  BY <1>3 DEF IInv, HeaderFilterOK
<1>6. /\ \A g \in Fields : g # field => hf'[g] = hf[g]
      /\ f.kind = "in" /\ field # "ts_event" => hf'[field].in = hf[field].in \cup f.values
      /\ \A v \in Domain(field) : InRange(hf'[field], v) =>
            InRange(hf[field], v) /\ (KnownComparison(field, f) => v \in f.sat)
  <2>1. CASE f.kind = "constant"
    <3>1. hf' = [hf EXCEPT ![field] = Tighten(field, f, hf[field])]
      BY <1>1, <2>1 DEF Ingest
    <3>2. hf'[field] = Tighten(field, f, hf[field]) /\ \A g \in Fields : g # field => hf'[g] = hf[g]
      BY <1>3, <1>5, <3>1
    <3>3. ASSUME NEW v \in Domain(field), InRange(Tighten(field, f, hf[field]), v)
          PROVE  InRange(hf[field], v) /\ (KnownComparison(field, f) => v \in f.sat)
      BY <1>3, <1>5, <2>1, <3>3, TightenNarrows
    <3> QED
      BY <2>1, <3>2, <3>3
  <2>2. CASE f.kind = "in" /\ field # "ts_event"
    <3>1. hf' = [hf EXCEPT ![field] = [hf[field] EXCEPT !.in = @ \cup f.values]]
      BY <1>1, <2>2 DEF Ingest
    <3>2. /\ hf'[field] = [hf[field] EXCEPT !.in = @ \cup f.values]
          /\ \A g \in Fields : g # field => hf'[g] = hf[g]
      BY <1>3, <1>5, <3>1
    <3>3. /\ hf'[field].in = hf[field].in \cup f.values /\ hf'[field].lo = hf[field].lo
          /\ hf'[field].hi = hf[field].hi /\ hf'[field].active = hf[field].active
      BY <1>5, <3>2 DEF Range
    <3> QED
      BY <2>2, <3>2, <3>3 DEF InRange, KnownComparison
  <2>3. CASE f.kind # "constant" /\ ~(f.kind = "in" /\ field # "ts_event")
    <3>1. hf' = hf
      BY <1>1, <2>3 DEF Ingest
    <3> QED
      BY <2>3, <3>1 DEF KnownComparison
  <2> QED
    BY <2>1, <2>2, <2>3
<1>7. /\ \A c \in CallsIn(Tail(work)) : c \in CallsIn(work')
      /\ \A c \in CallsIn(work') : c.field = field
      /\ f.kind = "and" => \A g \in Parts(f) : [field |-> field, filter |-> g] \in CallsIn(work')
  <2>1. CASE f.kind \in {"and", "optional"}
    <3> DEFINE cs == Calls(field, f.children)
               S == [field : {field}, filter : Filters[field]]
    <3>1. f.children \in Seq(Filters[field]) /\ Len(f.children) \in Nat
      BY <1>3, <2>1 DEF IsFilter
    <3>2. /\ \A i \in 1..Len(f.children) : cs[i] = [field |-> field, filter |-> f.children[i]]
          /\ Len(cs) = Len(f.children)
      BY <3>1 DEF Calls
    <3>3. cs \in Seq(S)
      BY <3>1 DEF Calls
    <3>4. work' = cs \o Tail(work)
      BY <1>1, <2>1 DEF Ingest
    <3> HIDE DEF cs, S
    <3>5. CallsIn(work') = CallsIn(cs) \cup CallsIn(Tail(work))
      <4> DEFINE rest == Tail(work)
      <4>1. rest \in Seq(Pending) /\ work' = cs \o rest
        BY <1>2, <3>4
      <4> HIDE DEF rest
      <4>2. CallsIn(work') = CallsIn(cs) \cup CallsIn(rest)
        BY <3>3, <4>1, CallsInConcat
      <4> QED
        BY <4>2 DEF rest
    <3>6. ASSUME NEW c \in CallsIn(cs)
          PROVE  c.field = field
      <4>1. PICK n \in 1..Len(cs) : c = cs[n]
        BY DEF CallsIn
      <4>2. c = [field |-> field, filter |-> f.children[n]]
        BY <3>2, <4>1
      <4> QED
        BY <4>2
    <3>7. ASSUME f.kind = "and", NEW g \in Parts(f)
          PROVE  [field |-> field, filter |-> g] \in CallsIn(cs)
      BY <3>2, <3>7 DEF CallsIn, Parts
    <3> QED
      BY <1>4, <3>5, <3>6, <3>7
  <2>2. CASE f.kind \notin {"and", "optional"}
    <3>1. work' = Tail(work)
      BY <1>1, <2>2 DEF Ingest
    <3> QED
      BY <1>4, <2>2, <3>1 DEF CallsIn
  <2> QED
    BY <2>1, <2>2
<1> QED
  BY <1>2, <1>3, <1>4, <1>6, <1>7

LEMMA IngestFilterSInv ==
    ASSUME IInv, SInv, IngestFilter
    PROVE  SInv'
<1> DEFINE field == Head(work).field
           f == Head(work).filter
<1>1. /\ UNCHANGED <<query, visited, anyActive, body, pc>> /\ work # <<>>
  BY DEF IngestFilter
<1>2. /\ visited \in 1..Len(query.filters) /\ OnHeader(visited)
      /\ field = EntryField(visited) /\ field \in Fields /\ f \in Filters[field] /\ pc = "header"
      /\ \A g \in Fields : g # field => hf'[g] = hf[g]
      /\ f.kind = "in" /\ field # "ts_event" => hf'[field].in = hf[field].in \cup f.values
      /\ \A v \in Domain(field) : InRange(hf'[field], v) =>
            InRange(hf[field], v) /\ (KnownComparison(field, f) => v \in f.sat)
      /\ \A c \in CallsIn(work) : c = [field |-> field, filter |-> f] \/ c \in CallsIn(work')
      /\ \A c \in CallsIn(work') : c.field = field
      /\ f.kind = "and" => \A g \in Parts(f) : [field |-> field, filter |-> g] \in CallsIn(work')
  BY IngestFacts
<1>3. Entry(visited).filter.kind = "in" =>
        /\ work = <<EntryCall(visited)>> /\ f = Entry(visited).filter /\ work' = <<>>
  <2> SUFFICES ASSUME Entry(visited).filter.kind = "in"
               PROVE  work = <<EntryCall(visited)>> /\ f = Entry(visited).filter /\ work' = <<>>
    OBVIOUS
  <2>1. work = <<EntryCall(visited)>>
    BY <1>1 DEF SInv, CurrentInv
  <2>2. Head(work) = EntryCall(visited) /\ Tail(work) = <<>>
    BY <2>1
  <2>3. f = Entry(visited).filter
    BY <2>2 DEF EntryCall
  <2>4. work' = Tail(work)
    BY <2>3 DEF IngestFilter, Ingest
  <2> QED
    BY <2>1, <2>2, <2>3, <2>4
<1> HIDE DEF field, f
<1>4. \A i \in 1..visited : OnHeader(i) => EntryField(i) \in Fields
  BY FieldOfColumn DEF OnHeader, EntryField
<1>5. \A i \in 1..visited : OnHeader(i) /\ i # visited => EntryField(i) # field
  <2> SUFFICES ASSUME NEW i \in 1..visited, OnHeader(i), EntryField(i) = field
               PROVE  i = visited
    OBVIOUS
  <2>1. i \in 1..Len(query.filters) /\ query \in Pushdowns
    BY <1>2, ColumnsOK DEF IInv, TypeOK
  <2> QED
    BY <1>2, <2>1, EntriesDiffer
<1>6. CurrentInv'
  <2> SUFFICES ASSUME work' # <<>>
               PROVE  /\ visited \in 1..Len(query.filters) /\ OnHeader(visited)
                      /\ \A c \in CallsIn(work') : c.field = EntryField(visited)
                      /\ Entry(visited).filter.kind # "in"
    BY <1>1, SameEntries DEF CurrentInv, CallsIn
  <2> QED
    BY <1>2, <1>3
<1>7. SettledInv'
  <2> SUFFICES ASSUME NEW i \in 1..visited, OnHeader(i), NEW g \in Parts(Entry(i).filter),
                      KnownComparison(EntryField(i), g)
               PROVE  \/ \E c \in CallsIn(work') :
                            c.field = EntryField(i) /\ c.filter \in {g, Entry(i).filter}
                      \/ \A v \in Domain(EntryField(i)) : InRange(hf'[EntryField(i)], v) => v \in g.sat
    BY <1>1, SameEntries DEF SettledInv, Waiting, Settled, CallsIn
  <2>1. CASE Settled(i, g)
    BY <1>2, <1>4, <2>1 DEF Settled
  <2>2. CASE Waiting(i, g)
    <3>1. PICK c \in CallsIn(work) : c.field = EntryField(i) /\ c.filter \in {g, Entry(i).filter}
      BY <2>2 DEF Waiting
    <3>2. CASE c \in CallsIn(work')
      BY <3>1, <3>2
    <3>3. CASE c = [field |-> field, filter |-> f]
      <4>1. field = EntryField(i) /\ f \in {g, Entry(i).filter}
        BY <3>1, <3>3
      <4>2. CASE f = g
        BY <1>2, <4>1, <4>2
      <4>3. CASE f = Entry(i).filter /\ f.kind = "and"
        <5>1. [field |-> field, filter |-> g] \in CallsIn(work')
          BY <1>2, <4>3
        <5>2. /\ [field |-> field, filter |-> g].field = EntryField(i)
              /\ [field |-> field, filter |-> g].filter \in {g, Entry(i).filter}
          BY <4>1
        <5> QED
          BY <5>1, <5>2
      <4>4. CASE f = Entry(i).filter /\ f.kind # "and"
        <5>1. f = g
          BY <4>4 DEF Parts
        <5> QED
          BY <1>2, <4>1, <5>1
      <4> QED
        BY <4>1, <4>2, <4>3, <4>4
    <3> QED
      BY <1>2, <3>2, <3>3
  <2> QED
    BY <2>1, <2>2 DEF SInv, SettledInv
<1>8. InsInv'
  <2>1. ASSUME NEW g \in Fields, \A i \in 1..visited : OnHeader(i) => EntryField(i) # g
        PROVE  hf'[g].in = {}
    <3>1. visited \in 1..visited
      BY <1>2
    <3>2. g # field
      BY <1>2, <2>1, <3>1
    <3> QED
      BY <1>2, <2>1, <3>2 DEF SInv, InsInv
  <2>2. ASSUME NEW i \in 1..visited, OnHeader(i), OnlyIn(EntryField(i), Entry(i).filter)
        PROVE  hf'[EntryField(i)].in = Entry(i).filter.values
    <3>1. \/ hf[EntryField(i)].in = Entry(i).filter.values
          \/ hf[EntryField(i)].in = {} /\ i = visited
      BY <2>2 DEF SInv, InsInv
    <3>2. CASE i = visited
      <4>1. f = Entry(i).filter /\ f.kind = "in" /\ field # "ts_event" /\ field = EntryField(i)
        BY <1>2, <1>3, <2>2, <3>2 DEF OnlyIn
      <4> QED
        BY <1>2, <3>1, <4>1
    <3>3. CASE i # visited
      BY <1>2, <1>4, <1>5, <2>2, <3>1, <3>3
    <3> QED
      BY <3>2, <3>3
  <2> QED
    BY <1>1, <2>1, <2>2, SameEntries DEF InsInv
<1> QED
  BY <1>1, <1>2, <1>6, <1>7, <1>8 DEF SInv, BuiltInv

LEMMA SameWork ==
    ASSUME SInv, UNCHANGED <<query, visited, work, hf>>
    PROVE  CurrentInv' /\ SettledInv' /\ InsInv'
BY SameEntries DEF SInv, CurrentInv, SettledInv, InsInv, Waiting, Settled, CallsIn

LEMMA OtherSInv ==
    ASSUME IInv, SInv, HeaderFilterBuilt \/ BuildBodyFilterExpr \/ UNCHANGED vars
    PROVE  SInv'
<1>1. CASE HeaderFilterBuilt
  <2>1. /\ UNCHANGED <<query, visited, work, hf, body>> /\ work = <<>> /\ visited = Len(query.filters)
        /\ anyActive' = (\E field \in Fields : hf[field].active \/ hf[field].in # {})
        /\ pc' = "body"
    BY <1>1 DEF HeaderFilterBuilt
  <2>2. anyActive' \/ \A field \in Fields : ~hf[field].active /\ hf[field].in = {}
    BY <2>1
  <2> QED
    BY <2>1, <2>2, SameWork DEF SInv, BuiltInv
<1>2. CASE BuildBodyFilterExpr
  <2>1. /\ UNCHANGED <<query, visited, work, hf, anyActive>> /\ pc = "body" /\ pc' = "scanning"
        /\ body' = {query.filters[i] : i \in {i \in 1..Len(query.filters) :
                        Usable(query.filters[i]) /\ ~IsHeader(Column(query.filters[i]))}}
    BY <1>2 DEF BuildBodyFilterExpr
  <2>2. \A e \in Given : Usable(e) /\ ~IsHeader(Column(e)) => e \in body'
    BY <2>1 DEF Given
  <2>3. /\ Given' = Given /\ \A e : Usable(e)' <=> Usable(e)
        /\ \A e : IsHeader(Column(e))' <=> IsHeader(Column(e))
    BY <2>1 DEF Given, Usable, IsHeader, Column, ColumnOf
  <2> QED
    BY <2>1, <2>2, <2>3, SameWork DEF SInv, BuiltInv
<1>3. CASE UNCHANGED vars
  <2>1. UNCHANGED <<query, visited, work, hf, anyActive, body, pc>>
    BY <1>3 DEF vars
  <2>2. /\ Given' = Given /\ \A e : Usable(e)' <=> Usable(e)
        /\ \A e : IsHeader(Column(e))' <=> IsHeader(Column(e))
    BY <2>1 DEF Given, Usable, IsHeader, Column, ColumnOf
  <2> QED
    BY <2>1, <2>2, SameWork DEF SInv, BuiltInv
<1> QED
  BY <1>1, <1>2, <1>3

(* What a supported filter lets pass satisfies what the scan has to enforce.    *)
LEMMA SupportedEnforced ==
    ASSUME IInv, SInv, NEW i \in 1..Len(query.filters), visited = Len(query.filters), work = <<>>,
           OnHeader(i), Supported(EntryField(i), Entry(i).filter),
           NEW v \in Domain(EntryField(i)), FieldMatches(hf[EntryField(i)], v)
    PROVE  v \in Entry(i).filter.must
<1> DEFINE field == EntryField(i)
           f == Entry(i).filter
<1>1. /\ query \in Pushdowns /\ field \in Fields /\ Column(Entry(i)) = ColumnOf(field)
      /\ f \in Filters[field] /\ IsFilter(field, f)
  <2>1. field \in Fields /\ Column(Entry(i)) = ColumnOf(field)
    BY FieldOfColumn DEF OnHeader, EntryField
  <2>2. query \in Pushdowns
    BY DEF IInv, TypeOK
  <2>3. f \in Filters[field]
    BY <2>1, <2>2, ColumnsOK DEF OnHeader, Entry
  <2> QED
    BY <2>1, <2>2, <2>3, FiltersAssumption
<1>2. \A g \in Parts(f) : KnownComparison(field, g) => v \in g.sat
  <2>1. CallsIn(work) = {} /\ InRange(hf[field], v)
    BY DEF CallsIn, FieldMatches, InRange
  <2> QED
    BY <2>1 DEF SInv, SettledInv, Waiting, Settled
<1>3. OnlyIn(field, f) => v \in f.values
  <2> SUFFICES ASSUME OnlyIn(field, f) PROVE v \in f.values
    OBVIOUS
  <2>1. work # <<EntryCall(i)>>
    OBVIOUS
  <2>2. hf[field].in = f.values
    BY <2>1 DEF SInv, InsInv
  <2> QED
    BY <2>2 DEF OnlyIn, FieldMatches
<1> HIDE DEF field, f
<1>4. v \in Domain(field) /\ Supported(field, f)
  BY DEF field, f
<1>5. v \in f.must
  <2>1. CASE Harmless(field, f)
    BY <1>4, <2>1 DEF Harmless
  <2>2. CASE KnownComparison(field, f)
    BY <1>1, <1>2, <2>2 DEF KnownComparison, Parts, IsFilter
  <2>3. CASE OnlyIn(field, f)
    BY <1>1, <1>3, <2>3 DEF OnlyIn, IsFilter
  <2>4. CASE f.kind = "and" /\ \A n \in 1..Len(f.children) :
                  KnownComparison(field, f.children[n]) \/ Harmless(field, f.children[n])
    <3>1. ASSUME NEW n \in 1..Len(f.children)
          PROVE  v \in f.children[n].must
      <4>1. CASE Harmless(field, f.children[n])
        BY <1>4, <4>1 DEF Harmless
      <4>2. CASE KnownComparison(field, f.children[n])
        <5>1. f.children[n] \in Parts(f) /\ f.children \in Seq(Filters[field])
          BY <1>1, <2>4 DEF Parts, IsFilter
        <5>2. v \in f.children[n].sat
          BY <1>2, <4>2, <5>1
        <5>3. IsFilter(field, f.children[n])
          BY <1>1, <5>1, FiltersAssumption
        <5> QED
          BY <4>2, <5>2, <5>3 DEF KnownComparison, IsFilter
      <4> QED
        BY <2>4, <4>1, <4>2
    <3> QED
      BY <1>1, <1>4, <2>4, <3>1 DEF IsFilter
  <2> QED
    BY <1>4, <2>1, <2>2, <2>3, <2>4 DEF Supported
<1> QED
  BY <1>5 DEF f

LEMMA SInvSupported == IInv /\ SInv => SupportedRowSet
<1> SUFFICES ASSUME IInv, SInv, pc = "scanning",
                    \A e \in Given : Usable(e) /\ IsHeader(Column(e)) =>
                        Supported(FieldOf(Column(e)), e.filter),
                    NEW row \in Rows[query.layout], Delivered(row),
                    NEW i \in 1..Len(query.filters), Usable(Entry(i))
             PROVE  Value(row, Entry(i)) \in Entry(i).filter.must
  BY DEF SupportedRowSet, RowSetMatchesPredicate, Enforced, Given, Entry
<1>1. /\ query \in Pushdowns /\ work = <<>> /\ visited = Len(query.filters)
      /\ anyActive \/ \A field \in Fields : ~hf[field].active /\ hf[field].in = {}
      /\ \A e \in Given : Usable(e) /\ ~IsHeader(Column(e)) => e \in body
      /\ Entry(i) \in Given /\ Value(row, Entry(i)) = row[Column(Entry(i))]
  BY DEF IInv, TypeOK, SInv, BuiltInv, Given, Entry, Value, Column
<1>2. CASE IsHeader(Column(Entry(i)))
  <2>1. /\ OnHeader(i) /\ Supported(EntryField(i), Entry(i).filter)
        /\ EntryField(i) \in Fields /\ Column(Entry(i)) = ColumnOf(EntryField(i))
    BY <1>1, <1>2, FieldOfColumn DEF OnHeader, EntryField
  <2>2. row[ColumnOf(EntryField(i))] \in Domain(EntryField(i))
    BY <1>1, <2>1, ColumnsOK
  <2>3. FieldMatches(hf[EntryField(i)], row[ColumnOf(EntryField(i))])
    BY <1>1, <2>1 DEF Delivered, Matches, FieldMatches
  <2> QED
    BY <1>1, <2>1, <2>2, <2>3, SupportedEnforced
<1>3. CASE ~IsHeader(Column(Entry(i)))
  <2>1. row[Column(Entry(i))] \in Entry(i).filter.sat
    BY <1>1, <1>3 DEF Delivered
  <2>2. Entry(i).filter.sat \subseteq Entry(i).filter.must
    BY <1>1, PushdownsAssumption DEF IsPushdown, Entry
  <2> QED
    BY <1>1, <2>1, <2>2
<1> QED
  BY <1>2, <1>3

(* With comparisons the extension knows, one IN-list for a column, and          *)
(* conjunctions of such, every delivered row satisfies each filter the scan     *)
(* alone enforces: Matches and the body expression select what the predicate    *)
(* does.                                                                       *)
THEOREM SupportedRowSetCorrect == Spec => []SupportedRowSet
<1>1. Init => SInv
  BY InitSInv
<1>2. IInv /\ SInv /\ [Next]_vars => SInv'
  BY VisitEntrySInv, IngestFilterSInv, OtherSInv DEF Next, Scanning
<1>3. IInv /\ SInv => SupportedRowSet
  BY SInvSupported
<1> QED
  BY <1>1, <1>2, <1>3, PushdownInvariant, PTL DEF Spec
=============================================================================
