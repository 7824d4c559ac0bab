-------------------------- MODULE MetadataRowProofs --------------------------
(* The row of dbn_metadata, for every file: each of its cells comes from its own *)
(* place in the block, in all three layouts, and there is at most one row.       *)
EXTENDS MetadataRow, SequenceTheorems, TLAPS

-----------------------------------------------------------------------------
(* A layout is a sequence of named bytes.                                      *)
Names ==
    {"dataset", "schema", "start", "end", "limit", "record_count", "stype_in", "stype_out", "ts_out",
     "symbol_cstr_len", "reserved"}
Bytes == Seq(Names \X Nat)

(* The bytes behind the first `offset` of a layout are those of a field.         *)
Holds(layout, name, offset, bytes) ==
    /\ offset + bytes <= Len(layout)
    /\ \A k \in 1..bytes : layout[offset + k] = <<name, k>>

LEMMA FieldIsBytes ==
    ASSUME NEW name \in Names, NEW bytes \in Nat
    PROVE  /\ Field(name, bytes) \in Bytes
           /\ Len(Field(name, bytes)) = bytes
           /\ \A k \in 1..bytes : Field(name, bytes)[k] = <<name, k>>
BY DEF Field, Bytes

(* A layout that ends with the field holds it there,                           *)
LEMMA LastField ==
    ASSUME NEW before \in Bytes, NEW name \in Names, NEW bytes \in Nat
    PROVE  /\ before \o Field(name, bytes) \in Bytes
           /\ Len(before \o Field(name, bytes)) = Len(before) + bytes
           /\ Holds(before \o Field(name, bytes), name, Len(before), bytes)
<1> DEFINE f == Field(name, bytes)
<1>1. f \in Bytes /\ Len(f) = bytes /\ \A k \in 1..bytes : f[k] = <<name, k>>
  BY FieldIsBytes
<1> HIDE DEF f
<1>2. /\ before \o f \in Bytes
      /\ Len(before \o f) = Len(before) + bytes
      /\ \A i \in 1..(Len(before) + bytes) :
            (before \o f)[i] = IF i <= Len(before) THEN before[i] ELSE f[i - Len(before)]
  BY <1>1, ConcatProperties DEF Bytes
<1>3. Len(before) \in Nat
  BY DEF Bytes
<1>4. Holds(before \o f, name, Len(before), bytes)
  BY <1>1, <1>2, <1>3 DEF Holds
<1> QED
  BY <1>2, <1>4 DEF f

(* and one that goes on with another field still does.                         *)
LEMMA EarlierField ==
    ASSUME NEW before \in Bytes, NEW other \in Names, NEW more \in Nat,
           NEW name, NEW offset \in Nat, NEW bytes \in Nat, Holds(before, name, offset, bytes)
    PROVE  Holds(before \o Field(other, more), name, offset, bytes)
<1> DEFINE f == Field(other, more)
<1>1. f \in Bytes /\ Len(f) = more
  BY FieldIsBytes
<1> HIDE DEF f
<1>2. /\ Len(before \o f) = Len(before) + more
      /\ \A i \in 1..(Len(before) + more) :
            (before \o f)[i] = IF i <= Len(before) THEN before[i] ELSE f[i - Len(before)]
  BY <1>1, ConcatProperties DEF Bytes
<1>3. Len(before) \in Nat
  BY DEF Bytes
<1>4. Holds(before \o f, name, offset, bytes)
  BY <1>2, <1>3 DEF Holds
<1> QED
  BY <1>4 DEF f


Keeps(before, after) ==
    \A name \in Names : \A offset, bytes \in Nat :
        Holds(before, name, offset, bytes) => Holds(after, name, offset, bytes)

LEMMA Appended ==
    ASSUME NEW before \in Bytes, NEW name \in Names, NEW bytes \in Nat
    PROVE  /\ before \o Field(name, bytes) \in Bytes
           /\ Len(before \o Field(name, bytes)) = Len(before) + bytes
           /\ Holds(before \o Field(name, bytes), name, Len(before), bytes)
           /\ Keeps(before, before \o Field(name, bytes))
BY LastField, EarlierField DEF Keeps

-----------------------------------------------------------------------------
(* The fields at the front are those of every version.                         *)
Front ==
    Field("dataset", 16) \o Field("schema", 2) \o Field("start", 8) \o Field("end", 8)
    \o Field("limit", 8)

HoldsFront(layout) ==
    /\ Holds(layout, "dataset", 0, 16) /\ Holds(layout, "schema", 16, 2)
    /\ Holds(layout, "start", 18, 8) /\ Holds(layout, "end", 26, 8) /\ Holds(layout, "limit", 34, 8)

LEMMA BytesAssociative ==
    ASSUME NEW a \in Bytes, NEW b \in Bytes, NEW c \in Bytes
    PROVE  (a \o b) \o c = a \o (b \o c)
<1> DEFINE S == Names \X Nat
<1>1. a \in Seq(S) /\ b \in Seq(S) /\ c \in Seq(S)
  BY DEF Bytes
<1> HIDE DEF S
<1> QED
  BY <1>1, ConcatAssociative

LEMMA KeepsFront ==
    ASSUME NEW before, NEW after, HoldsFront(before), Keeps(before, after)
    PROVE  HoldsFront(after)
<1>1. {"dataset", "schema", "start", "end", "limit"} \subseteq Names
  BY DEF Names
<1> QED
  BY <1>1 DEF HoldsFront, Keeps

LEMMA FrontLayout == Front \in Bytes /\ Len(Front) = 42 /\ HoldsFront(Front)
<1> DEFINE p1 == Field("dataset", 16)
           p2 == p1 \o Field("schema", 2)
           p3 == p2 \o Field("start", 8)
           p4 == p3 \o Field("end", 8)
           p5 == p4 \o Field("limit", 8)
<1>0. /\ "dataset" \in Names /\ "schema" \in Names /\ "start" \in Names /\ "end" \in Names
      /\ "limit" \in Names
  BY DEF Names
<1>6. p5 = Front
  BY DEF Front
<1>1. p1 \in Bytes /\ Len(p1) = 16 /\ Holds(p1, "dataset", 0, 16)
  <2>1. p1 \in Bytes /\ Len(p1) = 16 /\ \A k \in 1..16 : p1[k] = <<"dataset", k>>
    BY <1>0, FieldIsBytes
  <2> HIDE DEF p1
  <2> QED
    BY <2>1 DEF Holds
<1> HIDE DEF p1, p2, p3, p4, p5
<1>2. p2 \in Bytes /\ Len(p2) = 18 /\ Holds(p2, "schema", 16, 2) /\ Keeps(p1, p2)
  <2>1. "schema" \in Names /\ p1 \in Bytes
    BY <1>0, <1>1
  <2>2. /\ p2 \in Bytes /\ Len(p2) = Len(p1) + 2
        /\ Holds(p2, "schema", Len(p1), 2) /\ Keeps(p1, p2)
    BY <2>1, Appended DEF p2
  <2> QED
    BY <1>1, <2>2
<1>3. p3 \in Bytes /\ Len(p3) = 26 /\ Holds(p3, "start", 18, 8) /\ Keeps(p2, p3)
  <2>1. "start" \in Names /\ p2 \in Bytes
    BY <1>0, <1>2
  <2>2. /\ p3 \in Bytes /\ Len(p3) = Len(p2) + 8
        /\ Holds(p3, "start", Len(p2), 8) /\ Keeps(p2, p3)
    BY <2>1, Appended DEF p3
  <2> QED
    BY <1>2, <2>2
<1>4. p4 \in Bytes /\ Len(p4) = 34 /\ Holds(p4, "end", 26, 8) /\ Keeps(p3, p4)
  <2>1. "end" \in Names /\ p3 \in Bytes
    BY <1>0, <1>3
  <2>2. /\ p4 \in Bytes /\ Len(p4) = Len(p3) + 8
        /\ Holds(p4, "end", Len(p3), 8) /\ Keeps(p3, p4)
    BY <2>1, Appended DEF p4
  <2> QED
    BY <1>3, <2>2
<1>5. p5 \in Bytes /\ Len(p5) = 42 /\ Holds(p5, "limit", 34, 8) /\ Keeps(p4, p5)
  <2>1. "limit" \in Names /\ p4 \in Bytes
    BY <1>0, <1>4
  <2>2. /\ p5 \in Bytes /\ Len(p5) = Len(p4) + 8
        /\ Holds(p5, "limit", Len(p4), 8) /\ Keeps(p4, p5)
    BY <2>1, Appended DEF p5
  <2> QED
    BY <1>4, <2>2
<1>7. HoldsFront(p5)
  BY <1>0, <1>1, <1>2, <1>3, <1>4, <1>5 DEF HoldsFront, Keeps
<1> QED
  BY <1>5, <1>6, <1>7

(* The three fields behind the front, wherever it ends, and the rest.           *)
HoldsFlags(layout, n) ==
    /\ Holds(layout, "stype_in", n, 1) /\ Holds(layout, "stype_out", n + 1, 1)
    /\ Holds(layout, "ts_out", n + 2, 1)

WithFlags(front) == front \o Field("stype_in", 1) \o Field("stype_out", 1) \o Field("ts_out", 1)

LEMMA KeepsFlags ==
    ASSUME NEW before, NEW after, NEW n \in Nat, HoldsFlags(before, n), Keeps(before, after)
    PROVE  HoldsFlags(after, n)
<1>1. "stype_in" \in Names /\ "stype_out" \in Names /\ "ts_out" \in Names
  BY DEF Names
<1> QED
  BY <1>1 DEF HoldsFlags, Keeps

LEMMA FlagsLayout ==
    ASSUME NEW front \in Bytes, HoldsFront(front)
    PROVE  /\ WithFlags(front) \in Bytes /\ Len(WithFlags(front)) = Len(front) + 3
           /\ HoldsFront(WithFlags(front)) /\ HoldsFlags(WithFlags(front), Len(front))
<1> DEFINE n == Len(front)
           p1 == front \o Field("stype_in", 1)
           p2 == p1 \o Field("stype_out", 1)
           p3 == p2 \o Field("ts_out", 1)
<1>0. "stype_in" \in Names /\ "stype_out" \in Names /\ "ts_out" \in Names
  BY DEF Names
<1>4. p3 = WithFlags(front)
  BY DEF WithFlags
<1>n. n \in Nat /\ Len(front) = n
  BY DEF Bytes
<1> HIDE DEF n, p1, p2, p3
<1>1. p1 \in Bytes /\ Len(p1) = n + 1 /\ Holds(p1, "stype_in", n, 1) /\ Keeps(front, p1)
  BY <1>0, <1>n, Appended DEF p1
<1>2. p2 \in Bytes /\ Len(p2) = n + 2 /\ Holds(p2, "stype_out", n + 1, 1) /\ Keeps(p1, p2)
  BY <1>0, <1>1, <1>n, Appended DEF p2
<1>3. p3 \in Bytes /\ Len(p3) = n + 3 /\ Holds(p3, "ts_out", n + 2, 1) /\ Keeps(p2, p3)
  BY <1>0, <1>2, <1>n, Appended DEF p3
<1>5. HoldsFront(p3)
  BY <1>1, <1>2, <1>3, KeepsFront
<1>6. HoldsFlags(p3, n)
  BY <1>0, <1>n, <1>1, <1>2, <1>3 DEF HoldsFlags, Keeps
<1> QED
  BY <1>3, <1>4, <1>5, <1>6 DEF n

LEMMA FixedLayout ==
    ASSUME NEW v \in Versions
    PROVE  /\ Len(Fixed[v]) = FixedMetadataLen
           /\ HoldsFront(Fixed[v])
           /\ HoldsFlags(Fixed[v], OffStype(v))
           /\ v > 1 => Holds(Fixed[v], "symbol_cstr_len", OffStype(v) + 3, 2)
<1>0. "record_count" \in Names /\ "symbol_cstr_len" \in Names /\ "reserved" \in Names
  BY DEF Names
<1>1. CASE v = 1
  <2> DEFINE front == Front \o Field("record_count", 8)
             flags == WithFlags(front)
             layout == flags \o Field("reserved", 47)
  <2>1. layout = Fixed[v]
    BY <1>1 DEF Fixed, Front, WithFlags, Versions
  <2> HIDE DEF front, flags, layout
  <2>2. front \in Bytes /\ Len(front) = 42 + 8 /\ Keeps(Front, front)
    <3>1. "record_count" \in Names /\ Front \in Bytes
      BY <1>0, FrontLayout
    <3>2. front \in Bytes /\ Len(front) = Len(Front) + 8 /\ Keeps(Front, front)
      BY <3>1, Appended DEF front
    <3> QED
      BY <3>2, FrontLayout
  <2>3. HoldsFront(front)
    BY <2>2, FrontLayout, KeepsFront
  <2>4. /\ flags \in Bytes /\ Len(flags) = Len(front) + 3
        /\ HoldsFront(flags) /\ HoldsFlags(flags, Len(front))
    BY <2>2, <2>3, FlagsLayout DEF flags
  <2>5. Len(layout) = Len(flags) + 47 /\ Keeps(flags, layout)
    BY <1>0, <2>4, Appended DEF layout
  <2>6. HoldsFront(layout) /\ HoldsFlags(layout, 50)
    BY <2>2, <2>4, <2>5, KeepsFront, KeepsFlags
  <2> QED
    BY <1>1, <2>1, <2>2, <2>4, <2>5, <2>6 DEF OffStype, FixedMetadataLen
<1>2. CASE v # 1
  <2> DEFINE flags == WithFlags(Front)
             more == flags \o Field("symbol_cstr_len", 2)
             layout == more \o Field("reserved", 53)
  <2>1. Fixed[v] = WithFlags(Front \o <<>>)
                    \o (Field("symbol_cstr_len", 2) \o Field("reserved", 53))
    BY <1>2 DEF Fixed, Front, WithFlags
  <2>2. Front \o <<>> = Front
    BY FrontLayout, ConcatEmptySeq DEF Bytes
  <2>3. Fixed[v] = flags \o (Field("symbol_cstr_len", 2) \o Field("reserved", 53))
    BY <2>1, <2>2
  <2> HIDE DEF flags, more, layout
  <2>f. /\ flags \in Bytes /\ Len(flags) = Len(Front) + 3
        /\ HoldsFront(flags) /\ HoldsFlags(flags, Len(Front))
    BY FrontLayout, FlagsLayout DEF flags
  <2>4. flags \in Bytes /\ Len(flags) = 45 /\ HoldsFront(flags) /\ HoldsFlags(flags, 42)
    BY <2>f, FrontLayout
  <2>5. layout = Fixed[v]
    <3>1. Field("symbol_cstr_len", 2) \in Bytes /\ Field("reserved", 53) \in Bytes
      BY <1>0, FieldIsBytes
    <3>2. flags \in Bytes
      BY <2>4
    <3>3. (flags \o Field("symbol_cstr_len", 2)) \o Field("reserved", 53)
            = flags \o (Field("symbol_cstr_len", 2) \o Field("reserved", 53))
      BY <3>1, <3>2, BytesAssociative
    <3> QED
      BY <2>3, <3>3 DEF more, layout
  <2>6. /\ more \in Bytes /\ Len(more) = Len(flags) + 2
        /\ Holds(more, "symbol_cstr_len", Len(flags), 2) /\ Keeps(flags, more)
    <3>1. "symbol_cstr_len" \in Names /\ flags \in Bytes
      BY <1>0, <2>4
    <3> QED
      BY <3>1, Appended DEF more
  <2>7. Len(layout) = Len(more) + 53 /\ Keeps(more, layout)
    BY <1>0, <2>6, Appended DEF layout
  <2>8. HoldsFront(layout) /\ HoldsFlags(layout, 42)
    BY <2>4, <2>6, <2>7, KeepsFront, KeepsFlags
  <2>9. Holds(layout, "symbol_cstr_len", 45, 2)
    BY <1>0, <2>4, <2>6, <2>7 DEF Keeps
  <2> QED
    BY <1>2, <2>4, <2>5, <2>6, <2>7, <2>8, <2>9 DEF OffStype, FixedMetadataLen
<1> QED
  BY <1>1, <1>2

-----------------------------------------------------------------------------
(* A field read from where it lies is what the writer put into it.              *)
LEMMA ReadField ==
    ASSUME NEW f \in Files, f.frame >= FixedMetadataLen, NEW name \in BlockFields(f.version),
           NEW offset \in Nat, NEW size \in Nat \ {0}, Holds(Fixed[f.version], name, offset, size)
    PROVE  Read(f, offset, size) = f.fields[name]
<1> DEFINE layout == Fixed[f.version]
           part == SubSeq(layout, offset + 1, offset + size)
<1>1. /\ f.version \in Versions /\ f.frame \in Nat /\ name \in DOMAIN f.fields
      /\ name \in Names
  BY FilesAssumption DEF BlockFields, Names
<1>2. Len(layout) = 100 /\ offset + size <= 100 /\ offset + size <= f.frame
  <2>1. Len(layout) = 100 /\ f.frame >= 100
    BY <1>1, FixedLayout DEF FixedMetadataLen
  <2>2. offset + size <= Len(layout)
    BY DEF Holds
  <2> QED
    BY <1>1, <2>1, <2>2
<1>3. \A k \in 1..size : layout[offset + k] = <<name, k>>
  BY DEF Holds
<1> HIDE DEF layout
<1>4. layout[offset + 1][1] = name
  BY <1>3
<1>5. \A i \in (offset + 1)..(offset + size) : layout[i] \in Names \X Nat
  <2> SUFFICES ASSUME NEW i \in (offset + 1)..(offset + size)
               PROVE  layout[i] \in Names \X Nat
    OBVIOUS
  <2>1. i - offset \in 1..size /\ offset + (i - offset) = i
    OBVIOUS
  <2>2. layout[i] = <<name, i - offset>>
    BY <1>3, <2>1
  <2> QED
    BY <1>1, <2>1, <2>2
<1>6. /\ part \in Bytes /\ Len(part) = size
      /\ \A k \in 1..size : part[k] = layout[offset + k]
  <2>1. /\ part \in Bytes
        /\ Len(part) = IF offset + 1 <= offset + size THEN (offset + size) - (offset + 1) + 1 ELSE 0
        /\ \A k \in 1..((offset + size) - (offset + 1) + 1) : part[k] = layout[(offset + 1) + k - 1]
    BY <1>5, SubSeqProperties DEF Bytes
  <2> HIDE DEF part
  <2>2. /\ (offset + size) - (offset + 1) + 1 = size
        /\ \A k \in 1..size : (offset + 1) + k - 1 = offset + k
    OBVIOUS
  <2> QED
    BY <2>1, <2>2
<1>7. part = Field(name, size)
  <2>1. /\ Field(name, size) \in Bytes /\ Len(Field(name, size)) = size
        /\ \A k \in 1..size : Field(name, size)[k] = <<name, k>>
    BY <1>1, FieldIsBytes
  <2> HIDE DEF part
  <2>2. \A k \in 1..Len(part) : part[k] = Field(name, size)[k]
    BY <1>3, <1>6, <2>1
  <2> QED
    BY <1>6, <2>1, <2>2, SeqEqual DEF Bytes
<1> QED
  BY <1>1, <1>2, <1>4, <1>7 DEF Read, layout

LEMMA MetadataIsBlock ==
    ASSUME NEW f \in Files, f.frame >= FixedMetadataLen
    PROVE  /\ Metadata(f).version = f.version
           /\ Metadata(f).dataset = f.fields.dataset /\ Metadata(f).schema = f.fields.schema
           /\ Metadata(f).start = f.fields.start /\ Metadata(f).end = f.fields.end
           /\ Metadata(f).limit = f.fields.limit /\ Metadata(f).ts_out = f.fields.ts_out
           /\ Metadata(f).stype_in = f.fields.stype_in /\ Metadata(f).stype_out = f.fields.stype_out
           /\ Metadata(f).symbol_cstr_len = IF f.version = 1 THEN 22 ELSE f.fields.symbol_cstr_len
<1> DEFINE v == f.version
           n == OffStype(v)
<1>1. v \in Versions /\ n \in Nat /\ v \in Nat
  BY FilesAssumption DEF OffStype, Versions
<1>2. HoldsFront(Fixed[v]) /\ HoldsFlags(Fixed[v], n)
  BY <1>1, FixedLayout
<1>3. v > 1 => Holds(Fixed[v], "symbol_cstr_len", n + 3, 2)
  BY <1>1, FixedLayout
<1> HIDE DEF n
<1>4. /\ Read(f, 0, 16) = f.fields.dataset /\ Read(f, 16, 2) = f.fields.schema
      /\ Read(f, 18, 8) = f.fields.start /\ Read(f, 26, 8) = f.fields.end
      /\ Read(f, 34, 8) = f.fields.limit
  <2>1. /\ Holds(Fixed[v], "dataset", 0, 16) /\ Holds(Fixed[v], "schema", 16, 2)
        /\ Holds(Fixed[v], "start", 18, 8) /\ Holds(Fixed[v], "end", 26, 8)
        /\ Holds(Fixed[v], "limit", 34, 8)
    BY <1>2 DEF HoldsFront
  <2>2. \A name \in {"dataset", "schema", "start", "end", "limit"} : name \in BlockFields(v)
    BY DEF BlockFields
  <2>3. Read(f, 0, 16) = f.fields.dataset
    <3>1. "dataset" \in BlockFields(v) /\ Holds(Fixed[v], "dataset", 0, 16)
      BY <2>1, <2>2
    <3> QED
      BY <3>1, ReadField
  <2>4. Read(f, 16, 2) = f.fields.schema
    <3>1. "schema" \in BlockFields(v) /\ Holds(Fixed[v], "schema", 16, 2)
      BY <2>1, <2>2
    <3> QED
      BY <3>1, ReadField
  <2>5. Read(f, 18, 8) = f.fields.start
    <3>1. "start" \in BlockFields(v) /\ Holds(Fixed[v], "start", 18, 8)
      BY <2>1, <2>2
    <3> QED
      BY <3>1, ReadField
  <2>6. Read(f, 26, 8) = f.fields.end
    <3>1. "end" \in BlockFields(v) /\ Holds(Fixed[v], "end", 26, 8)
      BY <2>1, <2>2
    <3> QED
      BY <3>1, ReadField
  <2>7. Read(f, 34, 8) = f.fields.limit
    <3>1. "limit" \in BlockFields(v) /\ Holds(Fixed[v], "limit", 34, 8)
      BY <2>1, <2>2
    <3> QED
      BY <3>1, ReadField
  <2> QED
    BY <2>3, <2>4, <2>5, <2>6, <2>7
<1>5. /\ Read(f, n, 1) = f.fields.stype_in /\ Read(f, n + 1, 1) = f.fields.stype_out
      /\ Read(f, n + 2, 1) = f.fields.ts_out
  <2>1. /\ Holds(Fixed[v], "stype_in", n, 1) /\ Holds(Fixed[v], "stype_out", n + 1, 1)
        /\ Holds(Fixed[v], "ts_out", n + 2, 1)
    BY <1>2 DEF HoldsFlags
  <2>2. /\ "stype_in" \in BlockFields(v) /\ "stype_out" \in BlockFields(v)
        /\ "ts_out" \in BlockFields(v)
    BY DEF BlockFields
  <2> QED
    BY <1>1, <2>1, <2>2, ReadField
<1>6. v > 1 => Read(f, n + 3, 2) = f.fields.symbol_cstr_len
  <2>1. v > 1 => "symbol_cstr_len" \in BlockFields(v)
    BY DEF BlockFields
  <2> QED
    BY <1>1, <1>3, <2>1, ReadField
<1>7. SymbolCstrLen(f) = IF v = 1 THEN 22 ELSE f.fields.symbol_cstr_len
  BY <1>1, <1>6 DEF SymbolCstrLen, SymbolCstrLenV1, Versions, n
<1> QED
  BY <1>4, <1>5, <1>7
     DEF Metadata, DatasetCstrLen, OffSchema, OffStart, OffEnd, OffLimit, n

-----------------------------------------------------------------------------
(* SchemaToCstr is never the text of NULL, and is different for different names. *)
LEMMA SchemaNotNull == \A s : SchemaToCstr(s) # NULL
<1>1. \A s \in DOMAIN SchemaNames : SchemaNames[s] # NULL
  BY DEF SchemaNames, NULL
<1> QED
  BY <1>1 DEF SchemaToCstr, NULL

(* The schema a text names: the inverse of SchemaToCstr.                        *)
SchemaOf(text) ==
    CASE text = "mbp-1" -> "mbp1"
      [] text = "mbp-10" -> "mbp10"
      [] text = "ohlcv-1s" -> "ohlcv_1s"
      [] text = "ohlcv-1m" -> "ohlcv_1m"
      [] text = "ohlcv-1h" -> "ohlcv_1h"
      [] text = "ohlcv-1d" -> "ohlcv_1d"
      [] text = "ohlcv-eod" -> "ohlcv_eod"
      [] text = "cmbp-1" -> "cmbp1"
      [] text = "cbbo-1s" -> "cbbo_1s"
      [] text = "cbbo-1m" -> "cbbo_1m"
      [] text = "bbo-1s" -> "bbo_1s"
      [] text = "bbo-1m" -> "bbo_1m"
      [] text = "unknown" -> "tcbbo"
      [] OTHER -> text

LEMMA SchemaTold ==
    ASSUME NEW s \in Schemas
    PROVE  SchemaOf(SchemaToCstr(s)) = s
BY DEF Schemas, SchemaOf, SchemaToCstr, SchemaNames

-----------------------------------------------------------------------------
(* A row is only written of a block whose fixed part is whole, and a scan that    *)
(* is opening the file has no row yet.                                         *)
RowInv == rows = <<>> \/ (rows = <<Row(Metadata(file))>> /\ file.frame >= FixedMetadataLen)

IInv ==
    /\ file \in Files
    /\ emitted \in BOOLEAN
    /\ pc \in {"idle", "open", "finished", "failed"}
    /\ fault # "none" => pc = "failed"
    /\ pc = "open" \/ ~emitted => rows = <<>>
    /\ pc = "open" => emitted
    /\ RowInv

LEMMA InitIInv == Init => IInv
BY DEF Init, IInv, RowInv

LEMMA NextIInv == IInv /\ [Next]_vars => IInv'
<1> SUFFICES ASSUME IInv, [Next]_vars PROVE IInv'
  OBVIOUS
<1>1. CASE GetChunk
  BY <1>1 DEF IInv, RowInv, GetChunk
<1>2. CASE OpenFails
  BY <1>2 DEF IInv, RowInv, OpenFails, Throw
<1>3. CASE EmitRow
  <2>1. rows' = <<Row(Metadata(file))>> /\ file' = file /\ file.frame >= FixedMetadataLen
    BY <1>3 DEF IInv, EmitRow
  <2>2. RowInv'
    BY <2>1 DEF RowInv
  <2> QED
    BY <1>3, <2>2 DEF IInv, EmitRow
<1>4. CASE Over \/ UNCHANGED vars
  BY <1>4 DEF IInv, RowInv, Over, vars
<1> QED
  BY <1>1, <1>2, <1>3, <1>4 DEF Next, Step

LEMMA RowInvariant == Spec => []IInv
BY InitIInv, NextIInv, PTL DEF Spec

(* What a row is.                                                              *)
LEMMA EveryRow ==
    ASSUME IInv, NEW i \in 1..Len(rows)
    PROVE  i = 1 /\ Len(rows) = 1 /\ rows[i] = Row(Metadata(file)) /\ file.frame >= FixedMetadataLen
<1>1. \A r : Len(<<r>>) = 1 /\ <<r>>[1] = r
  OBVIOUS
<1>2. CASE rows = <<>>
  BY <1>2
<1>3. CASE rows = <<Row(Metadata(file))>> /\ file.frame >= FixedMetadataLen
  <2>1. Len(rows) = 1 /\ rows[1] = Row(Metadata(file))
    BY <1>1, <1>3
  <2> QED
    BY <1>3, <2>1
<1> QED
  BY <1>2, <1>3 DEF IInv, RowInv

(* dbn_metadata answers at most one row, and what it throws ends the scan.       *)
THEOREM TypeCorrect == Spec => []TypeOK
<1>1. ASSUME IInv PROVE TypeOK
  <2>1. Len(rows) = 0 \/ Len(rows) = 1
    <3>1. \A r : Len(<<r>>) = 1
      OBVIOUS
    <3> QED
      BY <1>1, <3>1 DEF IInv, RowInv
  <2>2. /\ emitted \in BOOLEAN /\ pc \in {"idle", "open", "finished", "failed"}
        /\ fault # "none" => pc = "failed"
    BY <1>1 DEF IInv
  <2>3. Len(rows) <= 1
    <3>1. 0 <= 1 /\ 1 <= 1
      OBVIOUS
    <3> QED
      BY <2>1, <3>1, Zenon
  <2> QED
    BY <2>2, <2>3 DEF TypeOK
<1> QED
  BY <1>1, RowInvariant, PTL

(* Every cell of the row is the field the writer put into the block, for every   *)
(* file and in the layouts of all three versions.                              *)
THEOREM RowCorrect == Spec => []RowIsTheBlock
<1>1. ASSUME IInv PROVE RowIsTheBlock
  <2> SUFFICES ASSUME NEW i \in 1..Len(rows)
               PROVE  LET row == rows[i]
                          written == file.fields
                      IN  /\ row.version = file.version
                          /\ \A name \in {"dataset", "start", "end", "limit", "ts_out"} :
                                row[name] = written[name]
                          /\ row.symbol_cstr_len = IF file.version = 1 THEN 22 ELSE written.symbol_cstr_len
                          /\ row.stype_in =
                                IF written.stype_in \in STypes \cup {NULL} THEN written.stype_in
                                ELSE "unknown"
                          /\ row.stype_out =
                                IF written.stype_out \in STypes THEN written.stype_out ELSE "unknown"
                          /\ row.schema = NULL <=> written.schema = NULL
    BY DEF RowIsTheBlock
  <2> DEFINE md == Metadata(file)
             row == Row(md)
  <2>1. rows[i] = row /\ file \in Files /\ file.frame >= FixedMetadataLen
    BY <1>1, EveryRow DEF IInv
  <2>2. /\ row.version = md.version /\ row.dataset = md.dataset /\ row.start = md.start
        /\ row.end = md.end /\ row.limit = md.limit /\ row.ts_out = md.ts_out
        /\ row.symbol_cstr_len = md.symbol_cstr_len
        /\ row.schema = IF md.schema = NULL THEN NULL ELSE SchemaToCstr(md.schema)
        /\ row.stype_in = IF md.stype_in = NULL THEN NULL ELSE STypeToCstr(md.stype_in)
        /\ row.stype_out = STypeToCstr(md.stype_out)
    BY DEF Row, Metadata
  <2> HIDE DEF md, row
  <2>3. /\ md.version = file.version
        /\ md.dataset = file.fields.dataset /\ md.schema = file.fields.schema
        /\ md.start = file.fields.start /\ md.end = file.fields.end
        /\ md.limit = file.fields.limit /\ md.ts_out = file.fields.ts_out
        /\ md.stype_in = file.fields.stype_in /\ md.stype_out = file.fields.stype_out
        /\ md.symbol_cstr_len = IF file.version = 1 THEN 22 ELSE file.fields.symbol_cstr_len
    BY <2>1, MetadataIsBlock DEF md
  <2>4. row.schema = NULL <=> file.fields.schema = NULL
    BY <2>2, <2>3, SchemaNotNull
  <2>5. /\ row.stype_in =
              IF file.fields.stype_in \in STypes \cup {NULL} THEN file.fields.stype_in ELSE "unknown"
        /\ row.stype_out =
              IF file.fields.stype_out \in STypes THEN file.fields.stype_out ELSE "unknown"
    BY <2>2, <2>3 DEF STypeToCstr
  <2> QED
    BY <2>1, <2>2, <2>3, <2>4, <2>5
<1> QED
  BY <1>1, RowInvariant, PTL

(* The text of the row's schema names that schema and no other read_dbn          *)
(* dispatches; the one without a text is left out.                             *)
THEOREM SchemaCorrect == Spec => []SchemaIsTold
<1>1. ASSUME IInv PROVE SchemaIsTold
  <2> SUFFICES ASSUME NEW i \in 1..Len(rows), file.fields.schema \in Schemas \ Unnamed
               PROVE  /\ rows[i].schema # "unknown"
                      /\ \A s \in Schemas : SchemaToCstr(s) = rows[i].schema => s = file.fields.schema
    BY DEF SchemaIsTold
  <2> DEFINE md == Metadata(file)
             text == SchemaToCstr(file.fields.schema)
  <2>1. rows[i] = Row(md) /\ file \in Files /\ file.frame >= FixedMetadataLen
    BY <1>1, EveryRow DEF IInv
  <2>2. Row(md).schema = IF md.schema = NULL THEN NULL ELSE SchemaToCstr(md.schema)
    BY DEF Row, Metadata
  <2>3. md.schema = file.fields.schema
    BY <2>1, MetadataIsBlock
  <2>4. file.fields.schema # NULL
    BY DEF Schemas, NULL
  <2> HIDE DEF md
  <2>5. rows[i].schema = text
    BY <2>1, <2>2, <2>3, <2>4
  <2>6. file.fields.schema # "tcbbo" /\ SchemaOf(text) = file.fields.schema
    BY SchemaTold DEF Unnamed
  <2>7. SchemaOf("unknown") = "tcbbo"
    BY DEF SchemaOf
  <2> HIDE DEF text
  <2> QED
    BY <2>5, <2>6, <2>7, SchemaTold
<1> QED
  BY <1>1, RowInvariant, PTL

=============================================================================
