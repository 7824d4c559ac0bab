--------------------------- MODULE TableScanProofs ---------------------------
(* Every reader of the extension finds the header fields where its layout says, *)
(* has room for every projection, and fills its struct with records of its own   *)
(* type and of the version read: for any files, however often they are replaced. *)
EXTENDS TableScan, TLAPS

HeaderFields == {"ts_event", "instrument_id", "publisher_id"}

IsList(s, k) == Len(s) = k /\ \E S : s \in Seq(S)

NamesHeader(names, layout) ==
    \A field \in HeaderFields :
        layout[field] + 1 \in 1..Len(names) /\ names[layout[field] + 1] = field

(* Room for every column of the reader and one more.                           *)
HasRoom(reader) ==
    \/ reader.slots = NoArrays
    \/ reader.slots \in Nat /\ Len(reader.names) < reader.slots /\ 3 <= reader.slots

GoodReader(reader) ==
    /\ Len(reader.names) \in Nat /\ IsList(reader.names, Len(reader.names))
    /\ NamesHeader(reader.names, reader.layout)
    /\ HasRoom(reader)

(* The struct of a scan is the size its record type has in each version.        *)
Fits(reader, rtype) ==
    rtype = AnyRType \/ \A v \in Versions : reader.struct[v] = WireSize(rtype, v)

-----------------------------------------------------------------------------
LEMMA ListIs ==
    ASSUME NEW s, NEW k \in Nat, s = [n \in 1..k |-> s[n]]
    PROVE  IsList(s, k)
<1>1. s \in Seq({s[n] : n \in 1..k}) /\ Len(s) = k
  OBVIOUS
<1> QED
  BY <1>1 DEF IsList

LEMMA ListConcat ==
    ASSUME NEW s, NEW t, NEW j \in Nat, NEW k \in Nat, IsList(s, j), IsList(t, k)
    PROVE  /\ IsList(s \o t, j + k)
           /\ \A n \in 1..j : (s \o t)[n] = s[n]
<1>1. PICK S : s \in Seq(S)
  BY DEF IsList
<1>2. PICK T : t \in Seq(T)
  BY DEF IsList
<1> DEFINE U == S \cup T
<1>3. s \in Seq(U) /\ t \in Seq(U) /\ Len(s) = j /\ Len(t) = k
  BY <1>1, <1>2 DEF IsList
<1> HIDE DEF U
<1>4. s \o t \in Seq(U) /\ Len(s \o t) = j + k
  BY <1>3
<1>5. \A n \in 1..j : (s \o t)[n] = s[n]
  BY <1>3
<1> QED
  BY <1>4, <1>5 DEF IsList

LEMMA ListAppend ==
    ASSUME NEW s, NEW e, NEW j \in Nat, IsList(s, j)
    PROVE  /\ IsList(Append(s, e), j + 1)
           /\ \A n \in 1..j : Append(s, e)[n] = s[n]
<1>1. PICK S : s \in Seq(S)
  BY DEF IsList
<1> DEFINE U == S \cup {e}
<1>2. s \in Seq(U) /\ e \in U /\ Len(s) = j
  BY <1>1 DEF IsList
<1> HIDE DEF U
<1>3. Append(s, e) \in Seq(U) /\ Len(Append(s, e)) = j + 1 /\ \A n \in 1..j : Append(s, e)[n] = s[n]
  BY <1>2
<1> QED
  BY <1>3 DEF IsList

(* The layouts, field by field.                                                *)
LEMMA Layouts ==
    /\ HeaderLayoutStandard["ts_event"] = 0 /\ HeaderLayoutStandard["instrument_id"] = 2
    /\ HeaderLayoutStandard["publisher_id"] = 3
    /\ HeaderLayoutOhlcv["ts_event"] = 0 /\ HeaderLayoutOhlcv["instrument_id"] = 1
    /\ HeaderLayoutOhlcv["publisher_id"] = 2
    /\ HeaderLayoutRecords["ts_event"] = 0 /\ HeaderLayoutRecords["instrument_id"] = 4
    /\ HeaderLayoutRecords["publisher_id"] = 3
    /\ HeaderLayoutStatistics["ts_event"] = 0 /\ HeaderLayoutStatistics["instrument_id"] = 3
    /\ HeaderLayoutStatistics["publisher_id"] = 4
BY DEF HeaderLayoutStandard, HeaderLayoutOhlcv, HeaderLayoutRecords, HeaderLayoutStatistics, Layout

(* More columns behind those of a layout leave it right.                        *)
LEMMA NamesKept ==
    ASSUME NEW s, NEW t, NEW j \in Nat, NEW k \in Nat, IsList(s, j), IsList(t, k),
           NEW layout, NamesHeader(s, layout)
    PROVE  IsList(s \o t, j + k) /\ NamesHeader(s \o t, layout)
<1> DEFINE u == s \o t
<1>1. IsList(u, j + k) /\ \A n \in 1..j : u[n] = s[n]
  BY ListConcat
<1>2. \A field \in HeaderFields : layout[field] + 1 \in 1..j /\ s[layout[field] + 1] = field
  BY DEF NamesHeader, IsList
<1> HIDE DEF u
<1>3. NamesHeader(u, layout)
  BY <1>1, <1>2 DEF NamesHeader, IsList
<1> QED
  BY <1>1, <1>3 DEF u

LEMMA SymbolKept ==
    ASSUME NEW s, NEW e, NEW j \in Nat, IsList(s, j), NEW layout, NamesHeader(s, layout)
    PROVE  IsList(Append(s, e), j + 1) /\ NamesHeader(Append(s, e), layout)
<1> DEFINE u == Append(s, e)
<1>1. IsList(u, j + 1) /\ \A n \in 1..j : u[n] = s[n]
  BY ListAppend
<1>2. \A field \in HeaderFields : layout[field] + 1 \in 1..j /\ s[layout[field] + 1] = field
  BY DEF NamesHeader, IsList
<1> HIDE DEF u
<1>3. NamesHeader(u, layout)
  BY <1>1, <1>2 DEF NamesHeader, IsList
<1> QED
  BY <1>1, <1>3 DEF u

LEMMA LevelNames == IsList(LevelColumns, 60)
<1>1. LevelColumns \in Seq({LevelColumns[k] : k \in 1..60}) /\ Len(LevelColumns) = 60
  BY DEF LevelColumns
<1> QED
  BY <1>1 DEF IsList

(* What makes a reader good, for a list of columns that is written out.         *)
LEMMA ReaderIsGood ==
    ASSUME NEW reader, NEW k \in Nat, reader.names = [n \in 1..k |-> reader.names[n]],
           NamesHeader(reader.names, reader.layout),
           \/ reader.slots = NoArrays
           \/ reader.slots \in Nat /\ k < reader.slots /\ 3 <= reader.slots
    PROVE  GoodReader(reader)
<1>1. IsList(reader.names, k)
  BY ListIs
<1> QED
  BY <1>1 DEF GoodReader, HasRoom, IsList

(* Each reader names the header fields where its layout says, and has room.    *)
LEMMA TradesGood == GoodReader(Trades)
<1>1. Trades.names = [n \in 1..12 |-> Trades.names[n]]
  BY DEF Trades, Reader, Header, TradeColumns
<1>2. Trades.layout = HeaderLayoutStandard /\ Trades.slots = 16
  BY DEF Trades, Reader
<1>3. NamesHeader(Trades.names, HeaderLayoutStandard)
  BY Layouts DEF NamesHeader, HeaderFields, Trades, Reader, Header, TradeColumns
<1>4. 12 \in Nat /\ 16 \in Nat /\ 12 < 16 /\ 3 <= 16
  OBVIOUS
<1> QED
  BY <1>1, <1>2, <1>3, <1>4, ReaderIsGood

LEMMA MboGood == GoodReader(Mbo)
<1>1. Mbo.names = [n \in 1..13 |-> Mbo.names[n]]
  BY DEF Mbo, Reader, Header
<1>2. Mbo.layout = HeaderLayoutStandard /\ Mbo.slots = 16
  BY DEF Mbo, Reader
<1>3. NamesHeader(Mbo.names, HeaderLayoutStandard)
  BY Layouts DEF NamesHeader, HeaderFields, Mbo, Reader, Header
<1>4. 13 \in Nat /\ 16 \in Nat /\ 13 < 16 /\ 3 <= 16
  OBVIOUS
<1> QED
  BY <1>1, <1>2, <1>3, <1>4, ReaderIsGood

LEMMA Mbp1Good == GoodReader(Mbp1)
<1>1. Mbp1.names = [n \in 1..15 |-> Mbp1.names[n]]
  BY DEF Mbp1, Reader, Header, Quote
<1>2. Mbp1.layout = HeaderLayoutStandard /\ Mbp1.slots = 16
  BY DEF Mbp1, Reader
<1>3. NamesHeader(Mbp1.names, HeaderLayoutStandard)
  BY Layouts DEF NamesHeader, HeaderFields, Mbp1, Reader, Header, Quote
<1>4. 15 \in Nat /\ 16 \in Nat /\ 15 < 16 /\ 3 <= 16
  OBVIOUS
<1> QED
  BY <1>1, <1>2, <1>3, <1>4, ReaderIsGood

LEMMA BboGood == GoodReader(Bbo)
<1>1. Bbo.names = [n \in 1..15 |-> Bbo.names[n]]
  BY DEF Bbo, Reader, Header, Quote
<1>2. Bbo.layout = HeaderLayoutStandard /\ Bbo.slots = 16
  BY DEF Bbo, Reader
<1>3. NamesHeader(Bbo.names, HeaderLayoutStandard)
  BY Layouts DEF NamesHeader, HeaderFields, Bbo, Reader, Header, Quote
<1>4. 15 \in Nat /\ 16 \in Nat /\ 15 < 16 /\ 3 <= 16
  OBVIOUS
<1> QED
  BY <1>1, <1>2, <1>3, <1>4, ReaderIsGood

LEMMA CbboGood == GoodReader(Cbbo)
<1>1. Cbbo.names = [n \in 1..14 |-> Cbbo.names[n]]
  BY DEF Cbbo, Reader, Header, Quote
<1>2. Cbbo.layout = HeaderLayoutStandard /\ Cbbo.slots = 16
  BY DEF Cbbo, Reader
<1>3. NamesHeader(Cbbo.names, HeaderLayoutStandard)
  BY Layouts DEF NamesHeader, HeaderFields, Cbbo, Reader, Header, Quote
<1>4. 14 \in Nat /\ 16 \in Nat /\ 14 < 16 /\ 3 <= 16
  OBVIOUS
<1> QED
  BY <1>1, <1>2, <1>3, <1>4, ReaderIsGood

LEMMA Cmbp1Good == GoodReader(Cmbp1)
<1>1. Cmbp1.names = [n \in 1..16 |-> Cmbp1.names[n]]
  BY DEF Cmbp1, Reader, Header, Quote
<1>2. Cmbp1.layout = HeaderLayoutStandard /\ Cmbp1.slots = 17
  BY DEF Cmbp1, Reader
<1>3. NamesHeader(Cmbp1.names, HeaderLayoutStandard)
  BY Layouts DEF NamesHeader, HeaderFields, Cmbp1, Reader, Header, Quote
<1>4. 16 \in Nat /\ 17 \in Nat /\ 16 < 17 /\ 3 <= 17
  OBVIOUS
<1> QED
  BY <1>1, <1>2, <1>3, <1>4, ReaderIsGood

LEMMA OhlcvGood == GoodReader(Ohlcv)
<1>1. Ohlcv.names = [n \in 1..8 |-> Ohlcv.names[n]]
  BY DEF Ohlcv, Reader
<1>2. Ohlcv.layout = HeaderLayoutOhlcv /\ Ohlcv.slots = 16
  BY DEF Ohlcv, Reader
<1>3. NamesHeader(Ohlcv.names, HeaderLayoutOhlcv)
  BY Layouts DEF NamesHeader, HeaderFields, Ohlcv, Reader
<1>4. 8 \in Nat /\ 16 \in Nat /\ 8 < 16 /\ 3 <= 16
  OBVIOUS
<1> QED
  BY <1>1, <1>2, <1>3, <1>4, ReaderIsGood

LEMMA StatusGood == GoodReader(Status)
<1>1. Status.names = [n \in 1..10 |-> Status.names[n]]
  BY DEF Status, Reader, Header
<1>2. Status.layout = HeaderLayoutStandard /\ Status.slots = 16
  BY DEF Status, Reader
<1>3. NamesHeader(Status.names, HeaderLayoutStandard)
  BY Layouts DEF NamesHeader, HeaderFields, Status, Reader, Header
<1>4. 10 \in Nat /\ 16 \in Nat /\ 10 < 16 /\ 3 <= 16
  OBVIOUS
<1> QED
  BY <1>1, <1>2, <1>3, <1>4, ReaderIsGood

LEMMA ImbalanceGood == GoodReader(Imbalance)
<1>1. Imbalance.names = [n \in 1..23 |-> Imbalance.names[n]]
  BY DEF Imbalance, Reader, Header
<1>2. Imbalance.layout = HeaderLayoutStandard /\ Imbalance.slots = 32
  BY DEF Imbalance, Reader
<1>3. NamesHeader(Imbalance.names, HeaderLayoutStandard)
  BY Layouts DEF NamesHeader, HeaderFields, Imbalance, Reader, Header
<1>4. 23 \in Nat /\ 32 \in Nat /\ 23 < 32 /\ 3 <= 32
  OBVIOUS
<1> QED
  BY <1>1, <1>2, <1>3, <1>4, ReaderIsGood

LEMMA StatisticsGood == GoodReader(Statistics)
<1>1. Statistics.names = [n \in 1..13 |-> Statistics.names[n]]
  BY DEF Statistics, Reader, StatisticsColumns
<1>2. Statistics.layout = HeaderLayoutStatistics /\ Statistics.slots = 16
  BY DEF Statistics, Reader
<1>3. NamesHeader(Statistics.names, HeaderLayoutStatistics)
  BY Layouts DEF NamesHeader, HeaderFields, Statistics, Reader, StatisticsColumns
<1>4. 13 \in Nat /\ 16 \in Nat /\ 13 < 16 /\ 3 <= 16
  OBVIOUS
<1> QED
  BY <1>1, <1>2, <1>3, <1>4, ReaderIsGood

LEMMA DefinitionGood == GoodReader(Definition)
<1>1. Definition.names = [n \in 1..76 |-> Definition.names[n]]
  BY DEF Definition, Reader, Header, DefinitionColumns, DefinitionLegs
<1>2. Definition.layout = HeaderLayoutStandard /\ Definition.slots = NoArrays
  BY DEF Definition, Reader
<1>3. NamesHeader(Definition.names, HeaderLayoutStandard)
  BY Layouts DEF NamesHeader, HeaderFields, Definition, Reader, Header, DefinitionColumns, DefinitionLegs
<1>4. 76 \in Nat
  OBVIOUS
<1> QED
  BY <1>1, <1>2, <1>3, <1>4, ReaderIsGood

LEMMA SymbolMappingGood == GoodReader(SymbolMapping)
<1>1. SymbolMapping.names = [n \in 1..9 |-> SymbolMapping.names[n]]
  BY DEF SymbolMapping, Reader
<1>2. SymbolMapping.layout = HeaderLayoutOhlcv /\ SymbolMapping.slots = 16
  BY DEF SymbolMapping, Reader
<1>3. NamesHeader(SymbolMapping.names, HeaderLayoutOhlcv)
  BY Layouts DEF NamesHeader, HeaderFields, SymbolMapping, Reader
<1>4. 9 \in Nat /\ 16 \in Nat /\ 9 < 16 /\ 3 <= 16
  OBVIOUS
<1> QED
  BY <1>1, <1>2, <1>3, <1>4, ReaderIsGood

LEMMA SystemGood == GoodReader(System)
<1>1. System.names = [n \in 1..5 |-> System.names[n]]
  BY DEF System, Reader
<1>2. System.layout = HeaderLayoutOhlcv /\ System.slots = 16
  BY DEF System, Reader
<1>3. NamesHeader(System.names, HeaderLayoutOhlcv)
  BY Layouts DEF NamesHeader, HeaderFields, System, Reader
<1>4. 5 \in Nat /\ 16 \in Nat /\ 5 < 16 /\ 3 <= 16
  OBVIOUS
<1> QED
  BY <1>1, <1>2, <1>3, <1>4, ReaderIsGood

LEMMA RecordsGood == GoodReader(Records)
<1>1. Records.names = [n \in 1..6 |-> Records.names[n]]
  BY DEF Records, Reader
<1>2. Records.layout = HeaderLayoutRecords /\ Records.slots = 8
  BY DEF Records, Reader
<1>3. NamesHeader(Records.names, HeaderLayoutRecords)
  BY Layouts DEF NamesHeader, HeaderFields, Records, Reader
<1>4. 6 \in Nat /\ 8 \in Nat /\ 6 < 8 /\ 3 <= 8
  OBVIOUS
<1> QED
  BY <1>1, <1>2, <1>3, <1>4, ReaderIsGood

LEMMA Mbp10Good == GoodReader(Mbp10)
<1>1. /\ TradeColumns = Trades.names /\ Trades.layout = HeaderLayoutStandard
      /\ Mbp10.names = TradeColumns \o LevelColumns
      /\ Mbp10.layout = HeaderLayoutStandard /\ Mbp10.slots = 73
  BY DEF Trades, Mbp10, Reader
<1>2. Len(TradeColumns) = 12
  BY DEF TradeColumns, Header
<1>3. IsList(TradeColumns, 12) /\ NamesHeader(TradeColumns, HeaderLayoutStandard)
  BY <1>1, <1>2, TradesGood DEF GoodReader
<1>4. 12 \in Nat /\ 60 \in Nat /\ 12 + 60 = 72
  OBVIOUS
<1>5. IsList(TradeColumns \o LevelColumns, 72)
      /\ NamesHeader(TradeColumns \o LevelColumns, HeaderLayoutStandard)
  BY <1>3, <1>4, LevelNames, NamesKept
<1>6. Len(Mbp10.names) = 72 /\ IsList(Mbp10.names, 72) /\ NamesHeader(Mbp10.names, Mbp10.layout)
  BY <1>1, <1>5 DEF IsList
<1> QED
  BY <1>1, <1>6 DEF GoodReader, HasRoom

AllReaders ==
    {Trades, Mbo, Mbp1, Mbp10, Bbo, Cbbo, Cmbp1, Ohlcv, Status, Imbalance, Statistics, Definition,
     SymbolMapping, System, Records}

LEMMA ReadersGood == \A reader \in AllReaders : GoodReader(reader)
BY TradesGood, MboGood, Mbp1Good, Mbp10Good, BboGood, CbboGood, Cmbp1Good, OhlcvGood, StatusGood,
    ImbalanceGood, StatisticsGood, DefinitionGood, SymbolMappingGood, SystemGood, RecordsGood
    DEF AllReaders

(* The structs of the readers against the sizes of the encoding.               *)
LEMMA Structs ==
    \A v \in Versions :
        /\ Trades.struct[v] = 48 /\ Mbo.struct[v] = 56 /\ Mbp1.struct[v] = 80
        /\ Mbp10.struct[v] = 368 /\ Bbo.struct[v] = 80 /\ Cbbo.struct[v] = 80
        /\ Cmbp1.struct[v] = 80 /\ Ohlcv.struct[v] = 56 /\ Status.struct[v] = 40
        /\ Imbalance.struct[v] = 112
        /\ Statistics.struct[v] = (IF v = 3 THEN 80 ELSE 64)
        /\ Definition.struct[v] = (IF v = 3 THEN 520 ELSE IF v = 2 THEN 400 ELSE 360)
        /\ SymbolMapping.struct[v] = (IF v = 1 THEN 80 ELSE 176)
        /\ System.struct[v] = (IF v = 1 THEN 80 ELSE 320)
BY DEF Versions, Reader, Always, Trades, Mbo, Mbp1, Mbp10, Bbo, Cbbo, Cmbp1, Ohlcv, Status,
    Imbalance, Statistics, Definition, SymbolMapping, System

LEMMA Sizes ==
    \A v \in Versions :
        /\ WireSize("Mbp0", v) = 48 /\ WireSize("Mbo", v) = 56 /\ WireSize("Mbp1", v) = 80
        /\ WireSize("Mbp10", v) = 368 /\ WireSize("Bbo1S", v) = 80 /\ WireSize("Bbo1M", v) = 80
        /\ WireSize("Cbbo1S", v) = 80 /\ WireSize("Cbbo1M", v) = 80 /\ WireSize("Cmbp1", v) = 80
        /\ WireSize("Tcbbo", v) = 80 /\ WireSize("Ohlcv1S", v) = 56 /\ WireSize("Ohlcv1M", v) = 56
        /\ WireSize("Ohlcv1H", v) = 56 /\ WireSize("Ohlcv1D", v) = 56 /\ WireSize("OhlcvEod", v) = 56
        /\ WireSize("Status", v) = 40 /\ WireSize("Imbalance", v) = 112
        /\ WireSize("Statistics", v) = (IF v = 3 THEN 80 ELSE 64)
        /\ WireSize("InstrumentDef", v) = (IF v = 3 THEN 520 ELSE IF v = 2 THEN 400 ELSE 360)
        /\ WireSize("SymbolMapping", v) = (IF v = 1 THEN 80 ELSE 176)
        /\ WireSize("System", v) = (IF v = 1 THEN 80 ELSE 320)
BY DEF WireSize, V1Size, V2Size, CurrentSize, Versions

(* A reader and the type of the records it is given.                           *)
Handlers ==
    {Handler(Trades, "Mbp0"), Handler(Mbo, "Mbo"), Handler(Mbp1, "Mbp1"), Handler(Mbp10, "Mbp10"),
     Handler(Bbo, "Bbo1S"), Handler(Bbo, "Bbo1M"), Handler(Cbbo, "Cbbo1S"),
     Handler(Cbbo, "Cbbo1M"), Handler(Cmbp1, "Cmbp1"), Handler(Cmbp1, "Tcbbo"),
     Handler(Ohlcv, "Ohlcv1S"), Handler(Ohlcv, "Ohlcv1M"), Handler(Ohlcv, "Ohlcv1H"),
     Handler(Ohlcv, "Ohlcv1D"), Handler(Ohlcv, "OhlcvEod"), Handler(Status, "Status"),
     Handler(Imbalance, "Imbalance"), Handler(Statistics, "Statistics"),
     Handler(Definition, "InstrumentDef"), Handler(SymbolMapping, "SymbolMapping"),
     Handler(System, "System"), Handler(Records, AnyRType)}

LEMMA HandlersFit ==
    \A h \in Handlers : h.reader \in AllReaders /\ Fits(h.reader, h.rtype)
BY Structs, Sizes DEF Handlers, Handler, AllReaders, Fits

(* The two dispatch tables hold these only, and where read_dbn replaces the *)
(* layout of the dispatched bind it replaces it by the same.                    *)
LEMMA LookedUp ==
    ASSUME NEW s, LookupSchemaHandler(s).rtype # NoRType
    PROVE  /\ LookupSchemaHandler(s) \in Handlers
           /\ DispatchedLayout(s) = LookupSchemaHandler(s).reader.layout
<1>1. s \in Schemas
  BY DEF LookupSchemaHandler, Handler, Schemas
<1>2. LookupSchemaHandler(s) \in Handlers
  BY <1>1 DEF LookupSchemaHandler, Schemas, Handlers
<1>3. /\ Trades.layout = HeaderLayoutStandard /\ Mbo.layout = HeaderLayoutStandard
      /\ Mbp1.layout = HeaderLayoutStandard /\ Mbp10.layout = HeaderLayoutStandard
      /\ Bbo.layout = HeaderLayoutStandard /\ Cbbo.layout = HeaderLayoutStandard
      /\ Cmbp1.layout = HeaderLayoutStandard /\ Ohlcv.layout = HeaderLayoutOhlcv
      /\ Status.layout = HeaderLayoutStandard /\ Imbalance.layout = HeaderLayoutStandard
      /\ Statistics.layout = HeaderLayoutStatistics /\ Definition.layout = HeaderLayoutStandard
  BY DEF Reader, Trades, Mbo, Mbp1, Mbp10, Bbo, Cbbo, Cmbp1, Ohlcv, Status, Imbalance, Statistics,
    Definition
<1>4. DispatchedLayout(s) = LookupSchemaHandler(s).reader.layout
  BY <1>1, <1>3 DEF LookupSchemaHandler, Handler, Schemas, DispatchedLayout
<1> QED
  BY <1>2, <1>4

LEMMA RegisteredHandlers ==
    ASSUME NEW name \in Functions, name # "read_dbn"
    PROVE  Registered(name) \in Handlers
<1>1. name \in Schemas \cup {"symbol_mapping", "system", "dbn_records"}
  BY FunctionsAssumption
<1> QED
  BY <1>1 DEF Registered, Schemas, Handlers

-----------------------------------------------------------------------------
(* What is known at every step.                                                *)
Captures == {c \in Contents : c # Absent}
RowType == [file : Nat, at : Nat, struct : Nat]

StateInv ==
    /\ disk \in Seq(Contents) /\ read \in Seq(Captures)
    /\ function \in Functions
    /\ cur \in Nat
    /\ rows \in Seq(RowType)
    /\ pc \in {"bind", "init", "scan", "finished", "failed"}
    /\ pc \in {"bind", "init"} => rows = <<>>
    /\ fault = "record_size_mismatch" => pc = "failed"

(* What bind returned is one of the readers, with room for the symbol column.   *)
GoodBind ==
    /\ Len(bound.names) \in Nat
    /\ NamesHeader(bound.names, bound.layout)
    /\ \/ bound.reader.slots = NoArrays
       \/ /\ bound.reader.slots \in Nat
          /\ Len(bound.names) <= bound.reader.slots /\ 3 <= bound.reader.slots
    /\ Fits(bound.reader, bound.rtype)

BoundInv == pc \in {"init", "scan", "finished"} => GoodBind

(* The scan reads the file opened last, in the version it was opened with.      *)
OpenInv ==
    pc = "scan" =>
        /\ Len(read) \in 1..Len(read) /\ open = read[Len(read)]
        /\ first = Metadata(open)
        /\ pos \in 0..Len(open.records)

RowFits(row) ==
    LET r == read[row.file].records[row.at] IN
    bound.rtype \in {AnyRType, r.rtype} /\ r.size = row.struct
RowsInv == \A i \in 1..Len(rows) : rows[i].file \in 1..Len(read) /\ RowFits(rows[i])

IInv ==
    /\ StateInv /\ BoundInv /\ OpenInv /\ RowsInv
    /\ SlotsFit /\ ConformingCaptureIsRead

-----------------------------------------------------------------------------
LEMMA CapturesOK == \A c \in Captures : IsCapture(c)
BY ContentsAssumption DEF Captures

LEMMA BoundIsGood ==
    ASSUME NEW h \in Handlers, NEW layout, layout = h.reader.layout, bound' = Bound(h, layout)
    PROVE  GoodBind'
<1>1. /\ bound'.reader = h.reader /\ bound'.rtype = h.rtype /\ bound'.layout = layout
      /\ bound'.names = IF symbols THEN Append(h.reader.names, "symbol") ELSE h.reader.names
  BY DEF Bound, WithSymbolColumn
<1>2. Fits(h.reader, h.rtype) /\ GoodReader(h.reader)
  BY HandlersFit, ReadersGood
<1> DEFINE names == h.reader.names
           n == Len(names)
<1>3. /\ n \in Nat /\ IsList(names, n) /\ NamesHeader(names, layout)
      /\ h.reader.slots = NoArrays \/ (h.reader.slots \in Nat /\ n < h.reader.slots /\ 3 <= h.reader.slots)
  BY <1>2 DEF GoodReader, HasRoom
<1> HIDE DEF names, n
<1>4. CASE symbols
  <2>1. IsList(Append(names, "symbol"), n + 1) /\ NamesHeader(Append(names, "symbol"), layout)
    BY <1>3, SymbolKept
  <2>2. bound'.names = Append(names, "symbol")
    BY <1>1, <1>4 DEF names
  <2>3. Len(bound'.names) = n + 1 /\ NamesHeader(bound'.names, layout)
    BY <2>1, <2>2 DEF IsList
  <2> QED
    BY <1>1, <1>2, <1>3, <2>3 DEF GoodBind
<1>5. CASE ~symbols
  <2>1. bound'.names = names /\ Len(bound'.names) = n
    BY <1>1, <1>5 DEF names, n
  <2> QED
    BY <1>1, <1>2, <1>3, <2>1 DEF GoodBind
<1> QED
  BY <1>4, <1>5

(* The rows stay as they are when only more is read.                           *)
LEMMA RowsKept ==
    ASSUME IInv, UNCHANGED <<bound, rows>>,
           read' = read \/ \E c : c \in Captures /\ read' = Append(read, c)
    PROVE  RowsInv'
<1>1. /\ read \in Seq(Captures) /\ Len(read) \in Nat /\ rows \in Seq(RowType)
  BY DEF IInv, StateInv
<1>2. /\ 1..Len(read) \subseteq 1..Len(read') /\ \A k \in 1..Len(read) : read'[k] = read[k]
  BY <1>1
<1> QED
  BY <1>2 DEF IInv, RowsInv, RowFits

LEMMA ReadConforms ==
    ASSUME IInv, UNCHANGED fault,
           read' = read \/ \E c : c \in Captures /\ read' = Append(read, c)
    PROVE  ConformingCaptureIsRead'
<1>1. read \in Seq(Captures) /\ Len(read) \in Nat
  BY DEF IInv, StateInv
<1>2. /\ \A k \in 1..Len(read) : k \in 1..Len(read') /\ read'[k] = read[k]
  BY <1>1
<1> QED
  BY <1>2 DEF IInv, ConformingCaptureIsRead

LEMMA InitIInv == Init => IInv
<1> SUFFICES ASSUME Init PROVE IInv
  OBVIOUS
<1>1. /\ disk \in Seq(Contents) /\ function \in Functions /\ rows = <<>> /\ read = <<>> /\ cur = 0
      /\ pc = "bind" /\ fault = "none"
  BY ContentsAssumption DEF Init
<1>2. StateInv
  BY <1>1 DEF StateInv
<1>3. RowsInv
  BY <1>1 DEF RowsInv
<1> QED
  BY <1>1, <1>2, <1>3 DEF IInv, BoundInv, OpenInv, SlotsFit, ConformingCaptureIsRead

(* A bind that throws, or returns a good bind.                                 *)
LEMMA BindIInv ==
    ASSUME IInv, pc = "bind", UNCHANGED <<disk, function, symbols, columnIds, readerVars, rows, replaced>>,
           \/ pc' = "failed" /\ fault' # "record_size_mismatch"
           \/ pc' = "init" /\ UNCHANGED fault /\ GoodBind'
    PROVE  IInv'
<1>1. UNCHANGED <<disk, function, columnIds, cur, read, rows>> /\ rows = <<>>
  BY DEF readerVars, IInv, StateInv
<1>2. StateInv'
  BY <1>1 DEF IInv, StateInv
<1>3. RowsInv'
  BY <1>1 DEF RowsInv
<1>4. ConformingCaptureIsRead'
  BY <1>1, <1>2 DEF StateInv, ConformingCaptureIsRead
<1> QED
  BY <1>2, <1>3, <1>4 DEF IInv, BoundInv, OpenInv, SlotsFit

LEMMA ReadDbnBindIInv ==
    ASSUME IInv, ReadDbnBind
    PROVE  IInv'
<1>1. /\ pc = "bind" /\ UNCHANGED <<disk, function, symbols, columnIds, readerVars, rows, replaced>>
  BY DEF ReadDbnBind
<1> DEFINE s == Head(disk).schema
<1>2. \/ pc' = "failed" /\ fault' # "record_size_mismatch"
      \/ LookupSchemaHandler(s).rtype # NoRType /\ BindTo(LookupSchemaHandler(s), DispatchedLayout(s))
  BY DEF ReadDbnBind, Throw
<1> HIDE DEF s
<1>3. ASSUME LookupSchemaHandler(s).rtype # NoRType,
             BindTo(LookupSchemaHandler(s), DispatchedLayout(s))
      PROVE  pc' = "init" /\ UNCHANGED fault /\ GoodBind'
  <2>1. /\ LookupSchemaHandler(s) \in Handlers
        /\ DispatchedLayout(s) = LookupSchemaHandler(s).reader.layout
    BY <1>3, LookedUp
  <2> QED
    BY <1>3, <2>1, BoundIsGood DEF BindTo
<1> QED
  BY <1>1, <1>2, <1>3, BindIInv

LEMMA OwnBindIInv ==
    ASSUME IInv, SchemaBind \/ DbnRecordsBind
    PROVE  IInv'
<1>1. /\ pc = "bind" /\ UNCHANGED <<disk, function, symbols, columnIds, readerVars, rows, replaced>>
      /\ function # "read_dbn" /\ function \in Functions
  BY DEF SchemaBind, DbnRecordsBind, IInv, StateInv
<1>2. \/ pc' = "failed" /\ fault' # "record_size_mismatch"
      \/ BindTo(Registered(function), Registered(function).reader.layout)
  BY DEF SchemaBind, DbnRecordsBind, Throw
<1>3. ASSUME BindTo(Registered(function), Registered(function).reader.layout)
      PROVE  pc' = "init" /\ UNCHANGED fault /\ GoodBind'
  BY <1>1, <1>3, RegisteredHandlers, BoundIsGood DEF BindTo
<1> QED
  BY <1>1, <1>2, <1>3, BindIInv

LEMMA ReplaceFileIInv ==
    ASSUME IInv, ReplaceFile
    PROVE  IInv'
<1>1. UNCHANGED <<boundVars, columnIds, readerVars, rows, pc, fault>>
  BY DEF ReplaceFile
<1>2. disk' \in Seq(Contents)
  <2>1. PICK k \in 1..Len(disk), c \in Replacements : disk' = [disk EXCEPT ![k] = c]
    BY DEF ReplaceFile
  <2>2. c \in Contents
    BY DEF Contents
  <2>3. disk \in Seq(Contents)
    BY DEF IInv, StateInv
  <2> QED
    BY <2>1, <2>2, <2>3
<1>3. UNCHANGED <<function, bound, columnIds, open, cur, pos, first, read, rows, pc, fault>>
  BY <1>1 DEF boundVars, readerVars
<1>4. StateInv'
  BY <1>2, <1>3 DEF IInv, StateInv
<1>5. BoundInv' /\ OpenInv' /\ SlotsFit'
  BY <1>3 DEF IInv, BoundInv, GoodBind, OpenInv, SlotsFit
<1> QED
  BY <1>3, <1>4, <1>5, RowsKept, ReadConforms DEF IInv

(* OpenFile: an exception, or the file becomes the last one opened.            *)
LEMMA OpenFileFacts ==
    ASSUME IInv, NEW k \in Nat \ {0}, OpenFile(k, "scan")
    PROVE  \/ pc' = "failed" /\ fault' # "record_size_mismatch" /\ UNCHANGED readerVars
           \/ /\ pc' = "scan" /\ UNCHANGED fault
              /\ open' \in Captures /\ read' = Append(read, open') /\ cur' = k
              /\ pos' = 0 /\ first' = Metadata(open')
<1> DEFINE c == IF k <= Len(disk) THEN disk[k] ELSE Absent
<1>1. CASE c = Absent /\ Throw("cannot_open") /\ UNCHANGED readerVars
  BY <1>1 DEF Throw
<1>2. CASE Throw("inconsistent_files") /\ UNCHANGED readerVars
  BY <1>2 DEF Throw
<1>3. CASE /\ c # Absent /\ open' = c /\ cur' = k /\ pos' = 0 /\ first' = Metadata(c)
           /\ read' = Append(read, c) /\ pc' = "scan" /\ UNCHANGED fault
  <2>1. c \in Contents
    BY <1>3 DEF IInv, StateInv
  <2> QED
    BY <1>3, <2>1 DEF Captures
<1> QED
  BY <1>1, <1>2, <1>3 DEF OpenFile

LEMMA OpenIInv ==
    ASSUME IInv, pc \in {"init", "scan"}, GoodBind,
           UNCHANGED <<disk, boundVars, rows, replaced>>,
           bound.reader.slots = NoArrays \/ Len(columnIds') <= bound.reader.slots,
           NEW k \in Nat \ {0}, OpenFile(k, "scan")
    PROVE  IInv'
<1>0. UNCHANGED <<disk, function, bound, rows>> /\ (pc = "init" => rows = <<>>)
  BY DEF boundVars, IInv, StateInv
<1>1. CASE pc' = "failed" /\ fault' # "record_size_mismatch" /\ UNCHANGED readerVars
  <2>1. UNCHANGED <<read, cur>>
    BY <1>1 DEF readerVars
  <2>2. StateInv'
    BY <1>0, <1>1, <2>1 DEF IInv, StateInv
  <2>3. RowsInv'
    BY <1>0, <2>1, RowsKept
  <2> QED
    BY <1>1, <2>2, <2>3 DEF IInv, BoundInv, OpenInv, SlotsFit, ConformingCaptureIsRead
<1>2. CASE /\ pc' = "scan" /\ UNCHANGED fault
           /\ open' \in Captures /\ read' = Append(read, open') /\ cur' = k
           /\ pos' = 0 /\ first' = Metadata(open')
  <2>1. read \in Seq(Captures) /\ read' \in Seq(Captures) /\ Len(read) \in Nat
    BY <1>2 DEF IInv, StateInv
  <2>2. Len(read') = Len(read) + 1 /\ read'[Len(read')] = open'
    BY <1>2, <2>1
  <2>3. StateInv'
    <3>1. fault # "record_size_mismatch"
      BY DEF IInv, StateInv
    <3> QED
      BY <1>0, <1>2, <2>1, <3>1 DEF IInv, StateInv
  <2>4. OpenInv'
    <3>1. Len(open'.records) \in Nat
      BY <1>2, CapturesOK DEF IsCapture
    <3>2. Len(read') \in 1..Len(read') /\ pos' \in 0..Len(open'.records)
      BY <1>2, <2>1, <2>2, <3>1
    <3> QED
      BY <1>2, <2>2, <3>2 DEF OpenInv, Metadata
  <2>5. BoundInv' /\ SlotsFit'
    BY <1>0 DEF BoundInv, GoodBind, SlotsFit
  <2>6. RowsInv' /\ ConformingCaptureIsRead'
    BY <1>0, <1>2, RowsKept, ReadConforms
  <2> QED
    BY <2>3, <2>4, <2>5, <2>6 DEF IInv
<1> QED
  BY <1>1, <1>2, OpenFileFacts

LEMMA InitGlobalIInv ==
    ASSUME IInv, InitGlobal
    PROVE  IInv'
<1>1. /\ pc = "init" /\ GoodBind /\ columnIds' \in Projections /\ OpenFile(1, "scan")
      /\ UNCHANGED <<disk, boundVars, rows, replaced>>
  BY DEF InitGlobal, IInv, BoundInv
<1> DEFINE n == Len(bound.names)
<1>2. /\ n \in Nat
      /\ \/ bound.reader.slots = NoArrays
         \/ bound.reader.slots \in Nat /\ n <= bound.reader.slots /\ 3 <= bound.reader.slots
  BY <1>1 DEF GoodBind
<1>3. Len(columnIds') \in {n, 0, 1, 3}
  <2>1. Len([i \in 1..n |-> i - 1]) = n
    BY <1>2
  <2>2. /\ Len(<<>>) = 0 /\ Len(<<RowId>>) = 1
        /\ Len(<<n - 1, bound.layout.instrument_id, RowId>>) = 3
    OBVIOUS
  <2> QED
    BY <1>1, <2>1, <2>2 DEF Projections
<1> HIDE DEF n
<1>4. ASSUME bound.reader.slots # NoArrays
      PROVE  Len(columnIds') <= bound.reader.slots
  <2>1. \A m \in {n, 0, 1, 3} : m <= bound.reader.slots
    BY <1>2, <1>4
  <2> QED
    BY <1>3, <2>1
<1> QED
  BY <1>1, <1>4, OpenIInv

LEMMA NextFileIInv ==
    ASSUME IInv, NextFile
    PROVE  IInv'
<1>1. /\ pc = "scan" /\ GoodBind /\ OpenFile(cur + 1, "scan")
      /\ UNCHANGED <<disk, boundVars, columnIds, rows, replaced>>
      /\ bound.reader.slots = NoArrays \/ Len(columnIds) <= bound.reader.slots
  BY DEF NextFile, AtEnd, IInv, BoundInv, SlotsFit
<1>2. cur + 1 \in Nat \ {0}
  BY DEF IInv, StateInv
<1> QED
  BY <1>1, <1>2, OpenIInv

(* The record in front, and the struct the scan has for it.                    *)
LEMMA AtRecordFacts ==
    ASSUME IInv, AtRecord
    PROVE  /\ GoodBind /\ read \in Seq(Captures) /\ Len(read) \in 1..Len(read)
           /\ open = read[Len(read)] /\ IsCapture(open)
           /\ pos \in Nat /\ pos + 1 \in 1..Len(open.records)
           /\ Struct = bound.reader.struct[open.version] /\ open.version \in Versions
<1>1. /\ pc = "scan" /\ pos < Len(open.records) /\ GoodBind /\ read \in Seq(Captures)
      /\ Len(read) \in 1..Len(read) /\ open = read[Len(read)] /\ first = Metadata(open)
      /\ pos \in 0..Len(open.records)
  BY DEF AtRecord, IInv, BoundInv, OpenInv, StateInv
<1>2. IsCapture(open)
  BY <1>1, CapturesOK
<1>3. first.version = open.version
  BY <1>1 DEF Metadata
<1>4. open.version \in Versions /\ Len(open.records) \in Nat
  BY <1>2 DEF IsCapture
<1>5. pos \in Nat /\ pos + 1 \in 1..Len(open.records)
  BY <1>1, <1>4
<1> QED
  BY <1>1, <1>2, <1>3, <1>4, <1>5 DEF Struct

LEMMA ReadRecordIInv ==
    ASSUME IInv, ReadRecord
    PROVE  IInv'
<1> DEFINE row == [file |-> Len(read), at |-> pos + 1, struct |-> Current.size]
<1>1. /\ AtRecord /\ Expected /\ pos' = pos + 1 /\ rows' = Append(rows, row)
      /\ UNCHANGED <<disk, boundVars, columnIds, open, cur, first, read, replaced, pc, fault>>
  BY DEF ReadRecord
<1>2. UNCHANGED <<function, bound>>
  BY <1>1 DEF boundVars
<1>3. /\ read \in Seq(Captures) /\ Len(read) \in 1..Len(read) /\ open = read[Len(read)]
      /\ IsCapture(open) /\ pos \in Nat /\ pos + 1 \in 1..Len(open.records)
  BY <1>1, AtRecordFacts
<1>4. row \in RowType
  <2>1. Current.size \in Nat /\ Len(read) \in Nat
    BY <1>3 DEF Current, IsCapture
  <2> QED
    BY <1>3, <2>1 DEF RowType
<1>5. /\ rows \in Seq(RowType) /\ rows' \in Seq(RowType) /\ Len(rows') = Len(rows) + 1
      /\ \A i \in 1..Len(rows) : rows'[i] = rows[i]
      /\ rows'[Len(rows) + 1] = row /\ Len(rows) \in Nat
  BY <1>1, <1>4 DEF IInv, StateInv
<1>6. RowsInv'
  <2>1. ASSUME NEW i \in 1..Len(rows')
        PROVE  rows'[i].file \in 1..Len(read) /\ RowFits(rows'[i])
    <3>1. CASE i \in 1..Len(rows)
      BY <1>5, <3>1 DEF IInv, RowsInv
    <3>2. CASE i = Len(rows) + 1
      <4>1. row.file = Len(read) /\ row.at = pos + 1 /\ row.struct = Current.size
        OBVIOUS
      <4> HIDE DEF row
      <4>2. read[row.file].records[row.at] = Current /\ row.file \in 1..Len(read)
        BY <1>3, <4>1 DEF Current
      <4>3. RowFits(row)
        BY <1>1, <4>1, <4>2 DEF RowFits, Expected
      <4> QED
        BY <1>5, <3>2, <4>2, <4>3
    <3> QED
      BY <1>5, <3>1, <3>2
  <2> QED
    BY <1>1, <1>2, <2>1 DEF RowsInv, RowFits
<1> HIDE DEF row
<1>7. StateInv'
  BY <1>1, <1>2, <1>5 DEF AtRecord, IInv, StateInv
<1>8. BoundInv' /\ SlotsFit' /\ ConformingCaptureIsRead'
  BY <1>1, <1>2 DEF IInv, BoundInv, GoodBind, SlotsFit, ConformingCaptureIsRead
<1>9. OpenInv'
  BY <1>1, <1>3 DEF IInv, OpenInv
<1> QED
  BY <1>6, <1>7, <1>8, <1>9 DEF IInv

LEMMA SkipRecordIInv ==
    ASSUME IInv, SkipRecord
    PROVE  IInv'
<1>1. /\ AtRecord /\ pos' = pos + 1
      /\ UNCHANGED <<disk, function, bound, columnIds, open, cur, first, read, rows, pc, fault>>
  BY DEF SkipRecord, boundVars
<1>2. pos + 1 \in 1..Len(open.records) /\ pos \in Nat
  BY <1>1, AtRecordFacts
<1>3. StateInv'
  BY <1>1 DEF IInv, StateInv
<1>4. BoundInv' /\ SlotsFit' /\ ConformingCaptureIsRead' /\ RowsInv'
  BY <1>1 DEF IInv, BoundInv, GoodBind, SlotsFit, ConformingCaptureIsRead, RowsInv, RowFits
<1>5. OpenInv'
  BY <1>1, <1>2 DEF IInv, OpenInv
<1> QED
  BY <1>3, <1>4, <1>5 DEF IInv

LEMMA SizeMismatchIInv ==
    ASSUME IInv, SizeMismatch
    PROVE  IInv'
<1>1. /\ AtRecord /\ Expected /\ bound.rtype # AnyRType /\ Current.size # Struct
      /\ pc' = "failed" /\ fault' = "record_size_mismatch"
      /\ UNCHANGED <<disk, function, bound, columnIds, open, cur, pos, first, read, rows>>
  BY DEF SizeMismatch, Throw, boundVars, readerVars
<1>2. ~Conforms(open)
  <2> SUFFICES ASSUME Conforms(open) PROVE FALSE
    OBVIOUS
  <2>1. Current.size = WireSize(Current.rtype, open.version)
    BY <1>1, AtRecordFacts DEF Conforms, Current
  <2>2. Current.rtype = bound.rtype
    BY <1>1 DEF Expected
  <2>3. Struct = WireSize(bound.rtype, open.version)
    BY <1>1, AtRecordFacts DEF GoodBind, Fits
  <2> QED
    BY <1>1, <2>1, <2>2, <2>3
<1>3. \E i \in 1..Len(read) : ~Conforms(read[i])
  BY <1>1, <1>2, AtRecordFacts
<1>4. ConformingCaptureIsRead'
  BY <1>1, <1>3 DEF ConformingCaptureIsRead
<1>5. StateInv' /\ RowsInv'
  BY <1>1 DEF IInv, StateInv, RowsInv, RowFits
<1> QED
  BY <1>1, <1>4, <1>5 DEF IInv, BoundInv, OpenInv, SlotsFit

LEMMA FinishIInv ==
    ASSUME IInv, Finish \/ UNCHANGED vars
    PROVE  IInv'
<1>1. /\ UNCHANGED <<disk, function, bound, columnIds, open, cur, pos, first, read, rows, fault>>
      /\ UNCHANGED pc \/ (pc = "scan" /\ pc' = "finished")
  BY DEF Finish, AtEnd, vars, boundVars, readerVars
<1>2. StateInv' /\ RowsInv' /\ ConformingCaptureIsRead'
  BY <1>1 DEF IInv, StateInv, RowsInv, RowFits, ConformingCaptureIsRead
<1>3. BoundInv' /\ OpenInv' /\ SlotsFit'
  BY <1>1 DEF IInv, BoundInv, GoodBind, OpenInv, SlotsFit
<1> QED
  BY <1>2, <1>3 DEF IInv

-----------------------------------------------------------------------------
(* The inductive invariant holds of every query.                               *)
THEOREM QueryInvariant == Spec => []IInv
<1>1. Init => IInv
  BY InitIInv
<1>2. IInv /\ [Next]_vars => IInv'
  <2> SUFFICES ASSUME IInv, [Next]_vars
               PROVE  IInv'
    OBVIOUS
  <2>1. CASE ReadDbnBind
    BY <2>1, ReadDbnBindIInv
  <2>2. CASE SchemaBind \/ DbnRecordsBind
    BY <2>2, OwnBindIInv
  <2>3. CASE ReplaceFile
    BY <2>3, ReplaceFileIInv
  <2>4. CASE InitGlobal
    BY <2>4, InitGlobalIInv
  <2>5. CASE ReadRecord
    BY <2>5, ReadRecordIInv
  <2>6. CASE SkipRecord
    BY <2>6, SkipRecordIInv
  <2>7. CASE SizeMismatch
    BY <2>7, SizeMismatchIInv
  <2>8. CASE NextFile
    BY <2>8, NextFileIInv
  <2>9. CASE Finish \/ UNCHANGED vars
    BY <2>9, FinishIInv
  <2> QED
    BY <2>1, <2>2, <2>3, <2>4, <2>5, <2>6, <2>7, <2>8, <2>9 DEF Next, Over
<1> QED
  BY <1>1, <1>2, PTL DEF Spec

(* Whichever bind chose the layout, it names the columns the bind declared.     *)
THEOREM LayoutCorrect == Spec => []LayoutNamesHeader
<1>1. IInv => LayoutNamesHeader
  <2>1. IInv /\ pc \notin {"bind", "failed"} => GoodBind
    BY DEF IInv, StateInv, BoundInv
  <2> QED
    BY <2>1 DEF LayoutNamesHeader, GoodBind, NamesHeader, HeaderFields
<1> QED
  BY <1>1, QueryInvariant, PTL

(* No projection, the symbol column included, outgrows the arrays of a scan.    *)
THEOREM SlotsCorrect == Spec => []SlotsFit
<1>1. IInv => SlotsFit
  BY DEF IInv
<1> QED
  BY <1>1, QueryInvariant, PTL

(* A row is a record of the scan's own type and fills its struct exactly,       *)
(* however often files are replaced under the query.                           *)
THEOREM RowsCorrect == Spec => []RowsFitTheirStruct
<1>1. IInv => RowsFitTheirStruct
  BY DEF IInv, RowsInv, RowFits, RowsFitTheirStruct
<1> QED
  BY <1>1, QueryInvariant, PTL

(* A capture that keeps to its version's encoding is never refused for the size *)
(* of a record, by any of the readers.                                         *)
THEOREM ConformingCorrect == Spec => []ConformingCaptureIsRead
<1>1. IInv => ConformingCaptureIsRead
  BY DEF IInv
<1> QED
  BY <1>1, QueryInvariant, PTL

-----------------------------------------------------------------------------
(* For EveryRecordOfTheSchema: what the rows are, compared with all that was     *)
(* read.  The files opened so far are, unless one was replaced, the first ones    *)
(* of the disk.                                                                *)
FilesInv ==
    /\ replaced \in Nat
    /\ pc \in {"bind", "init"} => read = <<>>
    /\ pc \in {"scan", "finished"} => Len(read) = cur
    /\ replaced = 0 => \A k \in 1..Len(read) : k \in 1..Len(disk) /\ read[k] = disk[k]

(* The type bind chose, by either table.                                       *)
TypeInv ==
    pc \in {"init", "scan", "finished"} =>
        /\ function \in Schemas => bound.rtype = RTypeOf(function)
        /\ function = "read_dbn" /\ replaced = 0 =>
            /\ disk # <<>>
            /\ disk[1].schema \in Schemas => bound.rtype = RTypeOf(disk[1].schema)

(* The rows are in order, and behind them is only what has not been taken.       *)
Taken(k, i) == k < Len(read) \/ (k = Len(read) /\ i <= pos)
OrderInv ==
    /\ \A n \in 1..Len(rows) : Taken(rows[n].file, rows[n].at)
    /\ \A m, n \in 1..Len(rows) : m < n => Before(rows[m], rows[n])

(* No record of the type was passed over; a scan that is finished took all.      *)
CompleteInv ==
    pc \in {"scan", "finished"} =>
        \A k \in 1..Len(read) : \A i \in 1..Len(read[k].records) :
            Taken(k, i) /\ bound.rtype \in {AnyRType, read[k].records[i].rtype} =>
                \E n \in 1..Len(rows) : rows[n].file = k /\ rows[n].at = i
FinishedInv ==
    pc = "finished" => Len(read) = Paths /\ \A i \in 1..Len(read[Len(read)].records) : i <= pos

DeliveryInv == FilesInv /\ TypeInv /\ OrderInv /\ CompleteInv /\ FinishedInv

-----------------------------------------------------------------------------
LEMMA DispatchAgrees ==
    ASSUME NEW s \in Schemas
    PROVE  /\ LookupSchemaHandler(s).rtype = RTypeOf(s)
           /\ Registered(s).rtype = RTypeOf(s)
           /\ RTypeOf(s) # AnyRType
           /\ s # "read_dbn" /\ s # "dbn_records"
<1>1. LookupSchemaHandler(s).rtype = RTypeOf(s)
  BY DEF Schemas, LookupSchemaHandler, Handler, RTypeOf
<1>2. Registered(s).rtype = RTypeOf(s)
  BY DEF Schemas, Registered, Handler, RTypeOf
<1>3. RTypeOf(s) # AnyRType
  BY DEF Schemas, RTypeOf, AnyRType
<1> QED
  BY <1>1, <1>2, <1>3 DEF Schemas

LEMMA ListFacts ==
    ASSUME IInv
    PROVE  /\ read \in Seq(Captures) /\ Len(read) \in Nat
           /\ disk \in Seq(Contents) /\ Len(disk) \in Nat
           /\ rows \in Seq(RowType) /\ Len(rows) \in Nat
           /\ cur \in Nat
BY DEF IInv, StateInv

LEMMA RowFacts ==
    ASSUME IInv
    PROVE  \A n \in 1..Len(rows) : rows[n].file \in Nat /\ rows[n].at \in Nat
<1>1. \A n \in 1..Len(rows) : rows[n] \in RowType
  BY ListFacts
<1> QED
  BY <1>1 DEF RowType

LEMMA InitDelivery == Init => DeliveryInv
BY DEF Init, DeliveryInv, FilesInv, TypeInv, OrderInv, CompleteInv, FinishedInv, Taken

(* Binds: nothing was read yet, and the type is that of the table.              *)
LEMMA BindDelivery ==
    ASSUME IInv, DeliveryInv, pc = "bind", pc' \in {"init", "failed"},
           UNCHANGED <<disk, function, readerVars, rows, replaced>>, TypeInv'
    PROVE  DeliveryInv'
<1>1. UNCHANGED <<disk, read, pos, cur, rows, replaced>>
  BY DEF readerVars
<1>2. FilesInv' /\ CompleteInv' /\ FinishedInv'
  BY <1>1 DEF DeliveryInv, FilesInv, CompleteInv, FinishedInv
<1>3. OrderInv'
  BY <1>1 DEF DeliveryInv, OrderInv, Taken
<1> QED
  BY <1>2, <1>3 DEF DeliveryInv

LEMMA ReadDbnBindDelivery ==
    ASSUME IInv, DeliveryInv, ReadDbnBind
    PROVE  DeliveryInv'
<1>1. /\ pc = "bind" /\ function = "read_dbn"
      /\ UNCHANGED <<disk, function, symbols, columnIds, readerVars, rows, replaced>>
  BY DEF ReadDbnBind
<1> DEFINE s == Head(disk).schema
<1>2. \/ pc' = "failed"
      \/ disk # <<>> /\ BindTo(LookupSchemaHandler(s), DispatchedLayout(s))
  BY DEF ReadDbnBind, Throw
<1>3. s = disk[1].schema
  OBVIOUS
<1> HIDE DEF s
<1>4. CASE disk # <<>> /\ BindTo(LookupSchemaHandler(s), DispatchedLayout(s))
  <2>1. pc' = "init" /\ bound'.rtype = LookupSchemaHandler(s).rtype
    BY <1>4 DEF BindTo, Bound
  <2>2. s \in Schemas => bound'.rtype = RTypeOf(s)
    BY <2>1, DispatchAgrees
  <2>3. TypeInv'
    BY <1>1, <1>3, <1>4, <2>2, DispatchAgrees DEF TypeInv
  <2> QED
    BY <1>1, <2>1, <2>3, BindDelivery
<1>5. CASE pc' = "failed"
  BY <1>1, <1>5, BindDelivery DEF TypeInv
<1> QED
  BY <1>2, <1>4, <1>5

LEMMA OwnBindDelivery ==
    ASSUME IInv, DeliveryInv, SchemaBind \/ DbnRecordsBind
    PROVE  DeliveryInv'
<1>1. /\ pc = "bind" /\ function # "read_dbn"
      /\ UNCHANGED <<disk, function, symbols, columnIds, readerVars, rows, replaced>>
  BY DEF SchemaBind, DbnRecordsBind
<1>2. \/ pc' = "failed"
      \/ pc' = "init" /\ bound'.rtype = Registered(function).rtype
  BY DEF SchemaBind, DbnRecordsBind, Throw, BindTo, Bound
<1>3. TypeInv'
  BY <1>1, <1>2, DispatchAgrees DEF TypeInv
<1> QED
  BY <1>1, <1>2, <1>3, BindDelivery

LEMMA ReplaceFileDelivery ==
    ASSUME IInv, DeliveryInv, ReplaceFile
    PROVE  DeliveryInv'
<1>1. /\ UNCHANGED <<function, bound, read, pos, cur, rows, pc>> /\ replaced' = replaced + 1
      /\ Len(disk') = Len(disk) /\ replaced' \in Nat /\ replaced' # 0
  <2>1. /\ UNCHANGED <<function, bound, read, pos, cur, rows, pc>> /\ replaced' = replaced + 1
        /\ \E k, c : disk' = [disk EXCEPT ![k] = c]
    BY DEF ReplaceFile, boundVars, readerVars
  <2> QED
    BY <2>1, ListFacts DEF DeliveryInv, FilesInv
<1>2. FilesInv' /\ TypeInv'
  BY <1>1 DEF DeliveryInv, FilesInv, TypeInv
<1>3. OrderInv' /\ CompleteInv'
  BY <1>1 DEF DeliveryInv, OrderInv, CompleteInv, Taken
<1>4. FinishedInv'
  BY <1>1 DEF DeliveryInv, FinishedInv, Paths
<1> QED
  BY <1>2, <1>3, <1>4 DEF DeliveryInv

(* The next file begins behind all rows; of the one before nothing is left.      *)
LEMMA OpenDelivery ==
    ASSUME IInv, DeliveryInv, pc \in {"init", "scan"}, NEW k \in Nat \ {0}, k = Len(read) + 1,
           OpenFile(k, "scan"), UNCHANGED <<disk, boundVars, rows, replaced>>,
           Len(read) # 0 => \A i \in 1..Len(read[Len(read)].records) : i <= pos
    PROVE  DeliveryInv'
<1>1. UNCHANGED <<disk, function, bound, rows, replaced>>
  BY DEF boundVars
<1>2. CASE pc' = "failed" /\ UNCHANGED readerVars
  <2>1. UNCHANGED <<read, pos, cur>>
    BY <1>2 DEF readerVars
  <2> QED
    BY <1>1, <1>2, <2>1 DEF DeliveryInv, FilesInv, TypeInv, OrderInv, CompleteInv, FinishedInv, Taken
<1>3. CASE /\ pc' = "scan" /\ k <= Len(disk) /\ open' = disk[k] /\ open' \in Captures
           /\ read' = Append(read, open') /\ cur' = k /\ pos' = 0
  <2>1. /\ Len(read') = Len(read) + 1 /\ read'[k] = open'
        /\ \A j \in 1..Len(read) : read'[j] = read[j]
    BY <1>3, ListFacts
  <2>2. FilesInv'
    BY <1>1, <1>3, <2>1, ListFacts DEF DeliveryInv, FilesInv
  <2>3. TypeInv' /\ FinishedInv'
    BY <1>1, <1>3 DEF DeliveryInv, TypeInv, FinishedInv
  <2>4. ASSUME NEW n \in 1..Len(rows)
        PROVE  Taken(rows[n].file, rows[n].at)'
    <3>1. rows[n].file \in 1..Len(read)
      BY DEF IInv, RowsInv
    <3> QED
      BY <1>1, <2>1, <3>1, ListFacts DEF Taken
  <2>5. OrderInv'
    BY <1>1, <2>4 DEF DeliveryInv, OrderInv
  <2>6. ASSUME NEW j \in 1..Len(read'), NEW i \in 1..Len(read'[j].records), Taken(j, i)',
               bound'.rtype \in {AnyRType, read'[j].records[i].rtype}
        PROVE  \E n \in 1..Len(rows') : rows'[n].file = j /\ rows'[n].at = i
    <3>1. j # k
      BY <1>3, <2>1, <2>6, ListFacts DEF Taken
    <3>2. j \in 1..Len(read) /\ read'[j] = read[j]
      BY <2>1, <3>1, ListFacts
    <3>3. Taken(j, i) /\ pc = "scan"
      BY <3>2, ListFacts DEF Taken, DeliveryInv, FilesInv
    <3>4. bound.rtype \in {AnyRType, read[j].records[i].rtype} /\ i \in 1..Len(read[j].records)
      BY <1>1, <2>6, <3>2
    <3>5. CompleteInv
      BY DEF DeliveryInv
    <3> QED
      BY <1>1, <3>2, <3>3, <3>4, <3>5 DEF CompleteInv
  <2>7. CompleteInv'
    BY <2>6 DEF CompleteInv
  <2> QED
    BY <2>2, <2>3, <2>5, <2>7 DEF DeliveryInv
<1>4. \/ pc' = "failed" /\ UNCHANGED readerVars
      \/ /\ pc' = "scan" /\ k <= Len(disk) /\ open' = disk[k] /\ open' # Absent
         /\ read' = Append(read, open') /\ cur' = k /\ pos' = 0
  BY DEF OpenFile, Throw
<1>5. k <= Len(disk) /\ disk[k] # Absent => disk[k] \in Captures
  BY ListFacts DEF Captures
<1> QED
  BY <1>2, <1>3, <1>4, <1>5

LEMMA OpenStepDelivery ==
    ASSUME IInv, DeliveryInv, InitGlobal \/ NextFile
    PROVE  DeliveryInv'
<1>1. CASE InitGlobal
  <2>1. /\ pc = "init" /\ OpenFile(1, "scan") /\ UNCHANGED <<disk, boundVars, rows, replaced>>
        /\ Len(read) = 0
    BY <1>1 DEF InitGlobal, DeliveryInv, FilesInv
  <2> QED
    BY <2>1, OpenDelivery
<1>2. CASE NextFile
  <2>1. /\ pc = "scan" /\ pos = Len(open.records) /\ OpenFile(cur + 1, "scan")
        /\ UNCHANGED <<disk, boundVars, rows, replaced>>
        /\ open = read[Len(read)] /\ cur = Len(read) /\ cur + 1 \in Nat \ {0}
    BY <1>2, ListFacts DEF NextFile, AtEnd, IInv, OpenInv, DeliveryInv, FilesInv
  <2> QED
    BY <2>1, OpenDelivery
<1> QED
  BY <1>1, <1>2

(* A record is taken: what was behind stays, and this one is behind.            *)
LEMMA TakenGrows ==
    ASSUME IInv, AtRecord, pos' = pos + 1, UNCHANGED <<read>>,
           NEW k \in 1..Len(read), NEW i \in 1..Len(read[k].records)
    PROVE  Taken(k, i)' <=> Taken(k, i) \/ (k = Len(read) /\ i = pos + 1)
<1>1. pos \in Nat /\ Len(read) \in Nat /\ i \in Int
  BY AtRecordFacts, ListFacts, CapturesOK DEF IsCapture
<1> QED
  BY <1>1 DEF Taken

LEMMA ReadRecordDelivery ==
    ASSUME IInv, DeliveryInv, ReadRecord
    PROVE  DeliveryInv'
<1> DEFINE row == [file |-> Len(read), at |-> pos + 1, struct |-> Current.size]
<1>1. /\ AtRecord /\ Expected /\ pos' = pos + 1 /\ rows' = Append(rows, row)
      /\ UNCHANGED <<disk, function, bound, cur, read, replaced, pc>>
  BY DEF ReadRecord, boundVars
<1>2. /\ pc = "scan" /\ pos \in Nat /\ Len(read) \in 1..Len(read)
      /\ open = read[Len(read)]
  BY <1>1, AtRecordFacts DEF AtRecord
<1>3. row.file = Len(read) /\ row.at = pos + 1
  OBVIOUS
<1> HIDE DEF row
<1>4. /\ Len(rows') = Len(rows) + 1 /\ rows'[Len(rows) + 1] = row
      /\ \A n \in 1..Len(rows) : rows'[n] = rows[n] /\ n \in 1..Len(rows')
      /\ Len(rows) + 1 \in 1..Len(rows')
  BY <1>1, ListFacts
<1>5. FilesInv' /\ TypeInv' /\ FinishedInv'
  BY <1>1, <1>2 DEF DeliveryInv, FilesInv, TypeInv, FinishedInv
<1>6. OrderInv'
  <2>1. \A n \in 1..Len(rows) :
            /\ rows[n].file \in Nat /\ rows[n].at \in Nat /\ rows[n].file \in 1..Len(read)
            /\ Taken(rows[n].file, rows[n].at)
    BY RowFacts DEF DeliveryInv, OrderInv, IInv, RowsInv
  <2>2. ASSUME NEW n \in 1..Len(rows')
        PROVE  Taken(rows[n].file, rows[n].at)'
    <3>1. CASE n \in 1..Len(rows)
      BY <1>1, <1>2, <1>4, <2>1, <3>1 DEF Taken
    <3>2. CASE n = Len(rows) + 1
      BY <1>1, <1>2, <1>3, <1>4, <3>2 DEF Taken
    <3> QED
      BY <1>4, <3>1, <3>2, ListFacts
  <2>3. ASSUME NEW m \in 1..Len(rows'), NEW n \in 1..Len(rows'), m < n
        PROVE  Before(rows[m], rows[n])'
    <3>1. CASE n \in 1..Len(rows)
      <4>1. m \in 1..Len(rows)
        BY <2>3, <3>1, ListFacts
      <4>2. Before(rows[m], rows[n])
        BY <2>3, <3>1, <4>1 DEF DeliveryInv, OrderInv
      <4>3. rows'[m] = rows[m] /\ rows'[n] = rows[n]
        BY <1>4, <3>1, <4>1
      <4> QED
        BY <4>2, <4>3 DEF Before
    <3>2. CASE n = Len(rows) + 1
      <4>1. m \in 1..Len(rows)
        BY <2>3, <3>2, ListFacts
      <4>2. /\ rows'[m] = rows[m] /\ rows'[n] = row
            /\ rows[m].file \in Nat /\ rows[m].at \in Nat /\ Taken(rows[m].file, rows[m].at)
        BY <1>4, <2>1, <3>2, <4>1
      <4>3. rows[m].file < row.file \/ (rows[m].file = row.file /\ rows[m].at < row.at)
        BY <1>2, <1>3, <4>2, ListFacts DEF Taken
      <4> QED
        BY <4>2, <4>3 DEF Before
    <3> QED
      BY <1>4, <3>1, <3>2, ListFacts
  <2> QED
    BY <2>2, <2>3 DEF OrderInv
<1>7. CompleteInv'
  <2> SUFFICES ASSUME NEW k \in 1..Len(read), NEW i \in 1..Len(read[k].records), Taken(k, i)',
                      bound.rtype \in {AnyRType, read[k].records[i].rtype}
               PROVE  \E n \in 1..Len(rows') : rows'[n].file = k /\ rows'[n].at = i
    BY <1>1 DEF CompleteInv
  <2>1. CASE Taken(k, i)
    <3>1. PICK n \in 1..Len(rows) : rows[n].file = k /\ rows[n].at = i
      BY <1>2, <2>1 DEF DeliveryInv, CompleteInv
    <3> QED
      BY <1>4, <3>1
  <2>2. CASE k = Len(read) /\ i = pos + 1
    BY <1>3, <1>4, <2>2
  <2> QED
    BY <1>1, <2>1, <2>2, TakenGrows
<1> QED
  BY <1>5, <1>6, <1>7 DEF DeliveryInv

LEMMA SkipRecordDelivery ==
    ASSUME IInv, DeliveryInv, SkipRecord
    PROVE  DeliveryInv'
<1>1. /\ AtRecord /\ ~Expected /\ pos' = pos + 1
      /\ UNCHANGED <<disk, function, bound, cur, read, rows, replaced, pc>>
  BY DEF SkipRecord, boundVars
<1>2. /\ pc = "scan" /\ pos \in Nat /\ Len(read) \in 1..Len(read)
      /\ open = read[Len(read)]
  BY <1>1, AtRecordFacts DEF AtRecord
<1>3. FilesInv' /\ TypeInv' /\ FinishedInv'
  BY <1>1, <1>2 DEF DeliveryInv, FilesInv, TypeInv, FinishedInv
<1>4. OrderInv'
  <2>1. \A n \in 1..Len(rows) : rows[n].at \in Nat
    BY RowFacts
  <2>2. \A n \in 1..Len(rows) : Taken(rows[n].file, rows[n].at)'
    BY <1>1, <1>2, <2>1 DEF DeliveryInv, OrderInv, Taken
  <2> QED
    BY <1>1, <2>2 DEF DeliveryInv, OrderInv
<1>5. CompleteInv'
  <2> SUFFICES ASSUME NEW k \in 1..Len(read), NEW i \in 1..Len(read[k].records), Taken(k, i)',
                      bound.rtype \in {AnyRType, read[k].records[i].rtype}
               PROVE  \E n \in 1..Len(rows) : rows[n].file = k /\ rows[n].at = i
    BY <1>1 DEF CompleteInv
  <2>1. ~(k = Len(read) /\ i = pos + 1)
    BY <1>1, <1>2 DEF Expected, Current
  <2> QED
    BY <1>1, <1>2, <2>1, TakenGrows DEF DeliveryInv, CompleteInv
<1> QED
  BY <1>3, <1>4, <1>5 DEF DeliveryInv

LEMMA FinishDelivery ==
    ASSUME IInv, DeliveryInv, Finish \/ SizeMismatch \/ UNCHANGED vars
    PROVE  DeliveryInv'
<1>1. UNCHANGED <<disk, function, bound, cur, pos, read, rows, replaced>>
  BY DEF Finish, SizeMismatch, vars, boundVars, readerVars
<1>2. \/ UNCHANGED pc
      \/ pc = "scan" /\ pc' = "failed"
      \/ pc = "scan" /\ pc' = "finished" /\ pos = Len(open.records) /\ cur = Paths
  BY DEF Finish, SizeMismatch, AtEnd, AtRecord, Throw, vars
<1>3. FilesInv' /\ TypeInv' /\ OrderInv' /\ CompleteInv'
  BY <1>1, <1>2 DEF DeliveryInv, FilesInv, TypeInv, OrderInv, CompleteInv, Taken
<1>4. FinishedInv'
  <2>1. CASE pc = "scan" /\ pc' = "finished" /\ pos = Len(open.records) /\ cur = Paths
    BY <1>1, <2>1 DEF IInv, OpenInv, DeliveryInv, FilesInv, FinishedInv, Paths
  <2> QED
    BY <1>1, <1>2, <2>1 DEF DeliveryInv, FinishedInv, Paths
<1> QED
  BY <1>3, <1>4 DEF DeliveryInv

(* What is known at the end is what the property asks.                          *)
LEMMA DeliveryIsAll ==
    ASSUME IInv, DeliveryInv
    PROVE  EveryRecordOfTheSchema
<1> SUFFICES ASSUME NEW s \in Schemas, pc = "finished", function \in {"read_dbn", s}, replaced = 0,
                    \A k \in 1..Len(disk) : CaptureOf(disk[k], s)
             PROVE  DeliversAll(s)
  BY DEF EveryRecordOfTheSchema
<1>1. Len(read) = Len(disk) /\ \A k \in 1..Len(disk) : read[k] = disk[k]
  <2>1. function # "dbn_records"
    BY DispatchAgrees
  <2> QED
    BY <2>1 DEF DeliveryInv, FilesInv, FinishedInv, Paths
<1>2. bound.rtype = RTypeOf(s) /\ bound.rtype # AnyRType
  <2>1. CASE function = s
    BY <2>1, DispatchAgrees DEF DeliveryInv, TypeInv
  <2>2. CASE function = "read_dbn"
    <3>1. disk # <<>> /\ (disk[1].schema \in Schemas => bound.rtype = RTypeOf(disk[1].schema))
      BY <2>2 DEF DeliveryInv, TypeInv
    <3>2. 1 \in 1..Len(disk)
      BY <3>1, ListFacts
    <3>3. disk[1].schema = s
      BY <3>2 DEF CaptureOf
    <3> QED
      BY <3>1, <3>3, DispatchAgrees
  <2> QED
    BY <2>1, <2>2
<1>3. ASSUME NEW n \in 1..Len(rows)
      PROVE  disk[rows[n].file].records[rows[n].at].rtype = RTypeOf(s)
  <2>1. rows[n].file \in 1..Len(read) /\ RowFits(rows[n])
    BY DEF IInv, RowsInv
  <2> QED
    BY <1>1, <1>2, <2>1 DEF RowFits
<1>4. ASSUME NEW k \in 1..Len(disk), NEW i \in 1..Len(disk[k].records),
             disk[k].records[i].rtype = RTypeOf(s)
      PROVE  \E n \in 1..Len(rows) : rows[n].file = k /\ rows[n].at = i
  <2>1. Taken(k, i)
    BY <1>1, ListFacts DEF DeliveryInv, FinishedInv, Taken
  <2> QED
    BY <1>1, <1>2, <1>4, <2>1 DEF DeliveryInv, CompleteInv
<1>5. \A m, n \in 1..Len(rows) : m < n => Before(rows[m], rows[n])
  BY DEF DeliveryInv, OrderInv
<1> QED
  BY <1>3, <1>4, <1>5 DEF DeliversAll

(* read_dbn and the schema's own function deliver exactly the records of the     *)
(* schema, from every matched file, each once and in order, whatever the files.  *)
THEOREM EveryRecordDelivered == Spec => []EveryRecordOfTheSchema
<1>1. Init => DeliveryInv
  BY InitDelivery
<1>2. IInv /\ DeliveryInv /\ [Next]_vars => DeliveryInv'
  <2> SUFFICES ASSUME IInv, DeliveryInv, [Next]_vars
               PROVE  DeliveryInv'
    OBVIOUS
  <2>1. CASE ReadDbnBind
    BY <2>1, ReadDbnBindDelivery
  <2>2. CASE SchemaBind \/ DbnRecordsBind
    BY <2>2, OwnBindDelivery
  <2>3. CASE ReplaceFile
    BY <2>3, ReplaceFileDelivery
  <2>4. CASE InitGlobal \/ NextFile
    BY <2>4, OpenStepDelivery
  <2>5. CASE ReadRecord
    BY <2>5, ReadRecordDelivery
  <2>6. CASE SkipRecord
    BY <2>6, SkipRecordDelivery
  <2>7. CASE Finish \/ SizeMismatch \/ UNCHANGED vars
    BY <2>7, FinishDelivery
  <2> QED
    BY <2>1, <2>2, <2>3, <2>4, <2>5, <2>6, <2>7 DEF Next, Over
<1>3. IInv /\ DeliveryInv => EveryRecordOfTheSchema
  BY DeliveryIsAll
<1> QED
  BY <1>1, <1>2, <1>3, QueryInvariant, PTL DEF Spec

=============================================================================
