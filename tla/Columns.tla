------------------------------ MODULE Columns ------------------------------
(* The columns of the table functions, as data: the types each bind declares,  *)
(* what the loop of each scan writes into the vector of a column, by version,   *)
(* and the fields the structs of that version have.  Columns are known by their *)
(* logical ids, 0 for the first.  The pointers the scans resolve before the     *)
(* loop have the type the loop writes with.                                     *)
EXTENDS Readers

(* How a cell is written: the C++ type of the vector's data, and                *)
(*   value     the field as it is                                              *)
(*   optional  the field, or SetInvalid for its sentinel (EmitPx, EmitTsOpt)     *)
(*   char      EmitChar1                                                       *)
(*   text      EmitCstr, over at most `most` characters                         *)
(*   null      SetInvalid                                                      *)
Writer(storage, emit, most) == [storage |-> storage, emit |-> emit, most |-> most]
Value(storage) == Writer(storage, "value", 0)
Px == Writer("double", "optional", 0)
TsOpt == Writer("int64_t", "optional", 0)
Quantity == Writer("int64_t", "optional", 0)
Code == Writer("string_t", "optional", 0)
Char == Writer("string_t", "char", 0)
Cstr(most) == Writer("string_t", "text", most)
Null == Writer("none", "null", 0)

(* The cases of a switch: those of g follow those of f.                        *)
At(ids, writer) == [c \in ids |-> writer]
f ++ g == [c \in DOMAIN f \cup DOMAIN g |-> IF c \in DOMAIN f THEN f[c] ELSE g[c]]
Every(writers) == [v \in Versions |-> writers]

(* The columns of a reader: their types, and their writers by version.          *)
Table(reader, types, writers) == [reader |-> reader, types |-> types, writers |-> writers]

TS == "TIMESTAMP_NS"
U32 == "UINTEGER"
U16 == "USMALLINT"
U8 == "UTINYINT"
I32 == "INTEGER"
F64 == "DOUBLE"
TEXT == "VARCHAR"

(* The C++ type behind a DuckDB type.                                          *)
Physical(type) ==
    CASE type \in {TS, "BIGINT"} -> "int64_t" [] type = "UBIGINT" -> "uint64_t"
      [] type = U32 -> "uint32_t" [] type = U16 -> "uint16_t" [] type = U8 -> "uint8_t"
      [] type = I32 -> "int32_t" [] type = "SMALLINT" -> "int16_t" [] type = "TINYINT" -> "int8_t"
      [] type = F64 -> "double" [] type \in {TEXT, "BLOB"} -> "string_t"

-----------------------------------------------------------------------------
TradesTypes ==
    <<TS, TS, U32, U16, F64, U32, TEXT, TEXT, U8, U8, I32, U32>>
TradesWriters ==
    At({0, 1}, Value("int64_t")) ++ At({2, 5, 11}, Value("uint32_t")) ++ At({3}, Value("uint16_t"))
    ++ At({4}, Px) ++ At({6, 7}, Char) ++ At({8, 9}, Value("uint8_t")) ++ At({10}, Value("int32_t"))

MboTypes ==
    <<TS, TS, U32, U16, "UBIGINT", F64, U32, U8, U8, TEXT, TEXT, I32, U32>>
MboWriters ==
    At({0, 1}, Value("int64_t")) ++ At({2, 6, 12}, Value("uint32_t")) ++ At({3}, Value("uint16_t"))
    ++ At({4}, Value("uint64_t")) ++ At({5}, Px) ++ At({7, 8}, Value("uint8_t"))
    ++ At({9, 10}, Char) ++ At({11}, Value("int32_t"))

Mbp1Types ==
    <<TS, TS, U32, U16, F64, F64, U32, U32, U32, U32, U8, I32, U32, TEXT, TEXT>>
Mbp1Writers ==
    At({0, 1}, Value("int64_t")) ++ At({2, 12} \cup 6..9, Value("uint32_t"))
    ++ At({3}, Value("uint16_t")) ++ At({4, 5}, Px) ++ At({10}, Value("uint8_t"))
    ++ At({11}, Value("int32_t")) ++ At({13, 14}, Char)

(* The default branch: column cid is part cid % 6 of a level.                   *)
LevelTypes == <<F64, F64, U32, U32, U32, U32>>
Mbp10Types ==
    TradesTypes \o LevelTypes \o LevelTypes \o LevelTypes \o LevelTypes \o LevelTypes
    \o LevelTypes \o LevelTypes \o LevelTypes \o LevelTypes \o LevelTypes
Mbp10Writers ==
    TradesWriters
    ++ [c \in 12..71 |-> IF (c - 12) % 6 \in {0, 1} THEN Px ELSE Value("uint32_t")]

BboTypes ==
    <<TS, TS, U32, U16, F64, U32, TEXT, U8, F64, F64, U32, U32, U32, U32, U32>>
BboWriters ==
    At({0, 1}, Value("int64_t")) ++ At({2, 5} \cup 10..14, Value("uint32_t"))
    ++ At({3}, Value("uint16_t")) ++ At({4, 8, 9}, Px) ++ At({6}, Char) ++ At({7}, Value("uint8_t"))

CbboTypes ==
    <<TS, TS, U32, U16, F64, U32, TEXT, U8, F64, F64, U32, U32, U16, U16>>
CbboWriters ==
    At({0, 1}, Value("int64_t")) ++ At({2, 5, 10, 11}, Value("uint32_t"))
    ++ At({3, 12, 13}, Value("uint16_t")) ++ At({4, 8, 9}, Px) ++ At({6}, Char)
    ++ At({7}, Value("uint8_t"))

Cmbp1Types ==
    <<TS, TS, U32, U16, F64, U32, TEXT, TEXT, U8, I32, F64, F64, U32, U32, U16, U16>>
Cmbp1Writers ==
    At({0, 1}, Value("int64_t")) ++ At({2, 5, 12, 13}, Value("uint32_t"))
    ++ At({3, 14, 15}, Value("uint16_t")) ++ At({4, 10, 11}, Px) ++ At({6, 7}, Char)
    ++ At({8}, Value("uint8_t")) ++ At({9}, Value("int32_t"))

OhlcvTypes ==
    <<TS, U32, U16, F64, F64, F64, F64, "UBIGINT">>
OhlcvWriters ==
    At({0}, Value("int64_t")) ++ At({1}, Value("uint32_t")) ++ At({2}, Value("uint16_t"))
    ++ At(3..6, Px) ++ At({7}, Value("uint64_t"))

StatusTypes ==
    <<TS, TS, U32, U16, U16, U16, U16, TEXT, TEXT, TEXT>>
StatusWriters ==
    At({0, 1}, Value("int64_t")) ++ At({2}, Value("uint32_t")) ++ At(3..6, Value("uint16_t"))
    ++ At(7..9, Char)

ImbalanceTypes ==
    <<TS, TS, U32, U16, F64, TS, F64, F64, F64, F64, F64, F64, U32, U32, U32, U32, TEXT, TEXT, U8, U8,
      U8, TEXT, TEXT>>
ImbalanceWriters ==
    At({0, 1}, Value("int64_t")) ++ At({2} \cup 12..15, Value("uint32_t"))
    ++ At({3}, Value("uint16_t")) ++ At({4} \cup 6..11, Px) ++ At({5}, TsOpt)
    ++ At({16, 17, 21, 22}, Char) ++ At(18..20, Value("uint8_t"))

StatisticsTypes ==
    <<TS, TS, TS, U32, U16, F64, "BIGINT", U32, I32, U16, U16, U8, U8>>
(* The loops of v1::StatMsg and StatMsg: the sentinel of quantity differs.      *)
StatisticsWriters ==
    At({0, 1}, Value("int64_t")) ++ At({2}, TsOpt) ++ At({3, 7}, Value("uint32_t"))
    ++ At({4, 9, 10}, Value("uint16_t")) ++ At({5}, Px) ++ At({6}, Quantity)
    ++ At({8}, Value("int32_t")) ++ At({11, 12}, Value("uint8_t"))

-----------------------------------------------------------------------------
(* The union of the fields of every version.                                   *)
DefinitionTypes ==
    <<TS, TS, U32, U16, TEXT, TEXT, TEXT, TEXT, TEXT, TEXT, TEXT, TEXT, TEXT, TEXT, TEXT, TEXT, TEXT,
      TS, TS, F64, F64, F64, F64, F64, F64, F64, F64, F64, "UBIGINT", U32, I32, I32, I32, U32, U32,
      I32, I32, I32, U32, I32, I32, I32, "SMALLINT", U16, U16, U16, TEXT, U8, U8, U8, U8, TEXT, U8,
      U8, U8, TEXT, "TINYINT", "TINYINT", U8, U16, U16, U32, TEXT, TEXT, TEXT, F64, F64, I32, I32,
      I32, I32, U32, F64, U16, U8, U8>>

(* The texts of every version; the bounds are literals, the same in each loop.  *)
DefinitionTexts ==
    At({4}, Cstr(64)) ++ At({6, 9}, Cstr(7)) ++ At({7}, Cstr(5)) ++ At({8}, Cstr(11))
    ++ At({10, 11, 15}, Cstr(4)) ++ At({12}, Cstr(6)) ++ At({13, 14}, Cstr(21)) ++ At({16}, Cstr(31))
    ++ At({5, 46, 51, 55}, Char)
(* The 9 prices, the two dates, and raw_instrument_id, which later grew.       *)
DefinitionPrices ==
    At({17, 18}, TsOpt) ++ At(19..27, Px) ++ At({28}, Value("uint64_t"))
DefinitionNumbers ==
    At({0, 1}, Value("int64_t")) ++ At({2, 29, 33, 34, 38}, Value("uint32_t"))
    ++ At({30, 31, 32, 35, 36, 37, 39, 40, 41}, Value("int32_t")) ++ At({42}, Value("int16_t"))
    ++ At({3} \cup 43..45, Value("uint16_t")) ++ At(47..50 \cup 52..54 \cup {58}, Value("uint8_t"))
    ++ At({56, 57}, Value("int8_t"))
DefinitionCommon == DefinitionTexts ++ DefinitionPrices ++ DefinitionNumbers

(* version >= 3: InstrumentDefMsg.                                             *)
DefinitionV3 ==
    DefinitionCommon
    ++ At({59, 60}, Value("uint16_t")) ++ At({61, 71}, Value("uint32_t")) ++ At({62}, Cstr(64))
    ++ At({63, 64}, Char) ++ At({65, 66}, Px) ++ At(67..70, Value("int32_t")) ++ At(72..75, Null)

(* A slip: the cases of the fields version 3 added are missing.                *)
DefinitionV2WithoutLegs ==
    DefinitionCommon ++ At({72}, Px) ++ At({73}, Value("uint16_t")) ++ At({74, 75}, Value("uint8_t"))

(* version == 2: v2::InstrumentDefMsg.                                         *)
DefinitionV2 ==
    DefinitionCommon ++ At({72}, Px) ++ At({73}, Value("uint16_t"))
    ++ At({74, 75}, Value("uint8_t")) ++ At(59..71, Null)

(* A slip: a 16-bit date written as a 32-bit one.                              *)
DefinitionV1Wide ==
    DefinitionCommon ++ At({72}, Px) ++ At({73}, Value("uint32_t"))
    ++ At({74, 75}, Value("uint8_t")) ++ At(59..71, Null)

(* Otherwise: v1::InstrumentDefMsg.                                            *)
DefinitionV1 ==
    DefinitionCommon ++ At({72}, Px) ++ At({73}, Value("uint16_t"))
    ++ At({74, 75}, Value("uint8_t")) ++ At(59..71, Null)

-----------------------------------------------------------------------------
SymbolMappingTypes ==
    <<TS, U32, U16, TEXT, TEXT, TEXT, TEXT, TS, TS>>
SymbolMappingHeader ==
    At({0, 7, 8}, Value("int64_t")) ++ At({1}, Value("uint32_t")) ++ At({2}, Value("uint16_t"))
SymbolMappingWriters == SymbolMappingHeader ++ At({3, 5}, Code) ++ At({4, 6}, Cstr(71))
SymbolMappingV1 == SymbolMappingHeader ++ At({3, 5}, Null) ++ At({4, 6}, Cstr(22))

SystemTypes ==
    <<TS, U32, U16, TEXT, TEXT>>
SystemHeader ==
    At({0}, Value("int64_t")) ++ At({1}, Value("uint32_t")) ++ At({2}, Value("uint16_t"))
SystemWriters == SystemHeader ++ At({3}, Cstr(303)) ++ At({4}, Code)
SystemV1 == SystemHeader ++ At({3}, Cstr(64)) ++ At({4}, Null)

(* body is the whole record, header included.                                  *)
DbnRecordsTypes ==
    <<TS, U8, U8, U16, U32, "BLOB">>
DbnRecordsWriters ==
    At({0}, Value("int64_t")) ++ At({1, 2}, Value("uint8_t")) ++ At({3}, Value("uint16_t"))
    ++ At({4}, Value("uint32_t")) ++ At({5}, Value("string_t"))

ColumnsOf ==
    [trades |-> Table(Trades, TradesTypes, Every(TradesWriters)),
     mbo |-> Table(Mbo, MboTypes, Every(MboWriters)),
     mbp1 |-> Table(Mbp1, Mbp1Types, Every(Mbp1Writers)),
     mbp10 |-> Table(Mbp10, Mbp10Types, Every(Mbp10Writers)),
     bbo |-> Table(Bbo, BboTypes, Every(BboWriters)),
     cbbo |-> Table(Cbbo, CbboTypes, Every(CbboWriters)),
     cmbp1 |-> Table(Cmbp1, Cmbp1Types, Every(Cmbp1Writers)),
     ohlcv |-> Table(Ohlcv, OhlcvTypes, Every(OhlcvWriters)),
     status |-> Table(Status, StatusTypes, Every(StatusWriters)),
     imbalance |-> Table(Imbalance, ImbalanceTypes, Every(ImbalanceWriters)),
     statistics |-> Table(Statistics, StatisticsTypes, Every(StatisticsWriters)),
     definition |-> Table(Definition, DefinitionTypes, <<DefinitionV1, DefinitionV2, DefinitionV3>>),
     symbol_mapping |-> Table(SymbolMapping, SymbolMappingTypes,
                              <<SymbolMappingV1, SymbolMappingWriters, SymbolMappingWriters>>),
     system |-> Table(System, SystemTypes, <<SystemV1, SystemWriters, SystemWriters>>),
     dbn_records |-> Table(Records, DbnRecordsTypes, Every(DbnRecordsWriters))]

-----------------------------------------------------------------------------
(* The structs.  A name stands for the field; those every version has are not   *)
(* listed.                                                                     *)
Deprecated ==
    {"trading_reference_price", "trading_reference_date", "md_security_trading_status",
     "settl_price_type"}
Legs == {DefinitionLegs[i] : i \in DOMAIN DefinitionLegs}
LacksV3(name) == name \in Deprecated
LacksV2(name) == name \in Legs
LacksV1(name) == name \in Legs \cup {"stype_in", "stype_out", "code"}

Lacks(version, name) ==
    CASE version = 3 -> LacksV3(name) [] version = 2 -> LacksV2(name) [] version = 1 -> LacksV1(name)

(* The sizes of the character arrays.                                          *)
SymbolCstrLen(version) == IF version = 1 THEN 22 ELSE 71
AssetCstrLen(version) == IF version = 3 THEN 11 ELSE 7

Width(version, name) ==
    CASE name \in {"raw_symbol", "leg_raw_symbol", "stype_in_symbol", "stype_out_symbol"} ->
            SymbolCstrLen(version)
      [] name = "asset" -> AssetCstrLen(version)
      [] name \in {"currency", "settl_currency", "strike_price_currency"} -> 4
      [] name = "exchange" -> 5 [] name = "secsubtype" -> 6
      [] name \in {"cfi", "security_type"} -> 7 [] name \in {"group", "underlying"} -> 21
      [] name = "unit_of_measure" -> 31
      [] name = "msg" -> IF version = 1 THEN 64 ELSE 303

=============================================================================
