------------------------------ MODULE Readers ------------------------------
(* The table functions of the extension, as data: what each bind declares and  *)
(* what each scan asks of the record reader.  A reader is a record            *)
(*   names   the columns, in order: the logical column id is the index less 1  *)
(*   layout  where the header fields are among them                           *)
(*   slots   the capacity of the scan's pointer arrays (one entry for each      *)
(*           projected column), or NoArrays where it keeps none               *)
(*   struct  the size of the struct the scan decodes into, by DBN version      *)
(* Columns has the types of the columns and how their cells are written.       *)
EXTENDS Integers, Sequences

Versions == 1..3
NoArrays == 0
NoRType == "none"
AnyRType == "any"

Layout(tsEvent, instrument, publisher) ==
    [ts_event |-> tsEvent, instrument_id |-> instrument, publisher_id |-> publisher]

HeaderLayoutStandard == Layout(0, 2, 3)
HeaderLayoutOhlcv == Layout(0, 1, 2)
HeaderLayoutRecords == Layout(0, 4, 3)
HeaderLayoutStatistics == Layout(0, 3, 4)

Reader(names, layout, slots, struct) ==
    [names |-> names, layout |-> layout, slots |-> slots, struct |-> struct]

(* One struct for every version of the encoding.                              *)
Always(size) == [v \in Versions |-> size]

Header == <<"ts_event", "ts_recv", "instrument_id", "publisher_id">>
Quote == <<"bid_price", "ask_price", "bid_size", "ask_size">>
TradeColumns ==
    Header \o <<"price", "size", "action", "side", "flags", "depth", "ts_in_delta", "sequence">>

Trades == Reader(TradeColumns, HeaderLayoutStandard, 16, Always(48))

Mbo ==
    Reader(Header \o <<"order_id", "price", "size", "flags", "channel_id", "action", "side",
                       "ts_in_delta", "sequence">>,
           HeaderLayoutStandard, 16, Always(56))

Mbp1 ==
    Reader(Header \o Quote \o <<"bid_ct", "ask_ct", "flags", "ts_in_delta", "sequence",
                                "action", "side">>,
           HeaderLayoutStandard, 16, Always(80))

(* Ten levels of six columns.                                                 *)
LevelColumns ==
    <<"bid_px_00", "ask_px_00", "bid_sz_00", "ask_sz_00", "bid_ct_00", "ask_ct_00",
      "bid_px_01", "ask_px_01", "bid_sz_01", "ask_sz_01", "bid_ct_01", "ask_ct_01",
      "bid_px_02", "ask_px_02", "bid_sz_02", "ask_sz_02", "bid_ct_02", "ask_ct_02",
      "bid_px_03", "ask_px_03", "bid_sz_03", "ask_sz_03", "bid_ct_03", "ask_ct_03",
      "bid_px_04", "ask_px_04", "bid_sz_04", "ask_sz_04", "bid_ct_04", "ask_ct_04",
      "bid_px_05", "ask_px_05", "bid_sz_05", "ask_sz_05", "bid_ct_05", "ask_ct_05",
      "bid_px_06", "ask_px_06", "bid_sz_06", "ask_sz_06", "bid_ct_06", "ask_ct_06",
      "bid_px_07", "ask_px_07", "bid_sz_07", "ask_sz_07", "bid_ct_07", "ask_ct_07",
      "bid_px_08", "ask_px_08", "bid_sz_08", "ask_sz_08", "bid_ct_08", "ask_ct_08",
      "bid_px_09", "ask_px_09", "bid_sz_09", "ask_sz_09", "bid_ct_09", "ask_ct_09">>

(* A slip: the arrays have no room for the symbol column.                      *)
Mbp10WithoutHeadroom ==
    Reader(TradeColumns \o LevelColumns, HeaderLayoutStandard, 72, Always(368))

Mbp10 == Reader(TradeColumns \o LevelColumns, HeaderLayoutStandard, 73, Always(368))

Bbo ==
    Reader(Header \o <<"price", "size", "side", "flags">> \o Quote
                  \o <<"bid_ct", "ask_ct", "sequence">>,
           HeaderLayoutStandard, 16, Always(80))

Cbbo ==
    Reader(Header \o <<"price", "size", "side", "flags">> \o Quote \o <<"bid_pb", "ask_pb">>,
           HeaderLayoutStandard, 16, Always(80))

Cmbp1 ==
    Reader(Header \o <<"price", "size", "action", "side", "flags", "ts_in_delta">> \o Quote
                  \o <<"bid_pb", "ask_pb">>,
           HeaderLayoutStandard, 17, Always(80))

Ohlcv ==
    Reader(<<"ts_event", "instrument_id", "publisher_id", "open", "high", "low", "close", "volume">>,
           HeaderLayoutOhlcv, 16, Always(56))

Status ==
    Reader(Header \o <<"action", "reason", "trading_event", "is_trading", "is_quoting",
                       "is_short_sell_restricted">>,
           HeaderLayoutStandard, 16, Always(40))

Imbalance ==
    Reader(Header \o <<"ref_price", "auction_time", "cont_book_clr_price", "auct_interest_clr_price",
                       "ssr_filling_price", "ind_match_price", "upper_collar", "lower_collar",
                       "paired_qty", "total_imbalance_qty", "market_imbalance_qty", "unpaired_qty",
                       "auction_type", "side", "auction_status", "freeze_status", "num_extensions",
                       "unpaired_side", "significant_imbalance">>,
           HeaderLayoutStandard, 32, Always(112))

StatisticsColumns ==
    <<"ts_event", "ts_recv", "ts_ref", "instrument_id", "publisher_id", "price", "quantity",
      "sequence", "ts_in_delta", "stat_type", "channel_id", "update_action", "stat_flags">>

(* A slip: only version 1 is read as v1::StatMsg.                              *)
StatisticsV1Only ==
    Reader(StatisticsColumns, HeaderLayoutStatistics, 16,
           [v \in Versions |-> IF v = 1 THEN 64 ELSE 80])

(* v1::StatMsg for versions 1 and 2.                                          *)
Statistics ==
    Reader(StatisticsColumns, HeaderLayoutStatistics, 16,
           [v \in Versions |-> IF v \in {1, 2} THEN 64 ELSE 80])

DefinitionLegs ==
    <<"leg_count", "leg_index", "leg_instrument_id", "leg_raw_symbol",
      "leg_instrument_class", "leg_side", "leg_price", "leg_delta",
      "leg_ratio_price_numerator", "leg_ratio_price_denominator",
      "leg_ratio_qty_numerator", "leg_ratio_qty_denominator",
      "leg_underlying_id">>

DefinitionColumns ==
    Header \o
    <<"raw_symbol", "instrument_class", "security_type", "exchange", "asset",
      "cfi", "currency", "settl_currency", "secsubtype", "group",
      "underlying", "strike_price_currency", "unit_of_measure", "expiration",
      "activation", "min_price_increment", "display_factor",
      "high_limit_price", "low_limit_price", "max_price_variation",
      "strike_price", "unit_of_measure_qty", "min_price_increment_amount",
      "price_ratio", "raw_instrument_id", "underlying_id",
      "inst_attrib_value", "market_depth_implied", "market_depth",
      "market_segment_id", "max_trade_vol", "min_lot_size",
      "min_lot_size_block", "min_lot_size_round_lot", "min_trade_vol",
      "contract_multiplier", "decay_quantity", "original_contract_size",
      "appl_id", "maturity_year", "decay_start_date", "channel_id",
      "match_algorithm", "main_fraction", "price_display_format",
      "sub_fraction", "underlying_product", "security_update_action",
      "maturity_month", "maturity_day", "maturity_week",
      "user_defined_instrument", "contract_multiplier_unit",
      "flow_schedule_type", "tick_rule">>
    \o DefinitionLegs \o
    <<"trading_reference_price", "trading_reference_date", "md_security_trading_status",
      "settl_price_type">>

Definition ==
    Reader(DefinitionColumns, HeaderLayoutStandard, NoArrays,
           [v \in Versions |-> IF v >= 3 THEN 520 ELSE IF v = 2 THEN 400 ELSE 360])

SymbolMapping ==
    Reader(<<"ts_event", "instrument_id", "publisher_id", "stype_in", "stype_in_symbol",
             "stype_out", "stype_out_symbol", "start_ts", "end_ts">>,
           HeaderLayoutOhlcv, 16, [v \in Versions |-> IF v >= 2 THEN 176 ELSE 80])

System ==
    Reader(<<"ts_event", "instrument_id", "publisher_id", "msg", "code">>,
           HeaderLayoutOhlcv, 16, [v \in Versions |-> IF v >= 2 THEN 320 ELSE 80])

(* dbn_records takes a record of any type and size.                            *)
Records ==
    Reader(<<"ts_event", "rtype", "length", "publisher_id", "instrument_id", "body">>,
           HeaderLayoutRecords, 8, Always(0))

-----------------------------------------------------------------------------
(* LookupSchemaHandler: the bind and the rtype of the scan for each schema.    *)
Handler(reader, rtype) == [reader |-> reader, rtype |-> rtype]

(* A slip: the scan of the neighbouring case.                                  *)
LookupSchemaHandlerSlip(s) ==
    CASE s \in {"cbbo_1s", "cbbo_1m"} -> Handler(Cbbo, "Cbbo1S")
      [] s = "mbo"                    -> Handler(Mbo, "Mbo")
      [] s = "statistics"             -> Handler(Statistics, "Statistics")
      [] OTHER                        -> Handler(Trades, "Mbp0")

LookupSchemaHandler(s) ==
    CASE s = "trades"     -> Handler(Trades, "Mbp0")
      [] s = "mbo"        -> Handler(Mbo, "Mbo")
      [] s = "mbp1"       -> Handler(Mbp1, "Mbp1")
      [] s = "mbp10"      -> Handler(Mbp10, "Mbp10")
      [] s = "tbbo"       -> Handler(Mbp1, "Mbp1")
      [] s = "bbo_1s"     -> Handler(Bbo, "Bbo1S")
      [] s = "bbo_1m"     -> Handler(Bbo, "Bbo1M")
      [] s = "cbbo_1s"    -> Handler(Cbbo, "Cbbo1S")
      [] s = "cbbo_1m"    -> Handler(Cbbo, "Cbbo1M")
      [] s = "cmbp1"      -> Handler(Cmbp1, "Cmbp1")
      [] s = "tcbbo"      -> Handler(Cmbp1, "Tcbbo")
      [] s = "ohlcv_1s"   -> Handler(Ohlcv, "Ohlcv1S")
      [] s = "ohlcv_1m"   -> Handler(Ohlcv, "Ohlcv1M")
      [] s = "ohlcv_1h"   -> Handler(Ohlcv, "Ohlcv1H")
      [] s = "ohlcv_1d"   -> Handler(Ohlcv, "Ohlcv1D")
      [] s = "ohlcv_eod"  -> Handler(Ohlcv, "OhlcvEod")
      [] s = "status"     -> Handler(Status, "Status")
      [] s = "imbalance"  -> Handler(Imbalance, "Imbalance")
      [] s = "statistics" -> Handler(Statistics, "Statistics")
      [] s = "definition" -> Handler(Definition, "InstrumentDef")
      [] OTHER            -> Handler(Trades, NoRType)

Schemas ==
    {"trades", "mbo", "mbp1", "mbp10", "tbbo", "bbo_1s", "bbo_1m", "cbbo_1s", "cbbo_1m", "cmbp1",
     "tcbbo", "ohlcv_1s", "ohlcv_1m", "ohlcv_1h", "ohlcv_1d", "ohlcv_eod", "status", "imbalance",
     "statistics", "definition"}

(* The functions LoadInternal registers, each with the bind and the rtype of   *)
(* the scan it names; read_dbn has its own bind.                               *)
Registered(name) ==
    CASE name = "trades"         -> Handler(Trades, "Mbp0")
      [] name = "mbo"            -> Handler(Mbo, "Mbo")
      [] name \in {"mbp1", "tbbo"} -> Handler(Mbp1, "Mbp1")
      [] name = "mbp10"          -> Handler(Mbp10, "Mbp10")
      [] name = "bbo_1s"         -> Handler(Bbo, "Bbo1S")
      [] name = "bbo_1m"         -> Handler(Bbo, "Bbo1M")
      [] name = "cbbo_1s"        -> Handler(Cbbo, "Cbbo1S")
      [] name = "cbbo_1m"        -> Handler(Cbbo, "Cbbo1M")
      [] name = "cmbp1"          -> Handler(Cmbp1, "Cmbp1")
      [] name = "tcbbo"          -> Handler(Cmbp1, "Tcbbo")
      [] name = "ohlcv_1s"       -> Handler(Ohlcv, "Ohlcv1S")
      [] name = "ohlcv_1m"       -> Handler(Ohlcv, "Ohlcv1M")
      [] name = "ohlcv_1h"       -> Handler(Ohlcv, "Ohlcv1H")
      [] name = "ohlcv_1d"       -> Handler(Ohlcv, "Ohlcv1D")
      [] name = "ohlcv_eod"      -> Handler(Ohlcv, "OhlcvEod")
      [] name = "status"         -> Handler(Status, "Status")
      [] name = "imbalance"      -> Handler(Imbalance, "Imbalance")
      [] name = "statistics"     -> Handler(Statistics, "Statistics")
      [] name = "definition"     -> Handler(Definition, "InstrumentDef")
      [] name = "symbol_mapping" -> Handler(SymbolMapping, "SymbolMapping")
      [] name = "system"         -> Handler(System, "System")
      [] name = "dbn_records"    -> Handler(Records, AnyRType)

(* RegisterWithSymbols, and read_dbn.                                          *)
TakesSymbols(name) == name = "read_dbn" \/ name \in Schemas

-----------------------------------------------------------------------------
(* What a DBN capture holds: the record type of a schema, and the size of a    *)
(* record by type and version, from the structs of src/src/include/databento.  *)
RTypeOf(s) ==
    CASE s = "trades" -> "Mbp0" [] s = "mbo" -> "Mbo" [] s \in {"mbp1", "tbbo"} -> "Mbp1"
      [] s = "mbp10" -> "Mbp10" [] s = "bbo_1s" -> "Bbo1S" [] s = "bbo_1m" -> "Bbo1M"
      [] s = "cbbo_1s" -> "Cbbo1S" [] s = "cbbo_1m" -> "Cbbo1M" [] s = "cmbp1" -> "Cmbp1"
      [] s = "tcbbo" -> "Tcbbo" [] s = "ohlcv_1s" -> "Ohlcv1S" [] s = "ohlcv_1m" -> "Ohlcv1M"
      [] s = "ohlcv_1h" -> "Ohlcv1H" [] s = "ohlcv_1d" -> "Ohlcv1D" [] s = "ohlcv_eod" -> "OhlcvEod"
      [] s = "status" -> "Status" [] s = "imbalance" -> "Imbalance"
      [] s = "statistics" -> "Statistics" [] s = "definition" -> "InstrumentDef"

CurrentSize(rtype) ==
    CASE rtype = "Mbp0" -> 48 [] rtype \in {"Mbo"} -> 56 [] rtype = "Mbp10" -> 368
      [] rtype \in {"Mbp1", "Bbo1S", "Bbo1M", "Cbbo1S", "Cbbo1M", "Cmbp1", "Tcbbo"} -> 80
      [] rtype \in {"Ohlcv1S", "Ohlcv1M", "Ohlcv1H", "Ohlcv1D", "OhlcvEod"} -> 56
      [] rtype = "Status" -> 40 [] rtype = "Imbalance" -> 112 [] rtype = "Statistics" -> 80
      [] rtype = "InstrumentDef" -> 520 [] rtype = "SymbolMapping" -> 176 [] rtype = "System" -> 320

V1Size(rtype) ==
    CASE rtype = "InstrumentDef" -> 360 [] rtype = "Statistics" -> 64
      [] rtype \in {"SymbolMapping", "System"} -> 80 [] OTHER -> CurrentSize(rtype)

V2Size(rtype) ==
    CASE rtype = "InstrumentDef" -> 400 [] rtype = "Statistics" -> V1Size("Statistics")
      [] OTHER -> CurrentSize(rtype)

WireSize(rtype, v) == IF v = 1 THEN V1Size(rtype) ELSE IF v = 2 THEN V2Size(rtype) ELSE CurrentSize(rtype)

=============================================================================
