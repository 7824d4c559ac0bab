SPECIFICATION Spec
CONSTANTS
    Some = {"trades", "mbo", "mbp1", "mbp10", "tbbo", "bbo_1s", "bbo_1m", "cbbo_1s", "cbbo_1m", "cmbp1", "tcbbo", "ohlcv_1s", "ohlcv_1m", "ohlcv_1h", "ohlcv_1d", "ohlcv_eod", "status", "imbalance", "statistics", "definition"}
    Paired = {"statistics", "definition", "trades"}
    Called = {"symbol_mapping", "system", "dbn_records"}
    MaxReplacements = 1
    Disks <- MCDisks
    Replacements <- MCReplacements
    Functions <- MCFunctions
INVARIANTS
    LayoutNamesHeader
    SlotsFit
    EveryRecordOfTheSchema
    RowsFitTheirStruct
    ConformingCaptureIsRead
