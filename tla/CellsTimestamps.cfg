SPECIFICATION Spec
CONSTANTS
    Scans = {"symbol_mapping"}
    VectorSize = 2
    MaxRecords = 2
INVARIANTS
    UndefinedTimestampIsNull
