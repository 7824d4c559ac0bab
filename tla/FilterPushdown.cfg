SPECIFICATION Spec
CONSTANTS
    Kinds = {"comparison", "boundary", "unequal", "in", "not_null", "and", "or", "optional"}
    Lowest <- MCLowest
    Highest <- MCHighest
    Filters <- MCFilters
    Pushdowns <- MCPushdowns
    Rows <- MCRows
INVARIANTS
    TypeOK
    NoRowLost
    SupportedRowSet
