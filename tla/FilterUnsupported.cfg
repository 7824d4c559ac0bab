SPECIFICATION Spec
CONSTANTS
    Kinds = {"comparison", "unequal"}
    Lowest <- MCLowest
    Highest <- MCHighest
    Filters <- MCFilters
    Pushdowns <- MCPushdowns
    Rows <- MCRows
INVARIANTS
    RowSetMatchesPredicate
