SPECIFICATION Spec
CONSTANTS
    Kinds = {"comparison", "boundary"}
    Lowest <- MCLowest
    Highest <- MCHighest
    Filters <- MCFilters
    Pushdowns <- MCPushdowns
    Rows <- MCRows
INVARIANTS
    RowSetMatchesPredicate
