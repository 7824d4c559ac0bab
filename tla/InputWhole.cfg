\* Intact and damaged files, blocks larger and smaller than what is asked for.
CONSTANTS
    MaxSize = 4
    BlockBytes = 3
    PlainSize = 5
    InBufSize = 2
    Requests = {1, 2, 4}
    Files <- WholeFiles

SPECIFICATION Spec
INVARIANTS
    TypeOK
PROPERTY ImplementsByteSource
