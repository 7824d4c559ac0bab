SPECIFICATION Spec
CONSTANTS
    VectorSize = 2
    MaxMapped = 5
    MaxFiltered = 4
    MaxOdd = 3
    Ids <- MCIds
    Symbols <- MCSymbols
    Streams <- MCStreams
    Queries <- MCQueries
INVARIANTS
    TypeOK
    SnapshotIsCurrent
    ChunkInOrder
    DeliveredIsWanted
    EmptyOnlyAtEnd
PROPERTIES
    PoolIsStable
    ChunkAdvances
    ChunkReturns
    ImplementsScanResult
