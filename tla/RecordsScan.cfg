SPECIFICATION Spec
CONSTANTS
    VectorSize = 2
    MaxLength = 5
    Ids = {1}
    Symbols = {"a"}
    Streams <- RowStreams
    Queries <- RecordQueries
INVARIANTS
    TypeOK
    ChunkInOrder
PROPERTIES
    ChunkReturns
    ChunkAdvances
    ImplementsScanResult
