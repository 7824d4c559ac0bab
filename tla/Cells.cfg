SPECIFICATION Spec
CONSTANTS
    Scans <- AllScans
    VectorSize = 2
    MaxRecords = 3
INVARIANTS
    TypeOK
    WrittenAsDeclared
    CellsAsPromised
