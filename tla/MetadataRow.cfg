SPECIFICATION Spec
CONSTANTS
    Files <- AllFiles
    Frames = {40, 100, 110}
    Cuts = {7, 60, 200}
INVARIANTS
    TypeOK
    RowIsTheBlock
    SchemaIsTold
PROPERTIES
    Answers
