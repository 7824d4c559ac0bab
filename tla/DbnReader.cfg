SPECIFICATION Spec
CONSTANTS
    HeaderLen = 2
    LengthMultiplier = 1
    MaxRecordLen = 4
    TrailerLen = 1
    PreludeLen = 2
    FixedMetadataLen = 1
    ReadBufSize = 4
    MaxRecords = 4
    Lengths = {1, 2, 3, 4, 5}
    Tails = {0, 1, 2}
    Damages = {FALSE, TRUE}
    Inputs <- MCInputs
INVARIANTS
    TypeOK
    BufferHoldsInputTail
    ViewIsOneRecord
    MetadataOfEveryFile
PROPERTIES
    EndIsFinal
    DamageIsNear
    CallAdvances
    CallReturns
    ImplementsRecordStream
