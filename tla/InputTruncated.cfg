\* Files cut off inside a frame.
CONSTANTS
    MaxSize = 4
    BlockBytes = 3
    PlainSize = 5
    InBufSize = 2
    Requests = {1, 2, 4}
    Files <- CutFiles

SPECIFICATION Spec
INVARIANT ShortMeansEnd
