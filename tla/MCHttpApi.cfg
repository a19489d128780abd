SPECIFICATION Spec
CONSTANTS
    BufferSize = 4
    Sizes = {0, 2, 3, 4, 5}
    MaxHandles = 3
INVARIANTS
    TypeOK
    NotTruncated
    CutAnswersFail
    HandlesAccounted
