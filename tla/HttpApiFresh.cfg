\* An answer without a body after one that had one.
SPECIFICATION Spec
CONSTANTS
    BufferSize = 4
    Sizes = {0, 2, 3, 4, 5}
    MaxHandles = 3
INVARIANT
    FreshAnswer
