CONSTANTS
    Blocks = {b1, b2, b3, b4}
    Word = 20
    SpaceBegin = 4
    SpaceSize = 9
    Skip = 1
    MaxSize = 3
    KernelFails = TRUE
SPECIFICATION Spec
SYMMETRY BlockSymmetry
CHECK_DEADLOCK FALSE
INVARIANT MappingsSound
PROPERTY ImplementsRanges
