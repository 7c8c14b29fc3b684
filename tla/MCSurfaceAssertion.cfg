CONSTANTS
    MaxBlock = 4
    Sizes = {"small", "large"}
SPECIFICATION SurfaceSpec
INVARIANTS SurfaceIsClean
