SPECIFICATION ViewSpec
CONSTANTS
    Chunks = {1, 2, 3}
    Dims = {0, 7}
    Radii = {5, 6}
    None = None
INVARIANT ViewAgrees
