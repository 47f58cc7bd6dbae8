SPECIFICATION Spec
CONSTANTS
    MaxSIDs = 4
    MaxInt = 3
    Versions = {0, 1}
    Cols = {0, 2, 3}
    Rows = {0, 1}
    Sizes = {0, 1, 2}
    MaxRegions = 3
    Radius = 1
    Counters = {0, 1, 2, 3}
INVARIANTS OneWriter NeighboursExact OneTopology
PROPERTY OwnersKept
