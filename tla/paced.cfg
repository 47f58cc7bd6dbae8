SPECIFICATION FairSpec
CONSTANTS
    Dims = {0, 1}
    Columns = {c1, c2}
    QueueCap = 2
    SockBuf = 2
    MaxUnacked = 1
    MaxDesired = 3
    MaxBudget = 2
    MaxChunks = 3
    Scenarios <- MCScenarios
    None = None
INVARIANTS PacedInOrder OneStray SyncedOnGround
PROPERTY NothingStalls
