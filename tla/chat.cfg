SPECIFICATION Spec
CONSTANTS
    Count = 2
    CacheSize = 2
    MaxPending = 7
    AckAfter = 1
    Online = TRUE
    Times = {"due"}
    MaxMessages = 2
    MaxChats = 2
    MaxSids = 2
    MaxJoins = 2
    MaxTrees = 1
    InFlight = 2
    Null = Null
INVARIANTS NeverKicked MirrorsAgree SignedInOrder
