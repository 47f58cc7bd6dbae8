SPECIFICATION Spec
CONSTANTS
    Conns = {c1, c2}
    Modes <- MCModes
    ConnTimeout = 2
    AuthTimeout = 1
    CheckTimeout = 1
    QueryTimeout = 1
    AccessTTL = 2
    StatusTTL = 1
    None = None
INVARIANTS LoginRight CachesDated
PROPERTIES NothingStale ExchangesEnd
