SPECIFICATION FairSpec
CONSTANTS
    MaxRehomes = 2
    MaxPings = 1
    MaxMoves = 1
    MaxSessions = 2
    None = None
INVARIANTS WritesArrive PodKnowsSession
PROPERTY HandoversEnd
