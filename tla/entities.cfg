SPECIFICATION Spec
CONSTANTS
    EID = {1}
    Types <- MCTypes
    Rendered <- MCRendered
    Fine = 3
    Jump = 3
    Limit = 4
    SyncEvery = 4
    Extent = 20
    None = None
INVARIANTS NoGhosts SeenWhereItIs MetaFitsEntity
PROPERTY SmoothApproaches
