SPECIFICATION FairSpec
CONSTANTS
    Registries = {r1, r2}
    TagSets = {builtin, t1}
    BuiltinTags = builtin
    NoConfig = NoConfig
    Contract = TRUE
    Prompt = TRUE
    ResourcePack = TRUE
    PackRequired = FALSE
    SockBuf = 3
    MaxStarts = 2
    MaxFrames = 2
    MaxTicks = 2
INVARIANTS HonestSurvive ComposedFromClientConfig
PROPERTIES KeepsPromise Completes
