SPECIFICATION Spec
CONSTANTS
    Registries = {r1, r2}
    TagSets = {builtin}
    BuiltinTags = builtin
    NoConfig = NoConfig
    Contract = FALSE
    Prompt = FALSE
    ResourcePack = TRUE
    PackRequired = TRUE
    SockBuf = 3
    MaxStarts = 2
    MaxFrames = 2
    MaxTicks = 1
INVARIANTS PlayGate BothFollow ConfigWritesAlone
SYMMETRY RegistrySymmetry
