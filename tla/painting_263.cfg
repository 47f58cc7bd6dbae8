SPECIFICATION Spec
CONSTANTS
    ClientVersions = {777}
    Items = 2
    Rare = {"painting"}
INVARIANT MetaRight
