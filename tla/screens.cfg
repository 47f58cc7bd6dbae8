SPECIFICATION Spec
CONSTANTS
    Clients = {772, 775, 776, 777}
    Topics = {"tab", "bar", "effect", "title", "scores", "team", "map", "waypoint", "spawn",
              "border", "time", "abilities", "book", "ghost", "advancements", "menu",
              "keys", "hands", "blocks", "clicks", "words", "asks", "moves"}
    Pending = 2
    Grown = 4
    None = None
INVARIANTS Readable TreeIndexed WindowAgrees
PROPERTY Mirrors
