SPECIFICATION Spec
CONSTANTS
    ClientVersions = {770, 772, 773, 774, 775, 776, 777}
    Items = 3
    Rare = {}
    Packs <- MCPacks
    Reloads <- MCReloads
    RecipeBooks <- MCRecipes
INVARIANTS PacketsArrive ContentRight ReadBack TagsRight RegistriesRight StationsAgree
