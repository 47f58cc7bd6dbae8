-------------------------------- MODULE Pack --------------------------------
(***************************************************************************)
(* The frames in which a world gives the gateway its data pack: dimensions,*)
(* registry entries, tags, recipes (attach/configure.go, attach/recipes.go).*)
(***************************************************************************)

\* Identifiers; the world may leave the namespace out.
Id(ns, name) == [ns |-> ns, name |-> name]
MC(name) == Id("minecraft", name)
Bare(name) == Id("", name)

NoTag == MC("")
NoClock == MC("")

\* A dimension: its number, key and type; data: the type's own body, if any.
DimensionInfo(num, key, type, data, clock) ==
    [id |-> num, key |-> key, type |-> type, data |-> data, clock |-> clock]

\* data: "json", "bad" when it is not, "none" when there is none.
RegistryEntry(name, data) == [name |-> name, data |-> data]
RegistryEntries(registry, entries) == [registry |-> registry, entries |-> entries]
TagSet(registry, name, entries) == [registry |-> registry, name |-> name, entries |-> entries]

ConfigData(dimensions, registries, tags) ==
    [dimensions |-> dimensions, registries |-> registries, tags |-> tags]
NoConfig == ConfigData(<< >>, << >>, << >>)

\* A stonecutter recipe takes items, or those of a tag; NoRecipes is a nil book.
Row(items, tag, result) == [items |-> items, tag |-> tag, result |-> result]
Book(slot, rows) == [slot |-> slot, rows |-> rows]
NoSlot == {"no items"}
NoRows == << Row({}, NoTag, "no rows") >>
NoRecipes == Book(NoSlot, NoRows)
=============================================================================
