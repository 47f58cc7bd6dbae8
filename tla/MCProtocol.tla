----------------------------- MODULE MCProtocol -----------------------------
(***************************************************************************)
(* Protocol for TLC.  Worlds without a data pack, with the default         *)
(* dimension table, and with packs of their own: ids with and without a    *)
(* namespace, entries that replace a built-in one, that are new, that are  *)
(* not JSON.                                                               *)
(***************************************************************************)
EXTENDS Protocol, Pack

Moon == Id("pack", "moon")
Vanilla3 == << DimensionInfo(0, MC("overworld"), MC("overworld"), "none", MC("overworld")),
               DimensionInfo(1, MC("the_nether"), NoTag, "none", NoClock) >>
Shiny == TagSet(Bare("block"), Id("pack", "shiny"), <<Bare("stone"), Bare("nope")>>)
Planks == TagSet(Bare("item"), Bare("planks"),
                 <<Bare("poplar_planks"), Bare("birch_planks"), Bare("stone")>>)
Feature == TagSet(Bare("worldgen/feature"), Bare("pack_features"), << >>)

Rules == TagSet(Bare("dialog"), Bare("pause_screen_additions"), <<Id("pack", "rules")>>)

MoonPack == ConfigData(
    << DimensionInfo(1, MC("the_nether"), MC("the_nether"), "none", NoClock),
       DimensionInfo(3, Moon, NoTag, "json", Moon),
       DimensionInfo(0, MC("overworld"), MC("overworld"), "none", MC("overworld")) >>,
    << RegistryEntries(Bare("dialog"), << RegistryEntry(Id("pack", "rules"), "json"),
                                          RegistryEntry(MC("quick_actions"), "json") >>),
       RegistryEntries(Bare("painting_variant"),
                       << RegistryEntry(Id("pack", "sunset"), "bad") >>) >>,
    << Rules, Feature, TagSet(Bare("painting_variant"), Bare("placeable"),
                              <<Id("pack", "sunset"), Bare("kebab")>>) >>)
TypesPack == ConfigData(
    Vanilla3,
    << RegistryEntries(Id("pack", "things"), << RegistryEntry(Id("pack", "a"), "none") >>),
       RegistryEntries(Bare("damage_type"), << RegistryEntry(Id("pack", "curse"), "json"),
                                               RegistryEntry(Bare("in_fire"), "json") >>) >>,
    << TagSet(Id("pack", "things"), Id("pack", "all"), <<Id("pack", "a")>>),
       TagSet(Bare("damage_type"), Bare("is_fire"), <<Id("pack", "curse"), Bare("in_fire")>>) >>)
MCPacks == {NoConfig, MoonPack, TypesPack}
MCReloads == {<< >>, << Shiny, Planks, Rules >>}

PackRows == << Row({"poplar_planks"}, NoTag, "poplar_slab"),
                    Row({}, MC("planks"), "stone_slab"),
                    Row({"poplar_planks", "sulfur"}, NoTag, "stone_bricks") >>
MCRecipes == {NoRecipes, Book({"poplar_planks", "stone"}, PackRows),
              Book(NoSlot, PackRows)}
=============================================================================
