----------------------------- MODULE DataPacks -----------------------------
(***************************************************************************)
(* What a world's data pack makes of a client's registries, tags and       *)
(* recipes.  Registry ids are positions: configuration declares each       *)
(* dynamic registry as a list of names (configpackets.go, configextra.go,  *)
(* gwsession/configextra.go), and from then on the gateway names entries   *)
(* by their place in it (tags, dialogs, dimension types, biomes, damage    *)
(* types), each with an index of its own making.  The tag bodies are       *)
(* cached per version and shared by every session of the process.          *)
(*                                                                         *)
(* The generated tables are samples of their rows.  An item is the name of *)
(* what the client shows for it: module Registry has the ids.              *)
(***************************************************************************)
EXTENDS Pack, Integers, Sequences, FiniteSets, SequencesExt

CONSTANTS
    ClientVersions,  \* protocol versions of the clients
    Packs,           \* attach.ConfigData a world may send
    Reloads,         \* attach.UpdateTags frames
    RecipeBooks      \* attach.UpdateRecipes frames, NoRecipes for a nil one

MinServed == 776

Vanilla(names) == [i \in DOMAIN names |-> MC(names[i])]
Default(id) == IF id.ns = "" THEN MC(id.name) ELSE id
namespaced(id) == Default(id)
qualify(id) == Default(id)

Has(seq, e) == e \in Range(seq)
IndexOf(seq, e) == CHOOSE i \in 0 .. Len(seq) - 1 :
                       seq[i + 1] = e /\ \A j \in 1 .. i : seq[j] # e
AppendNew(seq, e) == IF Has(seq, e) THEN seq ELSE Append(seq, e)
AppendAll(seq, es) == FoldLeft(AppendNew, seq, es)
Position(regs, id) == CHOOSE i \in DOMAIN regs : regs[i].id = id
Declares(regs, id) == \E i \in DOMAIN regs : regs[i].id = id

----------------------------------------------------------------------------
(* The generated tables.                                                   *)

Reg(id, names) == [id |-> MC(id), entries |-> Vanilla(names)]
SyncedRegistries == <<
    Reg("dimension_type", <<"overworld", "overworld_caves", "the_end", "the_nether">>),
    Reg("painting_variant", <<"alban", "kebab">>),
    Reg("worldgen/biome", <<"dripstone_caves", "forest", "plains">>),
    Reg("damage_type", <<"generic", "in_fire">>),
    Reg("banner_pattern", <<"base", "creeper", "square_bottom_left">>) >>
Synced(id) == SyncedRegistries[Position(SyncedRegistries, id)].entries
DimensionOverworldID == 0
BiomePlainsID == 2

extra26xEntries(id) ==
    CASE id = MC("painting_variant") -> Vanilla(<<"dennis">>)
      [] id = MC("worldgen/biome")   -> Vanilla(<<"sulfur_caves">>)
      [] id = MC("damage_type")      -> Vanilla(<<"spear", "sulfur_cube_hot">>)
      [] OTHER                       -> << >>

dialogEntries == Vanilla(<<"custom_options", "quick_actions", "server_links">>)
extra26xRegistries == << Reg("world_clock", <<"overworld", "the_end">>),
                         [id |-> MC("dialog"), entries |-> dialogEntries] >>
extra263Registries == << Reg("decorated_pot_pattern", <<"angler", "archer">>) >>
biomesAdded == << [since |-> 777, name |-> MC("dappled_forest"), standIn |-> MC("forest")] >>

Tags(registry, name, names) == TagSet(MC(registry), MC(name), Vanilla(names))
NoItemRequired == Tags("banner_pattern", "no_item_required", <<"square_bottom_left">>)
tags1215Data == << NoItemRequired, Tags("damage_type", "is_fire", << >>),
                   Tags("fluid", "water", << >>) >>
tags26xData == <<
    NoItemRequired,
    Tags("block", "planks", <<"birch_planks">>),
    Tags("item", "planks", <<"birch_planks">>),
    Tags("entity_type", "followable_friendly_mobs", <<"bee", "pig">>),
    Tags("damage_type", "is_fire", <<"in_fire", "sulfur_cube_hot">>),
    Tags("dialog", "pause_screen_additions", << >>),
    Tags("fluid", "water", <<"water", "flowing_water">>),
    Tags("worldgen/configured_feature", "can_spawn_from_bone_meal", << >>) >>
tags263Data == <<
    NoItemRequired,
    Tags("block", "planks", <<"birch_planks", "poplar_planks">>),
    Tags("item", "planks", <<"birch_planks", "poplar_planks">>),
    Tags("entity_type", "followable_friendly_mobs", <<"bee", "pig">>),
    Tags("damage_type", "is_fire", <<"in_fire", "sulfur_cube_hot">>),
    Tags("dialog", "pause_screen_additions", << >>),
    Tags("fluid", "water", <<"water", "flowing_water">>),
    Tags("worldgen/feature", "can_spawn_from_bone_meal", << >>) >>
tags26xSkip == {MC("worldgen/configured_feature"), MC("worldgen/feature")}

\* Ids of the static registries: the canonical ones are 26.3's.
block26xID  == {<<"stone", 1>>, <<"birch_planks", 15>>}
block263ID  == {<<"stone", 1>>, <<"birch_planks", 15>>, <<"poplar_planks", 23>>}
item26xID   == {<<"stone", 1>>, <<"birch_planks", 65>>, <<"sulfur", 26>>}
item263ID   == item26xID \cup {<<"poplar_planks", 72>>}
entity26xID == {<<"bee", 11>>, <<"pig", 100>>}
entity263ID == {<<"bee", 11>>, <<"pig", 101>>}
fluid26xID  == {<<"flowing_water", 1>>, <<"water", 2>>}

----------------------------------------------------------------------------
(* The dimension table (dimensions.go).  Ids are the world's numbers.      *)

Dim(id, type, nbt, clock) == [id |-> id, type |-> type, nbt |-> nbt, clock |-> clock]
DefaultDimensions == << Dim(0, MC("overworld"), "none", MC("overworld")),
                        Dim(1, MC("the_nether"), "none", NoClock),
                        Dim(2, MC("the_end"), "none", MC("the_end")) >>
OrDefault(ds) == IF ds = << >> THEN DefaultDimensions ELSE ds
ByID(ds, id) == LET t == OrDefault(ds)
                    found == {i \in DOMAIN t : t[i].id = id}
                IN  IF found = {} THEN t[1] ELSE t[CHOOSE i \in found : \A j \in found : i <= j]
Clocks(ds) == LET clock(d) == d.clock
                  has(c) == c # NoClock
              IN  SelectSeq([i \in DOMAIN ds |-> clock(ds[i])], has)
TypeEntries(ds) ==
    AppendAll(Synced(MC("dimension_type")),
              [i \in DOMAIN OrDefault(ds) |-> OrDefault(ds)[i].type])
TypeID(ds, id) ==
    LET t == ByID(ds, id).type
    IN  IF Has(TypeEntries(ds), t) THEN IndexOf(TypeEntries(ds), t) ELSE DimensionOverworldID
typeNBT(ds, type) ==
    LET own == {i \in DOMAIN ds : ds[i].type = type /\ ds[i].nbt # "none"}
    IN  IF own = {} THEN "none" ELSE ds[CHOOSE i \in own : \A j \in own : i <= j].nbt
clocks(ds, base) == AppendAll(base, Clocks(OrDefault(ds)))

----------------------------------------------------------------------------
(* What the world sends, as the composition takes it.                      *)

\* JSONToNBT: data that is not JSON is left out.
ToNBT(data) == IF data = "json" THEN "nbt" ELSE "none"
dimsOf(in) ==
    [i \in DOMAIN in |-> Dim(in[i].id, IF in[i].type = MC("") THEN in[i].key ELSE in[i].type,
                             ToNBT(in[i].data), in[i].clock)]
registryExtras(in) ==
    [i \in DOMAIN in |->
        [registry |-> namespaced(in[i].registry),
         entries |-> [k \in DOMAIN in[i].entries |->
                         [name |-> namespaced(in[i].entries[k].name),
                          nbt |-> ToNBT(in[i].entries[k].data)]]]]
tagExtras(in) ==
    [i \in DOMAIN in |->
        TagSet(namespaced(in[i].registry), namespaced(in[i].name),
               [k \in DOMAIN in[i].entries |-> namespaced(in[i].entries[k])])]
configExtras(d) == [dims |-> dimsOf(d.dimensions), registries |-> registryExtras(d.registries),
                    tags |-> tagExtras(d.tags)]
Nothing == [dims |-> << >>, registries |-> << >>, tags |-> << >>]

----------------------------------------------------------------------------
(* The registry_data packets.                                              *)

biomeEntriesFor(v, shared) ==
    LET since(b) == v >= b.since
        added == SelectSeq(biomesAdded, since)
    IN  IF v < 775 THEN shared
        ELSE shared \o extra26xEntries(MC("worldgen/biome"))
             \o [i \in DOMAIN added |-> added[i].name]

\* The entries with data of this server's own; the client's pack has the rest.
registryEntryDataFor(reg, entry) ==
    IF \/ reg = MC("dimension_type") /\ entry \in {MC("overworld"), MC("the_nether"), MC("the_end")}
       \/ reg = MC("worldgen/biome") /\ entry = MC("plains")
       \/ reg = MC("damage_type") /\ Has(Synced(reg), entry)
    THEN "nbt" ELSE "none"

DeclaredNames(v, ds, reg) ==
    IF reg.id = MC("worldgen/biome") THEN biomeEntriesFor(v, reg.entries)
    ELSE IF reg.id = MC("dimension_type") THEN TypeEntries(ds)
    ELSE IF v >= 775 THEN reg.entries \o extra26xEntries(reg.id)
    ELSE reg.entries

Inline(v, ds, id, name) ==
    IF id = MC("dimension_type") /\ typeNBT(OrDefault(ds), name) # "none"
    THEN typeNBT(OrDefault(ds), name)
    ELSE IF v < 775 \/ id = MC("dimension_type") THEN registryEntryDataFor(id, name)
    ELSE "none"

NamesOnly(names) == [i \in DOMAIN names |-> [name |-> names[i], nbt |-> "none"]]

configRegistries(v, ds) ==
    LET synced(reg) ==
            LET names == DeclaredNames(v, ds, reg)
            IN  [id |-> reg.id,
                 entries |-> [i \in DOMAIN names |->
                                 [name |-> names[i], nbt |-> Inline(v, ds, reg.id, names[i])]]]
        later(reg) ==
            [id |-> reg.id,
             entries |-> NamesOnly(IF reg.id = MC("world_clock") THEN clocks(ds, reg.entries)
                                   ELSE reg.entries)]
    IN  [i \in DOMAIN SyncedRegistries |-> synced(SyncedRegistries[i])]
        \o (IF v >= 775 THEN [i \in DOMAIN extra26xRegistries |-> later(extra26xRegistries[i])]
            ELSE << >>)
        \o (IF v >= 777 THEN [i \in DOMAIN extra263Registries |-> later(extra263Registries[i])]
            ELSE << >>)

\* A name the registry has keeps its place and takes the new data.
Declare(entries, e) ==
    LET at == {k \in DOMAIN entries : entries[k].name = e.name}
    IN  IF at = {} THEN Append(entries, e)
        ELSE [entries EXCEPT ![CHOOSE k \in at : \A j \in at : k <= j] = e]

AddEntries(entries, more) == FoldLeft(Declare, entries, more)

ConfigRegistryPacketsWith(v, x) ==
    LET add(rs, rx) ==
            IF Declares(rs, rx.registry)
            THEN [rs EXCEPT ![Position(rs, rx.registry)].entries = AddEntries(@, rx.entries)]
            ELSE Append(rs, [id |-> rx.registry, entries |-> AddEntries(<< >>, rx.entries)])
    IN  FoldLeft(add, configRegistries(v, x.dims), x.registries)

----------------------------------------------------------------------------
(* The gateway's own indexes: a registry's names in the order of their ids.*)

dynamic26xIndexFor(v) ==
    LET synced(reg) ==
            [id |-> reg.id,
             entries |-> IF reg.id = MC("worldgen/biome") THEN biomeEntriesFor(v, reg.entries)
                         ELSE reg.entries \o extra26xEntries(reg.id)]
    IN  [i \in DOMAIN SyncedRegistries |-> synced(SyncedRegistries[i])]
        \o extra26xRegistries \o extra263Registries

IndexAdd(idx, registry, names) ==
    IF Declares(idx, registry)
    THEN [idx EXCEPT ![Position(idx, registry)].entries = AppendAll(@, names)]
    ELSE Append(idx, [id |-> registry, entries |-> AppendAll(<< >>, names)])

dynamicIndexWith(v, x) ==
    LET types == IndexAdd(dynamic26xIndexFor(v), MC("dimension_type"), TypeEntries(x.dims))
        timed == IndexAdd(types, MC("world_clock"), Clocks(OrDefault(x.dims)))
        add(idx, rx) ==
            IndexAdd(idx, rx.registry, [k \in DOMAIN rx.entries |-> rx.entries[k].name])
    IN  FoldLeft(add, timed, x.registries)

Unknown == -1
IdOf(idx, registry, name) ==
    IF Declares(idx, registry) /\ Has(idx[Position(idx, registry)].entries, name)
    THEN IndexOf(idx[Position(idx, registry)].entries, name) ELSE Unknown

DialogRegistryID(name) == IF Has(dialogEntries, name) THEN IndexOf(dialogEntries, name) ELSE Unknown
DialogRegistryIDWith(v, x, name) ==
    IF x.registries = << >> THEN DialogRegistryID(name)
    ELSE IdOf(dynamicIndexWith(v, x), MC("dialog"), name)

DamageTypeID(name) ==
    LET known == Synced(MC("damage_type")) \o extra26xEntries(MC("damage_type"))
    IN  IF Has(known, name) THEN IndexOf(known, name) ELSE Unknown
DamageEvent(name) == IF DamageTypeID(name) # Unknown THEN DamageTypeID(name)
                     ELSE DamageTypeID(MC("generic"))

BiomeIDFor(v, name) ==
    LET shared == Synced(MC("worldgen/biome"))
        known == biomeEntriesFor(v, shared)
        added == {i \in DOMAIN biomesAdded : biomesAdded[i].name = name}
        shown == IF \E i \in added : v < biomesAdded[i].since
                 THEN biomesAdded[CHOOSE i \in added : TRUE].standIn
                 ELSE IF Has(extra26xEntries(MC("worldgen/biome")), name) /\ v < 775
                 THEN MC("dripstone_caves") ELSE name
        ours == shared \o extra26xEntries(MC("worldgen/biome"))
                \o [i \in DOMAIN biomesAdded |-> biomesAdded[i].name]
    IN  IF Has(ours, shown) THEN IndexOf(known, shown) ELSE BiomePlainsID

----------------------------------------------------------------------------
(* The update_tags packet: per registry, per tag, the ids of its members.  *)

legacyFluidTag(registry, name) ==
    IF registry = MC("fluid") /\ name = MC("water") THEN <<2, 1>> ELSE << >>

TagData(v) == IF v >= 777 THEN tags263Data ELSE tags26xData
StaticIDs(v, registry) ==
    CASE registry = MC("block")       -> IF v >= 777 THEN block263ID ELSE block26xID
      [] registry = MC("item")        -> IF v >= 777 THEN item263ID ELSE item26xID
      [] registry = MC("entity_type") -> IF v >= 777 THEN entity263ID ELSE entity26xID
      [] registry = MC("fluid")       -> fluid26xID
      [] OTHER                        -> {}
StaticRegistries == {MC("block"), MC("item"), MC("entity_type"), MC("fluid")}

Resolve(v, dyn, registry, name) ==
    IF registry \in StaticRegistries
    THEN LET rows == {r \in StaticIDs(v, registry) : MC(r[1]) = name}
         IN  IF rows = {} THEN Unknown ELSE (CHOOSE r \in rows : TRUE)[2]
    ELSE IdOf(dyn, registry, name)

\* Unknown names are dropped, never guessed.
Ids(v, dyn, registry, entries) ==
    LET known(id) == id # Unknown
    IN  SelectSeq([i \in DOMAIN entries |-> Resolve(v, dyn, registry, entries[i])], known)

Replace(tags, t) ==
    LET same == {i \in DOMAIN tags : tags[i].registry = t.registry /\ tags[i].name = t.name}
    IN  IF same = {} THEN Append(tags, t) ELSE [tags EXCEPT ![CHOOSE i \in same : TRUE] = t]

\* A tag of an existing name is replaced, a new one added.
MergeTags(data, extra) ==
    LET sendable(t) == t.registry \notin tags26xSkip
    IN  FoldLeft(Replace, SelectSeq(data, sendable), SelectSeq(extra, sendable))

buildTags26x(v, data, dyn, extra) ==
    LET sent == MergeTags(data, extra)
        ids(t) == IF v >= 776 THEN Ids(v, dyn, t.registry, t.entries)
                  ELSE legacyFluidTag(t.registry, t.name)
    IN  [i \in DOMAIN sent |->
            [registry |-> sent[i].registry, name |-> sent[i].name, ids |-> ids(sent[i])]]

\* Every 1.21.5 tag, and 26.2's newer names in the same registries, empty but
\* for what client mechanics read.
legacyContentRegistries == {MC("banner_pattern")}
tagsLegacy(data) ==
    LET known == {tags1215Data[i].registry : i \in DOMAIN tags1215Data}
        names == {<<tags1215Data[i].registry, tags1215Data[i].name>> : i \in DOMAIN tags1215Data}
        newer(t) == /\ t.registry \in known \ tags26xSkip
                    /\ <<t.registry, t.name>> \notin names
        sent == tags1215Data \o SelectSeq(data, newer)
        ids(t) == IF t.registry \in legacyContentRegistries
                  THEN Ids(776, dynamic26xIndexFor(776), t.registry, t.entries)
                  ELSE legacyFluidTag(t.registry, t.name)
    IN  [i \in DOMAIN sent |->
            [registry |-> sent[i].registry, name |-> sent[i].name, ids |-> ids(sent[i])]]

\* The loom's rows: what the world takes the client's list to be.
LoomPatterns == Ids(776, dynamic26xIndexFor(776), MC("banner_pattern"),
                    tags1215Data[CHOOSE i \in DOMAIN tags1215Data :
                                     tags1215Data[i].name = MC("no_item_required")].entries)

----------------------------------------------------------------------------
(* update_recipes: what the stations take, and the stonecutter's rows.     *)

RecipePropertySets == {"birch_planks", "poplar_planks", "sulfur"}
StonecuttingRecipes == << Row({"stone"}, NoTag, "stone_slab"),
                          Row({"sulfur"}, NoTag, "sulfur_slab"),
                          Row({"stone"}, NoTag, "stone_bricks") >>
VanillaRecipes == Book(RecipePropertySets, StonecuttingRecipes)

\* ItemNames of 26.3 a client lacks, and what is shown for them (module Registry).
ItemNames == {"stone", "birch_planks", "poplar_planks", "sulfur"}
Absent(v) == (IF v < 777 THEN {"poplar_planks", "poplar_slab"} ELSE {})
             \cup (IF v < 776 THEN {"sulfur", "sulfur_slab"} ELSE {})
Air == "air"
IDPresent(v, item) == item \notin Absent(v)
rid(v, item) == IF IDPresent(v, item) THEN item
                ELSE IF item = "poplar_planks" THEN "birch_planks" ELSE Air

\* A row stays, whatever the client lacks of it: an item no stand-in shows is
\* left out, and a barrier stands in for an ingredient with nothing left.
appendIngredient(v, row) ==
    LET shown == {rid(v, i) : i \in row.items} \ {Air}
    IN  IF row.tag # NoTag THEN {} ELSE IF shown = {} THEN {"barrier"} ELSE shown

SlotItems(v, items) == {rid(v, i) : i \in {x \in items : IDPresent(v, x)}}

\* Mutant: a row of items the client lacks is left out.
RowsWithoutAbsent(v, rows) ==
    LET present(r) == r.tag # NoTag \/ \E i \in r.items : IDPresent(v, i)
        kept == SelectSeq(rows, present)
    IN  [k \in DOMAIN kept |-> Row(appendIngredient(v, kept[k]), kept[k].tag, kept[k].result)]

\* A result the client lacks shows empty.
StonecutterRows(v, rows) ==
    [k \in DOMAIN rows |->
        Row(appendIngredient(v, rows[k]), rows[k].tag,
            IF IDPresent(v, rows[k].result) THEN rows[k].result ELSE Air)]

\* A half the world leaves out is the generated one.
OrVanilla(u) == Book(IF u.slot = NoSlot THEN VanillaRecipes.slot ELSE u.slot,
                     IF u.rows = NoRows THEN VanillaRecipes.rows ELSE u.rows)
UpdateRecipesFrom(v, u) ==
    LET book == OrVanilla(u)
    IN  Book(SlotItems(v, book.slot), StonecutterRows(v, book.rows))

----------------------------------------------------------------------------
\* One session at a time: sessions share the cache and the generated tables
\* and nothing else.
VARIABLES
    stage,      \* away, play, configuring, configured
    version,    \* the client's protocol version
    curConfig,  \* play's curConfig: the world's configuration data
    pending,    \* pendingConfig: what configure() will run with
    dims,       \* the dimension table play reads
    curRecipes,
    declared,   \* the client: its registries,
    tags,       \*   tags
    stations,   \*   and recipes
    told,       \* the last registry reference sent, and what it stands for
    cache,      \* tags26xByVer
    generated   \* tags26xData and tags263Data

vars == <<stage, version, curConfig, pending, dims, curRecipes, declared, tags, stations, told,
          cache, generated>>
clientVars == <<declared, tags, stations>>
sharedVars == <<cache, generated>>

NoPacket == << >>
Refer(registry, id, name) == [registry |-> registry, id |-> id, name |-> name]

Init ==
    /\ stage = "away"
    /\ version \in ClientVersions
    /\ curConfig = NoConfig /\ pending = NoConfig
    /\ dims = << >> /\ curRecipes = NoRecipes
    /\ declared = << >> /\ tags = << >> /\ stations = NoRecipes
    /\ told = << >>
    /\ cache = [v \in ClientVersions |-> NoPacket]
    /\ generated = [v \in ClientVersions |-> TagData(v)]

\* UpdateTagsPacketWith: the cached body when the extras change nothing.
SendTags(x) ==
    LET v == version
        plain == IF v < 775 THEN tagsLegacy(tags26xData)
                 ELSE IF cache[v] # NoPacket THEN cache[v]
                 ELSE buildTags26x(v, generated[v], dynamic26xIndexFor(v), << >>)
    IN  /\ IF x = Nothing \/ v < 776
           THEN /\ tags' = plain
                /\ cache' = IF v < 775 THEN cache ELSE [cache EXCEPT ![v] = plain]
           ELSE /\ tags' = buildTags26x(v, generated[v], dynamicIndexWith(v, x), x.tags)
                /\ UNCHANGED cache
        /\ UNCHANGED generated

\* configure: the registry_data packets, then update_tags.
Configure(d) ==
    /\ declared' = ConfigRegistryPacketsWith(version, configExtras(d))
    /\ SendTags(configExtras(d))

SendRecipes(u) == stations' = UpdateRecipesFrom(version, u)

\* The login packet, and respawn: a dimension as its type's id.
TellDimension(ds, dim) ==
    told' = Refer(MC("dimension_type"), TypeID(ds, dim),
                  ByID(dimsOf(curConfig'.dimensions), dim).type)

\* The first configuration and the join, with the Welcome's data.
Join(d, u, dim) ==
    /\ stage = "away"
    /\ stage' = "play"
    /\ curConfig' = d
    /\ dims' = dimsOf(d.dimensions)
    /\ curRecipes' = u
    /\ Configure(d) /\ SendRecipes(u)
    /\ TellDimension(dimsOf(d.dimensions), dim)
    /\ UNCHANGED <<version, pending>>

StartConfiguration(d) ==
    /\ stage = "play"
    /\ stage' = "configuring"
    /\ curConfig' = d
    /\ pending' = d
    /\ UNCHANGED <<version, dims, curRecipes, clientVars, told, sharedVars>>

\* The client acknowledged: configure() runs on the client reader.
Reconfigure ==
    /\ stage = "configuring"
    /\ stage' = "configured"
    /\ Configure(pending)
    /\ UNCHANGED <<version, curConfig, pending, dims, curRecipes, stations, told>>

\* Mutant: the dimension table stays the one before.
RejoinOldDims(u, dim) ==
    /\ stage = "configured"
    /\ stage' = "play"
    /\ curRecipes' = IF u = NoRecipes THEN curRecipes ELSE u
    /\ SendRecipes(curRecipes')
    /\ UNCHANGED <<version, curConfig, pending, dims, declared, tags, cache, generated>>
    /\ TellDimension(dims, dim)

Rejoin(u, dim) ==
    /\ stage = "configured"
    /\ stage' = "play"
    /\ dims' = dimsOf(curConfig.dimensions)
    /\ curRecipes' = IF u = NoRecipes THEN curRecipes ELSE u
    /\ SendRecipes(curRecipes')
    /\ UNCHANGED <<version, curConfig, pending, declared, tags, cache, generated>>
    /\ TellDimension(dims', dim)

\* Mutant: the tags resolve against the built-in registries.
ReloadPlainly(ts) ==
    /\ stage = "play"
    /\ curConfig' = [curConfig EXCEPT !.tags = ts]
    /\ SendTags([configExtras(curConfig') EXCEPT !.registries = << >>])
    /\ UNCHANGED <<stage, version, pending, dims, curRecipes, declared, stations, told>>

UpdateTags(ts) ==
    /\ stage = "play"
    /\ curConfig' = [curConfig EXCEPT !.tags = ts]
    /\ SendTags(configExtras(curConfig'))
    /\ UNCHANGED <<stage, version, pending, dims, curRecipes, declared, stations, told>>

UpdateRecipes(u) ==
    /\ stage = "play"
    /\ curRecipes' = u
    /\ SendRecipes(u)
    /\ UNCHANGED <<stage, version, curConfig, pending, dims, declared, tags, told, sharedVars>>

\* A reference to a registry entry: the client holds registries in play only.
Tell(registry, id, name) ==
    /\ stage = "play"
    /\ id # Unknown
    /\ told' = Refer(registry, id, name)
    /\ UNCHANGED <<stage, version, curConfig, pending, dims, curRecipes, clientVars, sharedVars>>

ShowDialog(ref) ==
    /\ version >= MinServed
    /\ LET x == configExtras(curConfig)
       IN  Tell(MC("dialog"), DialogRegistryIDWith(version, x, qualify(ref)), qualify(ref))

Dimension(dim) ==
    /\ stage = "play"
    /\ UNCHANGED <<stage, version, curConfig, pending, dims, curRecipes, clientVars, sharedVars>>
    /\ TellDimension(dims, dim)

SendBiome(biome) == Tell(MC("worldgen/biome"), BiomeIDFor(version, biome), biome)

SendDamage(type) == Tell(MC("damage_type"), DamageEvent(type), type)

\* The session ends; the next one's client is of version v.
Leave(v) ==
    /\ stage # "away"
    /\ stage' = "away" /\ version' = v
    /\ curConfig' = NoConfig /\ pending' = NoConfig
    /\ dims' = << >> /\ curRecipes' = NoRecipes
    /\ declared' = << >> /\ tags' = << >> /\ stations' = NoRecipes
    /\ told' = << >>
    /\ UNCHANGED <<cache, generated>>

DimIDs == {0, 1, 3}
Dialogs == {Bare("quick_actions"), Id("pack", "rules")}
Biomes == Vanilla(<<"forest", "sulfur_caves", "dappled_forest", "unheard_of">>)
DamageTypes == Vanilla(<<"in_fire", "spear", "unheard_of">>)

Next ==
    \/ \E d \in Packs, u \in RecipeBooks, dim \in DimIDs : Join(d, u, dim)
    \/ \E d \in Packs : StartConfiguration(d)
    \/ Reconfigure
    \/ \E u \in RecipeBooks, dim \in DimIDs : Rejoin(u, dim)
    \/ \E ts \in Reloads : UpdateTags(ts)
    \/ \E u \in RecipeBooks : UpdateRecipes(u)
    \/ \E ref \in Dialogs : ShowDialog(ref)
    \/ \E dim \in DimIDs : Dimension(dim)
    \/ \E b \in Range(Biomes) : SendBiome(b)
    \/ \E t \in Range(DamageTypes) : SendDamage(t)
    \/ \E v \in ClientVersions : Leave(v)

Spec == Init /\ [][Next]_vars

----------------------------------------------------------------------------
(* Properties.                                                             *)

\* The values every variable keeps to.
TypeOK ==
    /\ stage \in {"away", "play", "configuring", "configured"}
    /\ version \in ClientVersions
    /\ \A i \in DOMAIN declared : \A e \in Range(declared[i].entries) : e.nbt \in {"none", "nbt"}
    /\ \A i \in DOMAIN tags : tags[i].ids \in Seq(Nat)
    /\ told = << >> \/ told.id \in Nat

Playing == stage = "play"
Served == version >= MinServed

\* The client's side: what an id of a registry is to it.
DeclaredTo(registry) ==
    IF Declares(declared, registry)
    THEN declared[Position(declared, registry)].entries ELSE << >>
KnownTo(registry, name) ==
    IF registry \in StaticRegistries
    THEN \E r \in StaticIDs(version, registry) : MC(r[1]) = name
    ELSE \E e \in Range(DeclaredTo(registry)) : e.name = name
Names(registry, id) ==
    IF registry \in StaticRegistries
    THEN {MC(r[1]) : r \in {x \in StaticIDs(version, registry) : x[2] = id}}
    ELSE IF id + 1 \in DOMAIN DeclaredTo(registry)
         THEN {DeclaredTo(registry)[id + 1].name} ELSE {}

\* The world's side: the members of a tag, its data pack's before the built-in.
PackTags ==
    {t \in Range(curConfig.tags) : Default(t.registry) \notin tags26xSkip}
Members(data, registry, name) ==
    LET own == {t \in PackTags : Default(t.registry) = registry /\ Default(t.name) = name}
        builtin == {t \in Range(data) : t.registry = registry /\ t.name = name}
        t == CHOOSE x \in IF own # {} THEN own ELSE builtin : TRUE
    IN  [k \in DOMAIN t.entries |-> Default(t.entries[k])]

\* A tag's ids mean its members: as the client has its registries, each id
\* names the member in its place, and only members the client lacks are left
\* out (dynamicIndexWith against ConfigRegistryPacketsWith, buildTags26x).
TagsAgree ==
    Playing /\ Served =>
        /\ \A t \in Range(tags) :
            LET known(n) == KnownTo(t.registry, n)
                wanted == SelectSeq(Members(TagData(version), t.registry, t.name), known)
            IN  /\ Len(t.ids) = Len(wanted)
                /\ \A k \in DOMAIN wanted : Names(t.registry, t.ids[k]) = {wanted[k]}
        /\ \A t \in PackTags :
            \E c \in Range(tags) : c.registry = Default(t.registry) /\ c.name = Default(t.name)

\* Another session's data pack leaves no trace: without one, a client has the
\* built-in tags, whatever the process has sent before ("Copy before
\* changing": the cache and the generated tables are shared).
BuiltInTags ==
    Playing /\ curConfig.tags = << >> =>
        LET v == version
        IN  {<<t.registry, t.name>> : t \in Range(tags)} =
                IF v < 775 THEN {<<t.registry, t.name>> : t \in Range(tagsLegacy(tags26xData))}
                ELSE {<<t.registry, t.name>> : t \in {x \in Range(TagData(v)) :
                                                          x.registry \notin tags26xSkip}}

\* "They are absent at the client's config-time tag resolution, so sending
\* them throws": every registry tagged is one the client has by then.
TagRegistriesKnown ==
    Playing => \A t \in Range(tags) :
        t.registry \in StaticRegistries \/ Declares(declared, t.registry)

\* A registry reference sent in play means to the client what it meant to the
\* world: a built-in entry the client has, a dialog or a dimension type of the
\* pack, are named, anything else is some entry of the registry.
ReferencesAgree ==
    told # << >> /\ Playing /\ Served =>
        /\ Names(told.registry, told.id) # {}
        /\ KnownTo(told.registry, told.name) =>
               Names(told.registry, told.id) = {told.name}

\* What an entry without data is resolved with: the client's own pack
\* (external; what each version ships).
ClientPack(v, registry) ==
    UNION {Range(r.entries) : r \in
        {x \in Range(SyncedRegistries \o extra26xRegistries \o extra263Registries) :
             x.id = registry}}
    \cup (IF v >= 775 THEN Range(extra26xEntries(registry)) ELSE {})
    \cup (IF v >= 777 /\ registry = MC("worldgen/biome") THEN {b.name : b \in Range(biomesAdded)}
          ELSE {})

\* "A biome its built-in pack lacks cannot be declared to it": every entry the
\* gateway declares of its own has its data inline or in the client's pack.
Resolvable ==
    \A r \in Range(declared) : \A e \in Range(r.entries) :
        e.nbt = "none" /\ e.name.ns = "minecraft" => e.name \in ClientPack(version, r.id)

\* The loom's rows are the client's: the world's indices and the list the
\* client builds from its tag are one (26.1 is sent no contents).
LoomAgrees ==
    Playing /\ version # 775 =>
        \A t \in Range(tags) :
            t.registry = MC("banner_pattern") /\ t.name = MC("no_item_required")
                => t.ids = LoomPatterns

\* For an item in the stonecutter's slot, the rows the client lists are the
\* world's, in its order.
WorldRows == OrVanilla(curRecipes).rows
RowsMatch(item) ==
    LET v == version
        world(r) == IF r.tag = NoTag THEN item \in r.items
                    ELSE Has(Members(tags263Data, MC("item"), r.tag), MC(item))
        tagged(r) == UNION {Names(MC("item"), id) : id \in UNION {Range(t.ids) :
                         t \in {x \in Range(tags) : x.registry = MC("item") /\ x.name = r.tag}}}
        client(r) == IF r.tag = NoTag THEN rid(v, item) \in r.items
                     ELSE MC(rid(v, item)) \in tagged(r)
        theirs == SelectSeq(WorldRows, world)
        ours == SelectSeq(stations.rows, client)
    IN  /\ Len(ours) = Len(theirs)
        /\ \A k \in DOMAIN ours :
               ours[k].result = IF IDPresent(v, theirs[k].result) THEN theirs[k].result ELSE Air

\* The stonecutter's buttons mean one row to the client and the world, for
\* every item that does not stand in for another one.
RowsAgree ==
    Playing /\ Served => \A item \in ItemNames :
        (\A other \in ItemNames \ {item} : rid(version, other) # item) => RowsMatch(item)

\* A station's slot takes an item at the client exactly if it does in the
\* world: an item the client lacks is not let in through its stand-in.
SlotsAgree ==
    Playing => \A item \in ItemNames :
        IDPresent(version, item) =>
            (item \in OrVanilla(curRecipes).slot <=> item \in stations.slot)
=============================================================================
