------------------------------ MODULE Content ------------------------------
(***************************************************************************)
(* What a packet says: registry ids, item stacks with their components,    *)
(* entity metadata, particles, chunk sections.  The chain rewrites them at *)
(* canonical ids before its layout steps (module Translate); a creative    *)
(* client sends a stack back, in its own form.                             *)
(*                                                                         *)
(* A component is its id, the form its payload has ("" when all forms are  *)
(* one), the stacks in it and the ids in it.                               *)
(***************************************************************************)
EXTENDS Registry

CONSTANTS
    ClientVersions,
    Items,          \* the greatest canonical id of the items (states, blocks)
    Rare            \* what else the world sends: "painting", "stat", "type"

Stack(item, comps) == [item |-> item, comps |-> comps]
Empty == Stack(0, << >>)
Comp(id) == [id |-> id, form |-> "", in |-> << >>, ids |-> << >>]
Formed(id, form) == [Comp(id) EXCEPT !.form = form]
Holding(id, stacks) == [Comp(id) EXCEPT !.form = "slots", !.in = stacks]
Naming(id, ids) == [Comp(id) EXCEPT !.ids = ids]

----------------------------------------------------------------------------
(* Component ids: canonical, and at 774, 775, 776 and 777; unchanged before. *)

MaxDamageToMapRows ==
    {<<2, 2, 2, 2, 2>>, <<3, 3, 3, 3, 3>>, <<45, 52, 52, 54, 56>>, <<46, 53, 53, 55, 57>>,
     <<10, 13, 13, 13, 13>>, <<34, 41, 41, 42, 45>>, <<5, 6, 6, 6, 6>>, <<8, 11, 11, 11, 11>>,
     <<41, 48, 48, 50, 52>>, <<58, 65, 65, 67, 69>>, <<64, 71, 71, 73, 75>>,
     <<35, 42, 44, 44, 47>>, <<37, 44, 44, 46, 48>>}
TrimToBannerRows ==
    {<<47, 54, 54, 56, 58>>, <<42, 49, 51, 51, 53>>, <<44, 51, 53, 53, 55>>,
     <<66, 73, 75, 75, 77>>, <<54, 61, 63, 63, 65>>, <<60, 67, 69, 69, 71>>,
     <<59, 66, 68, 68, 70>>, <<52, 59, 61, 61, 63>>, <<65, 72, 74, 74, 76>>,
     <<16, 19, 19, 19, 19>>, <<63, 70, 70, 72, 74>>}
laterComponentIDs ==
    {<<6, 9, 9, 9, 9>>, <<9, 12, 12, 12, 12>>, <<15, 18, 18, 18, 18>>,
     <<40, 47, 49, 49, 51>>, <<50, 57, 59, 59, 61>>, <<77, 84, 86, 87, 93>>,
     <<79, 86, 88, 89, 95>>, <<80, 87, 89, 90, 96>>, <<81, 88, 90, 91, 97>>,
     <<91, 99, 104, 105, 111>>, <<67, 74, 76, 76, 78>>, <<49, 56, 58, 58, 60>>,
     <<89, 97, 102, 103, 109>>, <<4, 4, 4, 4, 4>>, <<11, 14, 14, 14, 14>>,
     <<12, 15, 15, 15, 15>>, <<61, 68, 70, 70, 72>>, <<62, 69, 71, 71, 73>>,
     <<51, 58, 60, 60, 62>>, <<118, None, None, None, 118>>,
     <<119, None, None, None, 119>>, <<120, None, None, None, 120>>}
componentIDs == MaxDamageToMapRows \cup TrimToBannerRows \cup laterComponentIDs
knownComponents == {r[1] : r \in componentIDs}
canonicalComponentCount == 96

componentIDAt[c \in knownComponents, v \in 770 .. 777] ==
    IF v >= 774 THEN (CHOOSE r \in componentIDs : r[1] = c)[v - 772]
    ELSE IF c >= canonicalComponentCount THEN None ELSE c

\* A component without an id at v is found under 0.
componentIDFrom(wire, v) ==
    LET IdOrZero(c) == IF componentIDAt[c, v] = None THEN 0 ELSE componentIDAt[c, v]
        from == {c \in knownComponents : IdOrZero(c) = wire}
    IN  IF from = {} THEN None ELSE Min(from)

\* A client's component, as the copier takes it.
laterComponent(wire, v) ==
    LET from == {c \in knownComponents : componentIDAt[c, v] = wire}
    IN  IF from = {} THEN None ELSE Min(from)

ItemName == 6
ChargedProj == 40
BundleContents == 41
PotionContents == 42
EntityData == 49
BlockEntityData == 51
Instrument == 52
PotDecorations == 65
Container == 66
TooltipDisplay == 15

----------------------------------------------------------------------------
(* The slot copier.  sb: from the client, whose items and components are   *)
(* then the ones to translate.                                             *)

Bad == Comp(None)
BadStack == Stack(None, << >>)

templateStacks(v) == v >= 775
instrumentBareHolder(v) == v >= 775

Mapped(t, i, sb) == IF sb THEN UnmapID(t, i) ELSE RemapID("item", t, i)

\* A component of the patch that the client lacks: a sign's text and wax.
Lacks(c, v) == c.id \in knownComponents /\ componentIDAt[c.id, v] = None

\* What is folded goes into the block_entity_data at its place, or into a new one.
foldApply(comps, fold, v) ==
    LET id == componentIDAt[BlockEntityData, v]
        at == {i \in DOMAIN comps : comps[i].id = id}
    IN  IF fold = << >> THEN comps
        ELSE IF at = {} THEN Append(comps, [Formed(id, "typed") EXCEPT !.ids = fold])
        ELSE [comps EXCEPT ![CHOOSE i \in at : TRUE].ids = fold]

\* TooltipDisplay names components; one the client lacks is not named to it.
tooltipIds(ids, v, sb) ==
    LET named == SelectSeq(ids, LAMBDA i : sb \/ ~Lacks(Comp(i), v))
    IN  [i \in DOMAIN named |-> IF sb THEN componentIDFrom(named[i], v)
                                ELSE componentIDAt[named[i], v]]

tooltipDisplay(c, ids) == IF None \in Range(ids) THEN Bad ELSE [c EXCEPT !.ids = ids]

\* A typed tag carries its type's id in front, from 1.21.9; "alien" names one
\* the client lacks.
copyTyped(c, v, sb) ==
    IF v < 773 THEN c
    ELSE IF c.form = "alien" THEN Bad
    ELSE [c EXCEPT !.form = IF sb THEN "tag" ELSE "typed"]

copyInstrument(c, v, sb) ==
    IF ~instrumentBareHolder(v) THEN c
    ELSE [c EXCEPT !.form = IF sb THEN "either" ELSE "bare"]

\* The stacks in s, itself too; none holds stacks more than two deep.
Inside(stacks) == UNION {UNION {Range(c.in) : c \in Range(s.comps)} : s \in stacks}
StacksIn(s) == {s} \cup Inside({s}) \cup Inside(Inside({s}))

\* Mutant: a container's positions close up.
withoutPositions(c, stacks, v, sb) ==
    [c EXCEPT !.in = SelectSeq(stacks, LAMBDA s : s.item # 0),
              !.form = IF ~sb /\ templateStacks(v) THEN "templates" ELSE "slots"]

\* A component whose stacks have become `stacks`: one the client lacks is left
\* out of a list, and is an empty position of a container.
withStacks(c, stacks, v, sb) ==
    IF \E s \in Range(stacks) : Bad \in Range(s.comps) THEN Bad
    ELSE [c EXCEPT !.in = IF c.id \in {Container, componentIDAt[Container, v]}
                          THEN [i \in DOMAIN stacks |->
                                  IF stacks[i].item = 0 THEN Empty ELSE stacks[i]]
                          ELSE SelectSeq(stacks, LAMBDA s : s.item # 0),
                   !.form = IF ~sb /\ templateStacks(v) THEN "templates" ELSE "slots"]

copyNestedStacks(c, t, v, sb, copyOf) ==
    withStacks(c, [i \in DOMAIN c.in |-> Stack(Mapped(t, c.in[i].item, sb), copyOf[c.in[i]])],
               v, sb)

\* Payloads that read the same everywhere: walked, and copied.
Verbatim == knownComponents \ {ChargedProj, BundleContents, Container, PotDecorations,
                               TooltipDisplay, Instrument, EntityData, BlockEntityData}

\* The body of component c, whose canonical id is `id`, or Bad; copyOf: the
\* patches of the stacks inside.
copyComponent(c, id, t, v, sb, copyOf) ==
    CASE id \in {ChargedProj, BundleContents, Container} -> copyNestedStacks(c, t, v, sb, copyOf)
      [] id = PotDecorations -> [c EXCEPT !.ids = [i \in DOMAIN @ |-> Mapped(t, @[i], sb)]]
      [] id = TooltipDisplay -> tooltipDisplay(c, tooltipIds(c.ids, v, sb))
      [] id = Instrument -> copyInstrument(c, v, sb)
      [] id \in {EntityData, BlockEntityData} -> copyTyped(c, v, sb)
      [] id \in Verbatim -> c
      [] OTHER -> Bad
renumbered(body, id) == IF body = Bad THEN Bad ELSE [body EXCEPT !.id = id]

\* The patch of a stack: all the components, or Bad when one cannot be walked.
folded(copied, left, v) ==
    IF Bad \in Range(copied) THEN <<Bad>>
    ELSE IF v < 773 THEN copied
    ELSE foldApply(copied, [i \in DOMAIN left |-> left[i].id], v)
copyComponentPatchOf(s, t, v, sb) ==
    LET Kept(c) == sb \/ ~Lacks(c, v)
        copyOf[x \in StacksIn(s)] ==
            folded(LET kept == SelectSeq(x.comps, Kept)
                       in == [i \in DOMAIN kept |->
                                IF sb THEN laterComponent(kept[i].id, v) ELSE kept[i].id]
                   IN  [i \in DOMAIN kept |->
                          renumbered(copyComponent(kept[i], in[i], t, v, sb, copyOf),
                                     IF sb THEN in[i] ELSE componentIDAt[in[i], v])],
                   SelectSeq(x.comps, LAMBDA c : ~Kept(c)), v)
    IN  copyOf[s]

\* The last item is an explorer map: where it is shown as another it is named.
explorerMapItemName(t, item, v) ==
    IF item = Items /\ ~IDPresent(t, item)
    THEN <<Naming(componentIDAt[ItemName, v], <<item>>)>> ELSE << >>

wholeSlot(item, name, patch) ==
    IF Bad \in Range(patch) THEN BadStack
    ELSE IF item = 0 THEN Empty ELSE Stack(item, name \o patch)
copyFullSlot(s, t, v) ==
    wholeSlot(RemapID("item", t, s.item), explorerMapItemName(t, s.item, v),
              copyComponentPatchOf(s, t, v, FALSE))

orElse(copied, s) == IF copied # BadStack THEN copied ELSE s

\* A slot that cannot be walked keeps its components as they are.
remapTrailingSlot(s, t, v) ==
    orElse(copyFullSlot(s, t, v), [s EXCEPT !.item = RemapID("item", t, @)])

allOrNone(copied, ss) == IF BadStack \in Range(copied) THEN ss ELSE copied

\* A window's items, an equipment list: all of them, or none.
remapWindowItems(ss, t, v) ==
    allOrNone([i \in DOMAIN ss |-> copyFullSlot(ss[i], t, v)], ss)

\* An offer is its cost, with at most one predicate, and its result.
remapMerchantOffers(offer, t, v) ==
    LET cost == Stack(RemapID("item", t, offer[1].item),
                      [i \in DOMAIN offer[1].comps |->
                         Comp(componentIDAt[offer[1].comps[i].id, v])])
    IN  IF v = 770 THEN offer
        ELSE allOrNone(<<cost, copyFullSlot(offer[2], t, v)>>, offer)

\* One component of the client's: it rides in a patch of one.
translateComponent(c, t, v) == copyComponentPatchOf(Stack(0, <<c>>), t, v, TRUE)[1]

\* From a creative client: what it added is dropped, and the components the
\* canonical side has no word for.
unmapCreativeSlot(s, t, v) ==
    IF s.item = 0 \/ IDAdded(t, s.item) THEN Empty
    ELSE Stack(UnmapID(t, s.item),
               SelectSeq([i \in DOMAIN s.comps |-> translateComponent(s.comps[i], t, v)],
                         LAMBDA c : c # Bad))

\* From a click: hashes stand for the components.
unmapHashedSlot(s, t) ==
    IF IDAdded(t, s.item) THEN Empty ELSE Stack(UnmapID(t, s.item), s.comps)

----------------------------------------------------------------------------
(* The other packets that carry registry ids.                              *)

FallingBlock == 52

remapSpawnEntityType(x, t, v) ==
    <<RemapID("entity", RealTable("entity", v), substituteEntityType(v, x[1])),
      IF x[1] = FallingBlock THEN RemapID("state", t, x[2]) ELSE x[2]>>

\* The registry a statistic's keys are in.
statKeyRegistry(typ) ==
    CASE typ = 0 -> "block" [] typ \in 1 .. 5 -> "item" [] typ \in 6 .. 7 -> "entity"
      [] OTHER -> "stat"
remapAwardStats(x, t, v) ==
    LET reg == statKeyRegistry(x[1])
    IN  <<x[1], RemapID(reg, IF reg \in {"block", "item"} THEN t ELSE RealTable(reg, v), x[2])>>

remapUpdateAttributes(ids, v) ==
    LET t == RealTable("attribute", v)
        has == SelectSeq(ids, LAMBDA i : IDPresent(t, i))
    IN  [i \in DOMAIN has |-> RemapID("attribute", t, has[i])]

remapChunkBlockEntities(typs, v) ==
    LET has == SelectSeq(typs, LAMBDA y : blockEntityTypeFor(v, y) # None)
    IN  [i \in DOMAIN has |-> blockEntityTypeFor(v, has[i])]

\* Particles: their ids, and what those that have options carry.
ParticleRuns(v) ==
    CASE v >= 777 -> <<Run(4, 4, 7), Run(5, 34, 8), Run(35, 48, 11), Run(49, 113, 13)>>
      [] v = 776 -> <<Run(4, 4, 7), Run(5, 48, 8), Run(49, 113, 10)>>
      [] v = 775 -> <<Run(5, 48, 1), Run(49, 113, 3)>>
      [] v \in {773, 774} -> <<Run(5, 113, 1)>>
      [] OTHER -> << >>
remapParticleID(v, id) == shift(ParticleRuns(v), id)

BlockParticles == {1, 2, 28, 108, 112}
PowerParticles == {7, 15, 41, 45}
ItemParticle == 46

notEmpty(s) == IF s = Empty THEN BadStack ELSE s

\* Its stack: a template cannot be empty, and neither can the particle.
copyParticleItem(s, t, v) ==
    IF templateStacks(v)
    THEN IF s.item = 0 THEN BadStack
         ELSE notEmpty(wholeSlot(RemapID("item", t, s.item), << >>,
                                 copyComponentPatchOf(s, t, v, FALSE)))
    ELSE notEmpty(copyFullSlot(s, t, v))

\* The options in the client's form; BadStack drops the packet.
copyParticle(id, val, t, v) ==
    CASE id \in BlockParticles -> <<RemapID("state", t, val[1])>>
      [] id = ItemParticle -> <<copyParticleItem(val[1], t, v)>>
      [] id \in PowerParticles ->
           IF v < 776 THEN << >> ELSE IF val = << >> THEN <<"default">> ELSE val
      [] OTHER -> val

\* A section's block states: a palette and, unless it has one value, an index
\* for each entry, PerLong to a long; the last long is padded.
Entries == 5
PerLong == 2
FluidState == 1

countFluids(palette, longs) ==
    IF longs = << >> THEN IF palette[1] = FluidState THEN Entries ELSE 0
    ELSE Cardinality({n \in 1 .. Entries : palette[FlattenSeq(longs)[n] + 1] = FluidState})

remapSections(x, t, v) ==
    [palette |-> [i \in DOMAIN x.palette |-> RemapID("state", t, x.palette[i])],
     longs |-> x.longs,
     fluids |-> IF v >= 775 THEN countFluids(x.palette, x.longs) ELSE None]

----------------------------------------------------------------------------
(* Entity metadata: entries of an index, a serializer and a value.  The    *)
(* gateway moves what its species need, then the chain renumbers.          *)

Entry(idx, ser, val) == [idx |-> idx, ser |-> ser, val |-> val]
VarInt == 1
Slot == 7
OptBlockState == 15
Painting == 30
Dye == 43
Walked == {0, 1, 3, 8, 9, 10, 11, 17, 18, 19, 21, 22, 23, 24, 26, 27, 28, 31, 32}

\* A body with a serializer the walk does not know is left alone.
rewriteMetaEntries(es, moved) ==
    IF \A e \in Range(es) : e.ser \in Walked THEN moved ELSE es

ShiftCubeMobMeta(es, v) ==
    rewriteMetaEntries(es, [i \in DOMAIN es |->
        IF v >= 776 /\ es[i].idx = 16 /\ es[i].ser = VarInt
        THEN [es[i] EXCEPT !.idx = 18] ELSE es[i]])

ShiftAgeableMobMeta(es, v) ==
    rewriteMetaEntries(es, [i \in DOMAIN es |->
        IF v >= 776 /\ es[i].idx >= 17 THEN [es[i] EXCEPT !.idx = @ + 1] ELSE es[i]])

\* Its own walk knows fewer serializers.
FixCopperGolemMeta(es, v) ==
    LET state == IF v = 774 THEN 33 ELSE 37
        Move(e) == IF e.ser = VarInt /\ e.idx \in {16, 17}
                   THEN [e EXCEPT !.ser = IF e.idx = 16 THEN state + 1 ELSE state] ELSE e
    IN  IF v < 774 \/ \E i \in DOMAIN es : es[i].ser \notin {0, 1, 3, 8, 10, 11, 21, 31, 32}
        THEN es ELSE [i \in DOMAIN es |-> Move(es[i])]

FixCushionMeta(es, v) ==
    rewriteMetaEntries(es, [i \in DOMAIN es |->
        IF v >= 777 /\ es[i].idx = 8 /\ es[i].ser = VarInt
        THEN [es[i] EXCEPT !.ser = Dye] ELSE es[i]])

FixPaintingMeta(es, v) ==
    IF v = 776 /\ Len(es) = 1 /\ es[1].ser = Painting THEN <<Entry(9, 34, es[1].val)>> ELSE es

FixItemFrameMeta(es, v) ==
    IF v >= 775 /\ \A i \in DOMAIN es : <<es[i].idx, es[i].ser>> \in {<<8, Slot>>, <<9, VarInt>>}
    THEN [i \in DOMAIN es |-> [es[i] EXCEPT !.idx = @ + 1]] ELSE es

fixMeta(species, es, v) ==
    CASE species = "cube" -> ShiftCubeMobMeta(es, v)
      [] species = "ageable" -> ShiftAgeableMobMeta(es, v)
      [] species = "golem" -> FixCopperGolemMeta(es, v)
      [] species = "cushion" -> FixCushionMeta(es, v)
      [] species = "painting" -> FixPaintingMeta(es, v)
      [] species = "frame" -> FixItemFrameMeta(es, v)
      [] OTHER -> es

\* Canonical serializers that move, by the client's version.
serializerAt(ser, v) ==
    CASE v >= 776 /\ ser \in {22, 23, 24, 26, 27, 28} ->
           (22 :> 21 @@ 23 :> 23 @@ 24 :> 25 @@ 26 :> 27 @@ 27 :> 28 @@ 28 :> 30)[ser]
      [] v >= 776 /\ ser \in {31, 32} -> ser + 4
      [] v \in 773 .. 775 /\ ser \in {31, 32} -> ser - 1
      [] v >= 773 /\ ser \in 17 .. 21 -> ser - 1
      [] OTHER -> ser

wholeMeta(copied, es) ==
    IF \E e \in Range(copied) : e.ser = Slot /\ e.val[1] = BadStack THEN es ELSE copied
remapEntityMeta(es, t, v) ==
    LET knows == Walked \cup {Slot, OptBlockState, 20} \cup (IF v >= 777 THEN {Dye} ELSE {})
        Value(e) == CASE e.ser = Slot -> <<copyFullSlot(e.val[1], t, v)>>
                      [] e.ser = OptBlockState /\ e.val # <<0>> -> <<RemapID("state", t, e.val[1])>>
                      [] OTHER -> e.val
    IN  IF \E i \in DOMAIN es : es[i].ser \notin knows THEN es
        ELSE wholeMeta([i \in DOMAIN es |->
                          Entry(es[i].idx, serializerAt(es[i].ser, v), Value(es[i]))], es)

----------------------------------------------------------------------------
(* What the world sends.                                                   *)

\* One component of each kind, with something in it.
CompOf(c) ==
    CASE c \in {ChargedProj, BundleContents} ->
           Holding(c, <<Stack(2, << >>), Stack(1, <<Comp(ItemName)>>)>>)
      [] c = Container -> Holding(c, <<Empty, Stack(2, << >>), Stack(1, << >>)>>)
      [] c = PotDecorations -> Naming(c, <<2, 0, 1>>)
      [] c = TooltipDisplay -> Naming(c, <<3, 10, 118>>)
      [] c = Instrument -> Formed(c, "either")
      [] c \in {EntityData, BlockEntityData} -> Formed(c, "tag")
      [] OTHER -> Comp(c)

Signs == {<<Comp(118), Comp(2), Comp(120)>>,
          <<Comp(119), Formed(BlockEntityData, "tag"), Comp(120), Comp(3)>>}
Alien == Stack(Items, <<Comp(ItemName), Formed(EntityData, "alien")>>)

Stacks == {Stack(i, << >>) : i \in 0 .. Items}
          \cup {Stack(1, <<CompOf(c)>>) : c \in knownComponents}
          \cup {Stack(2, sign) : sign \in Signs}
          \cup {Stack(Items, <<Comp(ItemName)>>),
                Stack(1, <<Holding(Container, <<Stack(2, <<CompOf(BundleContents)>>)>>)>>),
                Stack(2, <<Holding(BundleContents, <<Stack(1, << >>), Stack(2, CHOOSE g \in Signs :
                                                                            Len(g) = 3)>>)>>)}

\* Metadata bodies by species, of a client that has the species.
Status == {<< >>, <<Entry(0, 0, << >>)>>, <<Entry(6, 21, << >>)>>, <<Entry(10, 18, << >>)>>}
Own(species) ==
    LET E(idx, ser) == Entry(idx, ser, << >>)
    IN  CASE species = "cube" -> {<<E(16, VarInt)>>}
          [] species = "creeper" -> {<<E(16, VarInt), E(17, 8)>>}
          [] species = "ageable" ->
               {<<E(16, 8), E(17, 0)>>, <<E(17, 0), E(18, VarInt)>>, <<E(17, 0), E(19, 22)>>,
                <<E(17, 23)>>, <<E(17, 0), E(22, 24)>>, <<E(17, 26)>>, <<E(18, 27)>>,
                <<E(17, 28)>>, <<E(18, 19)>>, <<E(17, 31)>>, <<E(17, 32)>>}
          [] species = "golem" -> {<<E(16, VarInt)>>, <<E(16, VarInt), E(17, VarInt)>>}
          [] species = "cushion" -> {<<E(8, VarInt)>>}
          [] species = "ghast" -> {<<E(17, 8)>>}
          [] species = "painting" -> {<<E(8, Painting)>>}
          [] species = "frame" -> {<<Entry(8, Slot, <<s>>), E(9, VarInt)>> :
                                     s \in {Stack(1, << >>), Stack(2, <<Comp(10)>>)}}
          [] species = "item" -> {<<Entry(8, Slot, <<Stack(2, <<Comp(10)>>)>>)>>}
          [] species = "enderman" -> {<<Entry(16, OptBlockState, <<b>>)>> : b \in 0 .. 2}
          [] species = "rocket" -> {<<E(9, 20)>>}
Species == {"cube", "creeper", "ageable", "golem", "cushion", "ghast", "painting", "frame",
            "item", "enderman", "rocket"}
\* The three whose type a client may lack.
TypeOf(species) == CASE species = "golem" -> 28 [] species = "cushion" -> 33
                     [] species = "ghast" -> 59 [] OTHER -> 0

Bodies(species) ==
    {a \o b : a \in IF species \in {"painting", "frame"} THEN {<< >>}
                    ELSE IF species = "golem" THEN {<< >>, <<Entry(0, 0, << >>)>>} ELSE Status,
              b \in Own(species)}

Sections == {[palette |-> <<a>>, longs |-> << >>] : a \in 0 .. 2} \cup
            {[palette |-> <<a, b>>, longs |-> <<<<0, 1>>, <<p, 0>>, <<1, p>>>>] :
               a \in 0 .. 2, b \in 0 .. 2, p \in 0 .. 1}

----------------------------------------------------------------------------
VARIABLES
    version,    \* of the client
    table,      \* of its items, blocks and states: where each canonical one is
    sent, now,  \* the content as it was sent, and as it is now
    stage       \* "canonical", "client", "dropped"; "back" at the world

vars == <<version, table, sent, now, stage>>

\* Air is everywhere; a stand-in is an entry the client has.
Placements == {at \in [0 .. Items -> None .. Items + 1] :
                 /\ at[0] = 0
                 /\ \A i, j \in 0 .. Items : i # j /\ at[i] # None => at[i] # at[j]}
Tables == UNION {{[at |-> at, t |-> TableOf(at, stand, Items + 1)] :
                    stand \in [{i \in 0 .. Items : at[i] = None} ->
                               {i \in 0 .. Items : at[i] # None}]} : at \in Placements}
Identity == [at |-> [i \in 0 .. Items |-> i], t |-> Table(<< >>, {}, << >>, {})]

Sends(kind, x) == sent = [kind |-> kind, x |-> x] /\ now = sent

SendsItems ==
    \/ \E s \in Stacks : Sends("slot", s)
    \/ "type" \in Rare /\ Sends("slot", Alien)
    \/ \E s \in {Stack(1, <<Comp(10)>>), Stack(Items, << >>)} :
         Sends("window", <<s, Empty, Stack(2, << >>)>>)
    \/ \E i \in 1 .. 2 : version > 770 /\
         Sends("offer", <<Stack(i, <<Comp(PotionContents)>>), Stack(2, <<Comp(34)>>)>>)
    \/ \E i \in 0 .. Items : Sends("state", i) \/ Sends("block", i) \/ Sends("spawn", <<52, i>>)
    \/ \E typ \in 0 .. 1, i \in 1 .. Items :
         (IDPresent(table.t, i) \/ "stat" \in Rare) /\ Sends("stat", <<typ, i>>)
    \/ \E id \in BlockParticles, i \in 0 .. Items : Sends("particle", <<id, <<i>>>>)
    \/ \E s \in {Stack(1, << >>), Stack(Items, <<Comp(10)>>)} :
         Sends("particle", <<ItemParticle, <<s>>>>)
    \/ \E x \in Sections : Sends("section", x)
    \/ \E species \in {"frame", "item", "enderman"} : \E es \in Bodies(species) :
         version \in {770, 776, 777} /\ Sends("meta", <<species, es>>)

SendsOthers ==
    \/ \E typ \in 0 .. 160 \ {52} :
         (typ = 133 => version >= 776) /\ Sends("spawn", <<typ, 0>>)
    \/ \E typ \in 6 .. 8 : \E key \in RealIds(statKeyRegistry(typ)) :
         /\ IDPresent(RealTable(statKeyRegistry(typ), version), key) \/ "stat" \in Rare
         /\ Sends("stat", <<typ, key>>)
    \/ \E i \in 0 .. 39 : Sends("attributes", <<i, (i + 1) % 40, (i + 7) % 40>>)
    \/ \E typ \in 0 .. 49 : Sends("tiles", <<typ, (typ + 1) % 50>>)
    \/ \E id \in 0 .. 113 \ (BlockParticles \cup {ItemParticle}) :
         \E val \in IF id \in PowerParticles THEN {<< >>, <<"own">>} ELSE {<< >>} :
           Sends("particle", <<id, val>>)
    \/ \E species \in Species \ {"frame", "item", "enderman"} : \E es \in Bodies(species) :
         /\ version \in {770, 776, 777}
         /\ species = "painting" => version = 776 \/ "painting" \in Rare
         /\ Sends("meta", <<species, es>>)

Init ==
    /\ version \in ClientVersions /\ stage = "canonical"
    /\ \/ table \in (IF version = 777 THEN {Identity} ELSE Tables) /\ SendsItems
       \/ table = Identity /\ SendsOthers

Becomes(x) == now' = [now EXCEPT !.x = x] /\ stage' = "client"
Dropped == now' = now /\ stage' = "dropped"

particleBecomes(id, val) ==
    IF id = ItemParticle /\ val[1] = BadStack THEN Dropped
    ELSE Becomes(<<remapParticleID(version, id), val>>)

\* At canonical ids; what the client has no word for is dropped.
remapClientboundIDs ==
    /\ stage = "canonical"
    /\ LET x == sent.x
           t == table.t
       IN CASE sent.kind = "meta" /\ IsSubstituted(version, TypeOf(x[1])) -> Dropped
            [] sent.kind = "particle" -> particleBecomes(x[1], copyParticle(x[1], x[2], t, version))
            [] OTHER -> Becomes(
                 CASE sent.kind = "slot" -> remapTrailingSlot(x, t, version)
                   [] sent.kind = "window" -> remapWindowItems(x, t, version)
                   [] sent.kind = "offer" -> remapMerchantOffers(x, t, version)
                   [] sent.kind \in {"state", "block"} -> RemapID(sent.kind, t, x)
                   [] sent.kind = "spawn" -> remapSpawnEntityType(x, t, version)
                   [] sent.kind = "stat" -> remapAwardStats(x, t, version)
                   [] sent.kind = "attributes" -> remapUpdateAttributes(x, version)
                   [] sent.kind = "tiles" -> remapChunkBlockEntities(x, version)
                   [] sent.kind = "section" -> remapSections(x, t, version)
                   [] sent.kind = "meta" ->
                        <<x[1], remapEntityMeta(fixMeta(x[1], x[2], version), t, version)>>)
    /\ UNCHANGED <<version, table, sent>>

Says(kind, x, y) ==
    /\ sent' = [kind |-> kind, x |-> x] /\ now' = [kind |-> kind, x |-> y] /\ stage' = "back"
    /\ UNCHANGED <<version, table>>

\* A creative client puts the stack it holds back, and what it says of its own
\* accord: a component the canonical side does not know, an item of its own.
unmapServerboundIDs ==
    /\ stage = "client" /\ sent.kind = "slot" /\ version \notin 773 .. 775
    /\ \/ \E own \in {<< >>, <<Comp(200)>>} :
            LET held == [now.x EXCEPT !.comps = own \o @]
            IN  now.x.item # 0 /\ Says("creative", now.x, unmapCreativeSlot(held, table.t, version))
       \/ \E i \in table.t.added \cup {now.x.item} :
            /\ i # 0
            /\ \/ Says("creative", Stack(i, << >>),
                       unmapCreativeSlot(Stack(i, << >>), table.t, version))
               \/ Says("click", Stack(i, << >>), unmapHashedSlot(Stack(i, << >>), table.t))

Rest == stage # "canonical" /\ UNCHANGED vars

Next == remapClientboundIDs \/ unmapServerboundIDs \/ Rest
Spec == Init /\ [][Next]_vars

----------------------------------------------------------------------------
(* What a client of the version reads, and the properties.                 *)

\* The canonical entry a client's id is, or None; what an entry is shown as.
ItemOf(w) == IF \E i \in 0 .. Items : table.at[i] = w
             THEN CHOOSE i \in 0 .. Items : table.at[i] = w ELSE None
ShownAs(i) == IF table.at[i] # None THEN i ELSE table.t.stand[i]

FormAt(id) ==
    CASE id \in {ChargedProj, BundleContents, Container} ->
           IF version >= 775 THEN "templates" ELSE "slots"
      [] id = Instrument -> IF version >= 775 THEN "bare" ELSE "either"
      [] id \in {EntityData, BlockEntityData} -> IF version >= 773 THEN "typed" ELSE "tag"
      [] OTHER -> ""

\* Wire component d is canonical component c in the client's words, wire stack
\* w canonical stack s or its stand-in, with what the client has of it.
ShowsComp(d, c, shows) ==
    LET has == SelectSeq(c.ids, LAMBDA i : ~Lacks(Comp(i), version))
        kept == IF c.id = Container THEN c.in
                ELSE SelectSeq(c.in, LAMBDA s : s.item # 0 /\ ShownAs(s.item) # 0)
    IN  /\ d.id = componentIDAt[c.id, version] /\ d.form = FormAt(c.id)
        /\ CASE c.id = PotDecorations -> [i \in DOMAIN d.ids |-> ItemOf(d.ids[i])] =
                                         [i \in DOMAIN c.ids |-> ShownAs(c.ids[i])]
             [] c.id = TooltipDisplay ->
                  d.ids = [i \in DOMAIN has |-> componentIDAt[has[i], version]]
             [] OTHER -> Range(c.ids) \subseteq Range(d.ids)
        /\ Len(d.in) = Len(kept) /\ \A i \in DOMAIN kept : shows[d.in[i], kept[i]]
Shows(wire, stack) ==
    LET shows[w \in StacksIn(wire), s \in StacksIn(stack)] ==
        IF ShownAs(s.item) = 0 THEN w = Empty
        ELSE /\ ItemOf(w.item) = ShownAs(s.item)
             /\ \A c \in Range(s.comps) :
                  \/ version < 773 /\ Lacks(c, version)
                  \/ \E d \in Range(w.comps) :
                       IF Lacks(c, version)
                       THEN /\ d.id = componentIDAt[BlockEntityData, version]
                            /\ d.form = "typed" /\ c.id \in Range(d.ids)
                       ELSE ShowsComp(d, c, shows)
             /\ \A d \in Range(w.comps) :
                  \/ \E c \in Range(s.comps) : ~Lacks(c, version) /\ ShowsComp(d, c, shows)
                  \/ d = Naming(componentIDAt[ItemName, version], <<s.item>>)
                      /\ s.item # ShownAs(s.item)
                  \/ d.id = componentIDAt[BlockEntityData, version] /\ d.ids # << >>
    IN  shows[wire, stack]

\* An older registry keeps the order of what it has.
RankOf(reg, id) == Rank(RealTable(reg, version).gone, id)

\* Every variable keeps its type, and every stack and id that goes anywhere is
\* whole: nothing that could not be walked is written.
TypeOK ==
    /\ version \in ClientVersions
    /\ stage \in {"canonical", "client", "dropped", "back"}
    /\ stage = "client" => now.kind = sent.kind
    /\ now.kind \in {"slot", "creative", "click"} =>
         now.x.item \in 0 .. Items + 1 /\ Bad \notin Range(now.x.comps)
    /\ now.kind \in {"state", "block"} => now.x \in 0 .. Items + 1
    /\ now.kind = "particle" => now.x[1] \in 0 .. 126

\* Every id a client is sent is its own id of that entry or of its stand-in,
\* and every stack one it can decode: never an id of something else, nor one
\* past its registry; what has no word is left out.
ShownRight ==
    stage = "client" =>
        LET x == sent.x
            y == now.x
        IN CASE sent.kind = "slot" -> Shows(y, x)
             [] sent.kind = "window" -> \A i \in DOMAIN x : Shows(y[i], x[i])
             [] sent.kind = "offer" ->
                  /\ ItemOf(y[1].item) = ShownAs(x[1].item) /\ Shows(y[2], x[2])
                  /\ y[1].comps[1].id = componentIDAt[PotionContents, version]
             [] sent.kind = "state" -> ItemOf(y) = ShownAs(x)
             [] sent.kind = "block" -> y = IF table.at[x] = None THEN 0 ELSE table.at[x]
             [] sent.kind = "spawn" ->
                  /\ y[1] = RankOf("entity", substituteEntityType(version, x[1]))
                  /\ x[1] = FallingBlock => ItemOf(y[2]) = ShownAs(x[2])
             [] sent.kind = "stat" ->
                  y[2] = IF x[1] <= 5 THEN table.at[x[2]] ELSE RankOf(statKeyRegistry(x[1]), x[2])
             [] sent.kind = "attributes" ->
                  LET has == SelectSeq(x, LAMBDA i : i \notin AttributeGone(version))
                  IN  y = [i \in DOMAIN has |-> RankOf("attribute", has[i])]
             [] sent.kind = "tiles" ->
                  LET gone == CASE version < 774 -> {40, 48, 49} [] version >= 776 -> {25}
                                [] OTHER -> {}
                      has == SelectSeq(x, LAMBDA i : i \notin gone)
                  IN  y = [i \in DOMAIN has |-> Rank(gone, has[i])]
             [] sent.kind = "particle" /\ x[1] \in BlockParticles ->
                  ItemOf(y[2][1]) = ShownAs(x[2][1])
             [] sent.kind = "particle" /\ x[1] = ItemParticle ->
                  y[2][1] # Empty /\ ItemOf(y[2][1].item) = ShownAs(x[2][1].item)
             [] sent.kind = "particle" /\ x[1] \in PowerParticles ->
                  (y[2] # << >>) = (version >= 776)
             [] sent.kind = "section" ->
                  \A i \in DOMAIN x.palette : ItemOf(y.palette[i]) = ShownAs(x.palette[i])
             [] OTHER -> TRUE

\* What a client says of a stack is understood as what the client sees: each
\* component it sent that has a canonical word, and none other; an item of its
\* own is nothing at all.
ReadBack ==
    stage = "back" =>
        IF IDAdded(table.t, sent.x.item) THEN now.x = Empty
        ELSE /\ Shows(sent.x, now.x) /\ now.x.item = ItemOf(sent.x.item)
             /\ Len(now.x.comps) = Len(sent.x.comps)

\* The serializers by name, in the order of registration.
Serializers(v) ==
    LET plain == [i \in 1 .. 16 |-> ToString(i - 1)]
        late == <<"particle", "particles", "villager", "opt uint", "pose">>
    IN  IF v = 770
        THEN plain \o <<"compound">> \o late \o
             <<"cat", "cow", "wolf", "wolf sound", "frog", "pig", "chicken", "global pos",
               "painting", "sniffer", "armadillo">>
        ELSE plain \o late \o
             <<"cat", "cat sound", "cow", "cow sound", "wolf", "wolf sound", "frog", "pig",
               "pig sound", "chicken", "chicken sound", "nautilus", "global pos", "painting",
               "sniffer", "armadillo", "golem state", "weathering", "vector", "quaternion",
               "profile", "arm", "dye">>

\* The field an entry is, and its place at a client of 26.2 or 26.3.
FieldOf(species, e) ==
    CASE species = "golem" /\ e.idx = 16 -> "weathering"
      [] species = "golem" /\ e.idx = 17 -> "golem state"
      [] species = "cushion" /\ e.idx = 8 -> "dye"
      [] OTHER -> Serializers(770)[e.ser + 1]
PlaceOf(species, idx) ==
    CASE species = "cube" /\ idx = 16 -> 18
      [] species = "ageable" /\ idx >= 17 -> idx + 1
      [] species \in {"painting", "frame"} -> idx + 1
      [] OTHER -> idx

\* Each entry of a metadata body reaches the client at the index its species
\* has for the field and under the field's serializer, in whichever order the
\* two rewrites meet the renumbered ids.
MetaRight ==
    stage = "client" /\ sent.kind = "meta" =>
        LET es == sent.x[2]
            ds == now.x[2]
        IN  /\ Len(ds) = Len(es)
            /\ \A i \in DOMAIN es :
                 IF version = 770 THEN ds[i].idx = es[i].idx /\ ds[i].ser = es[i].ser
                 ELSE /\ ds[i].idx = PlaceOf(sent.x[1], es[i].idx)
                      /\ Serializers(version)[ds[i].ser + 1] = FieldOf(sent.x[1], es[i])
            /\ \A i \in DOMAIN es :
                 CASE es[i].ser = Slot -> Shows(ds[i].val[1], es[i].val[1])
                   [] es[i].ser = OptBlockState -> ItemOf(ds[i].val[1]) = ShownAs(es[i].val[1])
                   [] OTHER -> ds[i].val = es[i].val

\* The fluid count a 26.x client swims by is that of the section's blocks.
FluidsCounted ==
    stage = "client" /\ sent.kind = "section" /\ version >= 775 =>
        LET x == sent.x
            StateAt(n) == IF x.longs = << >> THEN x.palette[1]
                          ELSE x.palette[x.longs[1 + (n - 1) \div PerLong]
                                                [1 + ((n - 1) % PerLong)] + 1]
        IN  now.x.fluids = Cardinality({n \in 1 .. Entries : StateAt(n) = FluidState})
=============================================================================
