------------------------------ MODULE Protocol ------------------------------
(***************************************************************************)
(* What package protocol promises a client of any version, in its three    *)
(* layers: the registries, tags and recipes a version is given             *)
(* (DataPacks), the registry ids inside a packet (Content), the packet's   *)
(* own id and layout (Translate).  A packet takes the layers in that       *)
(* order, and each hands the next one whole packets at canonical ids, so   *)
(* they are explored one at a time: layer says which.                      *)
(***************************************************************************)
EXTENDS Naturals

CONSTANTS ClientVersions, Items, Rare, Packs, Reloads, RecipeBooks

ASSUME ProtocolAssumption == Items \in Nat /\ ClientVersions \subseteq 770 .. 777

VARIABLES
    layer,                                  \* "layout", "content", "packs"
    version,                                \* of the client
    packet, id, body, at, fate,             \* Translate
    table, sent, now, side,                 \* Content
    stage, curConfig, pending, dims, curRecipes, declared, tags, stations, told,
    cache, generated                        \* DataPacks

layoutVars == <<packet, id, body, at, fate>>
contentVars == <<table, sent, now, side>>
packsVars == <<stage, curConfig, pending, dims, curRecipes, declared, tags, stations, told,
               cache, generated>>
vars == <<layer, version, layoutVars, contentVars, packsVars>>

Layout == INSTANCE Translate WITH sent <- packet
Ids == INSTANCE Content WITH stage <- side
Data == INSTANCE DataPacks

NoLayout == packet = 0 /\ id = 0 /\ body = 0 /\ at = 0 /\ fate = 0
NoContent == table = 0 /\ sent = 0 /\ now = 0 /\ side = 0
NoPacks ==
    /\ stage = 0 /\ curConfig = 0 /\ pending = 0 /\ dims = 0 /\ curRecipes = 0 /\ declared = 0
    /\ tags = 0 /\ stations = 0 /\ told = 0 /\ cache = 0 /\ generated = 0

Init ==
    \/ layer = "layout" /\ Layout!Init /\ NoContent /\ NoPacks
    \/ layer = "content" /\ NoLayout /\ Ids!Init /\ NoPacks
    \/ layer = "packs" /\ NoLayout /\ NoContent /\ Data!Init

InLayout == layer = "layout" /\ UNCHANGED <<layer, contentVars, packsVars>>
InContent == layer = "content" /\ UNCHANGED <<layer, layoutVars, packsVars>>
InPacks == layer = "packs" /\ UNCHANGED <<layer, layoutVars, contentVars>>

Remap == InLayout /\ Layout!Remap
Up == InLayout /\ Layout!Up
Fold == InLayout /\ Layout!Fold
Down == InLayout /\ Layout!Down
Arrive == InLayout /\ Layout!Rest

Clientbound == InContent /\ Ids!remapClientboundIDs
Serverbound == InContent /\ Ids!unmapServerboundIDs
Shown == InContent /\ Ids!Rest

Join == InPacks /\ \E d \in Packs, u \in RecipeBooks, dim \in Data!DimIDs : Data!Join(d, u, dim)
StartConfiguration == InPacks /\ \E d \in Packs : Data!StartConfiguration(d)
Reconfigure == InPacks /\ Data!Reconfigure
Rejoin == InPacks /\ \E u \in RecipeBooks, dim \in Data!DimIDs : Data!Rejoin(u, dim)
UpdateTags == InPacks /\ \E ts \in Reloads : Data!UpdateTags(ts)
UpdateRecipes == InPacks /\ \E u \in RecipeBooks : Data!UpdateRecipes(u)
ShowDialog == InPacks /\ \E ref \in Data!Dialogs : Data!ShowDialog(ref)
Dimension == InPacks /\ \E dim \in Data!DimIDs : Data!Dimension(dim)
SendBiome == InPacks /\ \E b \in Data!Range(Data!Biomes) : Data!SendBiome(b)
SendDamage == InPacks /\ \E t \in Data!Range(Data!DamageTypes) : Data!SendDamage(t)
Leave == InPacks /\ \E v \in ClientVersions : Data!Leave(v)

Next ==
    \/ Remap \/ Up \/ Fold \/ Down \/ Arrive
    \/ Clientbound \/ Serverbound \/ Shown
    \/ Join \/ StartConfiguration \/ Reconfigure \/ Rejoin \/ UpdateTags \/ UpdateRecipes
    \/ ShowDialog \/ Dimension \/ SendBiome \/ SendDamage \/ Leave
Spec == Init /\ [][Next]_vars

----------------------------------------------------------------------------
(* The layers' properties; each is stated in its module.                   *)

\* Every variable of the layer explored keeps its type.
TypeOK ==
    CASE layer = "layout" -> Layout!TypeOK
      [] layer = "content" -> Ids!TypeOK
      [] layer = "packs" -> Data!TypeOK

\* Every packet arrives with the fields the other side reads (translate_steps).
LayoutRight == layer = "layout" => Layout!LayoutRight
\* A number that names an action names the same one (translate_steps, v777).
ActionMeant == layer = "layout" => Layout!ActionMeant
\* No two packets arrive under one id (protomap tables, translate_chain).
OneMeaning == layer = "layout" => Layout!OneMeaning
\* Only what the other side has no notion of is dropped (translate_chain).
DroppedIfUnknown == layer = "layout" => Layout!DroppedIfUnknown

\* The ids inside a packet are the client's own (blockremap, itemcomponents).
ShownRight == layer = "content" => Ids!ShownRight
\* What a client says of a stack is understood as what it saw (creativeslot).
ReadBack == layer = "content" => Ids!ReadBack
\* Metadata reaches its field under its serializer (rewriteMetaEntries, Fix*).
MetaRight == layer = "content" => Ids!MetaRight
\* The fluid count is the section's (processContainerFluids).
FluidsCounted == layer = "content" => Ids!FluidsCounted

\* A tag's ids mean its members (buildTags26x, dynamicIndexWith).
TagsAgree == layer = "packs" => Data!TagsAgree
\* Another session's data pack leaves no trace (tags26x, buildTags26x).
BuiltInTags == layer = "packs" => Data!BuiltInTags
\* Every registry tagged is one the client has (tags26xSkip).
TagRegistriesKnown == layer = "packs" => Data!TagRegistriesKnown
\* A registry reference means to the client what it meant to the world.
ReferencesAgree == layer = "packs" => Data!ReferencesAgree
\* Every entry declared without data is in the client's pack (biomeEntriesFor).
Resolvable == layer = "packs" => Data!Resolvable
\* The loom's rows are the client's (LoomPatterns, tagsLegacy).
LoomAgrees == layer = "packs" => Data!LoomAgrees
\* The stonecutter's buttons mean one row (UpdateRecipesFrom).
RowsAgree == layer = "packs" => Data!RowsAgree
\* No item is let into a station through its stand-in (UpdateRecipesFrom).
SlotsAgree == layer = "packs" => Data!SlotsAgree

----------------------------------------------------------------------------
(* What is asked of each layer as a whole.                                 *)

\* A packet of one version's layout arrives, in either direction, as the
\* same packet in the other's, and is dropped only where it has none.
PacketsArrive == TypeOK /\ LayoutRight /\ ActionMeant /\ OneMeaning /\ DroppedIfUnknown

\* Items, block states, metadata and sections mean to the client what they
\* meant to the world, in every position of a packet that can hold them.
ContentRight == ShownRight /\ MetaRight /\ FluidsCounted

\* A tag names its members to the client the tags are sent to, through packs,
\* reloads and other sessions on the same tables.
TagsRight == TagsAgree /\ BuiltInTags /\ TagRegistriesKnown

\* What is declared, and what later refers to it by number, agree.
RegistriesRight == ReferencesAgree /\ Resolvable

\* A loom, a stonecutter and a furnace offer the client what the world will
\* accept of it.
StationsAgree == LoomAgrees /\ RowsAgree /\ SlotsAgree
=============================================================================
