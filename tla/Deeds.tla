------------------------------- MODULE Deeds --------------------------------
(***************************************************************************)
(* What a player does, and what the world hears of it.  A vanilla client   *)
(* tells a deed in packets (Told); the translation chain has brought them  *)
(* to canonical ids and layouts (module Translate); the session lifts each *)
(* into frames for the world (Hears), which drops, merges and renumbers.   *)
(* A deed is written as the sequence of frames the world is to have of it. *)
(***************************************************************************)
EXTENDS Wire, SequencesExt

CONSTANT None

Get(p, l) == Of(p.fields, l)

-----------------------------------------------------------------------------
(* The frames.                                                             *)

Keys == {"forward", "backward", "left", "right", "jump", "sneak", "sprint"}
Input(keys) == [msg |-> "Input", keys |-> keys]
PlayerAbilities(flying) == [msg |-> "PlayerAbilities", flying |-> flying]
PaddleBoat(l, r) == [msg |-> "PaddleBoat", left |-> l, right |-> r]
PlayerAction(action) == [msg |-> "PlayerAction", action |-> action]

UseEntity(target, attack, hand) ==
    [msg |-> "UseEntity", target |-> target, attack |-> attack, hand |-> hand]
UseItem(hand, seq) == [msg |-> "UseItem", hand |-> hand, seq |-> seq]
SwingAction(hand) == [msg |-> "SwingAction", hand |-> hand]
HeldSlot(slot) == [msg |-> "HeldSlot", slot |-> slot]
PickItem(entity, what, data) ==
    [msg |-> "PickItem", entity |-> entity, what |-> what, data |-> data]

Dig(status, face, seq) == [msg |-> "Dig", status |-> status, at |-> 7, face |-> face, seq |-> seq]
Place(hand, face, inside, seq) ==
    [msg |-> "Place", hand |-> hand, at |-> 7, face |-> face, cursor |-> 3, inside |-> inside,
     seq |-> seq]

Stack(id, count) == [id |-> id, count |-> count]
Empty == Stack(0, 0)
WindowClick(slot, button, mode, changed, cursor) ==
    [msg |-> "WindowClick", id |-> 1, slot |-> slot, button |-> button, mode |-> mode,
     changed |-> changed, cursor |-> cursor]
CreativeSlot(slot, stack, patch, variant) ==
    [msg |-> "CreativeSlot", slot |-> slot, item |-> stack, components |-> patch,
     variant |-> variant]
SelTrade(slot) == [msg |-> "SelTrade", slot |-> slot]
Craft(recipe) == [msg |-> "Craft", window |-> 1, recipe |-> recipe]
WindowClose == [msg |-> "WindowClose"]
NameItem(name) == [msg |-> "NameItem", name |-> name]
Enchant(button) == [msg |-> "Enchant", button |-> button]
SetBeacon(primary, secondary) ==
    [msg |-> "SetBeacon", primary |-> primary, secondary |-> secondary]
SlotState(slot, state) == [msg |-> "SlotState", slot |-> slot, state |-> state]
BundleSelect(slot, selected) == [msg |-> "BundleSelect", slot |-> slot, selected |-> selected]

EditBook(slot, pages, title) ==
    [msg |-> "EditBook", slot |-> slot, pages |-> pages, title |-> title]
SignUpdate(front, lines) == [msg |-> "SignUpdate", at |-> 7, front |-> front, lines |-> lines]
Command(words) == [msg |-> "Command", cmd |-> words]
SuggestReq(id, text) == [msg |-> "SuggestReq", id |-> id, text |-> text]
CustomClickAction(click, payload) ==
    [msg |-> "CustomClickAction", click |-> click, payload |-> payload]

RespawnReq == [msg |-> "RespawnReq"]
StatsReq == [msg |-> "StatsReq"]
GameRuleReq == [msg |-> "GameRuleReq"]
PlayerLoaded == [msg |-> "PlayerLoaded"]
TeleportToEntity(user) == [msg |-> "TeleportToEntity", user |-> user]
RecipeSettingChange(book, open, filter) ==
    [msg |-> "RecipeSettingChange", book |-> book, open |-> open, filter |-> filter]
RecipeSeen(id) == [msg |-> "RecipeSeen", id |-> id]

-----------------------------------------------------------------------------
(* What a player may do, by the kind of it, at a version.                  *)

\* A text, its characters and its bytes: of other scripts it has more bytes.
Text(chars, bytes) == [chars |-> chars, bytes |-> bytes]
Short == Text(3, 3)
FullPage == Text(1024, 1024)
Wide == Text(15, 45)
WidePage == Text(400, 1200)
Texts == {Short, Wide}
Books == {<< >>, <<Short, FullPage>>, <<Short, WidePage>>}

KeyDeeds(v) ==
    {<<Input(k)>> : k \in {{}, Keys} \cup {{i} : i \in Keys}}
    \cup {<<PlayerAbilities(f)>> : f \in BOOLEAN}
    \cup {<<PaddleBoat(l, r)>> : l, r \in BOOLEAN}
    \cup {<<PlayerAction(a)>> : a \in 2 .. 4}

HandDeeds(v) ==
    {<<UseEntity(5, FALSE, h)>> : h \in {0, 1}} \cup {<<UseEntity(5, TRUE, 0)>>}
    \cup {<<UseItem(h, 9)>> : h \in {0, 1}} \cup {<<SwingAction(h)>> : h \in {0, 1}}
    \cup {<<HeldSlot(s)>> : s \in {0, 8}}
    \cup {<<PickItem(e, 7, d)>> : e, d \in BOOLEAN}

BlockDeeds(v) ==
    {<<Dig(s, f, n)>> : s \in {0, 2, 5}, f \in {0, 5}, n \in {8, 9}}
    \cup {<<Place(h, 1, i, n)>> : h \in {0, 1}, i \in BOOLEAN, n \in {8, 9}}

Clicks == {WindowClick(-999, 0, 5, << >>, Stack(4, 64)),
           WindowClick(4, 0, 0, << <<4, Stack(4, 64)>> >>, Empty),
           WindowClick(4, 1, 0, << <<4, Empty>>, <<5, Stack(6, 1)>> >>, Stack(4, 64))}

MenuDeeds(v) ==
    {<<c>> : c \in Clicks} \cup {<<CreativeSlot(36, Empty, "none", None)>>,
        <<CreativeSlot(36, Stack(4, 2), "none", None)>>,
        <<CreativeSlot(36, Stack(4, 2), "named", None)>>,
        <<CreativeSlot(36, Stack(8, 1), "painting", "kebab")>>}
    \cup {<<SelTrade(s)>> : s \in {0, 2}} \cup {<<Craft(3)>>, <<WindowClose>>, <<NameItem(Short)>>}
    \cup {<<Enchant(b)>> : b \in {0, 2}}
    \cup {<<SetBeacon(p, s)>> : p, s \in {0, 1}} \cup {<<SlotState(8, s)>> : s \in BOOLEAN}
    \cup {<<BundleSelect(4, n)>> : n \in {-1, 0}}

WordDeeds(v) ==
    {<<EditBook(40, p, t)>> : p \in Books, t \in {None} \cup Texts}
    \cup {<<SignUpdate(f, <<t, Short, Short, Short>>)>> : f \in BOOLEAN, t \in Texts}
    \cup {<<Command(<<"help">>)>>} \cup {<<SuggestReq(n, Short)>> : n \in {1, 2}}
    \cup (IF v < 775 THEN {}
          ELSE {<<Command(<<"gamerule", "keep_inventory", "true">>)>>,
                <<Command(<<"gamerule", "keep_inventory", "true">>),
                  Command(<<"gamerule", "random_tick_speed", "5">>)>>})
    \cup (IF v < 776 THEN {} ELSE {<<CustomClickAction("pack:yes", p)>> : p \in {None, "inputs"}})

AskDeeds(v) ==
    {<<RespawnReq>>, <<StatsReq>>, <<PlayerLoaded>>, <<TeleportToEntity(5)>>, <<RecipeSeen(3)>>}
    \cup {<<RecipeSettingChange(b, o, f)>> : b \in {0, 3}, o, f \in BOOLEAN}
    \cup (IF v < 775 THEN {} ELSE {<<GameRuleReq>>})

DeedTopics == {"keys", "hands", "blocks", "clicks", "words", "asks"}

DeedsOf(t, v) ==
    CASE t = "keys" -> KeyDeeds(v)
      [] t = "hands" -> HandDeeds(v)
      [] t = "blocks" -> BlockDeeds(v)
      [] t = "clicks" -> MenuDeeds(v)
      [] t = "words" -> WordDeeds(v)
      [] OTHER -> AskDeeds(v)

-----------------------------------------------------------------------------
(* The client's packets.                                                   *)

Hashed(s) == IF s = Empty THEN [has |-> FALSE]
             ELSE [has |-> TRUE, item |-> s.id, count |-> s.count, added |-> <<"hash">>,
                   removed |-> << >>]

KeyFlags(keys) ==
    Bit(1, "forward" \in keys) + Bit(2, "backward" \in keys) + Bit(4, "left" \in keys)
        + Bit(8, "right" \in keys) + Bit(16, "jump" \in keys) + Bit(32, "sneak" \in keys)
        + Bit(64, "sprint" \in keys)

ToldOf(f, v) ==
    CASE f.msg = "Input" ->
            Packet("player_input", "", F("flags", KeyFlags(f.keys)))
      [] f.msg = "PlayerAbilities" -> Packet("player_abilities", "", F("flags", Bit(2, f.flying)))
      [] f.msg = "PaddleBoat" -> Packet("paddle_boat", "", F("left", f.left) \o F("right", f.right))
      [] f.msg = "PlayerAction" ->
            Packet("player_command", "", F("entity", 1) \o F("action", f.action) \o F("boost", 0))
      [] f.msg = "UseEntity" ->
            If(~f.attack /\ v < 775,
               Packet("use_entity", "", F("target", f.target) \o F("mouse", 2) \o F("at", 3)
                                            \o F("hand", f.hand) \o F("sneak", FALSE)))
            \o Packet("use_entity", "",
                      F("target", f.target) \o F("mouse", Bit(1, f.attack))
                          \o If(~f.attack, F("hand", f.hand)) \o F("sneak", FALSE))
      [] f.msg = "UseItem" ->
            Packet("use_item", "", F("hand", f.hand) \o F("seq", f.seq) \o F("angles", 0))
      [] f.msg = "SwingAction" -> Packet("swing", "", F("hand", f.hand))
      [] f.msg = "HeldSlot" -> Packet("set_carried_item", "", F("slot", f.slot))
      [] f.msg = "PickItem" ->
            Packet(IF f.entity THEN "pick_item_from_entity" ELSE "pick_item_from_block", "",
                   F("what", f.what) \o F("data", f.data))
      [] f.msg = "Dig" ->
            Packet("player_action", "",
                   F("status", f.status) \o F("at", f.at) \o F("face", f.face) \o F("seq", f.seq))
      [] f.msg = "Place" ->
            Packet("use_item_on", "",
                   F("hand", f.hand) \o F("at", f.at) \o F("face", f.face) \o F("cursor", f.cursor)
                       \o F("inside", f.inside) \o F("border", FALSE) \o F("seq", f.seq))
      [] f.msg = "WindowClick" ->
            Packet("container_click", "",
                   F("window", f.id) \o F("state", 2) \o F("slot", f.slot) \o F("button", f.button)
                       \o F("mode", f.mode)
                       \o F("changed", [i \in DOMAIN f.changed |->
                                            <<f.changed[i][1], Hashed(f.changed[i][2])>>])
                       \o F("cursor", Hashed(f.cursor)))
      [] f.msg = "CreativeSlot" ->
            Packet("set_creative_mode_slot", "",
                   F("slot", f.slot) \o F("count", f.item.count)
                       \o If(f.item # Empty, F("item", f.item.id) \o F("patch", f.components)))
      [] f.msg = "SelTrade" -> Packet("select_trade", "", F("slot", f.slot))
      [] f.msg = "Craft" ->
            Packet("place_recipe", "",
                   F("window", f.window) \o F("recipe", f.recipe) \o F("all", FALSE))
      [] f.msg = "WindowClose" -> Packet("container_close", "", F("window", 1))
      [] f.msg = "NameItem" -> Packet("rename_item", "", F("name", f.name))
      [] f.msg = "Enchant" ->
            Packet("container_button_click", "", F("window", 1) \o F("button", f.button))
      [] f.msg = "SetBeacon" ->
            Packet("set_beacon", "",
                   F("effects", [i \in 1 .. 2 |->
                        LET e == IF i = 1 THEN f.primary ELSE f.secondary
                        IN  IF e = 0 THEN << >> ELSE <<e - 1>>]))
      [] f.msg = "SlotState" ->
            Packet("container_slot_state_changed", "",
                   F("slot", f.slot) \o F("window", 1) \o F("state", f.state))
      [] f.msg = "BundleSelect" ->
            Packet("bundle_item_selected", "", F("slot", f.slot) \o F("selected", f.selected))
      [] f.msg = "EditBook" ->
            Packet("edit_book", "",
                   F("slot", f.slot) \o F("pages", f.pages) \o F("signed", f.title # None)
                       \o If(f.title # None, F("title", f.title)))
      [] f.msg = "SignUpdate" ->
            Packet("sign_update", "", F("at", f.at) \o F("front", f.front) \o F("lines", f.lines))
      [] f.msg = "Command" -> Packet("chat_command", "", F("command", f.cmd))
      [] f.msg = "SuggestReq" ->
            Packet("command_suggestion", "", F("id", f.id) \o F("text", f.text))
      [] f.msg = "CustomClickAction" ->
            Packet("custom_click_action", "",
                   F("click", f.click) \o F("tag", IF f.payload = None THEN "end" ELSE f.payload))
      [] f.msg = "TeleportToEntity" -> Packet("teleport_to_entity", "", F("user", f.user))
      [] f.msg = "PlayerLoaded" -> Packet("player_loaded", "", << >>)
      [] f.msg = "RecipeSettingChange" ->
            Packet("recipe_book_change_settings", "",
                   F("book", f.book) \o F("open", f.open) \o F("filter", f.filter))
      [] f.msg = "RecipeSeen" -> Packet("recipe_book_seen_recipe", "", F("id", f.id))
      [] OTHER ->
            Packet("client_command", "",
                   F("action", IF f.msg = "RespawnReq" THEN 0 ELSE IF f.msg = "StatsReq" THEN 1
                               ELSE 2))

\* The rules a 26.x player changed go in one packet.
Told(deed, v) ==
    IF \A i \in DOMAIN deed : deed[i].msg = "Command" /\ deed[i].cmd[1] = "gamerule"
    THEN Packet("set_game_rule", "",
                F("rules", [i \in DOMAIN deed |-> <<deed[i].cmd[2], deed[i].cmd[3]>>]))
    ELSE FlattenSeq([i \in DOMAIN deed |-> ToldOf(deed[i], v)])

\* What the player looks at and stands on goes by what of it changed.
MovePackets(old, new) ==
    LET fields == If(new.at # old.at, F("at", new.at)) \o If(new.look # old.look, F("look", new.look))
    IN  If(new # old, Packet("move_player", "", fields \o F("ground", new.ground)))

-----------------------------------------------------------------------------
(* The session's parsers.                                                  *)

InputBits == [forward |-> 1, backward |-> 2, left |-> 4, right |-> 8, jump |-> 16, sneak |-> 32,
              sprint |-> 64]

ParseInput(p) == <<Input({k \in Keys : On(Get(p, "flags"), InputBits[k])})>>

ReadAbilities(p) == <<PlayerAbilities(On(Get(p, "flags"), 2))>>

ParsePaddleBoat(p) == <<PaddleBoat(Get(p, "left"), Get(p, "right"))>>

ParsePlayerAction(p) == <<PlayerAction(Get(p, "action"))>>

\* interact_at is followed by interact, and left out.
ParseUseEntity(p) ==
    LET mouse == Get(p, "mouse")
    IN  IF mouse > 1 THEN << >>
        ELSE <<UseEntity(Get(p, "target"), mouse = 1,
                         IF mouse = 0 /\ Get(p, "hand") \in {0, 1} THEN Get(p, "hand") ELSE 0)>>

ParseUseItem(p) ==
    IF Get(p, "hand") \in {0, 1} THEN <<UseItem(Get(p, "hand"), Get(p, "seq"))>> ELSE << >>

ParseSwing(p) == IF Get(p, "hand") \in {0, 1} THEN <<SwingAction(Get(p, "hand"))>> ELSE << >>

ReadHeldItem(p) == <<HeldSlot(Get(p, "slot"))>>

ParsePickFromBlock(p) == <<PickItem(FALSE, Get(p, "what"), Get(p, "data"))>>
ParsePickFromEntity(p) == <<PickItem(TRUE, Get(p, "what"), Get(p, "data"))>>

ReadBlockDig(p) == <<Dig(Get(p, "status"), Get(p, "face"), Get(p, "seq"))>>

ReadBlockPlace(p) ==
    <<Place(Get(p, "hand"), Get(p, "face"), Get(p, "inside"), Get(p, "seq"))>>

\* Of a stack, what it is and how many: the hashes are passed over.
readHashedSlot(h) == IF h.has THEN Stack(h.item, h.count) ELSE Empty

ParseWindowClick(p) ==
    LET changed == Get(p, "changed")
    IN  <<WindowClick(Get(p, "slot"), Get(p, "button"), Get(p, "mode"),
                      [i \in DOMAIN changed |-> <<changed[i][1], readHashedSlot(changed[i][2])>>],
                      readHashedSlot(Get(p, "cursor")))>>

creativePaintingVariant(patch) == IF patch = "painting" THEN "kebab" ELSE None

ParseCreativeSlot(p) ==
    <<IF Get(p, "count") > 0
      THEN CreativeSlot(Get(p, "slot"), Stack(Get(p, "item"), Get(p, "count")), Get(p, "patch"),
                        creativePaintingVariant(Get(p, "patch")))
      ELSE CreativeSlot(Get(p, "slot"), Empty, "none", None)>>

ParseSelTrade(p) == <<SelTrade(Get(p, "slot"))>>
ParseCraft(p) == <<Craft(Get(p, "recipe"))>>
ParseNameItem(p) == <<NameItem(Get(p, "name"))>>
ParseEnchant(p) == <<Enchant(Get(p, "button"))>>

\* An effect's id and one, none as nought.
ParseSetBeacon(p) ==
    LET power(e) == IF e = << >> THEN 0 ELSE e[1] + 1
    IN  <<SetBeacon(power(Get(p, "effects")[1]), power(Get(p, "effects")[2]))>>

ParseSetSlotState(p) ==
    IF Get(p, "slot") \in 0 .. 8 THEN <<SlotState(Get(p, "slot"), Get(p, "state"))>> ELSE << >>

ParseBundleSelect(p) == <<BundleSelect(Get(p, "slot"), Get(p, "selected"))>>

\* The limits are in bytes; a book with a page or a title beyond is left out whole.
ParseEditBook(p) ==
    LET pages == Get(p, "pages")
        title == IF Get(p, "signed") THEN Get(p, "title") ELSE None
    IN  IF /\ Len(pages) <= 100 /\ \A i \in DOMAIN pages : pages[i].bytes <= 1024
           /\ title = None \/ title.bytes <= 32
        THEN <<EditBook(Get(p, "slot"), pages, title)>>
        ELSE << >>

ParseSignUpdate(p) ==
    IF \A i \in 1 .. 4 : Get(p, "lines")[i].bytes <= 384
    THEN <<SignUpdate(Get(p, "front"), Get(p, "lines"))>>
    ELSE << >>

ReadChatCommand(p) == IF Get(p, "command") = << >> THEN << >> ELSE <<Command(Get(p, "command"))>>

ReadSuggest(p) == <<SuggestReq(Get(p, "id"), Get(p, "text"))>>

\* One command to a rule, in their order.
SetGameRuleCommands(p) ==
    LET rules == Get(p, "rules")
    IN  [i \in DOMAIN rules |-> Command(<<"gamerule", rules[i][1], rules[i][2]>>)]

ParseCustomClickAction(p) ==
    <<CustomClickAction(Get(p, "click"), IF Get(p, "tag") = "end" THEN None ELSE Get(p, "tag"))>>

ReadTeleportTo(p) == <<TeleportToEntity(Get(p, "user"))>>

ReadClientCommand(p, v) ==
    CASE Get(p, "action") = 0 -> <<RespawnReq>>
      [] Get(p, "action") = 1 -> <<StatsReq>>
      [] v >= 775 /\ Get(p, "action") = 2 -> <<GameRuleReq>>
      [] OTHER -> << >>

ParseRecipeSettingChange(p) ==
    IF Get(p, "book") \in 0 .. 3
    THEN <<RecipeSettingChange(Get(p, "book"), Get(p, "open"), Get(p, "filter"))>>
    ELSE << >>

ParseRecipeSeen(p) == <<RecipeSeen(Get(p, "id"))>>

\* The client reader's switch.
Hears(p, v) ==
    CASE p.name = "player_input" -> ParseInput(p)
      [] p.name = "player_abilities" -> ReadAbilities(p)
      [] p.name = "paddle_boat" -> ParsePaddleBoat(p)
      [] p.name = "player_command" -> ParsePlayerAction(p)
      [] p.name = "use_entity" -> ParseUseEntity(p)
      [] p.name = "use_item" -> ParseUseItem(p)
      [] p.name = "swing" -> ParseSwing(p)
      [] p.name = "set_carried_item" -> ReadHeldItem(p)
      [] p.name = "pick_item_from_block" -> ParsePickFromBlock(p)
      [] p.name = "pick_item_from_entity" -> ParsePickFromEntity(p)
      [] p.name = "player_action" -> ReadBlockDig(p)
      [] p.name = "use_item_on" -> ReadBlockPlace(p)
      [] p.name = "container_click" -> ParseWindowClick(p)
      [] p.name = "set_creative_mode_slot" -> ParseCreativeSlot(p)
      [] p.name = "select_trade" -> ParseSelTrade(p)
      [] p.name = "place_recipe" -> ParseCraft(p)
      [] p.name = "container_close" -> <<WindowClose>>
      [] p.name = "rename_item" -> ParseNameItem(p)
      [] p.name = "container_button_click" -> ParseEnchant(p)
      [] p.name = "set_beacon" -> ParseSetBeacon(p)
      [] p.name = "container_slot_state_changed" -> ParseSetSlotState(p)
      [] p.name = "bundle_item_selected" -> ParseBundleSelect(p)
      [] p.name = "edit_book" -> ParseEditBook(p)
      [] p.name = "sign_update" -> ParseSignUpdate(p)
      [] p.name = "chat_command" -> ReadChatCommand(p)
      [] p.name = "command_suggestion" -> ReadSuggest(p)
      [] p.name = "set_game_rule" -> IF v < 775 THEN << >> ELSE SetGameRuleCommands(p)
      [] p.name = "custom_click_action" -> IF v < 776 THEN << >> ELSE ParseCustomClickAction(p)
      [] p.name = "teleport_to_entity" -> ReadTeleportTo(p)
      [] p.name = "player_loaded" -> <<PlayerLoaded>>
      [] p.name = "client_command" -> ReadClientCommand(p, v)
      [] p.name = "recipe_book_change_settings" -> ParseRecipeSettingChange(p)
      [] p.name = "recipe_book_seen_recipe" -> ParseRecipeSeen(p)
      [] OTHER -> << >>

\* What the world hears of the words a player writes: all, but no book beyond
\* the limits, nor a part of one.
TooLong(f) ==
    /\ f.msg = "EditBook"
    /\ \/ \E i \in DOMAIN f.pages : f.pages[i].bytes > 1024
       \/ f.title # None /\ f.title.bytes > 32

Heeded(deed) == IF \E i \in DOMAIN deed : TooLong(deed[i]) THEN << >> ELSE deed

\* The session's pos and onGround, which every move frame carries whole.
ReadMove(s, p) == Updated(s, p.fields)
=============================================================================
