------------------------------ MODULE Screens ------------------------------
(***************************************************************************)
(* The player's screens, but for the level itself, and the player's deeds. *)
(*                                                                         *)
(* Screens: tab list, boss bars, scoreboard, teams, effects, titles, maps, *)
(* waypoints, the sky and edges of the world, recipe book, advancements,   *)
(* menus.  The world keeps each and gives the session its changes as       *)
(* frames; the session renders a frame as packets for the client's         *)
(* version, on the strength of little: the advancement tree, its index of  *)
(* criteria, and the open menus.  The client adds the packets up.          *)
(*                                                                         *)
(* Deeds go the other way (module Deeds): the client says them in packets, *)
(* the session lifts them into frames, the world hears these.              *)
(*                                                                         *)
(* A packet is a name and labelled fields in wire order; the client reads  *)
(* by the labels its own version has in that order.  The screens have no   *)
(* part in common, nor have the kinds of deeds, so one is explored at a    *)
(* time: topic says which.                                                 *)
(***************************************************************************)
EXTENDS Deeds

CONSTANTS
    Clients,            \* protocol versions of the clients
    Topics,             \* the screens and deeds explored
    Pending,            \* bound of the model: frames on their way
    Grown               \* bound of the model: advancements in the session's tree

ASSUME ClientsAssumption == Clients \subseteq Nat /\ Clients # {}
ASSUME PendingAssumption == Pending \in Nat

VARIABLES
    topic, version,     \* what is explored, and the client's version
    board,              \* what the world has given to see, or the player done
    advTree, advReqs,   \* the session: the tree, and the criteria by its index
    menus,              \* the session: clientConn.menus
    beside,             \* (history) advancements shown beside the world's tree
    net,                \* packets on the way, those of a frame or deed together
    screen, threw,      \* the client: what it has, and what it refused to read;
                        \* of deeds, what the world has heard
    owes                \* what the world sends, or is to hear, before the rest

vars == <<topic, version, board, advTree, advReqs, menus, beside, net, screen, threw, owes>>
session == <<advTree, advReqs, menus, beside>>

-----------------------------------------------------------------------------
(* What the world may give.                                                *)

Users == {"me", "you"}
Entry == [mode : {0, 3}, ping : {0, 9}, chat : BOOLEAN]
BarLook == [title : {"End", "Raid"}, health : {0, 1}, color : {0, 2}, overlay : {0, 4},
            flags : {0, 3}]
ObjectiveLook == [title : {"T", "U"}, hearts : BOOLEAN, format : {None, "blank"}]
ScoreLook == [value : {0, 5}, display : {None, "d"}, format : {None}]
                \cup [value : {5}, display : {None}, format : {"fixed"}]
TeamLook == {t \in [prefix : {"P"}, color : {-1, 4}, visibility : {0, 3}, ff : BOOLEAN,
                     see : BOOLEAN] : t.see = (t.visibility = 3)}
EffectLook == [ambient : BOOLEAN, particles : BOOLEAN, icon : BOOLEAN, blend : BOOLEAN]
Cells == (0 .. 1) \X (0 .. 1)
Pictures == {ink \in [Cells -> {0, 7}] : ink[<<1, 1>>] = 0}
Markers == {<< >>, <<0>>, <<36>>, <<37, 0>>}
Track == [style : {"default", "bowtie"}, color : {None, 5}, at : {1, 2}]
SpawnLook == [dim : {"overworld", "nether"}, at : {1, 2}, angle : {0, 90}, pitch : {0}]
BorderLook == {b \in [size : {10, 60}, target : {10, 60}, lerp : {0, 5}] :
                  (b.lerp = 0) = (b.target = b.size)}
ClockLook == [age : {0, 7}, day : {5, 6}, runs : BOOLEAN]
AbleLook == [invulnerable : BOOLEAN, flying : BOOLEAN, mayFly : BOOLEAN, creative : BOOLEAN]
Recipes == {"slab", "shelf", "glass"}
Nodes == {"root", "leaf"}
BrewingStand == 11
Furnace == 14
Horse == 0
WindowIds == {1, 2}
Props == {1, 2}

Blank(t) ==
    CASE t = "tab" -> [u \in Users |-> None]
      [] t = "scores" -> [objective |-> None, slot |-> "", score |-> None]
      [] t = "team" -> [look |-> None, players |-> {}]
      [] t = "title" -> [title |-> "", subtitle |-> "", times |-> 0, opened |-> None]
      [] t = "map" -> [ink |-> [c \in Cells |-> 0], decor |-> << >>]
      [] t = "book" -> [r \in Recipes |-> None]
      [] t = "advancements" -> [tree |-> {}, done |-> [n \in Nodes |-> {}], coming |-> {}]
      [] t = "moves" -> [at |-> 1, look |-> 0, ground |-> FALSE]
      [] t \in DeedTopics -> << >>
      [] OTHER -> None

Versioned == {"spawn", "team", "map", "waypoint", "book", "ghost", "menu", "hands", "words", "asks"}

Init ==
    /\ topic \in Topics
    /\ version \in IF topic \in Versioned THEN Clients ELSE {CHOOSE v \in Clients : TRUE}
    /\ board = Blank(topic) /\ screen = Blank(topic)
    /\ advTree = None /\ advReqs = None /\ menus = [w \in WindowIds |-> 0]
    /\ beside = {} /\ net = << >> /\ threw = "nothing"
    /\ owes = IF topic = "advancements" THEN "tree" ELSE "nothing"

Room(t) == topic = t /\ Len(net) < Pending

\* From now on the world gives b, and the client is sent the packets.
Tell(b, packets) ==
    /\ board' = b
    /\ net' = IF packets = << >> THEN net ELSE Append(net, packets)
    /\ UNCHANGED <<topic, version, screen, threw>>

Say(t, b, packets) == Room(t) /\ Tell(b, packets) /\ UNCHANGED <<session, owes>>

-----------------------------------------------------------------------------
(* Tab list.  A player_info_update names its actions and has a field for   *)
(* each, in the order of the protocol's numbers for them.                  *)

InfoOrder == <<"name", "chat", "mode", "listed", "ping">>

Listed(b, u, e) == [v \in Users |-> IF v = u THEN e ELSE b[v]]

PlayerInfoAdd(u, e) ==
    Packet("player_info",
           [user |-> u, actions |-> {"name", "mode", "listed", "ping"}
                                       \cup IF e.chat THEN {"chat"} ELSE {}],
           F("name", u) \o If(e.chat, F("chat", TRUE)) \o F("mode", e.mode)
               \o F("listed", TRUE) \o F("ping", e.ping))

PlayerInfoUpdate(u, action, value) ==
    Packet("player_info", [user |-> u, actions |-> {action}], F(action, value))

PlayerInfo(u, e) == board[u] = None /\ Say("tab", Listed(board, u, e), PlayerInfoAdd(u, e))

\* One batch for everyone listed.
PlayerInfoLatency(ping) ==
    LET listed == SetToSeq({u \in Users : board[u] # None})
    IN  Say("tab", [u \in Users |-> IF board[u] = None THEN None ELSE [board[u] EXCEPT !.ping = ping]],
            FlattenSeq([i \in DOMAIN listed |-> PlayerInfoUpdate(listed[i], "ping", ping)]))

PlayerInfoMode(u, mode) ==
    /\ board[u] # None
    /\ Say("tab", Listed(board, u, [board[u] EXCEPT !.mode = mode]),
           PlayerInfoUpdate(u, "mode", mode))

PlayerInfoChat(u, chat) ==
    /\ board[u] # None
    /\ Say("tab", Listed(board, u, [board[u] EXCEPT !.chat = chat]),
           PlayerInfoUpdate(u, "chat", chat))

PlayerGone(u) ==
    board[u] # None /\ Say("tab", Listed(board, u, None), Packet("player_remove", u, << >>))

ShowsInfo(s, p) ==
    IF p.name = "player_remove" THEN Listed(s, p.op, None)
    ELSE LET old == s[p.op.user]
             new == IF old = None /\ "name" \in p.op.actions
                    THEN [mode |-> 0, ping |-> 0, chat |-> FALSE] ELSE old
         IN  Listed(s, p.op.user, IF new = None THEN None ELSE Updated(new, p.fields))

-----------------------------------------------------------------------------
(* Boss bar, effect, titles.                                               *)

\* Slip: a new look of the bar is sent as its colour only.
BossBarColorOnly(op, e) ==
    Packet("boss_bar", op,
        CASE op = "add" -> F("title", e.title) \o F("health", e.health) \o F("color", e.color)
                              \o F("overlay", e.overlay) \o F("flags", e.flags)
          [] op = "health" -> F("health", e.health)
          [] op = "title" -> F("title", e.title)
          [] op = "style" -> F("color", e.color)
          [] op = "flags" -> F("flags", e.flags)
          [] OTHER -> << >>)

BossBarPacket(op, e) ==
    Packet("boss_bar", op,
        CASE op = "add" -> F("title", e.title) \o F("health", e.health) \o F("color", e.color)
                              \o F("overlay", e.overlay) \o F("flags", e.flags)
          [] op = "health" -> F("health", e.health)
          [] op = "title" -> F("title", e.title)
          [] op = "style" -> F("color", e.color) \o F("overlay", e.overlay)
          [] op = "flags" -> F("flags", e.flags)
          [] OTHER -> << >>)

\* What each operation may change of the bar.
BarOps == [health |-> {"health"}, title |-> {"title"}, style |-> {"color", "overlay"},
           flags |-> {"flags"}]

BossBarAdd(e) == board = None /\ Say("bar", e, BossBarPacket("add", e))
BossBarRemove == board # None /\ Say("bar", None, BossBarPacket("remove", None))
BossBar(op, e) ==
    /\ board # None /\ \A l \in DOMAIN e : l \in BarOps[op] \/ e[l] = board[l]
    /\ Say("bar", e, BossBarPacket(op, e))

EffectPacket(e) ==
    Packet("effect", "give",
           F("flags", Bit(1, e.ambient) + Bit(2, e.particles) + Bit(4, e.icon) + Bit(8, e.blend)))

Effect(e) == Say("effect", e, EffectPacket(e))
EffectRemove == board # None /\ Say("effect", None, Packet("effect", "remove", << >>))

ShowsEffect(flags) ==
    [ambient |-> On(flags, 1), particles |-> On(flags, 2), icon |-> On(flags, 4),
     blend |-> On(flags, 8)]

\* Timing, then subtitle, then the title that puts them on the screen; what is
\* left out stays.
TitlePackets(title, subtitle, times) ==
    If(times # 0, Packet("title", "times", F("times", times)))
        \o If(subtitle # "", Packet("title", "subtitle", F("subtitle", subtitle)))
        \o If(title # "", Packet("title", "title", F("title", title)))

Or(new, none, old) == IF new = none THEN old ELSE new

Title(title, subtitle, times) ==
    LET sub == Or(subtitle, "", board.subtitle)
        t == Or(times, 0, board.times)
    IN  Say("title", [title |-> Or(title, "", board.title), subtitle |-> sub, times |-> t,
                      opened |-> IF title = "" THEN board.opened ELSE <<sub, t>>],
            TitlePackets(title, subtitle, times))

ClearTitle(reset) ==
    Say("title", [Blank("title") EXCEPT !.times = IF reset THEN 0 ELSE board.times],
        Packet("title", "clear", F("reset", reset)))

ShowsTitle(s, p) ==
    CASE p.op = "clear" -> [Blank("title") EXCEPT !.times = IF Of(p.fields, "reset") THEN 0
                                                            ELSE s.times]
      [] p.op = "title" -> [Updated(s, p.fields) EXCEPT !.opened = <<s.subtitle, s.times>>]
      [] OTHER -> Updated(s, p.fields)

-----------------------------------------------------------------------------
(* Scoreboard: one objective, its place on the screen, one player's score; *)
(* and a team, whose parameters a 26.2 client reads in another order.      *)

ObjectivePacket(method, o) ==
    Packet("objective", method,
           If(method # "remove", F("title", o.title) \o F("render", Bit(1, o.hearts))
                                    \o F("format", o.format)))

ObjectiveAdd(o) ==
    /\ board.objective = None
    /\ Say("scores", [board EXCEPT !.objective = o], ObjectivePacket("add", o))
ObjectiveUpdate(o) ==
    /\ board.objective # None
    /\ Say("scores", [board EXCEPT !.objective = o], ObjectivePacket("update", o))
ObjectiveRemove ==
    board.objective # None /\ Say("scores", Blank("scores"), ObjectivePacket("remove", None))

DisplaySlot(o) ==
    /\ board.objective # None
    /\ Say("scores", [board EXCEPT !.slot = o], Packet("display", "set", F("slot", o)))

ScorePacket(s) ==
    Packet("score", "set",
           F("value", s.value) \o F("display", s.display) \o F("format", s.format))

Score(s) ==
    /\ board.objective # None
    /\ Say("scores", [board EXCEPT !.score = s], ScorePacket(s))

\* The score in the objective, or the player's in all.
ScoreReset(objective) ==
    /\ board.score # None
    /\ Say("scores", [board EXCEPT !.score = None],
           Packet("score", "reset", If(objective # "", F("objective", objective))))

ShowsObjective(s, p) ==
    IF p.op = "remove" THEN Blank("scores")
    ELSE [s EXCEPT !.objective = [title |-> Of(p.fields, "title"),
                                  hearts |-> Of(p.fields, "render") = 1,
                                  format |-> Of(p.fields, "format")]]

ShowsScore(s, p) ==
    [s EXCEPT !.score =
        IF p.op = "reset" THEN None
        ELSE [value |-> Of(p.fields, "value"), display |-> Of(p.fields, "display"),
              format |-> Of(p.fields, "format")]]

teamParamsNewForm == 776
NoColour == 21

\* Slip: the new parameters are thought of as 26.1's.
TeamParamsEarly(t) ==
    LET options == Bit(1, t.ff) + Bit(2, t.see)
    IN  IF version >= 775
        THEN F("title", "T") \o F("prefix", t.prefix) \o F("suffix", "")
                \o F("visibility", t.visibility) \o F("collision", 0)
                \o F("coloured", t.color \in 0 .. 15)
                \o If(t.color \in 0 .. 15, F("color", t.color)) \o F("options", options)
        ELSE F("title", "T") \o F("options", options) \o F("visibility", t.visibility)
                \o F("collision", 0)
                \o F("color", IF t.color \in 0 .. 15 THEN t.color ELSE NoColour)
                \o F("prefix", t.prefix) \o F("suffix", "")

TeamParams(t) ==
    LET options == Bit(1, t.ff) + Bit(2, t.see)
    IN  IF version >= teamParamsNewForm
        THEN F("title", "T") \o F("prefix", t.prefix) \o F("suffix", "")
                \o F("visibility", t.visibility) \o F("collision", 0)
                \o F("coloured", t.color \in 0 .. 15)
                \o If(t.color \in 0 .. 15, F("color", t.color)) \o F("options", options)
        ELSE F("title", "T") \o F("options", options) \o F("visibility", t.visibility)
                \o F("collision", 0)
                \o F("color", IF t.color \in 0 .. 15 THEN t.color ELSE NoColour)
                \o F("prefix", t.prefix) \o F("suffix", "")

TeamPacket(method, t, players) ==
    Packet("team", method,
           If(method \in {"add", "update"}, TeamParams(t))
               \o If(method \in {"add", "join", "leave"}, F("players", players)))

TeamAdd(t, players) ==
    /\ board.look = None
    /\ Say("team", [look |-> t, players |-> players], TeamPacket("add", t, players))
TeamUpdate(t) ==
    board.look # None /\ Say("team", [board EXCEPT !.look = t], TeamPacket("update", t, {}))
TeamRemove ==
    board.look # None /\ Say("team", Blank("team"), TeamPacket("remove", None, {}))
TeamPlayers(method, players) ==
    /\ board.look # None
    /\ Say("team", [board EXCEPT !.players = IF method = "join" THEN @ \cup players
                                             ELSE @ \ players],
           TeamPacket(method, None, players))

\* The client's order.
TeamForm(p) ==
    If(p.op \in {"add", "update"},
       IF version >= 776
       THEN <<"title", "prefix", "suffix", "visibility", "collision", "coloured">>
                \o If(Of(p.fields, "coloured"), <<"color">>) \o <<"options">>
       ELSE <<"title", "options", "visibility", "collision", "color", "prefix", "suffix">>)
    \o If(p.op \in {"add", "join", "leave"}, <<"players">>)

ShowsTeam(s, p) ==
    LET f == p.fields
        look == [prefix |-> Of(f, "prefix"), visibility |-> Of(f, "visibility"),
                 color |-> IF ~Has(f, "color") \/ Of(f, "color") = 21 THEN -1
                           ELSE Of(f, "color"),
                 ff |-> On(Of(f, "options"), 1), see |-> On(Of(f, "options"), 2)]
    IN  CASE p.op = "add" -> [look |-> look, players |-> Of(f, "players")]
          [] p.op = "update" -> [s EXCEPT !.look = look]
          [] p.op = "join" -> [s EXCEPT !.players = @ \cup Of(f, "players")]
          [] p.op = "leave" -> [s EXCEPT !.players = @ \ Of(f, "players")]
          [] OTHER -> Blank("team")

-----------------------------------------------------------------------------
(* A map in the hand: the rectangle that changed, its rows one after the   *)
(* other, and the markers, the newer of them as an icon the client has.    *)

MapDecorationFor(d) ==
    IF version >= 777 \/ d \notin 35 .. 39 THEN d ELSE IF d = 37 THEN 32 ELSE 26

Lowest(S) == CHOOSE n \in S : \A k \in S : n <= k
Highest(S) == CHOOSE n \in S : \A k \in S : n >= k

MapColors(ink) ==
    LET changed == {c \in Cells : ink[c] # board.ink[c]}
        xs == {c[1] : c \in changed}
        ys == {c[2] : c \in changed}
        w == Highest(xs) - Lowest(xs) + 1
        h == Highest(ys) - Lowest(ys) + 1
    IN  /\ changed # {}
        /\ Say("map", [board EXCEPT !.ink = ink],
               Packet("map", "patch",
                   F("decor", None) \o F("width", w) \o F("height", h)
                       \o F("x", Lowest(xs)) \o F("y", Lowest(ys))
                       \o F("colors", [i \in 1 .. w * h |->
                                ink[<<Lowest(xs) + ((i - 1) % w), Lowest(ys) + ((i - 1) \div w)>>]])))

MapMarkers(decor) ==
    Say("map", [board EXCEPT !.decor = decor],
        Packet("map", "markers",
               F("decor", [i \in DOMAIN decor |-> MapDecorationFor(decor[i])]) \o F("width", 0)))

ShowsMap(s, p) ==
    LET f == p.fields
        w == Of(f, "width")
        in(c) == /\ w > 0 /\ c[1] \in Of(f, "x") .. Of(f, "x") + w - 1
                 /\ c[2] \in Of(f, "y") .. Of(f, "y") + Of(f, "height") - 1
    IN  [ink |-> [c \in Cells |->
            IF in(c) THEN Of(f, "colors")[c[1] - Of(f, "x") + (c[2] - Of(f, "y")) * w + 1]
            ELSE s.ink[c]],
         decor |-> IF Of(f, "decor") = None THEN s.decor ELSE Of(f, "decor")]
-----------------------------------------------------------------------------
(* Waypoints of the locator bar, which came with 26.2; the edges, clock    *)
(* and spawn of the world; the player's abilities.                         *)

IDWaypointFor == IF version >= 777 THEN 141 ELSE 138

\* Nothing is said of a waypoint that is gone but that it is.
WaypointBody(op, w) ==
    Packet("waypoint", [id |-> IDWaypointFor, what |-> op],
           F("style", w.style) \o F("coloured", w.color # None)
               \o If(w.color # None, F("color", w.color))
               \o F("type", IF op = "untrack" THEN 0 ELSE 1) \o If(op # "untrack", F("at", w.at)))

Waypoint(op, w) ==
    /\ (op = "track") = (board = None)
    /\ Say("waypoint", IF op = "untrack" THEN None ELSE w,
           If(version >= 776, WaypointBody(op, w)))

ShowsWaypoint(p) ==
    IF Of(p.fields, "type") = 0 THEN None
    ELSE [style |-> Of(p.fields, "style"), at |-> Of(p.fields, "at"),
          color |-> IF Of(p.fields, "coloured") THEN Of(p.fields, "color") ELSE None]

defaultSpawnGlobalPos == 773

DefaultSpawnData(e) ==
    Packet("spawn", "set",
           If(version >= defaultSpawnGlobalPos,
              F("dim", IF e.dim = "" THEN "overworld" ELSE e.dim))
           \o F("at", e.at) \o F("angle", e.angle)
           \o If(version >= defaultSpawnGlobalPos, F("pitch", e.pitch)))

\* A frame need not name the overworld.
DefaultSpawn(e, named) ==
    /\ named \/ e.dim = "overworld"
    /\ Say("spawn", e, DefaultSpawnData(IF named THEN e ELSE [e EXCEPT !.dim = ""]))

SpawnForm == IF version >= 773 THEN <<"dim", "at", "angle", "pitch">> ELSE <<"at", "angle">>

WorldBorderPacket(e) ==
    Packet("border", "init",
           F("size", e.size) \o F("target", IF e.target = 0 THEN e.size ELSE e.target)
               \o F("lerp", e.lerp))

\* A border at rest need not say where it is heading.
WorldBorder(e, heading) ==
    /\ heading \/ e.target = e.size
    /\ Say("border", e, WorldBorderPacket(IF heading THEN e ELSE [e EXCEPT !.target = 0]))

\* With the world's clocks or, if the day passes, without.
Time(e, clocks) ==
    /\ clocks \/ e.runs
    /\ Say("time", e,
           Packet("time", "set", F("age", Or(e.age, 0, e.day)) \o F("day", e.day)
                                    \o F("runs", IF clocks THEN e.runs ELSE TRUE)))

Abilities(e) ==
    Say("abilities", e,
        Packet("abilities", "set",
               F("flags", Bit(1, e.invulnerable) + Bit(2, e.flying) + Bit(4, e.mayFly)
                              + Bit(8, e.creative))))

ShowsAbilities(flags) ==
    [invulnerable |-> On(flags, 1), flying |-> On(flags, 2), mayFly |-> On(flags, 4),
     creative |-> On(flags, 8)]

-----------------------------------------------------------------------------
(* Recipe book and ghost recipes: item ids and slot displays are composed  *)
(* for the client's version, which may lack an item.                       *)

RecipeOf ==
    [slab  |-> [cells |-> <<"planks", "air", "planks">>, result |-> "slab", count |-> 6,
                station |-> "crafting_table"],
     shelf |-> [cells |-> <<"poplar", "planks">>, result |-> "crate", count |-> 1,
                station |-> "crafting_table"],
     glass |-> [cells |-> <<"sand">>, result |-> "glass", count |-> 1, station |-> "furnace"]]

IsCooking(r) == r = "glass"

IDPresent(i) == version >= 777 \/ i # "poplar"
rid(i) == IF IDPresent(i) THEN i ELSE "air"

Named(r) == ToSet(RecipeOf[r].cells) \cup {RecipeOf[r].result, RecipeOf[r].station}

FitsClient(r) == \A i \in Named(r) : i = "air" \/ IDPresent(i)

slotDisplayAnyFuel == 1

SlotDisplay(i, count) ==
    IF i = "air" THEN [type |-> 0, fields |-> << >>]
    ELSE IF count = 1
    THEN [type |-> IF version >= 775 THEN 4 ELSE 2, fields |-> F("item", i)]
    ELSE IF version >= 775
    THEN [type |-> 5, fields |-> F("item", i) \o F("count", count)]
    ELSE [type |-> 3, fields |-> F("count", count) \o F("item", i)]

RecipeDisplay(r) ==
    LET e == RecipeOf[r]
    IN  [i \in DOMAIN e.cells |-> SlotDisplay(rid(e.cells[i]), 1)]
          \o (IF IsCooking(r) THEN << [type |-> slotDisplayAnyFuel, fields |-> << >>] >>
              ELSE << >>)
          \o <<SlotDisplay(rid(e.result), e.count), SlotDisplay(rid(e.station), 1)>>

\* One entry for each ingredient, so that the client counts them.
ingredientInstances(cells) == Kept(cells, ToSet(cells) \ {"air"})

BookEntry(r, mark) ==
    LET needs == ingredientInstances(RecipeOf[r].cells)
    IN  [recipe |-> r, display |-> RecipeDisplay(r),
         needs |-> [i \in DOMAIN needs |-> rid(needs[i])],
         flags |-> Bit(1, mark = "new") + Bit(2, mark = "new")]

RecipeBookPacket(marks, replace) ==
    LET sent == SetToSeq({r \in DOMAIN marks : FitsClient(r)})
    IN  Packet("book", IF replace THEN "replace" ELSE "add",
               F("entries", [i \in DOMAIN sent |-> BookEntry(sent[i], marks[sent[i]])]))

\* What is known at a join, or after it was taken back.
RecipeBook(known) ==
    Say("book", [r \in Recipes |-> IF r \in known THEN "seen" ELSE None],
        RecipeBookPacket([r \in known |-> "seen"], TRUE))

RecipeUnlocked(r) ==
    /\ board[r] = None
    /\ Say("book", [board EXCEPT ![r] = "new"], RecipeBookPacket([q \in {r} |-> "new"], FALSE))

\* Nothing is laid out for a client that lacks one of the items.
GhostRecipe(r) ==
    IF FitsClient(r)
    THEN Say("ghost", r, Packet("ghost", r, F("display", RecipeDisplay(r))))
    ELSE Say("ghost", board, << >>)

\* The client's table of slot displays.
SlotForm(type) ==
    CASE type \in {0, 1} -> << >>
      [] version < 775 /\ type = 2 -> <<"item">>
      [] version < 775 /\ type = 3 -> <<"count", "item">>
      [] version >= 775 /\ type = 4 -> <<"item">>
      [] version >= 775 /\ type = 5 -> <<"item", "count">>
      [] OTHER -> <<"unknown">>

ShowsSlot(d) ==
    IF d.type = 0 THEN <<"nothing", 0>>
    ELSE IF d.type = 1 THEN <<"any fuel", 1>>
    ELSE <<Of(d.fields, "item"), IF Has(d.fields, "count") THEN Of(d.fields, "count") ELSE 1>>

ShowsSlots(display) == [i \in DOMAIN display |-> ShowsSlot(display[i])]

ShowsBook(s, p) ==
    LET entries == ToSet(Of(p.fields, "entries"))
        old == IF p.op = "replace" THEN Blank("book") ELSE s
    IN  [r \in Recipes |->
            IF \E e \in entries : e.recipe = r
            THEN LET e == CHOOSE e \in entries : e.recipe = r
                 IN  [slots |-> ShowsSlots(e.display), needs |-> e.needs,
                      new |-> On(e.flags, 2)]
            ELSE old[r]]

\* The recipe as the world has it.
TrueSlots(r) ==
    LET e == RecipeOf[r]
    IN  [i \in DOMAIN e.cells |-> IF e.cells[i] = "air" THEN <<"nothing", 0>>
                                  ELSE <<e.cells[i], 1>>]
          \o (IF IsCooking(r) THEN << <<"any fuel", 1>> >> ELSE << >>)
          \o << <<e.result, e.count>>, <<e.station, 1>> >>

-----------------------------------------------------------------------------
(* Advancements.  The session holds the tree back for the progress that    *)
(* completes it, and keeps each advancement's criteria for later progress. *)

Reqs == [root |-> << <<"a">> >>, leaf |-> << <<"b", "a">>, <<"a">> >>]
Trees == {{}, {"root"}, {"root", "leaf"}}

\* What the session does not hold yet is neither a tree nor an index of one;
\* what is not there to see is nothing that may be.
ASSUME NoneAssumption ==
    /\ None \notin Seq(Nodes) /\ \A t \in SUBSET Nodes : None \notin [t -> Seq({"a", "b"})]
    /\ None \notin Entry \cup SpawnLook \cup ClockLook \cup Seq(Nat) \cup Recipes \cup {"seen", "new"}

Criteria(n) == UNION {ToSet(Reqs[n][g]) : g \in DOMAIN Reqs[n]}
Snapshots(t) ==
    {d \in [Nodes -> SUBSET {"a", "b"}] :
        \A n \in Nodes : d[n] \subseteq IF n \in t THEN Criteria(n) ELSE {}}

\* Parents come first.
InOrder(t) == Kept(<<"root", "leaf">>, t)

\* The union of an advancement's groups, in their order.
CriteriaOf(n) == Once(FlattenSeq(Reqs[n]))

ReqIndex(nodes) == [n \in ToSet(nodes) |-> CriteriaOf(n)]

\* done of the entries, of each every criterion the index has.
Progress(reqs, entries, done) ==
    [n \in entries |->
        [i \in DOMAIN (IF n \in DOMAIN reqs THEN reqs[n] ELSE << >>) |->
            <<reqs[n][i], reqs[n][i] \in done[n]>>]]

UpdateAdvancements(reset, added, removed, progress) ==
    Packet("advancements", IF reset THEN "reset" ELSE "change",
           F("added", added) \o F("removed", removed) \o F("progress", progress))

\* Slip: what was taken away stays in the index.
AdvTreeKeepsIndex(b, nodes, removed, reset) ==
    IF advReqs = None \/ reset
    THEN advTree' = nodes /\ advReqs' = ReqIndex(nodes) /\ Tell(b, << >>)
    ELSE /\ advTree' = Kept(advTree, ToSet(advTree) \ removed) \o nodes
         /\ advReqs' = [n \in DOMAIN advReqs \cup ToSet(nodes) |-> CriteriaOf(n)]
         /\ Tell(b, If(nodes # << >> \/ removed # {},
                       UpdateAdvancements(FALSE, nodes, removed, << >>)))

\* A tree frame: held, if it is the first or a whole one, else passed on.
AdvTree(b, nodes, removed, reset) ==
    IF advReqs = None \/ reset
    THEN advTree' = nodes /\ advReqs' = ReqIndex(nodes) /\ Tell(b, << >>)
    ELSE /\ advTree' = Kept(advTree, ToSet(advTree) \ removed) \o nodes
         /\ advReqs' = [n \in (DOMAIN advReqs \ removed) \cup ToSet(nodes) |->
                           IF n \in ToSet(nodes) THEN CriteriaOf(n) ELSE advReqs[n]]
         /\ Tell(b, If(nodes # << >> \/ removed # {},
                       UpdateAdvancements(FALSE, nodes, removed, << >>)))

AdvProgress(b, entries, reset) ==
    /\ Tell(b, IF reset /\ advTree # None
               THEN UpdateAdvancements(TRUE, advTree, {},
                                       Progress(ReqIndex(advTree), entries, b.done))
               ELSE If(advReqs # None,
                       UpdateAdvancements(FALSE, << >>, {}, Progress(advReqs, entries, b.done))))
    /\ UNCHANGED <<advTree, advReqs>>

\* The tree of a join, or of a reload, announced; its progress follows.  Only
\* a reload marks it as a whole one: a rejoin's, which finds the session with
\* the tree of the join before, is shown at once, ahead of its progress.
AdvTreeWhole(t, reset) ==
    /\ Room("advancements") /\ owes \in {"nothing", "tree"}
    /\ owes = "nothing" => reset
    /\ AdvTree([board EXCEPT !.coming = t], InOrder(t), {}, reset)
    /\ Len(advTree') <= Grown
    /\ beside' = IF advReqs = None \/ reset THEN beside ELSE t
    /\ owes' = "progress" /\ UNCHANGED menus

AdvProgressWhole(d) ==
    /\ Room("advancements") /\ owes = "progress" /\ d \in Snapshots(board.coming)
    /\ AdvProgress([tree |-> board.coming, done |-> d, coming |-> {}], board.coming, TRUE)
    /\ beside' = ToSet(advTree) \ board.coming
    /\ owes' = "nothing" /\ UNCHANGED menus

\* Advancements come into view, or go out of it.
AdvTreeChanged(t) ==
    /\ Room("advancements") /\ owes = "nothing" /\ t # board.tree
    /\ AdvTree([board EXCEPT !.tree = t], InOrder(t \ board.tree), board.tree \ t, FALSE)
    /\ beside' = beside \ t
    /\ UNCHANGED <<owes, menus>>

\* A criterion is met, or revoked.
AdvGranted(n, done) ==
    /\ Room("advancements") /\ owes = "nothing" /\ n \in board.tree
    /\ AdvProgress([board EXCEPT !.done[n] = done], {n}, FALSE)
    /\ UNCHANGED <<owes, menus, beside>>

ShowsAdvancements(s, p) ==
    LET old == IF p.op = "reset" THEN Blank("advancements") ELSE s
        progress == Of(p.fields, "progress")
        told(n) == {progress[n][i][1] : i \in {j \in DOMAIN progress[n] : progress[n][j][2]}}
    IN  [tree |-> (old.tree \ Of(p.fields, "removed")) \cup ToSet(Of(p.fields, "added")),
         done |-> [n \in Nodes |-> IF n \in DOMAIN progress THEN told(n) ELSE old.done[n]],
         coming |-> {}]

-----------------------------------------------------------------------------
(* Menus.  The session remembers each window's, to keep from a client the  *)
(* data slots its version of the menu does not have.                       *)

\* What a client's menu has.
SlotsOf(menu) ==
    CASE menu = Horse -> {}
      [] menu = BrewingStand /\ version < 777 -> {1}
      [] OTHER -> Props

windowDataFits(menu, prop) == ~(menu = BrewingStand /\ prop >= 2 /\ version < 777)

Window(w, menu) == [id |-> w, menu |-> menu, data |-> [p \in Props |-> 0]]

\* Slip: a window keeps the menu it was first opened for.
WindowOpenOnce(w, menu) ==
    /\ board = None
    /\ Room("menu") /\ menus' = [menus EXCEPT ![w] = IF @ = 0 THEN menu ELSE @]
    /\ Tell(Window(w, menu), Packet("open", w, F("menu", menu)))
    /\ UNCHANGED <<advTree, advReqs, beside, owes>>

WindowOpen(w, menu) ==
    /\ board = None
    /\ Room("menu") /\ menus' = [menus EXCEPT ![w] = menu]
    /\ Tell(Window(w, menu), Packet("open", w, F("menu", menu)))
    /\ UNCHANGED <<advTree, advReqs, beside, owes>>

\* A mount's own screen, which the session does not remember.
HorseScreen(w) ==
    /\ board = None
    /\ Say("menu", Window(w, Horse), Packet("open", w, F("menu", Horse)))

WindowData(prop, value) ==
    /\ board # None /\ board.menu # Horse
    /\ Say("menu", [board EXCEPT !.data[prop] = value],
           If(windowDataFits(menus[board.id], prop),
              Packet("data", board.id, F("prop", prop) \o F("value", value))))

WindowCloseServer ==
    board # None /\ Say("menu", None, Packet("close", board.id, << >>))

\* The player closes what is on the screen; the world hears of it later, and
\* is not told which window it was.
ClientCloses ==
    /\ topic = "menu" /\ screen # None /\ owes = "nothing"
    /\ screen' = None /\ owes' = "close"
    /\ UNCHANGED <<topic, version, board, session, net, threw>>

WindowClosed ==
    /\ owes = "close" /\ owes' = "nothing" /\ board' = None
    /\ UNCHANGED <<topic, version, session, net, screen, threw>>

ShowsMenu(s, p) ==
    CASE p.name = "open" -> Window(p.op, Of(p.fields, "menu"))
      [] p.name = "close" -> None
      [] OTHER -> IF s = None \/ s.id # p.op THEN s
                  ELSE [s EXCEPT !.data[Of(p.fields, "prop")] = Of(p.fields, "value")]

-----------------------------------------------------------------------------
(* Deeds.                                                                  *)

Do(deed) == Say(topic, deed, Told(deed, version))

\* A tick in which the player moved, looked about, took off or landed.
Move(m) == m # board /\ Say("moves", m, MovePackets(board, m))

\* A boat or horse the player steers takes the player along.
VehicleMove(at) ==
    Say("moves", [board EXCEPT !.at = at], Packet("move_vehicle", "", F("at", at) \o F("yaw", 0)))

-----------------------------------------------------------------------------
(* A join again: the client starts from nothing and the world says it all  *)
(* anew; the session forgets the menus, but not the advancements.          *)

Rejoin ==
    /\ topic \notin DeedTopics \cup {"moves"} /\ Room(topic) /\ owes # "close"
    /\ menus' = [w \in WindowIds |-> 0] /\ beside' = {}
    /\ owes' = IF topic = "advancements" THEN "tree" ELSE owes
    /\ Tell(Blank(topic), Packet("login", "play", << >>))
    /\ UNCHANGED <<advTree, advReqs>>

-----------------------------------------------------------------------------
(* The client.                                                             *)

Draws(s, p) ==
    CASE p.name \in {"player_info", "player_remove"} -> ShowsInfo(s, p)
      [] p.name = "boss_bar" ->
            (CASE p.op = "add" -> Updated([title |-> "", health |-> 0, color |-> 0,
                                           overlay |-> 0, flags |-> 0], p.fields)
               [] p.op = "remove" -> None
               [] OTHER -> Updated(s, p.fields))
      [] p.name = "effect" -> IF p.op = "remove" THEN None ELSE ShowsEffect(Of(p.fields, "flags"))
      [] p.name = "title" -> ShowsTitle(s, p)
      [] p.name = "objective" -> ShowsObjective(s, p)
      [] p.name = "display" -> [s EXCEPT !.slot = Of(p.fields, "slot")]
      [] p.name = "score" -> ShowsScore(s, p)
      [] p.name = "team" -> ShowsTeam(s, p)
      [] p.name = "map" -> ShowsMap(s, p)
      [] p.name = "waypoint" -> ShowsWaypoint(p)
      [] p.name = "spawn" -> Updated([dim |-> "overworld", at |-> 0, angle |-> 0, pitch |-> 0],
                                     p.fields)
      [] p.name = "border" -> Updated([size |-> 0, target |-> 0, lerp |-> 0], p.fields)
      [] p.name = "time" -> Updated([age |-> 0, day |-> 0, runs |-> TRUE], p.fields)
      [] p.name = "abilities" -> ShowsAbilities(Of(p.fields, "flags"))
      [] p.name = "book" -> ShowsBook(s, p)
      [] p.name = "ghost" -> [recipe |-> p.op, slots |-> ShowsSlots(Of(p.fields, "display"))]
      [] p.name = "advancements" -> ShowsAdvancements(s, p)
      [] p.name \in {"move_player", "move_vehicle"} -> ReadMove(s, p)
      [] OTHER -> ShowsMenu(s, p)

Shows(s, p) == IF p.name = "login" THEN Blank(topic) ELSE Draws(s, p)

\* The screen once the packets are read, the first to last.
After(s, packets) ==
    LET after[i \in 0 .. Len(packets)] ==
            IF i = 0 THEN s ELSE Shows(after[i - 1], packets[i])
    IN  IF topic \in DeedTopics
        THEN FlattenSeq([i \in DOMAIN packets |-> Hears(packets[i], version)])
        ELSE after[Len(packets)]

\* And once n of the frames on their way are.
AfterFrames(n) ==
    LET after[i \in 0 .. n] == IF i = 0 THEN screen ELSE After(after[i - 1], net[i])
    IN  after[n]

SlotsRead(display) ==
    \A i \in DOMAIN display : Labels(display[i].fields) = SlotForm(display[i].type)

\* The packet is read to its end.
Reads(p) ==
    CASE p.name = "player_info" ->
            Labels(p.fields) = Kept(InfoOrder, p.op.actions)
      [] p.name = "team" -> Labels(p.fields) = TeamForm(p)
      [] p.name = "spawn" -> Labels(p.fields) = SpawnForm
      [] p.name = "waypoint" -> p.op.id = IF version >= 777 THEN 141 ELSE 138
      [] p.name = "ghost" -> SlotsRead(Of(p.fields, "display"))
      [] p.name = "book" ->
            LET es == Of(p.fields, "entries")
            IN  \A i \in DOMAIN es : SlotsRead(es[i].display)
      [] OTHER -> TRUE

\* The numbers in it are of things the client has.
Knows(p) ==
    CASE p.name = "map" ->
            LET d == Of(p.fields, "decor")
            IN  d = None \/ ToSet(d) \subseteq (0 .. IF version >= 777 THEN 39 ELSE 34)
      [] p.name = "data" ->
            screen = None \/ screen.id # p.op \/ Of(p.fields, "prop") \in SlotsOf(screen.menu)
      [] OTHER -> TRUE

HasAir(p) ==
    p.name = "book" /\ \E e \in ToSet(Of(p.fields, "entries")) : "air" \in ToSet(e.needs)

Deliver ==
    /\ net # << >>
    /\ screen' = After(screen, Head(net))
    /\ net' = Tail(net)
    /\ LET all == ToSet(Head(net))
       IN  threw' = IF \E p \in all : ~Reads(p) THEN "layout"
                    ELSE IF \E p \in all : ~Knows(p) THEN "number"
                    ELSE IF \E p \in all : HasAir(p) THEN "air"
                    ELSE threw
    /\ UNCHANGED <<topic, version, board, session, owes>>

Next ==
    \/ \E u \in Users, e \in Entry : topic = "tab" /\ PlayerInfo(u, e)
    \/ \E ping \in {0, 9} : topic = "tab" /\ PlayerInfoLatency(ping)
    \/ \E u \in Users, mode \in {0, 3} : topic = "tab" /\ PlayerInfoMode(u, mode)
    \/ \E u \in Users, chat \in BOOLEAN : topic = "tab" /\ PlayerInfoChat(u, chat)
    \/ \E u \in Users : topic = "tab" /\ PlayerGone(u)
    \/ \E e \in BarLook : topic = "bar" /\ BossBarAdd(e)
    \/ \E e \in BarLook, op \in DOMAIN BarOps : topic = "bar" /\ BossBar(op, e)
    \/ topic = "bar" /\ BossBarRemove
    \/ \E e \in EffectLook : topic = "effect" /\ Effect(e)
    \/ topic = "effect" /\ EffectRemove
    \/ \E t \in {"", "T", "U"}, sub \in {"", "s"}, n \in {0, 9} :
          topic = "title" /\ Title(t, sub, n)
    \/ \E reset \in BOOLEAN : topic = "title" /\ ClearTitle(reset)
    \/ \E o \in ObjectiveLook : topic = "scores" /\ ObjectiveAdd(o)
    \/ \E o \in ObjectiveLook : topic = "scores" /\ ObjectiveUpdate(o)
    \/ topic = "scores" /\ ObjectiveRemove
    \/ \E o \in {"", "objective"} : topic = "scores" /\ DisplaySlot(o)
    \/ \E e \in ScoreLook : topic = "scores" /\ Score(e)
    \/ \E o \in {"", "objective"} : topic = "scores" /\ ScoreReset(o)
    \/ \E t \in TeamLook, us \in SUBSET {"me"} : topic = "team" /\ TeamAdd(t, us)
    \/ \E t \in TeamLook : topic = "team" /\ TeamUpdate(t)
    \/ topic = "team" /\ TeamRemove
    \/ \E u \in Users, method \in {"join", "leave"} :
          topic = "team" /\ TeamPlayers(method, {u})
    \/ \E ink \in Pictures : topic = "map" /\ MapColors(ink)
    \/ \E d \in Markers : topic = "map" /\ MapMarkers(d)
    \/ \E w \in Track, op \in {"track", "untrack", "update"} :
          topic = "waypoint" /\ Waypoint(op, w)
    \/ \E e \in SpawnLook, named \in BOOLEAN : topic = "spawn" /\ DefaultSpawn(e, named)
    \/ \E e \in BorderLook, heading \in BOOLEAN : topic = "border" /\ WorldBorder(e, heading)
    \/ \E e \in ClockLook, clocks \in BOOLEAN : topic = "time" /\ Time(e, clocks)
    \/ \E e \in AbleLook : topic = "abilities" /\ Abilities(e)
    \/ \E known \in SUBSET Recipes : topic = "book" /\ RecipeBook(known)
    \/ \E r \in Recipes : topic = "book" /\ RecipeUnlocked(r)
    \/ \E r \in {q \in Recipes : ~IsCooking(q)} : topic = "ghost" /\ GhostRecipe(r)
    \/ \E t \in Trees, reset \in BOOLEAN : AdvTreeWhole(t, reset)
    \/ \E d \in Snapshots({"root", "leaf"}) : AdvProgressWhole(d)
    \/ \E t \in Trees : AdvTreeChanged(t)
    \/ \E n \in Nodes, done \in SUBSET {"a", "b"} :
          topic = "advancements" /\ done \subseteq Criteria(n) /\ AdvGranted(n, done)
    \/ \E w \in WindowIds, menu \in {BrewingStand, Furnace} :
          topic = "menu" /\ WindowOpen(w, menu)
    \/ \E w \in WindowIds : topic = "menu" /\ HorseScreen(w)
    \/ \E prop \in Props, value \in {0, 5} : topic = "menu" /\ WindowData(prop, value)
    \/ topic = "menu" /\ WindowCloseServer
    \/ \E t \in DeedTopics : \E d \in DeedsOf(t, version) : topic = t /\ Do(d)
    \/ \E m \in [at : {1, 2}, look : {0, 9}, ground : BOOLEAN] : topic = "moves" /\ Move(m)
    \/ \E at \in {1, 3} : topic = "moves" /\ VehicleMove(at)
    \/ ClientCloses
    \/ WindowClosed
    \/ Rejoin
    \/ Deliver

Spec == Init /\ [][Next]_vars /\ WF_vars(Deliver)

-----------------------------------------------------------------------------
(* Properties.                                                             *)

\* What the session keeps: the criteria of the tree's advancements, in an
\* order, and of a window's id a menu that has data slots.
TypeOK ==
    /\ topic \in Topics /\ version \in Clients /\ Len(net) <= Pending
    /\ threw \in {"nothing", "layout", "number", "air"}
    /\ owes \in {"nothing", "tree", "progress", "close"}
    /\ (advTree = None) = (advReqs = None)
    /\ advReqs = None \/ \A n \in DOMAIN advReqs : n \in Nodes /\ ToSet(advReqs[n]) = Criteria(n)
    /\ menus \in [WindowIds -> {0, BrewingStand, Furnace}]

\* The part of what the world gives that a client of this version can show:
\* a recipe only if it has the items, a new marker as an old one, no waypoint
\* before 26.2, no dimension of the spawn before 1.21.9.  What of an earlier
\* join's tree is still shown is shown with it; and of what the player writes,
\* the world hears no book beyond the limits.
Showable(b) ==
    CASE topic = "waypoint" -> IF version >= 776 THEN b ELSE None
      [] topic = "spawn" ->
            IF b = None \/ version >= 773 THEN b ELSE [b EXCEPT !.dim = "overworld", !.pitch = 0]
      [] topic = "time" -> IF b = None THEN b ELSE [b EXCEPT !.age = Or(@, 0, b.day)]
      [] topic = "map" ->
            [b EXCEPT !.decor = [i \in DOMAIN b.decor |-> MapDecorationFor(b.decor[i])]]
      [] topic = "book" ->
            [r \in Recipes |->
                IF b[r] = None \/ ~(version >= 777 \/ r # "shelf") THEN None
                ELSE [slots |-> TrueSlots(r), new |-> b[r] = "new",
                      needs |-> Kept(RecipeOf[r].cells, Named(r) \ {"air"})]]
      [] topic = "ghost" -> IF b = None THEN b ELSE [recipe |-> b, slots |-> TrueSlots(b)]
      [] topic = "advancements" -> [b EXCEPT !.tree = @ \cup beside, !.coming = {}]
      [] topic = "words" -> Heeded(b)
      [] topic = "menu" -> None
      [] OTHER -> b

\* The client shows what the world gave, each state in its turn, and comes to
\* the last: the packets of every frame, read by the client's own version, add
\* up to it, through joins and rejoins.  (Menus, which the player closes too,
\* are left to WindowAgrees.)
M == INSTANCE Mirror WITH
        said  <- Showable(board),
        owed  <- IF topic = "menu" THEN << >>
                 ELSE [i \in DOMAIN net |-> AfterFrames(i)],
        shown <- IF topic = "menu" THEN None ELSE screen
Mirrors == M!Spec

\* What is composed for one version is read by that version: no packet ends
\* before the client has read what its layout promises, or after.
LayoutsFit == threw # "layout"

\* No number the client's version has no meaning for reaches it: a map marker
\* of 26.3, a data slot its menu lacks.
NumbersFit == threw # "number"

\* No recipe asks a client for air, which it refuses with its connection.
NoAirIngredient == threw # "air"

\* So the client reads every packet of a screen to its end and understands
\* what it says; one it cannot read costs it the connection.
Readable == LayoutsFit /\ NumbersFit /\ NoAirIngredient

\* The session can render progress for exactly the advancements it holds; and
\* it holds exactly those the client shows, the world's and what an earlier
\* join left beside them, or, while progress is to come, all it is to come for.
TreeIndexed ==
    /\ TypeOK
    /\ advTree # None => DOMAIN advReqs = ToSet(advTree)
    /\ topic = "advancements" =>
          /\ owes = "nothing" => advTree # None /\ ToSet(advTree) = board.tree \cup beside
          /\ owes = "progress" => advTree # None /\ board.coming \subseteq ToSet(advTree)

\* The tree "crosses once per join" (attach.MsgAdvTree), and the client shows
\* no other.  The code does not keep to it: the session takes the tree of a
\* rejoin for an addition to the one it holds.
NothingBeside == topic = "advancements" /\ owes = "nothing" => beside = {}

\* The world hears of every text the client lets the player write.  The code
\* does not: it counts bytes where the client counts characters.
WordsWhole == topic = "words" /\ net = << >> => screen = board

\* An open window shows the world's data, but for the slots the client lacks.
WindowAgrees ==
    (topic = "menu" /\ net = << >> /\ board # None /\ screen # None) =>
        (screen.id = board.id =>
            /\ screen.menu = board.menu
            /\ \A p \in SlotsOf(screen.menu) : screen.data[p] = board.data[p])
=============================================================================
