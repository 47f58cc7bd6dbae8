----------------------------- MODULE Translate -----------------------------
(***************************************************************************)
(* The version chain: a packet on its way between the canonical 770 layout *)
(* and the layout of a client, one step per version.  A step renumbers the *)
(* packet and may rewrite its body; a rewriter is found by the id a packet *)
(* has at the step's lower version, and so hits whatever has that id.      *)
(*                                                                         *)
(* A body is a sequence of fields, each a name and the encoding it has     *)
(* ("" is the canonical one), and the one number in it that changes its    *)
(* meaning: an action, an event.  Registry ids are module Content.         *)
(***************************************************************************)
EXTENDS Integers, Sequences, SequencesExt

Target == 770
MaxTranslated == 777

\* A body of plain fields; a field in another encoding; a body with a number.
Field(f) == <<f, "">>
As(field, enc) == <<field[1], enc>>
Encoded(fs, i, enc) == [k \in DOMAIN fs |-> IF k = i THEN As(fs[k], enc) ELSE fs[k]]
Plain(fs) == [f |-> [i \in DOMAIN fs |-> Field(fs[i])], n |-> 0]
Fields(fs) == [f |-> fs, n |-> 0]
Body(fs, n) == [f |-> fs, n |-> n]
From(b, i) == SubSeq(b.f, i, Len(b.f))

----------------------------------------------------------------------------
(* The id tables.  A run moves the ids from lo to hi by the same amount. *)

Run(lo, hi, by) == [lo |-> lo, hi |-> hi, by |-> by]

CbUp(v, st) ==
    IF st = "config" THEN IF v = 777 THEN {Run(10, 19, 1)} ELSE {}
    ELSE IF st # "play" THEN {}
    ELSE IF v = 773 THEN {Run(26, 34, 4), Run(35, 133, 5)}
    ELSE IF v = 775 THEN {Run(39, 48, 1), Run(49, 138, 2)}
    ELSE IF v = 777 THEN {Run(37, 81, 1), Run(82, 120, 2), Run(121, 140, 3)}
    ELSE {}

SbDown(v) ==
    CASE v = 771 -> {Run(5, 60, -1), Run(62, 62, -2), Run(63, 64, -1)}
      [] v = 775 -> {Run(2, 56, -1), Run(58, 61, -2), Run(63, 68, -3)}
      [] v = 777 -> {Run(46, 46, 17), Run(47, 63, -1)}
      [] OTHER -> {}

SbDrop(v) == CASE v = 771 -> {4, 65} [] v = 773 -> {22} [] v = 775 -> {1, 57, 62}
               [] OTHER -> {}

Moved(ranges, id) ==
    IF \E r \in ranges : id \in r.lo .. r.hi
    THEN id + (CHOOSE r \in ranges : id \in r.lo .. r.hi).by
    ELSE id

\* The steps from canonical to version v: none is missing.
ProtoSteps == 771 .. 777
SupportedVersions == Target .. MaxTranslated
ChainFor(v) == IF v \in SupportedVersions /\ (Target + 1 .. v) \subseteq ProtoSteps
               THEN Target + 1 .. v ELSE {}

----------------------------------------------------------------------------
(* The rewriters of the steps, clientbound, by the id at the lower version. *)

rewriteKnownPacksVersion(b, v) == Body(b.f, v)

\* Velocity goes before the angles, a zero vector.
rewriteSpawnEntity772to773(b) ==
    IF Len(b.f) < 7 THEN b
    ELSE Fields(SubSeq(b.f, 1, 4) \o <<As(b.f[7], "lpVec3")>> \o SubSeq(b.f, 5, 6))

rewriteAdvIconTemplate(b) ==
    Fields([i \in DOMAIN b.f |-> IF b.f[i] = Field("icon") THEN As(b.f[i], "template")
                                 ELSE b.f[i]])

appendLoginSessionID(b) == Fields(Append(b.f, b.f[1]))

\* The spawn info up to the previous game mode is fields first .. prev - 1.
rewritePrevGameMode777(b, prev) ==
    IF Len(b.f) < prev THEN b
    ELSE Fields(Encoded(b.f, prev, "optional"))

\* tail: the fields between the entity id and the on-ground byte.
rewriteMoveEntity777(b, tail) ==
    IF Len(b.f) # tail + 2 THEN b
    ELSE Fields(<<b.f[1], As(b.f[tail + 2], "properties")>> \o SubSeq(b.f, 2, tail + 1))

rewriteEntityPositionSync777(b) ==
    IF Len(b.f) # 5 THEN b
    ELSE Fields(<<b.f[1], Field("linear"), b.f[2]>> \o From(b, 4))

rewriteLevelParticles777(b) ==
    IF Len(b.f) < 6 THEN b
    ELSE Fields(From(b, 6) \o SubSeq(b.f, 1, 3) \o <<b.f[4], b.f[4], b.f[4],
                As(b.f[5], "varint"), Field("default")>>)

rewriteAnimateActions777(b) ==
    Body(b.f, CASE b.n = 2 -> 0 [] b.n = 4 -> 1 [] b.n = 5 -> 2 [] OTHER -> b.n)

\* Each entry's position is cut out of its display and put behind the entry;
\* one without a display gets zero.
rewriteAdvancementsPositioned777(b) ==
    LET Position(i) == IF b.f[i - 1] = Field("xy") THEN b.f[i - 1] ELSE Field("zero")
        Put(i) == CASE b.f[i] = Field("xy") -> << >>
                    [] b.f[i] = Field("requirements") -> <<b.f[i], Position(i)>>
                    [] OTHER -> <<b.f[i]>>
    IN  IF Field("icon") \in Range(b.f) THEN b
        ELSE Fields(FlattenSeq([i \in DOMAIN b.f |-> Put(i)]))

\* masks: where the light masks are.
rewriteBitSets777(b, masks) ==
    IF Len(b.f) < masks THEN b ELSE Fields(Encoded(b.f, masks, "bytes"))

StepUp(v, st, id, b) ==
    IF st = "config" THEN IF id = 14 THEN rewriteKnownPacksVersion(b, v) ELSE b
    ELSE IF st = "login" THEN IF v = 776 /\ id = 2 THEN appendLoginSessionID(b) ELSE b
    ELSE CASE v = 773 /\ id = 1   -> rewriteSpawnEntity772to773(b)
           [] v = 775 /\ id = 128 -> rewriteAdvIconTemplate(b)
           [] v = 777 /\ id = 49  -> rewritePrevGameMode777(b, 5)
           [] v = 777 /\ id = 82  -> rewritePrevGameMode777(b, 2)
           [] v = 777 /\ id = 53  -> rewriteMoveEntity777(b, 1)
           [] v = 777 /\ id = 54  -> rewriteMoveEntity777(b, 2)
           [] v = 777 /\ id = 35  -> rewriteEntityPositionSync777(b)
           [] v = 777 /\ id = 47  -> rewriteLevelParticles777(b)
           [] v = 777 /\ id = 2   -> rewriteAnimateActions777(b)
           [] v = 777 /\ id = 130 -> rewriteAdvancementsPositioned777(b)
           [] v = 777 /\ id = 45  -> rewriteBitSets777(b, 5)
           [] v = 777 /\ id = 48  -> rewriteBitSets777(b, 2)
           [] OTHER -> b

(* Serverbound. *)

rewritePlayerCommand771to770(b) == Body(b.f, b.n + 2)

rewriteSignUpdate777(b) ==
    IF Len(b.f) < 3 THEN b ELSE Fields(<<b.f[1], As(b.f[3], ""), b.f[2]>>)

rewriteAcceptTeleportation777(b) == Fields(SubSeq(b.f, 1, 1))

rewritePunchToSwing777(b) == Plain(<<"hand">>)

rewritePlayerAction777(b) ==
    Body(b.f, IF b.n = 1 THEN 8 ELSE IF b.n >= 2 THEN b.n - 1 ELSE b.n)

StepDown(v, id, b) ==
    CASE v = 771 /\ id = 40 -> rewritePlayerCommand771to770(b)
      [] v = 777 /\ id = 61 -> rewriteSignUpdate777(b)
      [] v = 777 /\ id = 0  -> rewriteAcceptTeleportation777(b)
      [] v = 777 /\ id = 63 -> rewritePunchToSwing777(b)
      [] v = 777 /\ id = 41 -> rewritePlayerAction777(b)
      [] OTHER -> b

----------------------------------------------------------------------------
(* What is done at canonical ids, before the steps.                        *)

rewriteEntityVelocity773(b) == Fields(<<b.f[1], As(b.f[2], "lpVec3")>>)
stripExactVelocity(b) == IF Len(b.f) = 3 THEN Fields(SubSeq(b.f, 1, 2)) ELSE b

\* The world clocks, or the day time as the only clock.
rewriteSetTime26x(b) ==
    Fields(<<b.f[1], IF Len(b.f) > 3 THEN b.f[4] ELSE As(b.f[2], "clock")>>)

\* The online mode the last byte carries, once for each of two fields.
JoinOnline(b) == Fields(Append(b.f, b.f[Len(b.f)]))

\* 26.x counts the fluids of a section.
CountFluids(b) == IF Len(b.f) < 3 THEN b ELSE Fields(Encoded(b.f, 3, "fluids"))

isDestroyProgressEvent(b) == b.n \in {2019, 2020}

remapClientboundIDs(v, id, b) ==
    CASE id = 39  -> IF v >= 775 THEN CountFluids(b) ELSE b
      [] id = 94  -> IF v >= 773 THEN rewriteEntityVelocity773(b) ELSE stripExactVelocity(b)
      [] id = 43  -> IF v >= 776 THEN JoinOnline(b) ELSE b
      [] id = 106 -> IF v >= 775 THEN rewriteSetTime26x(b) ELSE Fields(SubSeq(b.f, 1, 3))
      [] OTHER -> b

DroppedAtOnce(v, id, b) == id = 40 /\ v < 777 /\ isDestroyProgressEvent(b)

\* The animate swing as 26.3's own packet: main hand 0, off hand 3.
swingAnimation777(b) ==
    Body(<<b.f[1], Field("hand"), Field("whack"), Field("six")>>, IF b.n = 3 THEN 1 ELSE 0)
SwingAnimation777 == 123

\* change_game_mode, empty when it is malformed.
changeGameModeCommand(b) == Body(<<Field("gamemode")>>, b.n)

\* Attack and Interact as use_entity; malformed, they are not handled.
rewrite26xEntity(id, b) ==
    IF id = 1 THEN Body(<<b.f[1], Field("sneaking")>>, 1)
    ELSE Body(<<b.f[1], b.f[2], As(b.f[4], "")>>, 0)

----------------------------------------------------------------------------
(* What the packets are: their canonical fields, and the fields a client   *)
(* of a version reads or writes, from the layouts the comments give.       *)

Fs(fs) == [i \in DOMAIN fs |-> Field(fs[i])]

Join == Fs(<<"head", "worlds", "views", "spawn", "prev", "rest", "secure">>)
Chunk == Fs(<<"xz", "heightmaps", "sections", "block entities", "masks", "light">>)
Spawn == Fs(<<"eid", "uuid", "type", "xyz", "angles", "data", "velocity">>)
Particles == Fs(<<"flags", "pos", "offsets", "speed", "count", "particle">>)
Advancements == Fs(<<"reset", "id", "icon", "xy", "requirements", "id", "requirements",
                     "rest">>)

\* Clientbound packets by state and canonical id.
Clientbound ==
    [join |-> <<"play", 43, Join>>, chunk |-> <<"play", 39, Chunk>>,
     spawn |-> <<"play", 1, Spawn>>, particles |-> <<"play", 41, Particles>>,
     advancements |-> <<"play", 123, Advancements>>,
     respawn |-> <<"play", 75, Fs(<<"spawn", "prev", "rest">>)>>,
     light |-> <<"play", 42, Fs(<<"xz", "masks", "light">>)>>,
     velocity |-> <<"play", 94, Fs(<<"eid", "shorts", "exact">>)>>,
     time |-> <<"play", 106, Fs(<<"game", "day", "ticks", "clocks">>)>>,
     daytime |-> <<"play", 106, Fs(<<"game", "day", "ticks">>)>>,
     move |-> <<"play", 46, Fs(<<"eid", "delta", "ground">>)>>,
     moveturn |-> <<"play", 47, Fs(<<"eid", "delta", "turn", "ground">>)>>,
     sync |-> <<"play", 31, Fs(<<"eid", "pos", "delta", "turn", "ground">>)>>,
     animate |-> <<"play", 2, Fs(<<"eid">>)>>,
     event |-> <<"play", 40, Fs(<<"pos", "global">>)>>,
     packs |-> <<"config", 14, Fs(<<"packs">>)>>,
     finished |-> <<"login", 2, Fs(<<"uuid", "name", "properties">>)>>]

Numbers(kind) == CASE kind = "animate" -> {0, 2, 3, 4, 5} [] kind = "event" -> {2001, 2019}
                   [] kind = "packs" -> {770} [] OTHER -> {0}

\* The fields a client of version v reads.
Reads(kind, v) ==
    LET f == Clientbound[kind][3]
    IN  CASE kind = "join" /\ v >= 776 ->
                IF v = 776 THEN Append(f, f[7])
                ELSE Append(Encoded(f, 5, "optional"), f[7])
          [] kind = "chunk" /\ v >= 775 ->
                Encoded(Encoded(f, 3, "fluids"), 5, IF v = 777 THEN "bytes" ELSE "")
          [] kind = "spawn" /\ v >= 773 ->
                SubSeq(f, 1, 4) \o <<As(f[7], "lpVec3"), f[5], f[6]>>
          [] kind = "particles" /\ v = 777 ->
                <<f[6], f[1], f[2], f[3], f[4], f[4], f[4], As(f[5], "varint"),
                  Field("default")>>
          [] kind = "advancements" /\ v >= 775 ->
                IF v < 777 THEN Encoded(f, 3, "template")
                ELSE <<f[1], f[2], As(f[3], "template"), f[5], f[4], f[6], f[7],
                       Field("zero"), f[8]>>
          [] kind = "respawn" /\ v = 777 -> Encoded(f, 2, "optional")
          [] kind = "light" /\ v = 777 -> Encoded(f, 2, "bytes")
          [] kind = "velocity" -> IF v >= 773 THEN <<f[1], As(f[2], "lpVec3")>>
                                  ELSE <<f[1], f[2]>>
          [] kind = "time" -> IF v >= 775 THEN <<f[1], f[4]>> ELSE SubSeq(f, 1, 3)
          [] kind = "daytime" /\ v >= 775 -> <<f[1], As(f[2], "clock")>>
          [] kind = "move" /\ v = 777 -> <<f[1], As(f[3], "properties"), f[2]>>
          [] kind = "moveturn" /\ v = 777 -> <<f[1], As(f[4], "properties"), f[2], f[3]>>
          [] kind = "sync" /\ v = 777 -> <<f[1], Field("linear"), f[2], f[4], f[5]>>
          [] kind = "finished" /\ v >= 776 -> Append(f, f[1])
          [] OTHER -> f

\* Serverbound: where a client's id ends at canonical 770, None when a step
\* drops it.
None == -1
MaxId == 68
Lowered[v \in SupportedVersions, id \in None .. MaxId] ==
    IF v = Target \/ id = None THEN id
    ELSE Lowered[v - 1, IF id \in SbDrop(v) THEN None ELSE Moved(SbDown(v), id)]

\* What a client of version v means by an id.
Means(v, id) ==
    CASE v >= 775 /\ id = 1  -> "attack"
      [] v >= 775 /\ id = 26 -> "interact"
      [] v >= 776 /\ id = 5  -> "game mode"
      [] Lowered[v, id] = None -> "unknown"
      [] Lowered[v, id] = 0  -> "accept"
      [] Lowered[v, id] = 39 -> "action"
      [] Lowered[v, id] = 40 -> "command"
      [] Lowered[v, id] = 58 -> "sign"
      [] Lowered[v, id] = 59 -> "swing"
      [] OTHER -> "other"

\* The names of the actions, in the order of their numbers; the session knows
\* one more than a client before 26.3 sends.
BlockActions == <<"start", "abort", "stop", "drop all", "drop", "release", "swap", "stab">>
SessionActions == Append(BlockActions, "change")
PlayerActions(v) ==
    IF v = 777 THEN <<"start", "change">> \o Tail(BlockActions) ELSE BlockActions
PlayerCommands(v) ==
    LET new == <<"leave bed", "sprint", "stop sprint", "jump", "stop jump", "inventory",
                 "fly">>
    IN  IF v = Target THEN <<"shift", "unshift">> \o new ELSE new
Animations(v) ==
    IF v = 777 THEN <<"wake", "crit", "magic">>
    ELSE <<"swing", "hurt", "wake", "swing off", "crit", "magic">>

\* The fields a client of version v writes: malformed ones are empty.
Writes(kind, v) ==
    CASE kind = "attack" -> {Plain(<<"target">>), Plain(<< >>)}
      [] kind = "interact" ->
           {Fields(<<Field("target"), Field("hand"), Field("location"),
                     <<"sneaking", "secondary">>>>), Plain(<< >>)}
      [] kind = "game mode" -> {Body(Fs(<<"mode">>), n) : n \in 0 .. 4}
      [] kind = "accept" -> {Plain(IF v = 777 THEN <<"tid", "pos">> ELSE <<"tid">>)}
      [] kind = "action" -> {Body(Fs(<<"pos", "face", "sequence">>), n - 1) :
                                n \in DOMAIN PlayerActions(v)}
      [] kind = "command" -> {Body(Fs(<<"eid", "boost">>), n - 1) :
                                n \in DOMAIN PlayerCommands(v)}
      [] kind = "sign" ->
           {Fields(IF v = 777 THEN <<Field("pos"), Field("lines"), <<"front", "slot">>>>
                   ELSE Fs(<<"pos", "front", "lines">>))}
      [] kind = "swing" -> {Plain(IF v = 777 THEN << >> ELSE <<"hand">>)}
      [] OTHER -> {Plain(<<"any">>)}

\* The fields the session reads.
SessionReads(kind) ==
    CASE kind = "attack" -> Fs(<<"target", "sneaking">>)
      [] kind = "interact" -> Fs(<<"target", "hand", "sneaking">>)
      [] kind = "game mode" -> Fs(<<"gamemode">>)
      [] kind = "accept" -> Fs(<<"tid">>)
      [] kind = "action" -> Fs(<<"pos", "face", "sequence">>)
      [] kind = "command" -> Fs(<<"eid", "boost">>)
      [] kind = "sign" -> Fs(<<"pos", "front", "lines">>)
      [] kind = "swing" -> Fs(<<"hand">>)
      [] OTHER -> Fs(<<"any">>)

----------------------------------------------------------------------------
VARIABLES
    version,    \* of the client
    sent,       \* the packet as its sender meant it
    id, body,   \* the packet on its way
    at,         \* the version whose ids it has
    fate        \* "sent", "steps", "dropped"

vars == <<version, sent, id, body, at, fate>>

Sends(way, kind, st, i, b) ==
    /\ sent = [way |-> way, kind |-> kind, st |-> st, id |-> i, body |-> b]
    /\ id = i /\ body = b /\ fate = "sent"

Init ==
    /\ version \in {v \in SupportedVersions : v = Target \/ ChainFor(v) # {}}
    /\ \/ /\ at = Target
          /\ \/ \E kind \in DOMAIN Clientbound : \E n \in Numbers(kind) :
                  Sends("cb", kind, Clientbound[kind][1], Clientbound[kind][2],
                        Body(Clientbound[kind][3], n))
             \/ \E i \in 0 .. 133 \ {Clientbound[k][2] : k \in DOMAIN Clientbound} :
                  Sends("cb", "other", "play", i, Plain(<<"any">>))
       \/ /\ at = version
          /\ \E i \in 0 .. MaxId : \E b \in Writes(Means(version, i), version) :
                  Sends("sb", Means(version, i), "play", i, b)

\* Clientbound, at canonical ids: dropped, retargeted, or on to the steps.
Remap ==
    /\ sent.way = "cb" /\ fate = "sent"
    /\ IF sent.st = "play" /\ DroppedAtOnce(version, id, body)
       THEN fate' = "dropped" /\ UNCHANGED <<id, body, at>>
       ELSE /\ fate' = "steps"
            /\ IF sent.st = "play" /\ version >= 777 /\ id = 2 /\ body.n \in {0, 3}
               THEN id' = SwingAnimation777 /\ body' = swingAnimation777(body) /\ at' = version
               ELSE /\ body' = IF sent.st = "play" THEN remapClientboundIDs(version, id, body)
                               ELSE body
                    /\ UNCHANGED <<id, at>>
    /\ UNCHANGED <<version, sent>>

\* Mutant: the rewriters are found by the upper id.
UpRenumberedFirst ==
    /\ sent.way = "cb" /\ fate = "steps" /\ at < version
    /\ id' = Moved(CbUp(at + 1, sent.st), id)
    /\ body' = StepUp(at + 1, sent.st, id', body)
    /\ at' = at + 1
    /\ UNCHANGED <<version, sent, fate>>

\* One step up: the body by the lower id, then the id.
Up ==
    /\ sent.way = "cb" /\ fate = "steps" /\ at < version
    /\ body' = StepUp(at + 1, sent.st, id, body)
    /\ id' = Moved(CbUp(at + 1, sent.st), id)
    /\ at' = at + 1
    /\ UNCHANGED <<version, sent, fate>>

\* Serverbound, at the client's ids: the packets of 26.x become canonical ones.
Fold ==
    /\ sent.way = "sb" /\ fate = "sent"
    /\ CASE version >= 776 /\ id = 5 ->
              IF body.n > 3 THEN fate' = "dropped" /\ UNCHANGED <<id, body, at>>
              ELSE fate' = "steps" /\ at' = Target /\ id' = 5
                   /\ body' = changeGameModeCommand(body)
         [] version >= 775 /\ id \in {1, 26} /\ body.f # << >> ->
              fate' = "steps" /\ at' = Target /\ id' = 24 /\ body' = rewrite26xEntity(id, body)
         [] OTHER -> fate' = "steps" /\ UNCHANGED <<id, body, at>>
    /\ UNCHANGED <<version, sent>>

\* One step down: the id, then the body by the lower id.
Down ==
    /\ sent.way = "sb" /\ fate = "steps" /\ at > Target
    /\ IF id \in SbDrop(at)
       THEN fate' = "dropped" /\ UNCHANGED <<id, body, at>>
       ELSE /\ id' = Moved(SbDown(at), id)
            /\ body' = StepDown(at, id', body)
            /\ at' = at - 1 /\ UNCHANGED fate
    /\ UNCHANGED <<version, sent>>

Arrived == fate = "steps" /\ at = IF sent.way = "cb" THEN version ELSE Target
Rest == (Arrived \/ fate = "dropped") /\ UNCHANGED vars

Next == Remap \/ Up \/ Fold \/ Down \/ Rest
Spec == Init /\ [][Next]_vars

----------------------------------------------------------------------------
(* Properties.                                                             *)

\* Every variable keeps its type; the packet stays between canonical and the
\* client's version.
TypeOK ==
    /\ version \in SupportedVersions /\ at \in Target .. version
    /\ fate \in {"sent", "steps", "dropped"}
    /\ id \in 0 .. 143 /\ body.n \in Int
    /\ body.f \in Seq(STRING \X STRING)

Malformed ==
    \/ sent.kind \in {"attack", "interact"} /\ sent.body.f = << >>
    \/ sent.kind = "game mode" /\ sent.body.n > 3

\* Whatever way the steps renumber it, every packet arrives with the fields the
\* other side reads: each rewriter meets its own packet, and no other.
LayoutRight ==
    Arrived /\ ~Malformed =>
        body.f = IF sent.way = "sb" THEN SessionReads(sent.kind)
                 ELSE IF sent.kind = "other" THEN sent.body.f
                 ELSE IF sent.kind = "animate" /\ id = SwingAnimation777
                 THEN Fs(<<"eid", "hand", "whack", "six">>)
                 ELSE Reads(sent.kind, version)

\* A number that names an action names the same action to the receiver,
\* whatever was inserted before it and whichever packet it moved to.
ActionMeant ==
    Arrived /\ ~Malformed =>
        CASE sent.kind = "action" ->
               SessionActions[body.n + 1] = PlayerActions(version)[sent.body.n + 1]
          [] sent.kind = "command" ->
               PlayerCommands(Target)[body.n + 1] = PlayerCommands(version)[sent.body.n + 1]
          [] sent.kind = "animate" ->
               Animations(Target)[sent.body.n + 1] =
                   IF id = SwingAnimation777 THEN <<"swing", "swing off">>[body.n + 1]
                   ELSE Animations(version)[body.n + 1]
          [] sent.kind = "packs" -> body.n = version
          [] sent.kind \in {"attack", "interact"} ->
               id = 24 /\ body.n = IF sent.kind = "attack" THEN 1 ELSE 0
          [] sent.kind = "game mode" -> id = 5 /\ body.n = sent.body.n
          [] OTHER -> body.n = sent.body.n

\* Where a canonical id ends at version v.
Raised[v \in SupportedVersions, i \in 0 .. 133] ==
    IF v = Target THEN i ELSE Moved(CbUp(v, "play"), Raised[v - 1, i])

\* No two packets arrive under one id, but for those folded into use_entity
\* and chat_command; swing_animation's is nobody else's.
OneMeaning ==
    Arrived /\ sent.st = "play" =>
        IF sent.way = "cb"
        THEN \A i \in 0 .. 133 :
               /\ i # sent.id => Raised[version, i] # id
               /\ version = 777 => Raised[version, i] # SwingAnimation777
        ELSE \A i \in 0 .. MaxId :
               i # sent.id /\ Lowered[version, i] = id =>
                   \/ sent.kind \in {"attack", "interact", "game mode"}
                   \/ Means(version, i) \in {"attack", "interact", "game mode"}

\* Only a packet the other side has no notion of is dropped, and a malformed
\* one of those that are folded.
DroppedIfUnknown ==
    fate = "dropped" =>
        \/ sent.way = "cb" /\ sent.kind = "event" /\ sent.body.n = 2019 /\ version < 777
        \/ sent.kind = "unknown"
        \/ Malformed /\ sent.kind # "interact"
=============================================================================
