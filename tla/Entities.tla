------------------------------ MODULE Entities ------------------------------
(***************************************************************************)
(* The entities of one viewer: render770's EntityView, which turns the     *)
(* world's absolute positions into relative moves against what this viewer *)
(* last saw, the session's record of entity types, by which metadata is    *)
(* rewritten, and the client that adds the deltas up.  All three change    *)
(* on the world reader, a frame at a time, but the worlds behind it change *)
(* too: another dimension, a join again, another pod of the same world.    *)
(*                                                                         *)
(* One coordinate stands for three.  Positions are integers in parts of a  *)
(* delta unit (1/4096 block): Fine parts to a unit, so that what a delta   *)
(* truncates is in the model.                                              *)
(***************************************************************************)
EXTENDS Integers

CONSTANTS
    EID,        \* entity ids; a world keeps them for its whole life
    Types,      \* canonical entity types
    Rendered,   \* Rendered[t]: what a client of this version is shown for t
    Fine,       \* parts of a position in one delta unit
    Jump,       \* 7.5 blocks, in delta units: farther than this is absolute
    Limit,      \* the largest delta of an i16, in delta units
    SyncEvery,  \* every SyncEvery-th move of an entity is absolute
    Extent,     \* bound of the model: positions are 0 .. Extent
    None        \* no entity, no baseline, no type

ASSUME RenderedAssumption == Rendered \in [Types -> Types]
ASSUME UnitsAssumption ==
    /\ Fine \in Nat \ {0} /\ SyncEvery \in Nat \ {0} /\ Extent \in Nat
    /\ Jump \in Nat \ {0} /\ Limit \in Nat /\ Jump <= Limit
Coord == 0 .. Extent

\* An entity as the world has announced it, and as the client shows it.
Announced == [type : Types, at : Coord, smooth : BOOLEAN]
Shown == [type : Types, at : Int, meta : Types \cup {None}]

ASSUME NoneAssumption ==
    None \notin Types /\ None \notin Int /\ None \notin Announced /\ None \notin Shown

VARIABLES
    there,      \* there[e]: the world in view has announced e, with this type,
                \*   last at this position, by a move that may resync or not
    pos,        \* EntityView.pos: the baseline of the next delta
    sync,       \* EntityView.sync, of which only the remainder is read
    entTypes,   \* clientConn.entTypes
    shown       \* the client's level: what e is, where, its metadata's schema

vars == <<there, pos, sync, entTypes, shown>>

TypeOK ==
    /\ there \in [EID -> Announced \cup {None}]
    /\ pos \in [EID -> Int \cup {None}]
    /\ sync \in [EID -> 0 .. SyncEvery - 1]
    /\ entTypes \in [EID -> Types \cup {None}]
    /\ shown \in [EID -> Shown \cup {None}]

Init ==
    /\ there = [e \in EID |-> None]
    /\ pos = [e \in EID |-> None]
    /\ sync = [e \in EID |-> 0]
    /\ entTypes = [e \in EID |-> None]
    /\ shown = [e \in EID |-> None]

-----------------------------------------------------------------------------
(* The arithmetic of a relative move.                                      *)

Abs(v) == IF v < 0 THEN -v ELSE v

Truncated(v) == IF v < 0 THEN -((-v) \div Fine) ELSE v \div Fine

\* Slip: a delta that does not fit is not sent, instead of saturating.
ClampDrops(v) ==
    IF v > Limit * Fine \/ v < -(Limit + 1) * Fine THEN 0 ELSE Truncated(v)

clampDelta(v) ==
    IF v > Limit * Fine THEN Limit
    ELSE IF v < -(Limit + 1) * Fine THEN -(Limit + 1)
    ELSE Truncated(v)

-----------------------------------------------------------------------------
(* Entity frames.                                                          *)

EntityAdd(e, t, x) ==
    /\ there' = [there EXCEPT ![e] = [type |-> t, at |-> x, smooth |-> FALSE]]
    /\ entTypes' = [entTypes EXCEPT ![e] = t]
    /\ pos' = [pos EXCEPT ![e] = x]
    /\ shown' = [shown EXCEPT ![e] = [type |-> Rendered[t], at |-> x, meta |-> None]]
    /\ UNCHANGED sync

\* What the client does with a move of an entity it has, or has not.
Moved(e, x) ==
    shown' = [shown EXCEPT ![e] = IF @ = None THEN None ELSE [@ EXCEPT !.at = x]]

Reported(e, x, noSync) ==
    there' = [there EXCEPT ![e] = IF @ = None THEN None
                                  ELSE [@ EXCEPT !.at = x, !.smooth = noSync]]

Absolute(e, x) ==
    /\ pos' = [pos EXCEPT ![e] = x]
    /\ Moved(e, x)

Relative(e, x, noSync) ==
    LET d == clampDelta(x - pos[e]) * Fine
    IN  /\ pos' = [pos EXCEPT ![e] = IF noSync THEN @ + d ELSE x]
        /\ shown' = [shown EXCEPT ![e] = IF @ = None THEN None
                                         ELSE [@ EXCEPT !.at = shown[e].at + d]]

\* Slip: a jump too far for a delta is not looked for.
OrdinaryMoveNoJump(e, x) ==
    /\ Reported(e, x, FALSE)
    /\ sync' = [sync EXCEPT ![e] = (@ + 1) % SyncEvery]
    /\ IF pos[e] = None \/ sync'[e] = 0 THEN Absolute(e, x) ELSE Relative(e, x, FALSE)
    /\ UNCHANGED entTypes

\* A move that may resync: at first sight, every SyncEvery-th time, when far.
OrdinaryMove(e, x) ==
    /\ Reported(e, x, FALSE)
    /\ sync' = [sync EXCEPT ![e] = (@ + 1) % SyncEvery]
    /\ IF pos[e] = None \/ sync'[e] = 0 \/ Abs(x - pos[e]) >= Jump * Fine
       THEN Absolute(e, x)
       ELSE Relative(e, x, FALSE)
    /\ UNCHANGED entTypes

\* A move that must not resync but at first sight.
NoSyncMove(e, x) ==
    /\ Reported(e, x, TRUE)
    /\ IF pos[e] = None THEN Absolute(e, x) ELSE Relative(e, x, TRUE)
    /\ UNCHANGED <<sync, entTypes>>

EntityRemove(eids) ==
    /\ there' = [e \in EID |-> IF e \in eids THEN None ELSE there[e]]
    /\ entTypes' = [e \in EID |-> IF e \in eids THEN None ELSE entTypes[e]]
    /\ pos' = [e \in EID |-> IF e \in eids THEN None ELSE pos[e]]
    /\ sync' = [e \in EID |-> IF e \in eids THEN 0 ELSE sync[e]]
    /\ shown' = [e \in EID |-> IF e \in eids THEN None ELSE shown[e]]

\* Slip: nothing is a stand-in.
NeverSubstituted(t) == FALSE

IsSubstituted(t) == t # None /\ Rendered[t] # t

\* The rewriting is chosen by the recorded type; none for a stand-in.
EntityMeta(e) ==
    /\ ~IsSubstituted(entTypes[e])
    /\ shown' = [shown EXCEPT ![e] = IF @ = None THEN None
                                     ELSE [@ EXCEPT !.meta = entTypes[e]]]
    /\ UNCHANGED <<there, pos, sync, entTypes>>

-----------------------------------------------------------------------------
(* The world in view is replaced.                                          *)

Nobody == [e \in EID |-> None]

Reset ==
    /\ pos' = Nobody
    /\ sync' = [e \in EID |-> 0]

\* A respawn in another dimension: the client discards its level.
Dimension ==
    /\ Reset
    /\ there' = Nobody /\ shown' = Nobody
    /\ UNCHANGED entTypes

\* A join again, after a reconfiguration.
Rejoin ==
    /\ Reset
    /\ there' = Nobody /\ shown' = Nobody /\ entTypes' = Nobody

Tracked == {e \in EID : pos[e] # None}

\* Slip: the view is reset before what it tracks is destroyed.
RehomeForgetful ==
    /\ Reset
    /\ there' = Nobody
    /\ UNCHANGED <<shown, entTypes>>

\* Another pod, in silence: no respawn, so the client keeps its level and
\* what was rendered to this viewer is destroyed by hand.
Rehome ==
    /\ Reset
    /\ there' = Nobody
    /\ shown' = [e \in EID |-> IF e \in Tracked THEN None ELSE shown[e]]
    /\ UNCHANGED entTypes

Next ==
    \/ \E e \in EID, x \in Coord :
          \/ \E t \in Types : EntityAdd(e, t, x)
          \/ OrdinaryMove(e, x)
          \/ NoSyncMove(e, x)
    \/ \E e \in EID : EntityMeta(e)
    \/ \E eids \in SUBSET EID : EntityRemove(eids)
    \/ Dimension
    \/ Rejoin
    \/ Rehome

Spec == Init /\ [][Next]_vars

-----------------------------------------------------------------------------
(* Properties.                                                             *)

\* The client has exactly the entities that the world it is in has announced:
\* none of an earlier world or shard is left behind, and none is missing
\* (session.go's handling of MsgDimension, MsgRejoin and MsgRehome).
NoGhosts == \A e \in EID : shown[e] = None <=> there[e] = None

\* The baseline and the client part by less than a unit for each relative
\* move since the last absolute one, however resyncing and unresyncable moves,
\* removals and new worlds alternate (EntityView.Move's self-healing).
DriftBounded ==
    \A e \in EID : shown[e] # None =>
        pos[e] # None /\ Abs(shown[e].at - pos[e]) <= sync[e] * (Fine - 1)

\* An entity that may be resynced is seen where the world has it, but for
\* that drift, which no entity exceeds.
SeenWhereItIs ==
    /\ DriftBounded
    /\ \A e \in EID : (shown[e] # None /\ ~there[e].smooth) =>
          Abs(shown[e].at - there[e].at) <= sync[e] * (Fine - 1)

\* Metadata reaches an entity only in the schema of the type the client has
\* for it: any other disconnects it (session.go's metadata policies, and
\* IsSubstituted for a stand-in).
MetaFitsEntity ==
    \A e \in EID : shown[e] # None =>
        shown[e].meta \in {None, shown[e].type}

\* An entity that must not be resynced converges, whatever saturates on the
\* way: each of its moves leaves the baseline within a unit of where it is, or
\* nearer than it was, and never past it (EntityView.Move, NoSync).
SmoothApproaches ==
    [][\A e \in EID, x \in Coord :
          (NoSyncMove(e, x) /\ pos[e] # None) =>
             \/ Abs(pos'[e] - x) < Fine
             \/ /\ Abs(pos'[e] - x) < Abs(pos[e] - x)
                /\ (pos'[e] < x <=> pos[e] < x)]_vars
=============================================================================
