------------------------------- MODULE Viewer -------------------------------
(***************************************************************************)
(* Where a play session thinks its player is.  The chunk under the player  *)
(* (ccx, ccz), the dimension and the view distance are plain variables of  *)
(* the session, shared by its two readers: the world's, which teleports,   *)
(* changes dimension, follows a vehicle, joins again and changes pods, and *)
(* the client's, which moves.  Each tells the client its new centre and    *)
(* then the pod what to stream, as separate steps, each composed from the  *)
(* shared variables before the lock that orders it is taken.               *)
(***************************************************************************)
EXTENDS Naturals

CONSTANTS
    Chunks,         \* chunk columns, one coordinate for two
    Dims,           \* dimensions; 0 is the overworld
    Radii,          \* view distances
    None

ASSUME DimsAssumption == 0 \in Dims

\* What the pod is asked for, and a handler that has set the shared variables:
\* the centre it has composed, the Want it has composed, whether each is still
\* to go out, and whether it ran alone so far and tells everything.
Wants == [at : Chunks, radius : Radii, dim : Dims]
Handler == [centre : Chunks \cup {None}, want : Wants \cup {None},
            step : {"centre", "send", "want", "write"}, alone : BOOLEAN, full : BOOLEAN]

ASSUME NoneAssumption == None \notin Chunks \cup Dims \cup Radii \cup Wants \cup Handler

VARIABLES
    cc, curDim, viewDist,   \* the session's shared variables
    vehicle,                \* myVehicle, the world reader's: aboard or not
    phase,                  \* the client: in play, configuring, to be joined again
    todo,                   \* todo[r]: what reader r is in the middle of
    centre, dim,            \* the client: its chunk centre and its dimension
    want,                   \* the pod in use: the last Want it got
    owed,                   \* the client respawned and is to be teleported
    tidy,                   \* history: no two handlers crossed since they agreed
    astray                  \* history: the player changed pods outside dimension 0
                            \*   and has not respawned or joined since

viewVars == <<cc, curDim, viewDist, vehicle, phase, todo, centre, dim, want, owed, tidy,
          astray>>

Readers == {"world", "client"}

ViewTypeOK ==
    /\ cc \in Chunks /\ curDim \in Dims /\ viewDist \in Radii
    /\ vehicle \in BOOLEAN /\ phase \in {"play", "configuring", "configured"}
    /\ todo \in [Readers -> Handler \cup {None}]
    /\ centre \in Chunks \cup {None} /\ dim \in Dims
    /\ want \in Wants \cup {None}
    /\ owed \in BOOLEAN /\ tidy \in BOOLEAN /\ astray \in BOOLEAN

\* The join: the centre and the first Want, before the readers start.
ViewInit ==
    /\ cc \in Chunks /\ curDim = 0 /\ viewDist \in Radii
    /\ vehicle = FALSE /\ phase = "play"
    /\ todo = [r \in Readers |-> None]
    /\ centre = cc /\ dim = 0
    /\ want = [at |-> cc, radius |-> viewDist, dim |-> 0]
    /\ owed = FALSE /\ tidy = TRUE /\ astray = FALSE

Idle(r) == todo[r] = None

Other(r) == CHOOSE s \in Readers : s # r

\* Reader r starts a handler; it and one that is under way are not alone.
Start(r, first) ==
    LET alone == Idle(Other(r))
        mine  == [centre |-> None, want |-> None, step |-> first, alone |-> alone,
                  full |-> first = "centre"]
    IN  /\ todo' = [s \in Readers |->
                      IF s = r THEN mine
                      ELSE IF alone THEN None ELSE [todo[s] EXCEPT !.alone = FALSE]]
        /\ tidy' = (tidy /\ alone)

-----------------------------------------------------------------------------
(* The rest of a handler: the centre to the client, the Want to the pod.   *)

ComposeCentre(r) ==
    /\ ~Idle(r) /\ todo[r].step = "centre"
    /\ todo' = [todo EXCEPT ![r].centre = cc, ![r].step = "send"]
    /\ UNCHANGED <<cc, curDim, viewDist, vehicle, phase, centre, dim, want, owed, tidy,
                   astray>>

\* Between the phases clientConn.send drops it.
SendCentre(r) ==
    /\ ~Idle(r) /\ todo[r].step = "send"
    /\ centre' = IF phase = "play" THEN todo[r].centre ELSE centre
    /\ todo' = [todo EXCEPT ![r].step = "want", ![r].centre = None]
    /\ UNCHANGED <<cc, curDim, viewDist, vehicle, phase, dim, want, owed, tidy, astray>>

ComposeWant(r) ==
    /\ ~Idle(r) /\ todo[r].step = "want"
    /\ todo' = [todo EXCEPT ![r].step = "write",
                            ![r].want = [at |-> cc, radius |-> viewDist, dim |-> curDim]]
    /\ UNCHANGED <<cc, curDim, viewDist, vehicle, phase, centre, dim, want, owed, tidy,
                   astray>>

WriteWant(r) ==
    /\ ~Idle(r) /\ todo[r].step = "write"
    /\ want' = todo[r].want
    /\ todo' = [todo EXCEPT ![r] = None]
    /\ tidy' = (tidy \/ (todo[r].alone /\ todo[r].full))
    /\ UNCHANGED <<cc, curDim, viewDist, vehicle, phase, centre, dim, owed, astray>>

-----------------------------------------------------------------------------
(* The client reader.                                                      *)

\* The client plays until it acknowledges a configuration to come.
Plays == Idle("client") /\ phase \in {"play", "configuring"}

\* A position, or a vehicle the client drives, into another chunk.
Move(c) ==
    /\ Plays /\ c # cc
    /\ cc' = c
    /\ Start("client", "centre")
    /\ UNCHANGED <<curDim, viewDist, vehicle, phase, centre, dim, want, owed, astray>>

\* Mid-game settings.
ViewChange(v) ==
    /\ Plays /\ v # viewDist
    /\ viewDist' = v
    /\ Start("client", "want")
    /\ UNCHANGED <<cc, curDim, vehicle, phase, centre, dim, want, owed, astray>>

\* configuration_acknowledged, the whole phase, and MsgConfigured.
Configured(v) ==
    /\ Idle("client") /\ phase = "configuring"
    /\ viewDist' = v /\ phase' = "configured"
    /\ UNCHANGED <<cc, curDim, vehicle, todo, centre, dim, want, owed, tidy,
                   astray>>

-----------------------------------------------------------------------------
(* The world reader.                                                       *)

Frame == Idle("world") /\ phase = "play"

\* Slip: the client is not centred anew.
TeleportUncentred(c) ==
    /\ Frame
    /\ cc' = c /\ owed' = FALSE
    /\ Start("world", "want")
    /\ UNCHANGED <<curDim, viewDist, vehicle, phase, centre, dim, want, astray>>

Teleport(c) ==
    /\ Frame
    /\ cc' = c /\ owed' = FALSE
    /\ Start("world", "centre")
    /\ UNCHANGED <<curDim, viewDist, vehicle, phase, centre, dim, want, astray>>

\* Passengers: the player gets on a vehicle, or off.
Passengers ==
    /\ Frame
    /\ vehicle' = ~vehicle
    /\ UNCHANGED <<cc, curDim, viewDist, phase, todo, centre, dim, want, owed, tidy, astray>>

\* A move of the vehicle the session has the player on.
VehicleMoves(c) ==
    /\ Frame /\ vehicle /\ c # cc
    /\ cc' = c
    /\ Start("world", "centre")
    /\ UNCHANGED <<curDim, viewDist, vehicle, phase, centre, dim, want, owed, astray>>

\* A respawn elsewhere; the world teleports the player next.
Dimension(d) ==
    /\ Frame /\ d # dim
    /\ curDim' = d /\ dim' = d /\ centre' = None /\ owed' = TRUE /\ astray' = FALSE
    /\ UNCHANGED <<cc, viewDist, vehicle, phase, todo, want, tidy>>

\* The world has taken the player out of the level.
StartConfiguration ==
    /\ Frame
    /\ phase' = "configuring"
    /\ UNCHANGED <<cc, curDim, viewDist, vehicle, todo, centre, dim, want, owed, tidy, astray>>

\* The login packet again, wherever the player is placed.
Rejoin(c, d) ==
    /\ Idle("world") /\ phase = "configured"
    /\ phase' = "play"
    /\ cc' = c /\ curDim' = d /\ dim' = d /\ centre' = None
    /\ vehicle' = FALSE /\ owed' = FALSE /\ astray' = FALSE
    /\ Start("world", "centre")
    /\ UNCHANGED <<viewDist, want>>

\* Another pod: nothing is wanted of it yet, and the dimension is set to 0
\* whatever dimension the player is in.
Rehome(c) ==
    /\ Frame
    /\ cc' = c /\ curDim' = 0 /\ want' = None /\ owed' = FALSE /\ astray' = (dim # 0)
    /\ Start("world", "centre")
    /\ UNCHANGED <<viewDist, vehicle, phase, centre, dim>>

ViewNext ==
    \/ \E r \in Readers : ComposeCentre(r) \/ SendCentre(r) \/ ComposeWant(r) \/ WriteWant(r)
    \/ \E c \in Chunks : Move(c) \/ Teleport(c) \/ VehicleMoves(c) \/ Rehome(c)
    \/ \E v \in Radii : ViewChange(v) \/ Configured(v)
    \/ Passengers \/ StartConfiguration
    \/ \E d \in Dims : Dimension(d) \/ \E c \in Chunks : Rejoin(c, d)

ViewSpec == ViewInit /\ [][ViewNext]_viewVars

-----------------------------------------------------------------------------
(* Properties.                                                             *)

AtRest == phase = "play" /\ ~owed /\ \A r \in Readers : Idle(r)

\* At rest, unless two handlers crossed, the client is centred on the chunk
\* the session has the player in and the pod streams that very window, of the
\* dimension the client is in: elsewhere the pacer drops its chunks as stale.
\* After a crossing, one handler that runs alone is enough to agree again; a
\* handover outside dimension 0 asks for dimension 0 until the player respawns
\* or joins again.
Agreed ==
    (AtRest /\ tidy) =>
        /\ centre = cc
        /\ want = [at |-> cc, radius |-> viewDist, dim |-> curDim]
        /\ want.dim = dim \/ astray

\* The views of the session, the client and the pod agree at rest.
ViewAgrees == ViewTypeOK /\ Agreed

\* "Regions currently apply to every dimension" (shard.Map's comment): a
\* handover asks the new pod for the dimension the player is in.
InDimension == (AtRest /\ tidy) => want.dim = dim
=============================================================================
