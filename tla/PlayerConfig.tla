---------------------------- MODULE PlayerConfig ----------------------------
(***************************************************************************)
(* What a reconfiguration promises the world (attach MsgStartConfiguration *)
(* to MsgRejoin): the player is placed in a level again only once the      *)
(* client has configured itself with the data the world asked for.         *)
(***************************************************************************)
CONSTANT Registries

VARIABLES place,  \* where the world has the player
          want,   \* the configuration the world asked for last
          have    \* the configuration the client holds

absVars == <<place, want, have>>

Init == /\ place = "inLevel"
        /\ have \in Registries /\ want = have

\* The world takes the player out of the level and asks for c.
Request(c) == /\ place = "inLevel"
              /\ place' = "between" /\ want' = c
              /\ UNCHANGED have

\* The client takes the configuration over.
Apply == /\ place = "between"
         /\ have' = want
         /\ UNCHANGED <<place, want>>

\* The world places the player again.
Place == /\ place = "between" /\ have = want
         /\ place' = "inLevel"
         /\ UNCHANGED <<want, have>>

Next == Apply \/ Place \/ \E c \in Registries : Request(c)

Spec == Init /\ [][Next]_absVars
=============================================================================
