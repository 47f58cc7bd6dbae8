------------------------------- MODULE Mirror -------------------------------
(***************************************************************************)
(* What a play session promises of the player's screens: the client shows, *)
(* one after another and in order, the states the world has given, none    *)
(* skipped and none of its own making; and it gets to the last of them.    *)
(***************************************************************************)
EXTENDS Naturals, Sequences

VARIABLES
    said,       \* what the world last gave the player to see
    owed,       \* the states the client has still to show, in order
    shown       \* what the client shows

vars == <<said, owed, shown>>

Init == owed = << >> /\ shown = said

\* The world changes what it gives.
Say == owed' = Append(owed, said') /\ UNCHANGED shown

\* The client shows the next.
Show == owed # << >> /\ shown' = Head(owed) /\ owed' = Tail(owed) /\ UNCHANGED said

Next == Say \/ Show

Spec == Init /\ [][Next]_vars /\ WF_vars(Show)

\* What is owed ends with what the world said.
Ends == said = IF owed = << >> THEN shown ELSE owed[Len(owed)]
=============================================================================
