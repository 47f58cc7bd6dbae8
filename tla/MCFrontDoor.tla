----------------------------- MODULE MCFrontDoor -----------------------------
EXTENDS FrontDoor

\* A full server, and one that is open and has no world yet.
MCModes == {[online |-> TRUE,  gated |-> TRUE,  linked |-> TRUE],
            [online |-> FALSE, gated |-> FALSE, linked |-> FALSE]}
=============================================================================
