----------------------------- MODULE MCEntities -----------------------------
EXTENDS Entities

MCTypes == {"ghast", "happy_ghast", "frog"}

\* A client that predates the happy ghast.
MCRendered == [t \in MCTypes |-> IF t = "happy_ghast" THEN "ghast" ELSE t]
=============================================================================
