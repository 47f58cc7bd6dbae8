--------------------------- MODULE MCReconfigure ---------------------------
(***************************************************************************)
(* Reconfigure for TLC.                                                    *)
(***************************************************************************)
EXTENDS Reconfigure, TLC

\* Registry sets are only compared: runs without liveness take one per class.
RegistrySymmetry == Permutations(Registries)
=============================================================================
