---------------------------- MODULE MCChunkPacer ----------------------------
(***************************************************************************)
(* ChunkPacer for TLC: a client of a world that switches dimension, one    *)
(* with chunks of several columns, and a client that never acknowledges in *)
(* a session that may be configured again and may end at any step.         *)
(***************************************************************************)
EXTENDS ChunkPacer

One == {CHOOSE c \in Columns : TRUE}

Switching == [acks |-> TRUE, ends |-> FALSE, dims |-> Dims, columns |-> One,
              switches |-> 1, joins |-> 1]
Walking == [Switching EXCEPT !.dims = {0}, !.columns = Columns, !.switches = 0]
Silent == [acks |-> FALSE, ends |-> TRUE, dims |-> {0}, columns |-> One,
           switches |-> 0, joins |-> 2]
MCScenarios == {Switching, Walking, Silent}
=============================================================================
