---------------------------- MODULE MCLogSystem -----------------------------
(***************************************************************************)
(* A task and an interrupt, with one chunk more than fit into the device,  *)
(* the double buffer and the queue when the device stands still.           *)
(***************************************************************************)
EXTENDS LogSystem, Functions

CONSTANTS task, isr

ChunksOfSenders == [t \in Tasks |-> IF t = task THEN 3 ELSE 2]

ASSUME AllChunks == MaxChunks = FoldFunction(+, 0, MaxSends)

=============================================================================
