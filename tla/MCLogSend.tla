----------------------------- MODULE MCLogSend ------------------------------
(***************************************************************************)
(* A task that makes four calls, enough for a chain with two messages, next*)
(* to an interrupt and a task that never registered.                       *)
(***************************************************************************)
EXTENDS LogSend

CONSTANTS task, isr, stray

CallsOfThreads == [t \in Threads |-> IF t = task THEN 4 ELSE 1]

=============================================================================
