------------------------------ MODULE LogChunk ------------------------------
(***************************************************************************)
(* The unit of work of the logger: a chunk is a fixed number of bytes, the *)
(* first of which is the id of the task that wrote it (Log.h, class        *)
(* Chunk).  Only what the de-interleaving looks at is kept: the id byte,   *)
(* and whether the payload holds the end-of-message byte (cEndOfMessage).  *)
(* The payload itself is abstracted to `stamp', the position of the chunk  *)
(* in the order in which the transmitter received the chunks; 0 stands for *)
(* bytes that never were a chunk of a registered task.                     *)
(***************************************************************************)
EXTENDS Integers

CONSTANTS
  Tasks,          \* ids of registered tasks, and cIsrTaskId for interrupts
  InvalidTaskId,  \* Chunk::cInvalidTaskId
  MaxArrivals     \* bound: chunks of registered tasks received in a behaviour

ASSUME ChunkAssumption ==
  /\ InvalidTaskId \notin Tasks
  /\ MaxArrivals \in Nat

Chunk == [id : Tasks \cup {InvalidTaskId}, stamp : 0 .. MaxArrivals, last : BOOLEAN]

IsValid(c) == c.id # InvalidTaskId

\* Chunk::invalidate overwrites the id byte and leaves the payload.
Invalidate(c) == [c EXCEPT !.id = InvalidTaskId]

\* What the queue can hand over as the n-th chunk of a registered task.
Received(n) == [id : Tasks, stamp : {n}, last : BOOLEAN]

\* A task that never registered sends its chunks under the invalid id.
Unregistered == [id : {InvalidTaskId}, stamp : {0}, last : BOOLEAN]

=============================================================================
