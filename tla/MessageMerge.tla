---------------------------- MODULE MessageMerge ----------------------------
(***************************************************************************)
(* What the transmitter promises, with no ring buffer in sight: chunks of  *)
(* messages arrive interleaved, and leave message by message.  Chunks that *)
(* do not belong to the message being printed (the active one) are held,   *)
(* at most Capacity of them.  A message that cannot be finished while the  *)
(* store is full is cut, and the oldest held chunk starts a new one.       *)
(***************************************************************************)
EXTENDS LogChunk, Sequences, FiniteSets

CONSTANT Capacity  \* how many chunks can be held

VARIABLES
  held,     \* the chunks received and not yet printed
  active,   \* task whose message is being printed, or InvalidTaskId
  out,      \* the chunks printed, in order
  arrived,  \* how many chunks of registered tasks were received
  cuts      \* positions of out at which another message was cut short

vars == <<held, active, out, arrived, cuts>>

Init ==
  /\ held = {}
  /\ active = InvalidTaskId
  /\ out = <<>>
  /\ arrived = 0
  /\ cuts = {}

OfTask(t) == {c \in held : c.id = t}

IsOldest(c, S) == c \in S /\ \A d \in S : c.stamp <= d.stamp

Emit(c) ==
  /\ out' = Append(out, c)
  /\ active' = IF c.last THEN InvalidTaskId ELSE c.id

Arrive(c) ==
  /\ arrived < MaxArrivals
  /\ c \in Received(arrived + 1)
  /\ arrived' = arrived + 1

\* A chunk that starts a message, or continues the active one, is printed
\* at once when nothing held has to go first.
PassThrough ==
  \E c \in Received(arrived + 1) :
    /\ Arrive(c)
    /\ \/ active = InvalidTaskId /\ held = {}
       \/ active = c.id /\ OfTask(active) = {}
    /\ Emit(c)
    /\ UNCHANGED <<held, cuts>>

\* A chunk of another message is held while there is room.
Hold ==
  \E c \in Received(arrived + 1) :
    /\ Arrive(c)
    /\ active \notin {InvalidTaskId, c.id}
    /\ OfTask(active) = {}
    /\ Cardinality(held) < Capacity
    /\ held' = held \cup {c}
    /\ UNCHANGED <<active, out, cuts>>

\* The next message is the one whose first chunk is the oldest held.
StartOldest ==
  /\ active = InvalidTaskId
  /\ \E c \in held :
       /\ IsOldest(c, held)
       /\ Emit(c)
       /\ held' = held \ {c}
  /\ UNCHANGED <<arrived, cuts>>

\* Held chunks of the active message go out in the order of their arrival.
Continue ==
  /\ active # InvalidTaskId
  /\ \E c \in held :
       /\ IsOldest(c, OfTask(active))
       /\ Emit(c)
       /\ held' = held \ {c}
  /\ UNCHANGED <<arrived, cuts>>

\* The store is full of other messages: the active one is cut short.
Overflow ==
  /\ active # InvalidTaskId
  /\ OfTask(active) = {}
  /\ Cardinality(held) = Capacity
  /\ \E c \in held :
       /\ IsOldest(c, held)
       /\ Emit(c)
       /\ held' = held \ {c}
  /\ cuts' = cuts \cup {Len(out) + 1}
  /\ UNCHANGED arrived

Next == PassThrough \/ Hold \/ StartOldest \/ Continue \/ Overflow

Spec == Init /\ [][Next]_vars

-----------------------------------------------------------------------------
LiveChunk == [id : Tasks, stamp : 1 .. MaxArrivals, last : BOOLEAN]

TypeOK ==
  /\ held \subseteq LiveChunk
  /\ active \in Tasks \cup {InvalidTaskId}
  /\ out \in Seq(LiveChunk)
  /\ arrived \in 0 .. MaxArrivals
  /\ cuts \subseteq 1 .. Len(out)

\* Position p of the output begins a message, or what is left of a cut one.
Starts(p) == p = 1 \/ out[p - 1].last \/ p \in cuts

\* Every chunk received is either printed once or still held: none is lost,
\* none is printed twice, whatever the order in which the holes of the store
\* were made and closed.
ExactlyOnce ==
  /\ \A n \in 1 .. arrived :
       \/ \E c \in held : c.stamp = n
       \/ \E p \in 1 .. Len(out) : out[p].stamp = n
  /\ \A c \in held : \A p \in 1 .. Len(out) : out[p].stamp # c.stamp
  /\ \A p, q \in 1 .. Len(out) : out[p].stamp = out[q].stamp => p = q
  /\ \A c, d \in held : c.stamp = d.stamp => c = d

\* A task's chunks leave in the order in which they came: a chunk taken from
\* the queue never overtakes one of the same task that is held.
TaskOrder ==
  \A p \in 1 .. Len(out) :
    /\ \A q \in 1 .. Len(out) :
         p < q /\ out[p].id = out[q].id => out[p].stamp < out[q].stamp
    /\ \A c \in held : c.id = out[p].id => out[p].stamp < c.stamp

\* Messages are printed whole: inside a message the next chunk is of the same
\* task, except where the full store cut it.
WholeMessages ==
  \A p \in 2 .. Len(out) : ~Starts(p) => out[p].id = out[p - 1].id

\* Messages are printed in the order of their first chunks (Log.h:516): what
\* starts a message is older than all that is printed after it or still held.
FirstChunkOrder ==
  \A p \in 1 .. Len(out) :
    Starts(p) =>
      /\ \A q \in 1 .. Len(out) : p < q => out[p].stamp < out[q].stamp
      /\ \A c \in held : out[p].stamp < c.stamp

=============================================================================
