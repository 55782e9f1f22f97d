----------------------------- MODULE LossyQueue -----------------------------
(***************************************************************************)
(* What push and pop of a port promise to the senders and the transmitter: *)
(* a queue of bounded length in the order of entry, from which nothing is  *)
(* lost.  A chunk is refused only when every place is taken and the sender *)
(* does not wait ("either blocking to wait for place or letting chunks     *)
(* dropped", Log.h:507).  A place is taken from the time a chunk is        *)
(* accepted until the transmitter is done with it.                         *)
(***************************************************************************)
EXTENDS Integers, Sequences, FiniteSets

CONSTANTS
  Senders,
  Length,    \* LogConfig::queueLength
  MaxSends   \* bound: chunks of each sender

VARIABLES
  blocks,    \* LogConfig::blocks
  sent,      \* how many chunks each sender has offered
  state,     \* the chunk offered last: "asking" for a place, "accepted", or "done"
  queue,     \* the chunks that have entered
  taken,     \* the chunk that the transmitter is copying, if any
  received,  \* the chunks handed to the transmitter
  lost       \* the chunks refused

vars == <<blocks, sent, state, queue, taken, received, lost>>

ChunkOf(s, n) == [sender |-> s, number |-> n]

Last(s) == ChunkOf(s, sent[s])

Accepted == {s \in Senders : state[s] = "accepted"}

PlacesTaken == Cardinality(Accepted) + Len(queue) + Len(taken)

Init ==
  /\ blocks \in BOOLEAN
  /\ sent = [s \in Senders |-> 0]
  /\ state = [s \in Senders |-> "done"]
  /\ queue = <<>> /\ taken = <<>> /\ received = <<>>
  /\ lost = {}

Offer(s) ==
  /\ state[s] = "done" /\ sent[s] < MaxSends
  /\ sent' = [sent EXCEPT ![s] = @ + 1]
  /\ state' = [state EXCEPT ![s] = "asking"]
  /\ UNCHANGED <<blocks, queue, taken, received, lost>>

Accept(s) ==
  /\ state[s] = "asking" /\ PlacesTaken < Length
  /\ state' = [state EXCEPT ![s] = "accepted"]
  /\ UNCHANGED <<blocks, sent, queue, taken, received, lost>>

Refuse(s) ==
  /\ state[s] = "asking" /\ PlacesTaken = Length /\ ~blocks
  /\ state' = [state EXCEPT ![s] = "done"]
  /\ lost' = lost \cup {Last(s)}
  /\ UNCHANGED <<blocks, sent, queue, taken, received>>

Enter(s) ==
  /\ state[s] = "accepted"
  /\ state' = [state EXCEPT ![s] = "done"]
  /\ queue' = Append(queue, Last(s))
  /\ UNCHANGED <<blocks, sent, taken, received, lost>>

Take ==
  /\ queue # <<>> /\ taken = <<>>
  /\ taken' = <<Head(queue)>>
  /\ queue' = Tail(queue)
  /\ UNCHANGED <<blocks, sent, state, received, lost>>

Deliver ==
  /\ taken # <<>>
  /\ received' = received \o taken
  /\ taken' = <<>>
  /\ UNCHANGED <<blocks, sent, state, queue, lost>>

Next ==
  \/ \E s \in Senders : Offer(s) \/ Accept(s) \/ Refuse(s) \/ Enter(s)
  \/ Take \/ Deliver

Spec == Init /\ [][Next]_vars

-----------------------------------------------------------------------------
\* The chunks of a sender are received in the order in which they were sent,
\* none twice; those missing in between were refused for want of a place.
SenderOrder ==
  \A i, j \in DOMAIN received :
    i < j /\ received[i].sender = received[j].sender =>
      /\ received[i].number < received[j].number
      /\ \A n \in received[i].number + 1 .. received[j].number - 1 :
           \/ ChunkOf(received[i].sender, n) \in lost
           \/ \E k \in i + 1 .. j - 1 : received[k] = ChunkOf(received[i].sender, n)

=============================================================================
