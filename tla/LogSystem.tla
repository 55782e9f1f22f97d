----------------------------- MODULE LogSystem ------------------------------
(***************************************************************************)
(* The logger as a whole over the FreeRTOS ports: tasks and interrupts     *)
(* push chunks into the queue, the transmitter takes them out, merges them *)
(* into messages and fills the double buffer, and a UART with DMA or the   *)
(* SWO pin sends them.  The merge is MessageMerge, which the loop          *)
(* implements; the buffers and the devices are those of FreeRtosPort.      *)
(* Chunks are dropped when the queue is full, and the device and the timer *)
(* may refuse to start.                                                    *)
(***************************************************************************)
EXTENDS Integers, Sequences, FiniteSets

CONSTANTS
  Tasks,          \* the ids of the senders
  Interrupts,     \* those that send from an interrupt
  InvalidTaskId,  \* Chunk::cInvalidTaskId
  Blocks,         \* LogConfig::blocks
  QueueLength,    \* LogConfig::queueLength
  Capacity,       \* LogConfig::circularBufferLength
  TransmitLength, \* LogConfig::transmitBufferLength
  MaxSends,       \* bound: chunks of each sender
  MaxChunks       \* bound: chunks taken from the queue; those of all senders

ASSUME SystemAssumption ==
  /\ Interrupts \subseteq Tasks /\ InvalidTaskId \notin Tasks
  /\ Blocks \in BOOLEAN
  /\ QueueLength \in Nat \ {0} /\ Capacity \in Nat \ {0}
  /\ TransmitLength \in Nat \ {0}
  /\ MaxSends \in [Tasks -> Nat] /\ MaxChunks \in Nat

VARIABLES
  pushing,    \* the senders that wait inside push
  sent,       \* history: calls of push of each sender
  queue,      \* mQueue
  taken,      \* history: the chunks taken from the queue
  lost,       \* history: by sender, the numbers of the chunks refused
  inspected,  \* mInspected of the ring
  holes,      \* how many invalidated slots are in the ring
  held, active, out, arrived, cuts,                                  \* MessageMerge
  buffers, bufferToWrite, chunkCount, inProgress, refreshNeeded, tpc,
  written, wire, swo, dma, armed, failed                             \* FreeRtosPort

Merge == INSTANCE MessageMerge WITH MaxArrivals <- MaxChunks
Port == INSTANCE FreeRtosPort

mergeVars == <<held, active, out, arrived, cuts>>
portVars == <<buffers, bufferToWrite, chunkCount, inProgress, refreshNeeded, tpc,
              written, wire, swo, dma, armed, failed>>
senderVars == <<pushing, sent, lost>>
queueVars == <<queue, taken>>
loopVars == <<mergeVars, inspected, holes>>
vars == <<senderVars, queueVars, loopVars, portVars>>

Init ==
  /\ pushing = {}
  /\ sent = [t \in Tasks |-> 0]
  /\ lost = [t \in Tasks |-> {}]
  /\ queue = <<>> /\ taken = <<>>
  /\ inspected = TRUE /\ holes = 0
  /\ Merge!Init
  /\ Port!Init

-----------------------------------------------------------------------------
\* A sender calls push with its next chunk.
Call(t) ==
  /\ t \notin pushing
  /\ sent[t] < MaxSends[t]
  /\ sent' = [sent EXCEPT ![t] = @ + 1]

Waits(t) == Blocks /\ t \notin Interrupts

\* The n-th chunk of t goes into the queue, be it the last of its message or
\* not; bound: that of the last call is.
Put(t, n) ==
  /\ Len(queue) < QueueLength
  /\ \E last \in BOOLEAN :
       /\ n = MaxSends[t] => last
       /\ queue' = Append(queue, [id |-> t, number |-> n, last |-> last])

\* xQueueSend or xQueueSendFromISR finds space.
Enqueue(t) ==
  /\ Call(t)
  /\ Put(t, sent[t] + 1)
  /\ UNCHANGED <<pushing, lost, taken, loopVars, portVars>>

\* The queue is full, and the sender cannot wait; push ignores the result.
Refuse(t) ==
  /\ Call(t)
  /\ Len(queue) = QueueLength /\ ~Waits(t)
  /\ lost' = [lost EXCEPT ![t] = @ \cup {sent[t] + 1}]
  /\ UNCHANGED <<pushing, queueVars, loopVars, portVars>>

\* xQueueSend waits for space without limit.
Block(t) ==
  /\ Call(t)
  /\ Len(queue) = QueueLength /\ Waits(t)
  /\ pushing' = pushing \cup {t}
  /\ UNCHANGED <<lost, queueVars, loopVars, portVars>>

Resume(t) ==
  /\ t \in pushing
  /\ Put(t, sent[t])
  /\ pushing' = pushing \ {t}
  /\ UNCHANGED <<sent, lost, taken, loopVars, portVars>>

-----------------------------------------------------------------------------
\* The ring has a slot for each held chunk and for each hole.
IsEmpty == held = {} /\ holes = 0
IsFull == Cardinality(held) + holes = Capacity

\* The loop waits on the queue when the ring is empty, or has room and was
\* searched for the active task.
Fetches ==
  \/ IsEmpty
  \/ active # InvalidTaskId /\ ~IsFull /\ inspected

\* xQueueReceive hands over the oldest chunk.
Fetch ==
  /\ Fetches
  /\ queue # <<>>
  /\ queue' = Tail(queue)
  /\ taken' = Append(taken, Head(queue))

Fetched == [id |-> Head(queue).id, stamp |-> arrived + 1, last |-> Head(queue).last]

PrintFetched ==
  /\ Fetch
  /\ Merge!PassThrough /\ out' = Append(out, Fetched)
  /\ Port!WriteChunk
  /\ inspected' = (inspected /\ ~Fetched.last)
  /\ UNCHANGED holes

HoldFetched ==
  /\ Fetch
  /\ Merge!Hold /\ held' = held \cup {Fetched}
  /\ Port!WriteNothing
  /\ UNCHANGED <<inspected, holes>>

\* Mutant: the oldest chunk of the ring goes out in front of the active message.
PrintHeldOldest ==
  /\ \E c \in held :
       /\ Merge!IsOldest(c, held)
       /\ Merge!Emit(c)
       /\ held' = held \ {c}
  /\ Port!WriteChunk
  /\ inspected' = FALSE
  /\ UNCHANGED <<queueVars, arrived, cuts, holes>>

\* The oldest chunk is popped, but a found one leaves a hole.
PrintHeld ==
  /\ \/ (Merge!StartOldest \/ Merge!Overflow) /\ UNCHANGED holes
     \/ Merge!Continue /\ holes' = holes + 1
  /\ Port!WriteChunk
  /\ inspected' = FALSE
  /\ UNCHANGED queueVars

\* The queue stays empty for the time that the loop waits.
FetchNothing ==
  /\ Fetches
  /\ queue = <<>>
  /\ Port!WriteNothing
  /\ UNCHANGED <<queueVars, loopVars>>

\* Between two messages the loop meets a hole at the start of the ring.
PopHole ==
  /\ active = InvalidTaskId
  /\ holes > 0 /\ holes' = holes - 1
  /\ Port!WriteNothing
  /\ UNCHANGED <<queueVars, mergeVars, inspected>>

\* The ring, not full, is searched for nothing, and compacted.
InspectInVain ==
  /\ active # InvalidTaskId
  /\ ~IsEmpty /\ ~IsFull /\ ~inspected
  /\ Merge!OfTask(active) = {}
  /\ inspected' = TRUE /\ holes' = 0
  /\ Port!WriteNothing
  /\ UNCHANGED <<queueVars, mergeVars>>

Turn ==
  PrintFetched \/ HoldFetched \/ PrintHeld \/ FetchNothing \/ PopHole \/ InspectInVain

-----------------------------------------------------------------------------
Transmitter ==
  /\ \/ Turn /\ UNCHANGED <<swo, dma, armed, failed>>
     \/ Port!TransmitIfNeeded /\ UNCHANGED <<queueVars, loopVars>>
  /\ UNCHANGED senderVars

Device ==
  /\ Port!DmaSend \/ Port!TransmitFinished
  /\ UNCHANGED <<senderVars, queueVars, loopVars>>

Timer ==
  /\ Port!TimerExpires
  /\ UNCHANGED <<senderVars, queueVars, loopVars>>

Next ==
  \/ \E t \in Tasks : Enqueue(t) \/ Refuse(t) \/ Block(t) \/ Resume(t)
  \/ Transmitter \/ Device \/ Timer

\* The scheduler runs the transmitter and the senders that wait; UART and
\* timer service go on when they were started.  Nobody has to log.
Fairness ==
  /\ \A t \in Tasks : WF_vars(Resume(t))
  /\ WF_vars(Transmitter) /\ WF_vars(Device) /\ WF_vars(Timer)

Spec == Init /\ [][Next]_vars /\ Fairness

-----------------------------------------------------------------------------
\* The accepted chunk printed at position p of the output, and the i-th that
\* the device has sent.
Printed(p) == taken[out[p].stamp]
OnWire(i) == Printed(wire[i])

\* The accepted chunks, each with the stage it has reached and its place there:
\* wire, transmit buffers, ring, queue.
Road ==
  {[stage |-> 1, place |-> i, chunk |-> OnWire(i)] : i \in 1 .. Len(wire)}
    \cup {[stage |-> 2, place |-> p, chunk |-> Printed(p)] : p \in Len(wire) + 1 .. Len(out)}
    \cup {[stage |-> 3, place |-> c.stamp, chunk |-> taken[c.stamp]] : c \in held}
    \cup {[stage |-> 4, place |-> i, chunk |-> queue[i]] : i \in 1 .. Len(queue)}

Ahead(a, b) == a.stage < b.stage \/ (a.stage = b.stage /\ a.place < b.place)

RoadOf(t) == {a \in Road : a.chunk.id = t}

\* Between push and the wire the chunks of a sender stay in order, none is
\* there twice, and each is still to come, on its way or refused by the full
\* queue: queue, ring, double buffer and device lose and repeat nothing, even
\* when the device or the timer has failed.
EachOnceInOrder ==
  \A t \in Tasks :
    LET mine == RoadOf(t)
        numbers == {a.chunk.number : a \in mine}
        elsewhere == lost[t] \cup (IF t \in pushing THEN {sent[t]} ELSE {})
    IN  /\ \A a, b \in mine : Ahead(a, b) => a.chunk.number < b.chunk.number
        /\ numbers \cup elsewhere = 1 .. sent[t]
        /\ numbers \cap elsewhere = {}

\* On the wire a chunk follows the one before it in its message at once, if
\* both were accepted, except where the full ring has cut the message
\* (Log.h:516).
MessagesContiguous ==
  \A p, q \in 1 .. Len(wire) :
    /\ OnWire(p).id = OnWire(q).id /\ OnWire(q).number = OnWire(p).number + 1
    /\ ~OnWire(p).last
    => q = p + 1 \/ \E k \in p + 1 .. q : k \in cuts

\* No task waits in push for ever, though the transmitter
\* itself waits for the device; only a transfer that never ends holds it up.
SendersReturn ==
  \A t \in Tasks \ Interrupts : t \in pushing ~> t \notin pushing \/ "device" \in failed

Terminated ==
  \A t \in Tasks :
    LET mine == RoadOf(t)
    IN  \A a \in mine : a.chunk.last \/ \E b \in mine : Ahead(a, b)

\* When the last chunk accepted of each sender ends its message, all of them
\* get to the wire unless somebody logs again, whatever was lost before and
\* however long the transmitter was behind: nothing is left in queue, ring or
\* buffers.
Quiet == pushing = {} /\ Terminated /\ failed = {}
Delivered == Quiet ~> (\A a \in Road : a.stage = 1) \/ ~Quiet

=============================================================================
