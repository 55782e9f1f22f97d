---------------------------- MODULE FreeRtosQueue ---------------------------
(***************************************************************************)
(* The queue of the std::thread port (LogStdThreadOstream::FreeRtosQueue): *)
(* blocks of memory that go round between two lock-free queues, one of the *)
(* chunks to be transmitted and one of the free blocks, with a condition   *)
(* variable on which the transmitter waits.  Senders run send, the         *)
(* transmitter receive.  Each operation on a lock-free queue is one step,  *)
(* as is the copying of a chunk.                                           *)
(***************************************************************************)
EXTENDS Integers, Sequences, SequencesExt, FiniteSets

CONSTANTS
  Senders,
  BlockCount,  \* aBlockCount, LogConfig::queueLength
  MaxSends     \* bound: calls of send of each sender

ASSUME QueueAssumption ==
  /\ BlockCount \in Nat \ {0}
  /\ MaxSends \in Nat

VARIABLES
  blocks,    \* aBlocks of send, LogConfig::blocks
  freeList,  \* mFreeList
  mQueue,    \* mQueue
  memory,    \* mBuffer: the chunk in each block
  spc,       \* where each sender stands in send
  spayload,  \* its payload
  rpc,       \* where the transmitter stands in receive
  rpayload,  \* its payload
  chunk,     \* what aChunkStart of receive points to
  sent,      \* history: calls of send so far
  received,  \* history: the chunks receive has returned
  lost,      \* history: the chunks for which there was no block
  atCall     \* history: length of mQueue when receive was called

senderVars == <<spc, spayload, sent, lost>>
receiverVars == <<rpc, rpayload, chunk, received, atCall>>
vars == <<blocks, freeList, mQueue, memory, senderVars, receiverVars>>

Blocks == 1 .. BlockCount
NoBlock == 0

\* The n-th chunk that sender s hands to send.
ChunkOf(s, n) == [sender |-> s, number |-> n]
Chunks == [sender : Senders, number : 1 .. MaxSends]
NoChunk == [sender |-> "none", number |-> 0]

Init ==
  /\ blocks \in BOOLEAN
  /\ freeList = [b \in Blocks |-> b]
  /\ mQueue = <<>>
  /\ memory = [b \in Blocks |-> NoChunk]
  /\ spc = [s \in Senders |-> "idle"]
  /\ spayload = [s \in Senders |-> NoBlock]
  /\ rpc = "idle" /\ rpayload = NoBlock /\ chunk = NoChunk
  /\ sent = [s \in Senders |-> 0]
  /\ received = <<>> /\ lost = {}
  /\ atCall = 0

\* Mutant: the last to come is the first to go.
BoundedPushFirst(q, b) == IF Len(q) < BlockCount THEN <<b>> \o q ELSE q

\* bounded_push of boost::lockfree::queue: it fails when all nodes are in use.
BoundedPush(q, b) == IF Len(q) < BlockCount THEN Append(q, b) ELSE q

At(s, from, to) == spc[s] = from /\ spc' = [spc EXCEPT ![s] = to]

Send(s) ==
  /\ sent[s] < MaxSends
  /\ At(s, "idle", "pop")
  /\ sent' = [sent EXCEPT ![s] = @ + 1]
  /\ UNCHANGED <<blocks, freeList, mQueue, memory, spayload, lost, receiverVars>>

\* Mutant: the block stays in the free list, as if it were only read.
PopFreePeek(s) ==
  /\ freeList # <<>>
  /\ At(s, "pop", "copy")
  /\ spayload' = [spayload EXCEPT ![s] = Head(freeList)]
  /\ UNCHANGED <<blocks, freeList, mQueue, memory, sent, lost, receiverVars>>

PopFree(s) ==
  /\ freeList # <<>>
  /\ At(s, "pop", "copy")
  /\ spayload' = [spayload EXCEPT ![s] = Head(freeList)]
  /\ freeList' = Tail(freeList)
  /\ UNCHANGED <<blocks, mQueue, memory, sent, lost, receiverVars>>

\* No block is free: send sleeps for cEnqueuePollDelay, and only then looks
\* whether to try again.
Sleep(s) ==
  /\ freeList = <<>>
  /\ At(s, "pop", "sleep")
  /\ lost' = IF blocks THEN lost ELSE lost \cup {ChunkOf(s, sent[s])}
  /\ UNCHANGED <<blocks, freeList, mQueue, memory, spayload, sent, receiverVars>>

\* Mutant: the loop ends without success, whatever aBlocks says.
WakeUpEnds(s) ==
  /\ At(s, "sleep", "idle")
  /\ UNCHANGED <<blocks, freeList, mQueue, memory, spayload, sent, lost, receiverVars>>

WakeUp(s) ==
  /\ At(s, "sleep", IF blocks THEN "pop" ELSE "idle")
  /\ UNCHANGED <<blocks, freeList, mQueue, memory, spayload, sent, lost, receiverVars>>

\* Mutant: the block is passed on without the chunk.
CopyInNot(s) ==
  /\ At(s, "copy", "push")
  /\ UNCHANGED <<blocks, freeList, mQueue, memory, spayload, sent, lost, receiverVars>>

CopyIn(s) ==
  /\ At(s, "copy", "push")
  /\ memory' = [memory EXCEPT ![spayload[s]] = ChunkOf(s, sent[s])]
  /\ UNCHANGED <<blocks, freeList, mQueue, spayload, sent, lost, receiverVars>>

Push(s) ==
  /\ At(s, "push", "notify")
  /\ mQueue' = BoundedPush(mQueue, spayload[s])
  /\ spayload' = [spayload EXCEPT ![s] = NoBlock]
  /\ UNCHANGED <<blocks, freeList, memory, sent, lost, receiverVars>>

\* notify_one, without the mutex: it may come before the transmitter waits, or
\* long after the chunk was taken.  What it does is in WaitEnds.
Notify(s) ==
  /\ At(s, "notify", "idle")
  /\ UNCHANGED <<blocks, freeList, mQueue, memory, spayload, sent, lost, receiverVars>>

-----------------------------------------------------------------------------
\* Mutant: receive waits for a notification without looking at the queue.
ReceiveBlindly ==
  /\ rpc = "idle"
  /\ rpc' = "wait"
  /\ atCall' = Len(mQueue)
  /\ UNCHANGED <<blocks, freeList, mQueue, memory, rpayload, chunk, received, senderVars>>

Receive ==
  /\ rpc = "idle"
  /\ rpc' = IF mQueue = <<>> THEN "wait" ELSE "pop"
  /\ atCall' = Len(mQueue)
  /\ UNCHANGED <<blocks, freeList, mQueue, memory, rpayload, chunk, received, senderVars>>

\* wait_for ends with timeout, whether or not a chunk came in the meantime.
WaitTimesOut ==
  /\ rpc = "wait"
  /\ rpc' = "idle"
  /\ UNCHANGED <<blocks, freeList, mQueue, memory, rpayload, chunk, received, atCall,
                 senderVars>>

\* wait_for ends without: after a notification, or for no reason at all.
WaitEnds ==
  /\ rpc = "wait"
  /\ rpc' = "pop"
  /\ UNCHANGED <<blocks, freeList, mQueue, memory, rpayload, chunk, received, atCall,
                 senderVars>>

PopNothing ==
  /\ rpc = "pop" /\ mQueue = <<>>
  /\ rpc' = "idle"
  /\ UNCHANGED <<blocks, freeList, mQueue, memory, rpayload, chunk, received, atCall,
                 senderVars>>

\* Mutant: the block is given back before the chunk is copied.
PopFreeing ==
  /\ rpc = "pop" /\ mQueue # <<>>
  /\ rpc' = "copy"
  /\ rpayload' = Head(mQueue)
  /\ mQueue' = Tail(mQueue)
  /\ freeList' = BoundedPush(freeList, Head(mQueue))
  /\ UNCHANGED <<blocks, memory, chunk, received, atCall, senderVars>>

Pop ==
  /\ rpc = "pop" /\ mQueue # <<>>
  /\ rpc' = "copy"
  /\ rpayload' = Head(mQueue)
  /\ mQueue' = Tail(mQueue)
  /\ UNCHANGED <<blocks, freeList, memory, chunk, received, atCall, senderVars>>

CopyOut ==
  /\ rpc = "copy"
  /\ rpc' = "free"
  /\ chunk' = memory[rpayload]
  /\ UNCHANGED <<blocks, freeList, mQueue, memory, rpayload, received, atCall, senderVars>>

\* Mutant: the block is not given back.
FreeNot ==
  /\ rpc = "free"
  /\ rpc' = "idle"
  /\ rpayload' = NoBlock
  /\ received' = Append(received, chunk)
  /\ UNCHANGED <<blocks, freeList, mQueue, memory, chunk, atCall, senderVars>>

\* The block goes back to the free list, and receive returns TRUE.
Free ==
  /\ rpc = "free"
  /\ rpc' = "idle"
  /\ freeList' = BoundedPush(freeList, rpayload)
  /\ rpayload' = NoBlock
  /\ received' = Append(received, chunk)
  /\ UNCHANGED <<blocks, mQueue, memory, chunk, atCall, senderVars>>

-----------------------------------------------------------------------------
InSend(s) ==
  \/ PopFree(s) \/ Sleep(s) \/ WakeUp(s)
  \/ CopyIn(s) \/ Push(s) \/ Notify(s)

Transmitter ==
  \/ Receive \/ WaitTimesOut \/ WaitEnds
  \/ PopNothing \/ Pop \/ CopyOut \/ Free

Next == (\E s \in Senders : Send(s) \/ InSend(s)) \/ Transmitter

Spec == Init /\ [][Next]_vars

\* The scheduler runs every thread, and each wait has a timeout.
FairSpec == Spec /\ WF_vars(Transmitter) /\ \A s \in Senders : WF_vars(InSend(s))

-----------------------------------------------------------------------------
TypeOK ==
  /\ blocks \in BOOLEAN
  /\ freeList \in Seq(Blocks) /\ mQueue \in Seq(Blocks)
  /\ memory \in [Blocks -> Chunks \cup {NoChunk}]
  /\ spc \in [Senders -> {"idle", "pop", "sleep", "copy", "push", "notify"}]
  /\ spayload \in [Senders -> Blocks \cup {NoBlock}]
  /\ rpc \in {"idle", "wait", "pop", "copy", "free"}
  /\ rpayload \in Blocks \cup {NoBlock}
  /\ chunk \in Chunks \cup {NoChunk}
  /\ sent \in [Senders -> 0 .. MaxSends]
  /\ received \in Seq(Chunks)
  /\ lost \subseteq Chunks
  /\ atCall \in 0 .. BlockCount

\* The places where block b is.
Positions(b) ==
  {<<"free", i>> : i \in {j \in DOMAIN freeList : freeList[j] = b}}
    \cup {<<"queue", i>> : i \in {j \in DOMAIN mQueue : mQueue[j] = b}}
    \cup {<<"sender", s>> : s \in {r \in Senders : spayload[r] = b}}
    \cup {<<"transmitter", 0>> : i \in {j \in {0} : rpayload = b}}

\* Every block is at one place at any time: none leaks, and no two threads
\* ever copy into or out of the same one, though no lock protects it.
OneOwner == \A b \in Blocks : Cardinality(Positions(b)) = 1

\* A bounded_push never fails: "this should always succeed here"
\* (LogStdThreadOstream.cpp:35 and 55), whose result is not looked at.
PushesSucceed ==
  /\ (\E s \in Senders : spc[s] = "push") => Len(mQueue) < BlockCount
  /\ rpc = "free" => Len(freeList) < BlockCount

\* A notification may be lost between the test for empty and the wait, but it
\* delays a chunk by one wait only: receive never returns without one when
\* there was one as it was called.
PresentIsReceived ==
  [][(rpc \in {"wait", "pop"}) /\ rpc' = "idle" => atCall = 0]_vars

\* Every chunk sent is received, or refused because no block was free, though
\* senders poll for blocks and the transmitter may miss notifications.
EverythingReceived ==
  \A s \in Senders : \A n \in 1 .. MaxSends :
    sent[s] >= n ~> \/ ChunkOf(s, n) \in lost
                    \/ Contains(received, ChunkOf(s, n))

\* What has become of the chunk each sender handed to send last.
offers == [s \in Senders |->
             CASE spc[s] = "pop" \/ (spc[s] = "sleep" /\ blocks) -> "asking"
               [] spc[s] \in {"copy", "push"} -> "accepted"
               [] OTHER -> "done"]

queued == [i \in DOMAIN mQueue |-> memory[mQueue[i]]]

inTransfer == CASE rpc = "copy" -> <<memory[rpayload]>>
                [] rpc = "free" -> <<chunk>>
                [] OTHER -> <<>>

\* The queue is the one that the senders and the transmitter are promised.
Promise == INSTANCE LossyQueue WITH
  Length <- BlockCount, state <- offers, queue <- queued, taken <- inTransfer

Implements == Promise!Spec

\* Every chunk that found a block is received, once and in the order of its
\* sender.
SenderOrder == Promise!SenderOrder

=============================================================================
