--------------------------- MODULE Deinterleaver ----------------------------
(***************************************************************************)
(* The loop of the transmitter thread (Log::transmitterThreadFunction): it *)
(* takes chunks from the queue, keeps in the ring those of messages whose  *)
(* turn has not come, and writes the rest to the transmit buffer.  One     *)
(* step is one branch of the loop, or one turn of a loop inside inspect.   *)
(* The transmit buffer is seen here as the sequence of the chunks written  *)
(* to it, and transmitIfNeeded, which touches neither the ring nor the     *)
(* active task, as part of the step that ends a turn.                      *)
(***************************************************************************)
EXTENDS CircularBuffer, Sequences

VARIABLES
  active,       \* mActiveTaskId of the transmit buffers
  wasTerminal,  \* mWasTerminalChunk of the transmit buffers
  pc,           \* where the loop stands
  out,          \* history: the chunks written to the transmit buffers
  arrived,      \* history: chunks of registered tasks taken from the queue
  cuts          \* history: positions of out written because the ring was full

history == <<out, arrived, cuts>>
vars == <<buffer, cursors, locals, active, wasTerminal, pc, history>>

Init ==
  /\ BufferInit
  /\ active = InvalidTaskId
  /\ wasTerminal = FALSE
  /\ pc = "dispatch"
  /\ out = <<>>
  /\ arrived = 0
  /\ cuts = {}

\* Mutant: a terminal chunk does not end the active message.
WriteKeepsActive(c) ==
  IF IsValid(c)
    THEN /\ out' = Append(out, c)
         /\ wasTerminal' = c.last
         /\ active' = c.id
    ELSE UNCHANGED <<out, wasTerminal, active>>

\* TransmitBuffers::operator<<, for the de-interleaving: an invalid chunk is
\* ignored, a terminal one ends the active message.
Write(c) ==
  IF IsValid(c)
    THEN /\ out' = Append(out, c)
         /\ wasTerminal' = c.last
         /\ active' = IF c.last THEN InvalidTaskId ELSE c.id
    ELSE UNCHANGED <<out, wasTerminal, active>>

Goto(from, to) == pc = from /\ pc' = to

\* The branches that wait on the queue: the ring is empty, or it has room and
\* holds nothing of the active task.
Fetches ==
  \/ IsEmpty
  \/ active # InvalidTaskId /\ ~IsFull /\ inspected

\* One chunk, or nothing within the time, comes out of the queue.
Take(c) ==
  /\ Fetch(c)
  /\ arrived' = IF IsValid(c) THEN arrived + 1 ELSE arrived

Arrivals == Unregistered \cup {TimedOut} \cup
              IF arrived < MaxArrivals THEN Received(arrived + 1) ELSE {}

\* No active task, and the ring is empty: print what comes.
StartFromQueue ==
  /\ Goto("dispatch", "endTurn")
  /\ active = InvalidTaskId /\ IsEmpty
  /\ \E c \in Arrivals : Take(c) /\ Write(c)
  /\ UNCHANGED <<cursors, locals, cuts>>

\* No active task, and the ring is not empty: print its oldest slot.
StartFromRing ==
  /\ Goto("dispatch", "endTurn")
  /\ active = InvalidTaskId /\ ~IsEmpty
  /\ Write(Peek)
  /\ Pop
  /\ ResetFound
  /\ UNCHANGED <<buffer, stuffEnd, inspectedCount, inspected, locals, arrived, cuts>>

\* With an active task, the queue delivers more of it.
ContinueFromQueue ==
  /\ Goto("dispatch", "endTurn")
  /\ active # InvalidTaskId /\ Fetches
  /\ \E c \in Arrivals : c.id = active /\ Take(c) /\ Write(c)
  /\ UNCHANGED <<cursors, locals, cuts>>

\* With an active task, the queue delivers a chunk of another one.
KeepForLater ==
  /\ Goto("dispatch", "endTurn")
  /\ active # InvalidTaskId /\ Fetches
  /\ \E c \in Arrivals : c.id \notin {active, InvalidTaskId} /\ Take(c)
  /\ KeepFetched
  /\ UNCHANGED <<stuffStart, inspectedCount, inspected, found, locals,
                 active, wasTerminal, out, cuts>>

\* With an active task, the queue stays empty or delivers an unregistered one.
FetchNothing ==
  /\ Goto("dispatch", "endTurn")
  /\ active # InvalidTaskId /\ Fetches
  /\ \E c \in Arrivals : ~IsValid(c) /\ Take(c)
  /\ UNCHANGED <<cursors, locals, active, wasTerminal, out, cuts>>

\* With an active task and a ring not searched for it yet: inspect.
BeginInspect ==
  /\ Goto("dispatch", "search")
  /\ active # InvalidTaskId /\ ~IsEmpty /\ ~IsFull /\ ~inspected
  /\ UNCHANGED <<buffer, cursors, locals, active, wasTerminal, history>>

Search ==
  /\ Goto("search", "search")
  /\ StillSearching(active)
  /\ SearchOn
  /\ UNCHANGED <<buffer, stuffStart, stuffEnd, count, inspected, locals,
                 active, wasTerminal, history>>

\* The search stopped at a chunk of the active task.
PrintFound ==
  /\ Goto("search", "endTurn")
  /\ ~StillSearching(active) /\ inspectedCount # count
  /\ Write(buffer[found])
  /\ RemoveFound
  /\ UNCHANGED <<cursors, locals, arrived, cuts>>

\* The search reached the end of the ring.
BeginCompact ==
  /\ Goto("search", "compact")
  /\ inspectedCount = count
  /\ BeginCompaction
  /\ UNCHANGED <<buffer, cursors, active, wasTerminal, history>>

Compact ==
  /\ Goto("compact", "compact")
  /\ Compacting
  /\ CompactStep
  /\ UNCHANGED <<cursors, active, wasTerminal, history>>

EndCompact ==
  /\ Goto("compact", "endTurn")
  /\ ~Compacting
  /\ EndCompaction
  /\ UNCHANGED <<buffer, stuffStart, inspectedCount, found, locals,
                 active, wasTerminal, history>>

\* Mutant: the ring is not searched again for the task that was forced out.
ForceOldestUnsearched ==
  /\ Goto("dispatch", "endTurn")
  /\ active # InvalidTaskId /\ IsFull
  /\ Write(Peek)
  /\ Pop
  /\ ResetFound
  /\ cuts' = IF IsValid(Peek) THEN cuts \cup {Len(out) + 1} ELSE cuts
  /\ UNCHANGED <<buffer, stuffEnd, inspectedCount, inspected, locals, arrived>>

\* With an active task and a full ring, the oldest slot is forced out.
ForceOldest ==
  /\ Goto("dispatch", "endTurn")
  /\ active # InvalidTaskId /\ IsFull
  /\ Write(Peek)
  /\ Pop
  /\ ClearInspected
  /\ cuts' = IF IsValid(Peek) THEN cuts \cup {Len(out) + 1} ELSE cuts
  /\ UNCHANGED <<buffer, stuffEnd, locals, arrived>>

\* Mutant: after a terminal chunk the ring still counts as searched.
EndTurnSearched ==
  /\ Goto("endTurn", "dispatch")
  /\ UNCHANGED <<buffer, cursors, locals, active, wasTerminal, history>>

\* After a terminal chunk the next message must search the ring afresh.
EndTurn ==
  /\ Goto("endTurn", "dispatch")
  /\ IF wasTerminal
       THEN UNCHANGED stuffStart /\ ClearInspected
       ELSE UNCHANGED <<stuffStart, inspectedCount, inspected, found>>
  /\ UNCHANGED <<buffer, stuffEnd, count, locals, active, wasTerminal, history>>

Next ==
  \/ StartFromQueue \/ StartFromRing
  \/ ContinueFromQueue \/ KeepForLater \/ FetchNothing
  \/ BeginInspect \/ Search \/ PrintFound
  \/ BeginCompact \/ Compact \/ EndCompact
  \/ ForceOldest \/ EndTurn

Spec == Init /\ [][Next]_vars

\* The transmitter thread is scheduled for ever (mKeepRunning stays set).
FairSpec == Spec /\ WF_vars(Next)

-----------------------------------------------------------------------------
Merge == INSTANCE MessageMerge WITH held <- Live, Capacity <- BufferLength

TypeOK ==
  /\ buffer \in [Slots -> Chunk]
  /\ stuffStart \in Slots /\ stuffEnd \in Slots /\ found \in Slots
  /\ source \in Slots /\ destination \in Slots
  /\ count \in 0 .. BufferLength
  /\ inspectedCount \in 0 .. BufferLength
  /\ inspected \in BOOLEAN
  /\ active \in Tasks \cup {InvalidTaskId}
  /\ wasTerminal \in BOOLEAN
  /\ pc \in {"dispatch", "search", "compact", "endTurn"}
  /\ out \in Seq([id : Tasks, stamp : 1 .. MaxArrivals, last : BOOLEAN])
  /\ arrived \in 0 .. MaxArrivals
  /\ cuts \subseteq Nat

At(k) == buffer[Slot(k)]

\* The used part of the ring runs from stuffStart to stuffEnd, however often
\* it was shrunk, and along it the chunks stay in the order of their arrival.
RingOrder ==
  /\ stuffEnd = Slot(count)
  /\ \A k \in 0 .. count - 1 : IsValid(At(k)) => At(k).stamp \in 1 .. arrived
  /\ \A j, k \in 0 .. count - 1 :
       j < k /\ IsValid(At(j)) /\ IsValid(At(k)) => At(j).stamp < At(k).stamp

NoneOfActive(n) == \A k \in 0 .. n - 1 : At(k).id # active

NoHoles == \A k \in 0 .. count - 1 : IsValid(At(k))

\* What the flags of the search say is true of the ring: a searched ring has
\* neither holes nor chunks of the active task, and nor has a full one; the
\* part already passed holds none of the active task; and with no active task
\* there is room, and the next search begins at the start of the used part.
SearchSound ==
  /\ active # InvalidTaskId =>
       /\ ~wasTerminal
       /\ inspected \/ IsFull => NoHoles /\ NoneOfActive(count)
       /\ ~inspected => /\ inspectedCount <= count
                        /\ found = Slot(inspectedCount)
                        /\ NoneOfActive(inspectedCount)
  /\ active = InvalidTaskId =>
       /\ ~IsFull
       /\ ~(pc = "endTurn" /\ wasTerminal) =>
            /\ inspectedCount = 0 /\ found = stuffStart
            /\ inspected => IsEmpty
  /\ pc \in {"search", "compact"} =>
       active # InvalidTaskId /\ ~inspected /\ ~IsEmpty /\ ~IsFull

\* While the ring is compacted the slots before destination are in place, those
\* between destination and source are holes, and at the end only holes are cut
\* off: the used part shrinks by exactly the removed slots.
CompactionSound ==
  pc = "compact" =>
    LET s == Offset(source)
        d == Offset(destination)
    IN  /\ inspectedCount = count
        /\ d <= s /\ s <= count
        /\ \A j \in 0 .. count - 1 : j < d => IsValid(At(j))
        /\ \A j \in 0 .. count - 1 : d < j /\ j < s => ~IsValid(At(j))
        /\ d < s /\ IsValid(At(d)) => s < count /\ ~IsValid(At(s))

\* The transmitter waits on the queue, or forces the oldest chunk out, only
\* when the ring holds nothing of the active task: what it fetches cannot
\* overtake a chunk that is already there.
SearchedWhenFetching ==
  pc = "dispatch" /\ active # InvalidTaskId /\ (Fetches \/ IsFull)
    => \A c \in Live : c.id # active

\* Messages are cut only when every slot of the ring is taken by a chunk of
\* another task (test-freertosstmhal.cpp, testInterleaveFullCircular).
CutOnlyWhenFull ==
  [][cuts' # cuts => /\ \A i \in Slots : IsValid(buffer[i]) /\ buffer[i].id # active
                     /\ out' = Append(out, buffer[stuffStart])]_vars

\* The ring, its holes and the search implement the merge of messages.
Implements == Merge!Spec

ExactlyOnce == Merge!ExactlyOnce
TaskOrder == Merge!TaskOrder
WholeMessages == Merge!WholeMessages
FirstChunkOrder == Merge!FirstChunkOrder

\* Every task whose chunks were received has sent the end of its message.
AllTerminated ==
  \A c \in Live \cup {out[p] : p \in 1 .. Len(out)} :
    \/ c.last
    \/ \E d \in Live \cup {out[p] : p \in 1 .. Len(out)} : d.id = c.id /\ d.stamp > c.stamp

\* When no end of a message is missing, everything received is printed in the
\* end: no search or compaction runs for ever, and no chunk stays in the ring
\* because the transmitter waits on the queue instead of looking there.
EverythingPrinted == <>[]AllTerminated => <>[](Live = {})

=============================================================================
