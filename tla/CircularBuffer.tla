--------------------------- MODULE CircularBuffer ---------------------------
(***************************************************************************)
(* The ring in which the transmitter keeps chunks that are not printable   *)
(* yet (LogUtil.h, class CircularBuffer).  Chunk objects used as iterators *)
(* (mStuffStart, mStuffEnd, mFound, and the locals of inspect) are indexes *)
(* of slots; a slot that was removed from the middle keeps its place with  *)
(* an invalid id until inspect compacts the ring.  The operators below are *)
(* the class's methods: each says what it does to the fields it assigns.   *)
(***************************************************************************)
EXTENDS LogChunk

CONSTANT BufferLength

ASSUME BufferAssumption == BufferLength \in Nat \ {0}

VARIABLES
  buffer,          \* mBuffer, as an array of chunks
  stuffStart,      \* slot of the oldest chunk
  stuffEnd,        \* slot the next chunk is fetched into
  count,           \* slots in use, removed ones included
  inspectedCount,  \* slots the present search has passed
  inspected,       \* the ring is known to hold nothing of the active task
  found,           \* slot the present search stands at
  source,          \* locals of inspect's compaction loop
  destination

cursors == <<stuffStart, stuffEnd, count, inspectedCount, inspected, found>>
locals == <<source, destination>>

Slots == 0 .. BufferLength - 1

\* Mutant: the iterator runs past the end of the buffer.
AdvanceUnwrapped(i) == i + 1

\* Chunk::operator++
Advance(i) == IF i + 1 = BufferLength THEN 0 ELSE i + 1

\* The slot k places after the start of the used part, for k up to the length.
Slot(k) == IF stuffStart + k < BufferLength THEN stuffStart + k
                                            ELSE stuffStart + k - BufferLength

\* The reverse: how many places after the start of the used part slot i is.
Offset(i) == IF i >= stuffStart THEN i - stuffStart
                                ELSE i - stuffStart + BufferLength

\* The chunks in the used part of the ring that were not removed.
Live == {buffer[Slot(k)] : k \in {j \in 0 .. count - 1 : IsValid(buffer[Slot(j)])}}

IsEmpty == count = 0
\* Mutant: a ring with one free slot counts as full.
IsFullTooSoon == count + 1 = BufferLength

IsFull == count = BufferLength

\* Only the first slot is written by the constructors of the iterators; the
\* others hold whatever the heap held.
BufferInit ==
  /\ buffer \in [Slots -> [id : Tasks \cup {InvalidTaskId}, stamp : {0}, last : {FALSE}]]
  /\ buffer[0].id = InvalidTaskId
  /\ stuffStart = 0 /\ stuffEnd = 0 /\ found = 0
  /\ count = 0 /\ inspectedCount = 0
  /\ inspected = TRUE
  /\ source = 0 /\ destination = 0

\* fetch: what the queue delivers lands in the slot after the used part; on a
\* timeout that slot is invalidated.
Fetch(c) == buffer' = [buffer EXCEPT ![stuffEnd] = c]

TimedOut == Invalidate(buffer[stuffEnd])

Peek == buffer[stuffStart]

KeepFetched ==
  /\ count' = count + 1
  /\ stuffEnd' = Advance(stuffEnd)

Pop ==
  /\ count' = count - 1
  /\ stuffStart' = Advance(stuffStart)

\* pop leaves mFound at the new start, and so does clearInspected.
ResetFound == found' = stuffStart'

\* Mutant: the search starts over without starting its count over.
ClearInspectedNotCount ==
  /\ inspected' = FALSE
  /\ ResetFound
  /\ UNCHANGED inspectedCount

ClearInspected ==
  /\ inspected' = FALSE
  /\ inspectedCount' = 0
  /\ ResetFound

\* Mutant: what was printed stays in the ring.
RemoveFoundNot == UNCHANGED buffer

RemoveFound == buffer' = [buffer EXCEPT ![found] = Invalidate(@)]

\* Mutant: the search stops at any chunk that is still there.
StillSearchingHoles(t) == inspectedCount < count /\ buffer[found].id \notin Tasks

\* inspect, the search: it stops at a chunk of the active task or at the end.
StillSearching(t) == inspectedCount < count /\ buffer[found].id # t

SearchOn ==
  /\ inspectedCount' = inspectedCount + 1
  /\ found' = Advance(found)

\* inspect, the compaction: it moves the chunks down over the removed ones.
BeginCompaction == source' = stuffStart /\ destination' = stuffStart

Compacting == source # stuffEnd

\* Mutant: source is not taken along when it stands where destination does.
CompactStepSourceStays ==
  \/ /\ IsValid(buffer[destination])
     /\ destination' = Advance(destination)
     /\ UNCHANGED <<buffer, source>>
  \/ /\ ~IsValid(buffer[destination]) /\ ~IsValid(buffer[source])
     /\ source' = Advance(source)
     /\ UNCHANGED <<buffer, destination>>
  \/ /\ ~IsValid(buffer[destination]) /\ IsValid(buffer[source])
     /\ buffer' = [buffer EXCEPT ![destination] = buffer[source],
                                 ![source] = Invalidate(@)]
     /\ UNCHANGED locals

\* Mutant: the source is invalidated before it is copied.
CompactStepInvalidatesFirst ==
  \/ /\ IsValid(buffer[destination])
     /\ source' = IF source = destination THEN Advance(source) ELSE source
     /\ destination' = Advance(destination)
     /\ UNCHANGED buffer
  \/ /\ ~IsValid(buffer[destination]) /\ ~IsValid(buffer[source])
     /\ source' = Advance(source)
     /\ UNCHANGED <<buffer, destination>>
  \/ /\ ~IsValid(buffer[destination]) /\ IsValid(buffer[source])
     /\ buffer' = [buffer EXCEPT ![destination] = Invalidate(buffer[source]),
                                 ![source] = Invalidate(@)]
     /\ UNCHANGED locals

CompactStep ==
  \/ \* the chunk at destination is in place
     /\ IsValid(buffer[destination])
     /\ source' = IF source = destination THEN Advance(source) ELSE source
     /\ destination' = Advance(destination)
     /\ UNCHANGED buffer
  \/ \* destination is a hole, and nothing to move into it here
     /\ ~IsValid(buffer[destination]) /\ ~IsValid(buffer[source])
     /\ source' = Advance(source)
     /\ UNCHANGED <<buffer, destination>>
  \/ \* destination is a hole, and the chunk at source moves into it
     /\ ~IsValid(buffer[destination]) /\ IsValid(buffer[source])
     /\ buffer' = [buffer EXCEPT ![destination] = buffer[source],
                                 ![source] = Invalidate(@)]
     /\ UNCHANGED locals

\* Mutant: the pointer difference of a used part that wraps is not corrected.
RemovedUnwrapped == IF destination > stuffEnd THEN destination - stuffEnd
                                              ELSE stuffEnd - destination

\* How many slots lie between the end of what was kept and the old end.
Removed == IF destination > stuffEnd THEN stuffEnd + BufferLength - destination
                                     ELSE stuffEnd - destination

EndCompaction ==
  /\ count' = count - Removed
  /\ stuffEnd' = destination
  /\ inspected' = TRUE

=============================================================================
