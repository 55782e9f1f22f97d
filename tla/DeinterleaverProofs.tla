------------------------ MODULE DeinterleaverProofs -------------------------
(***************************************************************************)
(* The ring and its search are sound for every length of the ring, every   *)
(* set of tasks and every number of chunks, and the transmitter loop with  *)
(* its ring implements the merge of messages.                              *)
(***************************************************************************)
EXTENDS Deinterleaver, FiniteSetTheorems, SequenceTheorems, TLAPS

USE ChunkAssumption, BufferAssumption

(* Arithmetic of the ring. *)

\* The place k steps into the used part is a slot, the end of it included.
LEMMA SlotInRange ==
  ASSUME stuffStart \in Slots, NEW k \in 0 .. BufferLength
  PROVE  Slot(k) \in Slots
BY DEF Slot, Slots

\* Chunk::operator++ stays inside the buffer.
LEMMA AdvanceInRange ==
  ASSUME NEW i \in Slots
  PROVE  Advance(i) \in Slots
BY DEF Advance, Slots

\* Advancing an iterator takes it to the next place of the used part.
LEMMA AdvanceSlot ==
  ASSUME stuffStart \in Slots, NEW k \in 0 .. BufferLength - 1
  PROVE  Advance(Slot(k)) = Slot(k + 1)
BY DEF Advance, Slot, Slots

\* Offset undoes Slot.
LEMMA OffsetOfSlot ==
  ASSUME stuffStart \in Slots, NEW k \in 0 .. BufferLength - 1
  PROVE  Offset(Slot(k)) = k
BY DEF Offset, Slot, Slots

\* Slot undoes Offset: every slot is some place of the used part.
LEMMA SlotOfOffset ==
  ASSUME stuffStart \in Slots, NEW i \in Slots
  PROVE  Offset(i) \in 0 .. BufferLength - 1 /\ Slot(Offset(i)) = i
BY DEF Offset, Slot, Slots

\* Different places of the used part are different slots.
LEMMA SlotInjective ==
  ASSUME stuffStart \in Slots,
         NEW j \in 0 .. BufferLength - 1, NEW k \in 0 .. BufferLength - 1, j # k
  PROVE  Slot(j) # Slot(k)
BY OffsetOfSlot

\* After a pop each place is what the next one was.
LEMMA SlotAfterPop ==
  ASSUME stuffStart \in Slots, stuffStart' = Advance(stuffStart),
         NEW k \in 0 .. BufferLength - 1
  PROVE  Slot(k)' = Slot(k + 1)
BY DEF Slot, Slots, Advance

(* The inductive invariant. *)

Inv == TypeOK /\ RingOrder /\ SearchSound /\ CompactionSound

\* The invariant holds when the loop is entered.
LEMMA InitInv == Init => Inv
<1> SUFFICES ASSUME Init PROVE Inv
  OBVIOUS
<1> USE DEF Init, BufferInit, Slots
<1>1. TypeOK
  <2>1. buffer \in [Slots -> Chunk]
    BY DEF Chunk
  <2>2. out \in Seq([id : Tasks, stamp : 1 .. MaxArrivals, last : BOOLEAN])
    OBVIOUS
  <2>3. 0 \in 0 .. BufferLength - 1
    OBVIOUS
  <2>4. arrived \in 0 .. MaxArrivals /\ cuts \subseteq Nat /\ count \in 0 .. BufferLength
    OBVIOUS
  <2> QED
    BY <2>1, <2>2, <2>3, <2>4 DEF TypeOK
<1>2. RingOrder
  BY DEF RingOrder, Slot
<1>3. SearchSound
  BY DEF SearchSound, IsFull, IsEmpty
<1>4. CompactionSound
  BY DEF CompactionSound
<1> QED
  BY <1>1, <1>2, <1>3, <1>4 DEF Inv

\* Invalidating a chunk leaves an invalid chunk.
LEMMA InvalidateChunk ==
  ASSUME NEW c \in Chunk
  PROVE  Invalidate(c) \in Chunk /\ ~IsValid(Invalidate(c))
BY DEF Invalidate, IsValid, Chunk

\* What the queue hands over is a chunk, and a valid one carries a new stamp.
LEMMA ArrivalsAreChunks ==
  ASSUME TypeOK, NEW c \in Arrivals
  PROVE  /\ c \in Chunk
         /\ IsValid(c) => c \in Received(arrived + 1) /\ arrived < MaxArrivals
<1>1. buffer[stuffEnd] \in Chunk /\ arrived \in 0 .. MaxArrivals
  BY DEF TypeOK
<1>2. CASE c = TimedOut
  BY <1>1, <1>2, InvalidateChunk DEF TimedOut
<1>3. CASE c \in Unregistered
  BY <1>3 DEF Unregistered, Chunk, IsValid
<1>4. CASE arrived < MaxArrivals /\ c \in Received(arrived + 1)
  BY <1>1, <1>4 DEF Received, Chunk
<1> QED
  BY <1>2, <1>3, <1>4 DEF Arrivals

\* Writing to the transmit buffers appends a valid chunk and keeps the types.
LEMMA WriteType ==
  ASSUME TypeOK, NEW c \in Chunk, IsValid(c) => c.stamp \in 1 .. MaxArrivals, Write(c)
  PROVE  /\ out' \in Seq([id : Tasks, stamp : 1 .. MaxArrivals, last : BOOLEAN])
         /\ active' \in Tasks \cup {InvalidTaskId}
         /\ wasTerminal' \in BOOLEAN
<1>1. CASE IsValid(c)
  <2>1. c \in [id : Tasks, stamp : 1 .. MaxArrivals, last : BOOLEAN]
    BY <1>1 DEF IsValid, Chunk
  <2>2. out' = Append(out, c) /\ wasTerminal' = c.last
        /\ active' = IF c.last THEN InvalidTaskId ELSE c.id
    BY <1>1 DEF Write
  <2>3. out' \in Seq([id : Tasks, stamp : 1 .. MaxArrivals, last : BOOLEAN])
    BY <2>1, <2>2 DEF TypeOK
  <2> QED
    BY <2>1, <2>2, <2>3
<1>2. CASE ~IsValid(c)
  BY <1>2 DEF Write, TypeOK
<1> QED
  BY <1>1, <1>2

\* A chunk printed straight from the queue keeps the invariant: the ring is
\* empty before and after.
LEMMA StartFromQueueInv == Inv /\ StartFromQueue => Inv'
<1> SUFFICES ASSUME Inv, StartFromQueue PROVE Inv'
  OBVIOUS
<1> USE DEF Inv
<1>1. PICK c \in Arrivals : Take(c) /\ Write(c)
  BY DEF StartFromQueue
<1>2. /\ UNCHANGED <<cursors, locals, cuts>> /\ active = InvalidTaskId /\ count = 0
      /\ pc = "dispatch" /\ pc' = "endTurn"
  BY DEF StartFromQueue, IsEmpty, Goto
<1>3. /\ c \in Chunk
      /\ IsValid(c) => c \in Received(arrived + 1) /\ arrived < MaxArrivals
  BY ArrivalsAreChunks
<1>4. TypeOK'
  <2>1. arrived' \in 0 .. MaxArrivals
    BY <1>1, <1>3 DEF Take, TypeOK
  <2>2. buffer' \in [Slots -> Chunk]
    BY <1>1, <1>3 DEF Take, Fetch, TypeOK
  <2>3. IsValid(c) => c.stamp \in 1 .. MaxArrivals
    BY <1>3 DEF Received, TypeOK
  <2> QED
    BY <1>1, <1>2, <1>3, <2>1, <2>2, <2>3, WriteType DEF TypeOK, cursors, locals
<1>5. RingOrder'
  BY <1>2 DEF RingOrder, Slot, cursors
<1>6. SearchSound'
  BY <1>1, <1>2 DEF SearchSound, Write, IsEmpty, IsFull, NoHoles, NoneOfActive, At, Slot,
                    cursors, TypeOK, Slots
<1>7. CompactionSound'
  BY <1>2 DEF CompactionSound
<1> QED
  BY <1>4, <1>5, <1>6, <1>7

\* A pop of the oldest slot with no active task keeps the invariant: the next
\* search, if one is needed, begins at the new start.
LEMMA StartFromRingInv == Inv /\ StartFromRing => Inv'
<1> SUFFICES ASSUME Inv, StartFromRing PROVE Inv'
  OBVIOUS
<1> USE DEF Inv
<1>1. /\ active = InvalidTaskId /\ count # 0 /\ Write(Peek)
      /\ count' = count - 1 /\ stuffStart' = Advance(stuffStart) /\ found' = stuffStart'
      /\ UNCHANGED <<buffer, stuffEnd, inspectedCount, inspected, locals, arrived, cuts>>
      /\ pc = "dispatch" /\ pc' = "endTurn"
  BY DEF StartFromRing, IsEmpty, Goto, Pop, ResetFound
<1>2. count \in 1 .. BufferLength - 1 /\ inspectedCount = 0 /\ ~inspected
  BY <1>1 DEF SearchSound, IsFull, IsEmpty, TypeOK
<1>3. stuffStart \in Slots /\ \A k \in 0 .. BufferLength - 1 : Slot(k)' = Slot(k + 1)
  BY <1>1, SlotAfterPop DEF TypeOK
<1>4. Peek \in Chunk /\ Peek = At(0)
  BY <1>3 DEF Peek, At, Slot, Slots, TypeOK
<1>5. TypeOK'
  <2>1. IsValid(Peek) => Peek.stamp \in 1 .. MaxArrivals
    BY <1>2, <1>4 DEF RingOrder, TypeOK
  <2>2. stuffStart' \in Slots
    BY <1>1, <1>3, AdvanceInRange
  <2>3. /\ out' \in Seq([id : Tasks, stamp : 1 .. MaxArrivals, last : BOOLEAN])
        /\ active' \in Tasks \cup {InvalidTaskId}
        /\ wasTerminal' \in BOOLEAN
    BY <1>1, <1>4, <2>1, WriteType
  <2> QED
    BY <1>1, <1>2, <2>2, <2>3 DEF TypeOK, locals
<1>6. RingOrder'
  BY <1>1, <1>2, <1>3 DEF RingOrder, At
<1>7. SearchSound'
  <2>1. found' = Slot(inspectedCount)' /\ inspectedCount' <= count'
    BY <1>1, <1>2, <1>3, AdvanceInRange DEF Slot, Slots
  <2>2. active' # InvalidTaskId => ~wasTerminal'
    BY <1>1 DEF Write, SearchSound
  <2> QED
    BY <1>1, <1>2, <2>1, <2>2 DEF SearchSound, IsEmpty, IsFull, NoneOfActive
<1>8. CompactionSound'
  BY <1>1 DEF CompactionSound
<1> QED
  BY <1>5, <1>6, <1>7, <1>8

\* With room in the ring the slot that is fetched into lies outside its used
\* part, so a fetch leaves the used part as it was.
LEMMA FetchOutside ==
  ASSUME Inv, count < BufferLength, NEW c, Fetch(c), UNCHANGED stuffStart
  PROVE  /\ \A k \in 0 .. count - 1 : At(k)' = At(k)
         /\ c \in Chunk => buffer' \in [Slots -> Chunk]
         /\ buffer'[Slot(count)] = c
<1> USE DEF Inv, TypeOK
<1>1. stuffEnd = Slot(count) /\ stuffEnd \in Slots
  BY DEF RingOrder
<1>2. \A k \in 0 .. count - 1 : Slot(k) # stuffEnd /\ Slot(k) \in Slots
  BY <1>1, SlotInjective, SlotInRange
<1>3. \A k \in 0 .. count : Slot(k)' = Slot(k)
  BY DEF Slot
<1>4. \A i \in Slots : buffer'[i] = IF i = stuffEnd THEN c ELSE buffer[i]
  BY DEF Fetch
<1>5. \A k \in 0 .. count - 1 : buffer'[Slot(k)'] = buffer[Slot(k)]
  BY <1>2, <1>3, <1>4
<1>6. c \in Chunk => buffer' \in [Slots -> Chunk]
  BY DEF Fetch
<1> QED
  BY <1>1, <1>4, <1>5, <1>6 DEF At

\* The branches that wait on the queue find nothing of the active task in the
\* ring, and room for one more chunk.
LEMMA FetchesOnlyWhenSearched ==
  ASSUME Inv, active # InvalidTaskId, Fetches
  PROVE  count < BufferLength /\ NoHoles /\ NoneOfActive(count)
BY DEF Inv, TypeOK, SearchSound, Fetches, IsEmpty, IsFull, NoHoles, NoneOfActive

\* More of the active task from the queue keeps the invariant: what was fetched
\* lies outside the used part.
LEMMA ContinueFromQueueInv == Inv /\ ContinueFromQueue => Inv'
<1> SUFFICES ASSUME Inv, ContinueFromQueue PROVE Inv'
  OBVIOUS
<1> USE DEF Inv
<1>1. PICK c \in Arrivals : c.id = active /\ Take(c) /\ Write(c)
  BY DEF ContinueFromQueue
<1>2. /\ stuffStart' = stuffStart /\ stuffEnd' = stuffEnd /\ count' = count
      /\ inspectedCount' = inspectedCount /\ inspected' = inspected /\ found' = found
      /\ source' = source /\ destination' = destination /\ cuts' = cuts
      /\ active # InvalidTaskId /\ Fetches /\ pc = "dispatch" /\ pc' = "endTurn"
  BY DEF ContinueFromQueue, Goto, cursors, locals
<1>3. /\ c \in Chunk /\ IsValid(c)
      /\ c \in Received(arrived + 1) /\ arrived < MaxArrivals
  BY <1>1, <1>2, ArrivalsAreChunks DEF IsValid
<1>4. count < BufferLength /\ NoHoles /\ NoneOfActive(count)
  BY <1>2, FetchesOnlyWhenSearched
<1>5. /\ \A k \in 0 .. count - 1 : At(k)' = At(k)
      /\ buffer' \in [Slots -> Chunk]
  BY <1>1, <1>2, <1>3, <1>4, FetchOutside DEF Take
<1>6. arrived' = arrived + 1 /\ arrived \in 0 .. MaxArrivals
  BY <1>1, <1>3 DEF Take, TypeOK
<1>7. TypeOK'
  <2>1. c.stamp \in 1 .. MaxArrivals
    BY <1>3, <1>6 DEF Received
  <2>2. /\ out' \in Seq([id : Tasks, stamp : 1 .. MaxArrivals, last : BOOLEAN])
        /\ active' \in Tasks \cup {InvalidTaskId}
        /\ wasTerminal' \in BOOLEAN
    BY <1>1, <1>3, <2>1, WriteType
  <2> QED
    BY <1>2, <1>3, <1>5, <1>6, <2>2 DEF TypeOK
<1>8. RingOrder'
  <2>1. Slot(count)' = Slot(count)
    BY <1>2 DEF Slot
  <2> QED
    BY <1>2, <1>5, <1>6, <2>1 DEF RingOrder, TypeOK
<1>9. SearchSound'
  <2>1. active' = (IF c.last THEN InvalidTaskId ELSE active) /\ wasTerminal' = c.last
    BY <1>1, <1>3 DEF Write
  <2>2. ASSUME active' # InvalidTaskId
        PROVE  /\ ~wasTerminal' /\ NoHoles' /\ NoneOfActive(count)'
               /\ ~inspected' => inspectedCount' <= count' /\ found' = Slot(inspectedCount)'
               /\ ~inspected' => NoneOfActive(inspectedCount)'
    BY <1>2, <1>4, <1>5, <2>1, <2>2 DEF SearchSound, NoHoles, NoneOfActive, Slot, TypeOK
  <2>3. count' # BufferLength
    BY <1>2, <1>4 DEF TypeOK
  <2>4. c.last \in BOOLEAN
    BY <1>3 DEF Received
  <2> QED
    BY <1>2, <2>1, <2>2, <2>3, <2>4 DEF SearchSound, IsFull
<1>10. CompactionSound'
  BY <1>2 DEF CompactionSound
<1> QED
  BY <1>7, <1>8, <1>9, <1>10

\* Keeping a chunk of another task keeps the invariant: it is younger than all
\* in the ring, and not of the active task, so a searched ring stays searched.
LEMMA KeepForLaterInv == Inv /\ KeepForLater => Inv'
<1> SUFFICES ASSUME Inv, KeepForLater PROVE Inv'
  OBVIOUS
<1> USE DEF Inv
<1>1. PICK c \in Arrivals : c.id \notin {active, InvalidTaskId} /\ Take(c)
  BY DEF KeepForLater
<1>2. /\ stuffStart' = stuffStart /\ stuffEnd' = Advance(stuffEnd) /\ count' = count + 1
      /\ inspectedCount' = inspectedCount /\ inspected' = inspected /\ found' = found
      /\ source' = source /\ destination' = destination /\ cuts' = cuts /\ out' = out
      /\ active' = active /\ wasTerminal' = wasTerminal
      /\ active # InvalidTaskId /\ Fetches /\ pc = "dispatch" /\ pc' = "endTurn"
  BY DEF KeepForLater, Goto, KeepFetched, locals
<1>3. /\ c \in Chunk /\ IsValid(c)
      /\ c \in Received(arrived + 1) /\ arrived < MaxArrivals
  BY <1>1, ArrivalsAreChunks DEF IsValid
<1>4. count < BufferLength /\ NoHoles /\ NoneOfActive(count)
  BY <1>2, FetchesOnlyWhenSearched
<1>5. /\ \A k \in 0 .. count - 1 : At(k)' = At(k)
      /\ buffer' \in [Slots -> Chunk]
      /\ buffer'[Slot(count)] = c
  BY <1>1, <1>2, <1>3, <1>4, FetchOutside DEF Take
<1>6. arrived' = arrived + 1 /\ arrived \in 0 .. MaxArrivals /\ count \in 0 .. BufferLength - 1
  BY <1>1, <1>3, <1>4 DEF Take, TypeOK
<1>7. stuffEnd' \in Slots /\ stuffEnd' = Slot(count + 1) /\ \A k : Slot(k)' = Slot(k)
  BY <1>2, <1>6, AdvanceInRange, AdvanceSlot DEF TypeOK, RingOrder, Slot
<1> DEFINE n == count
<1>8. \A k \in 0 .. n : At(k)' = IF k = n THEN c ELSE At(k)
  BY <1>5, <1>6, <1>7 DEF At
<1>9. TypeOK'
  <2>1. count' \in 0 .. BufferLength /\ arrived' \in 0 .. MaxArrivals
    BY <1>2, <1>3, <1>6
  <2> QED
    BY <1>2, <1>5, <1>6, <1>7, <2>1 DEF TypeOK
<1>10. RingOrder'
  <2>1. c.stamp = arrived + 1
    BY <1>3 DEF Received
  <2>2. count' - 1 = n /\ \A k \in 0 .. n : k # n => k \in 0 .. count - 1
    BY <1>2, <1>6
  <2>3. \A k \in 0 .. n : IsValid(At(k))' => At(k)'.stamp \in 1 .. arrived + 1
    BY <1>8, <1>6, <2>1, <2>2 DEF RingOrder, IsValid
  <2>4. \A j, k \in 0 .. n :
          j < k /\ IsValid(At(j))' /\ IsValid(At(k))' => At(j)'.stamp < At(k)'.stamp
    BY <1>8, <1>6, <2>1, <2>2 DEF RingOrder, IsValid
  <2> QED
    BY <1>2, <1>6, <1>7, <2>2, <2>3, <2>4 DEF RingOrder, IsValid
<1>11. SearchSound'
  <2>1. NoHoles' /\ NoneOfActive(count)'
    <3>1. \A k \in 0 .. n : IsValid(At(k)') /\ At(k)'.id # active
      BY <1>1, <1>3, <1>4, <1>6, <1>8 DEF NoHoles, NoneOfActive
    <3> QED
      BY <1>2, <1>6, <3>1 DEF NoHoles, NoneOfActive
  <2>2. ~inspected' =>
          inspectedCount' <= count' /\ found' = Slot(inspectedCount)' /\ NoneOfActive(inspectedCount)'
    BY <1>2, <1>6, <1>7, <2>1 DEF SearchSound, NoneOfActive, TypeOK
  <2> QED
    BY <1>2, <2>1, <2>2 DEF SearchSound
<1>12. CompactionSound'
  BY <1>2 DEF CompactionSound
<1> QED
  BY <1>9, <1>10, <1>11, <1>12

\* An empty queue or an unregistered chunk leaves the used part as it was.
LEMMA FetchNothingInv == Inv /\ FetchNothing => Inv'
<1> SUFFICES ASSUME Inv, FetchNothing PROVE Inv'
  OBVIOUS
<1> USE DEF Inv
<1>1. PICK c \in Arrivals : ~IsValid(c) /\ Take(c)
  BY DEF FetchNothing
<1>2. /\ stuffStart' = stuffStart /\ stuffEnd' = stuffEnd /\ count' = count
      /\ inspectedCount' = inspectedCount /\ inspected' = inspected /\ found' = found
      /\ source' = source /\ destination' = destination /\ cuts' = cuts /\ out' = out
      /\ active' = active /\ wasTerminal' = wasTerminal
      /\ active # InvalidTaskId /\ Fetches /\ pc = "dispatch" /\ pc' = "endTurn"
  BY DEF FetchNothing, Goto, cursors, locals
<1>3. c \in Chunk /\ arrived' = arrived
  BY <1>1, ArrivalsAreChunks DEF Take
<1>4. count < BufferLength
  BY <1>2, FetchesOnlyWhenSearched
<1>5. (\A k \in 0 .. count - 1 : At(k)' = At(k)) /\ buffer' \in [Slots -> Chunk]
  BY <1>1, <1>2, <1>3, <1>4, FetchOutside DEF Take
<1>6. TypeOK'
  BY <1>2, <1>3, <1>5 DEF TypeOK
<1>7. \A k : Slot(k)' = Slot(k)
  BY <1>2 DEF Slot
<1>8. RingOrder'
  BY <1>2, <1>3, <1>5, <1>7 DEF RingOrder, TypeOK
<1>9. SearchSound'
  BY <1>2, <1>5, <1>7 DEF SearchSound, NoHoles, NoneOfActive, IsFull, TypeOK
<1>10. CompactionSound'
  BY <1>2 DEF CompactionSound
<1> QED
  BY <1>6, <1>8, <1>9, <1>10

\* Entering inspect changes nothing but the place in the loop.
LEMMA BeginInspectInv == Inv /\ BeginInspect => Inv'
<1> SUFFICES ASSUME Inv, BeginInspect PROVE Inv'
  OBVIOUS
<1>1. /\ UNCHANGED <<buffer, cursors, locals, active, wasTerminal, history>>
      /\ pc = "dispatch" /\ pc' = "search"
      /\ active # InvalidTaskId /\ ~IsEmpty /\ ~IsFull /\ ~inspected
  BY DEF BeginInspect, Goto
<1>2. TypeOK' /\ RingOrder'
  BY <1>1 DEF Inv, TypeOK, RingOrder, At, Slot, cursors, locals, history
<1>3. SearchSound'
  BY <1>1 DEF Inv, SearchSound, NoneOfActive, At, Slot, IsFull, IsEmpty, cursors
<1>4. CompactionSound'
  BY <1>1 DEF CompactionSound
<1> QED
  BY <1>2, <1>3, <1>4 DEF Inv

\* A turn of the search passes a chunk that is not of the active task.
LEMMA SearchInv == Inv /\ Search => Inv'
<1> SUFFICES ASSUME Inv, Search PROVE Inv'
  OBVIOUS
<1> USE DEF Inv
<1>1. /\ UNCHANGED <<buffer, stuffStart, stuffEnd, count, inspected, locals,
                     active, wasTerminal, history>>
      /\ inspectedCount' = inspectedCount + 1 /\ found' = Advance(found)
      /\ inspectedCount < count /\ buffer[found].id # active
      /\ pc = "search" /\ pc' = "search"
  BY DEF Search, Goto, StillSearching, SearchOn
<1>2. /\ active # InvalidTaskId /\ ~inspected /\ ~IsEmpty /\ ~IsFull
      /\ found = Slot(inspectedCount) /\ NoneOfActive(inspectedCount)
      /\ inspectedCount \in 0 .. BufferLength - 1 /\ count \in 0 .. BufferLength
      /\ stuffStart \in Slots
  BY <1>1 DEF SearchSound, TypeOK
<1>3. found' = Slot(inspectedCount + 1) /\ found' \in Slots
  BY <1>1, <1>2, AdvanceSlot, AdvanceInRange DEF TypeOK
<1>4. \A k : At(k)' = At(k) /\ Slot(k)' = Slot(k)
  BY <1>1 DEF At, Slot
<1>5. TypeOK'
  BY <1>1, <1>2, <1>3 DEF TypeOK, locals, history
<1>6. RingOrder'
  BY <1>1, <1>4 DEF RingOrder, history, TypeOK
<1>7. SearchSound'
  <2>1. \A k \in 0 .. inspectedCount : At(k).id # active
    BY <1>1, <1>2 DEF NoneOfActive, At
  <2>2. NoneOfActive(inspectedCount)'
    BY <1>1, <1>2, <1>4, <2>1 DEF NoneOfActive
  <2> QED
    BY <1>1, <1>2, <1>3, <1>4, <2>2 DEF SearchSound, IsFull, IsEmpty
<1>8. CompactionSound'
  BY <1>1 DEF CompactionSound
<1> QED
  BY <1>5, <1>6, <1>7, <1>8

\* Printing the chunk found leaves a hole, and the search stands at it.
LEMMA PrintFoundInv == Inv /\ PrintFound => Inv'
<1> SUFFICES ASSUME Inv, PrintFound PROVE Inv'
  OBVIOUS
<1> USE DEF Inv
<1> DEFINE n == inspectedCount
<1>1. /\ stuffStart' = stuffStart /\ stuffEnd' = stuffEnd /\ count' = count
      /\ inspectedCount' = inspectedCount /\ inspected' = inspected /\ found' = found
      /\ source' = source /\ destination' = destination
      /\ arrived' = arrived /\ cuts' = cuts
      /\ Write(buffer[found]) /\ RemoveFound
      /\ ~StillSearching(active) /\ n # count /\ pc = "search" /\ pc' = "endTurn"
  BY DEF PrintFound, Goto, cursors, locals
<1>2. /\ active # InvalidTaskId /\ ~inspected /\ ~IsEmpty /\ ~IsFull
      /\ found = Slot(n) /\ NoneOfActive(n) /\ n \in 0 .. count - 1
      /\ count \in 0 .. BufferLength - 1 /\ stuffStart \in Slots /\ found \in Slots
  BY <1>1 DEF SearchSound, TypeOK, IsFull
<1>3. At(n) = buffer[found] /\ At(n).id = active /\ buffer[found] \in Chunk
  BY <1>1, <1>2 DEF StillSearching, At, TypeOK
<1>4. Invalidate(buffer[found]) \in Chunk /\ ~IsValid(Invalidate(buffer[found]))
  BY <1>3, InvalidateChunk
<1>5. \A k : Slot(k)' = Slot(k)
  BY <1>1 DEF Slot
<1>6. \A k \in 0 .. count - 1 :
        At(k)' = IF k = n THEN Invalidate(buffer[found]) ELSE At(k)
  <2>1. \A i \in Slots : buffer'[i] = IF i = found THEN Invalidate(buffer[found]) ELSE buffer[i]
    BY <1>1 DEF RemoveFound, TypeOK
  <2>2. \A k \in 0 .. count - 1 : Slot(k) \in Slots /\ (Slot(k) = found <=> k = n)
    BY <1>2, SlotInRange, SlotInjective
  <2> QED
    BY <1>5, <2>1, <2>2 DEF At
<1>7. TypeOK'
  <2>1. buffer' \in [Slots -> Chunk]
    BY <1>1, <1>4 DEF RemoveFound, TypeOK
  <2>2. IsValid(buffer[found]) => buffer[found].stamp \in 1 .. MaxArrivals
    BY <1>2, <1>3 DEF RingOrder, TypeOK
  <2>3. /\ out' \in Seq([id : Tasks, stamp : 1 .. MaxArrivals, last : BOOLEAN])
        /\ active' \in Tasks \cup {InvalidTaskId}
        /\ wasTerminal' \in BOOLEAN
    BY <1>1, <1>3, <2>2, WriteType
  <2> QED
    BY <1>1, <2>1, <2>3 DEF TypeOK
<1>8. RingOrder'
  BY <1>1, <1>4, <1>5, <1>6 DEF RingOrder
<1>9. SearchSound'
  <2>1. /\ active' = IF buffer[found].last THEN InvalidTaskId ELSE active
        /\ wasTerminal' = buffer[found].last /\ buffer[found].last \in BOOLEAN
    BY <1>1, <1>2, <1>3 DEF Write, IsValid, Chunk
  <2>2. \A k \in 0 .. n - 1 : At(k)'.id # active
    BY <1>2, <1>6 DEF NoneOfActive
  <2>3. active' # InvalidTaskId => NoneOfActive(inspectedCount)'
    BY <1>1, <2>1, <2>2 DEF NoneOfActive
  <2> QED
    BY <1>1, <1>2, <1>5, <2>1, <2>3 DEF SearchSound, IsFull, IsEmpty
<1>10. CompactionSound'
  BY <1>1 DEF CompactionSound
<1> QED
  BY <1>7, <1>8, <1>9, <1>10

\* The compaction begins when the whole used part was passed.
LEMMA BeginCompactInv == Inv /\ BeginCompact => Inv'
<1> SUFFICES ASSUME Inv, BeginCompact PROVE Inv'
  OBVIOUS
<1> USE DEF Inv
<1>1. /\ UNCHANGED <<buffer, cursors, active, wasTerminal, history>>
      /\ inspectedCount = count /\ source' = stuffStart /\ destination' = stuffStart
      /\ pc = "search" /\ pc' = "compact"
  BY DEF BeginCompact, BeginCompaction, Goto
<1>2. TypeOK'
  BY <1>1 DEF TypeOK, cursors, history
<1>3. RingOrder'
  BY <1>1 DEF RingOrder, At, Slot, cursors, history
<1>4. SearchSound'
  BY <1>1 DEF SearchSound, NoneOfActive, At, Slot, IsFull, IsEmpty, cursors
<1>5. CompactionSound'
  BY <1>1 DEF CompactionSound, Offset, cursors, TypeOK, Slots
<1> QED
  BY <1>2, <1>3, <1>4, <1>5

\* Forcing the oldest chunk out of a full ring makes the search start over.
LEMMA ForceOldestInv == Inv /\ ForceOldest => Inv'
<1> SUFFICES ASSUME Inv, ForceOldest PROVE Inv'
  OBVIOUS
<1> USE DEF Inv
<1>1. /\ active # InvalidTaskId /\ count = BufferLength /\ Write(Peek)
      /\ count' = count - 1 /\ stuffStart' = Advance(stuffStart) /\ found' = stuffStart'
      /\ ~inspected' /\ inspected' \in BOOLEAN /\ inspectedCount' = 0
      /\ cuts' = IF IsValid(Peek) THEN cuts \cup {Len(out) + 1} ELSE cuts
      /\ UNCHANGED <<buffer, stuffEnd, locals, arrived>>
      /\ pc = "dispatch" /\ pc' = "endTurn"
  BY DEF ForceOldest, IsFull, Goto, Pop, ClearInspected, ResetFound
<1>2. stuffStart \in Slots /\ \A k \in 0 .. BufferLength - 1 : Slot(k)' = Slot(k + 1)
  BY <1>1, SlotAfterPop DEF TypeOK
<1>3. Peek \in Chunk /\ Peek = At(0)
  BY <1>2 DEF Peek, At, Slot, Slots, TypeOK
<1>4. IsValid(Peek)
  BY <1>1, <1>3 DEF SearchSound, IsFull, NoHoles
<1>5. TypeOK'
  <2>1. IsValid(Peek) => Peek.stamp \in 1 .. MaxArrivals
    BY <1>1, <1>3 DEF RingOrder, TypeOK
  <2>2. stuffStart' \in Slots
    BY <1>1, <1>2, AdvanceInRange
  <2>3. /\ out' \in Seq([id : Tasks, stamp : 1 .. MaxArrivals, last : BOOLEAN])
        /\ active' \in Tasks \cup {InvalidTaskId}
        /\ wasTerminal' \in BOOLEAN
    BY <1>1, <1>3, <2>1, WriteType
  <2>4. cuts' \subseteq Nat
    <3>1. Len(out) + 1 \in Nat /\ cuts \subseteq Nat
      BY DEF TypeOK
    <3> QED
      BY <1>1, <3>1
  <2> QED
    BY <1>1, <2>2, <2>3, <2>4 DEF TypeOK, locals
<1>6. RingOrder'
  <2>1. count \in Nat /\ count > 0 /\ count' \in Nat
    BY <1>1
  <2>2. stuffEnd' = Slot(count)'
    BY <1>1, <1>2, <2>1 DEF RingOrder
  <2>3. \A k \in 0 .. count' - 1 : k + 1 \in 0 .. count - 1 /\ At(k)' = At(k + 1)
    BY <1>1, <1>2, <2>1 DEF At
  <2>4. \A k \in 0 .. count' - 1 : IsValid(At(k)') => At(k)'.stamp \in 1 .. arrived'
    BY <1>1, <2>3 DEF RingOrder
  <2>5. ASSUME NEW j \in 0 .. count' - 1, NEW k \in 0 .. count' - 1,
               j < k, IsValid(At(j)'), IsValid(At(k)')
        PROVE  At(j)'.stamp < At(k)'.stamp
    <3>1. j + 1 < k + 1
      BY <2>5
    <3> QED
      BY <2>3, <2>5, <3>1 DEF RingOrder
  <2> QED
    BY <2>2, <2>4, <2>5 DEF RingOrder
<1>7. SearchSound'
  <2>1. found' = Slot(inspectedCount)' /\ inspectedCount' <= count'
    BY <1>1, <1>2, AdvanceInRange DEF Slot, Slots
  <2>2. active' # InvalidTaskId => ~wasTerminal'
    BY <1>1, <1>4 DEF Write
  <2> QED
    BY <1>1, <2>1, <2>2 DEF SearchSound, IsEmpty, IsFull, NoneOfActive
<1>8. CompactionSound'
  BY <1>1 DEF CompactionSound
<1> QED
  BY <1>5, <1>6, <1>7, <1>8

\* After a terminal chunk the search starts over.
LEMMA EndTurnInv == Inv /\ EndTurn => Inv'
<1> SUFFICES ASSUME Inv, EndTurn PROVE Inv'
  OBVIOUS
<1> USE DEF Inv
<1>1. /\ UNCHANGED <<buffer, stuffStart, stuffEnd, count, locals, active, wasTerminal, history>>
      /\ pc = "endTurn" /\ pc' = "dispatch"
      /\ wasTerminal => inspected' = FALSE /\ inspectedCount' = 0 /\ found' = stuffStart
      /\ ~wasTerminal => UNCHANGED <<inspected, inspectedCount, found>>
  BY DEF EndTurn, Goto, ClearInspected, ResetFound
<1>2. TypeOK'
  <2>1. CASE wasTerminal
    <3>1. 0 \in 0 .. BufferLength /\ FALSE \in BOOLEAN
      OBVIOUS
    <3>2. inspected' \in BOOLEAN /\ inspectedCount' \in 0 .. BufferLength /\ found' \in Slots
      BY <1>1, <2>1, <3>1 DEF TypeOK
    <3> QED
      BY <1>1, <3>2 DEF TypeOK, locals, history
  <2>2. CASE ~wasTerminal
    BY <1>1, <2>2 DEF TypeOK, locals, history
  <2> QED
    BY <2>1, <2>2
<1>3. RingOrder'
  BY <1>1 DEF RingOrder, At, Slot, history
<1>4. SearchSound'
  BY <1>1 DEF SearchSound, NoneOfActive, NoHoles, At, Slot, IsFull, IsEmpty, TypeOK
<1>5. CompactionSound'
  BY <1>1 DEF CompactionSound
<1> QED
  BY <1>2, <1>3, <1>4, <1>5

\* Offsets in the used part follow a cursor that advances inside the ring.
LEMMA OffsetAdvances ==
  ASSUME stuffStart \in Slots, NEW i \in Slots, Offset(i) < BufferLength - 1
  PROVE  Offset(Advance(i)) = Offset(i) + 1
BY DEF Offset, Advance, Slots

\* A turn of the compaction loop finds its cursors inside the used part.
LEMMA CompactionCursors ==
  ASSUME Inv, pc = "compact"
  PROVE  /\ active # InvalidTaskId /\ ~inspected
         /\ count \in 1 .. BufferLength - 1 /\ inspectedCount = count
         /\ Offset(source) \in 0 .. count /\ Offset(destination) \in 0 .. Offset(source)
         /\ source = Slot(Offset(source)) /\ destination = Slot(Offset(destination))
         /\ source # stuffEnd <=> Offset(source) < count
<1> USE DEF Inv
<1>1. /\ active # InvalidTaskId /\ ~inspected
      /\ count \in 1 .. BufferLength - 1 /\ inspectedCount = count
      /\ stuffStart \in Slots /\ source \in Slots /\ destination \in Slots
  BY DEF SearchSound, CompactionSound, TypeOK, IsFull, IsEmpty
<1>2. /\ Offset(source) \in 0 .. BufferLength - 1
      /\ Offset(destination) \in 0 .. BufferLength - 1
      /\ source = Slot(Offset(source)) /\ destination = Slot(Offset(destination))
  BY <1>1, SlotOfOffset
<1>3. Offset(destination) <= Offset(source) /\ Offset(source) <= count
  BY DEF CompactionSound
<1>4. stuffEnd = Slot(count)
  BY DEF RingOrder
<1>5. source # stuffEnd <=> Offset(source) # count
  BY <1>1, <1>2, <1>4, OffsetOfSlot
<1> QED
  BY <1>1, <1>2, <1>3, <1>5

\* A turn of the compaction keeps the order of the chunks and moves no chunk
\* of the active task into the part passed.
LEMMA CompactInv == Inv /\ Compact => Inv'
<1> SUFFICES ASSUME Inv, Compact PROVE Inv'
  OBVIOUS
<1> DEFINE s == Offset(source)
           d == Offset(destination)
<1>1. /\ stuffStart' = stuffStart /\ stuffEnd' = stuffEnd /\ count' = count
      /\ inspectedCount' = inspectedCount /\ inspected' = inspected /\ found' = found
      /\ active' = active /\ wasTerminal' = wasTerminal
      /\ out' = out /\ arrived' = arrived /\ cuts' = cuts
      /\ pc = "compact" /\ pc' = "compact" /\ source # stuffEnd
      /\ CompactStep
  BY DEF Compact, Goto, Compacting, cursors, history
<1>2. /\ active # InvalidTaskId /\ ~inspected
      /\ count \in 1 .. BufferLength - 1 /\ inspectedCount = count
      /\ s \in 0 .. count - 1 /\ d \in 0 .. s
      /\ source = Slot(s) /\ destination = Slot(d)
  BY <1>1, CompactionCursors
<1>3. /\ stuffStart \in Slots /\ source \in Slots /\ destination \in Slots
      /\ buffer \in [Slots -> Chunk]
      /\ NoneOfActive(count) /\ found = Slot(count)
      /\ stuffEnd = Slot(count)
  BY <1>2 DEF Inv, TypeOK, SearchSound, RingOrder
<1>4. \A k : Slot(k)' = Slot(k) /\ Offset(k)' = Offset(k)
  BY <1>1 DEF Slot, Offset
<1>5. /\ At(s) = buffer[source] /\ At(d) = buffer[destination]
      /\ \A j \in 0 .. count - 1 : j < d => IsValid(At(j))
      /\ \A j \in 0 .. count - 1 : d < j /\ j < s => ~IsValid(At(j))
      /\ d < s /\ IsValid(At(d)) => ~IsValid(At(s))
  BY <1>1, <1>2 DEF Inv, CompactionSound, At
<1>6. /\ Advance(source) \in Slots /\ Offset(Advance(source)) = s + 1
      /\ Advance(destination) \in Slots /\ Offset(Advance(destination)) = d + 1
  BY <1>2, <1>3, AdvanceInRange, OffsetAdvances
<1>7. SUFFICES /\ buffer' \in [Slots -> Chunk]
               /\ source' \in Slots /\ destination' \in Slots
               /\ RingOrder' /\ NoneOfActive(count)' /\ CompactionSound'
  <2>1. TypeOK'
    BY <1>1, <1>7 DEF Inv, TypeOK
  <2>2. SearchSound'
    BY <1>1, <1>2, <1>3, <1>4, <1>7 DEF Inv, SearchSound, IsFull, IsEmpty, NoneOfActive
  <2> QED
    BY <1>7, <2>1, <2>2 DEF Inv
<1>8. CASE UNCHANGED buffer /\ (IsValid(At(d)) \/ ~IsValid(At(s)))
  <2>1. \A k : At(k)' = At(k)
    BY <1>4, <1>8 DEF At
  <2>2. RingOrder' /\ NoneOfActive(count)'
    BY <1>1, <1>3, <1>4, <2>1 DEF Inv, RingOrder, NoneOfActive, TypeOK
  <2>3. CASE /\ IsValid(At(d)) /\ s = d
             /\ source' = Advance(source) /\ destination' = Advance(destination)
    <3>1. Offset(source)' = s + 1 /\ Offset(destination)' = s + 1
      BY <1>4, <1>6, <2>3
    <3>2. CompactionSound'
      BY <1>1, <1>2, <1>5, <2>1, <2>3, <3>1 DEF CompactionSound
    <3> QED
      BY <1>3, <1>6, <1>8, <2>2, <2>3, <3>2
  <2>4. CASE /\ IsValid(At(d)) /\ d < s
             /\ source' = source /\ destination' = Advance(destination)
    <3>1. Offset(source)' = s /\ Offset(destination)' = d + 1
      BY <1>4, <1>6, <2>4
    <3>2. CompactionSound'
      BY <1>1, <1>2, <1>5, <2>1, <2>4, <3>1 DEF CompactionSound
    <3> QED
      BY <1>3, <1>6, <1>8, <2>2, <2>4, <3>2
  <2>5. CASE /\ ~IsValid(At(d)) /\ ~IsValid(At(s))
             /\ source' = Advance(source) /\ destination' = destination
    <3>1. Offset(source)' = s + 1 /\ Offset(destination)' = d
      BY <1>4, <1>6, <2>5
    <3>2. CompactionSound'
      BY <1>1, <1>2, <1>5, <2>1, <2>5, <3>1 DEF CompactionSound
    <3> QED
      BY <1>3, <1>6, <1>8, <2>2, <2>5, <3>2
  <2>6. source = destination <=> s = d
    BY <1>2
  <2> QED
    BY <1>1, <1>2, <1>5, <1>8, <2>3, <2>4, <2>5, <2>6 DEF CompactStep, locals
<1>9. CASE /\ ~IsValid(At(d)) /\ IsValid(At(s))
           /\ buffer' = [buffer EXCEPT ![destination] = buffer[source],
                                       ![source] = Invalidate(@)]
           /\ UNCHANGED locals
  <2>1. source # destination /\ d < s /\ source' = source /\ destination' = destination
    BY <1>2, <1>5, <1>9 DEF locals, At
  <2> DEFINE hole == Invalidate(buffer[source])
  <2>2. hole \in Chunk /\ ~IsValid(hole) /\ hole.id = InvalidTaskId
    BY <1>3, InvalidateChunk DEF IsValid
  <2>3. /\ buffer' \in [Slots -> Chunk]
        /\ \A i \in Slots : buffer'[i] = IF i = source THEN hole
                                         ELSE IF i = destination THEN buffer[source]
                                         ELSE buffer[i]
    BY <1>3, <1>9, <2>1, <2>2
  <2>4. \A k \in 0 .. count - 1 : /\ Slot(k) \in Slots
                                  /\ Slot(k) = source <=> k = s
                                  /\ Slot(k) = destination <=> k = d
    BY <1>2, <1>3, SlotInRange, SlotInjective
  <2>5. \A k \in 0 .. count - 1 :
          At(k)' = IF k = s THEN hole ELSE IF k = d THEN At(s) ELSE At(k)
    BY <1>4, <1>5, <2>3, <2>4 DEF At
  <2>6. NoneOfActive(count)'
    BY <1>1, <1>2, <1>3, <2>2, <2>5 DEF NoneOfActive
  <2>7. Offset(source)' = s /\ Offset(destination)' = d
    BY <1>4, <2>1
  <2>8. CompactionSound'
    BY <1>1, <1>2, <1>5, <1>9, <2>1, <2>2, <2>5, <2>7 DEF CompactionSound
  <2>9. RingOrder'
    <3>1. \A k \in 0 .. count - 1 : IsValid(At(k))' => At(k)'.stamp \in 1 .. arrived
      BY <1>2, <1>9, <2>2, <2>5 DEF Inv, RingOrder, IsValid
    <3>2. \A j, k \in 0 .. count - 1 : j < k /\ IsValid(At(j))' /\ IsValid(At(k))' =>
            At(j)'.stamp < At(k)'.stamp
      <4> SUFFICES ASSUME NEW j \in 0 .. count - 1, NEW k \in 0 .. count - 1,
                          j < k, IsValid(At(j))', IsValid(At(k))'
                   PROVE  At(j)'.stamp < At(k)'.stamp
        OBVIOUS
      <4>1. j # s /\ k # s
        BY <2>2, <2>5 DEF IsValid
      <4>2. ~(d < j /\ j < s) /\ ~(d < k /\ k < s)
        BY <1>2, <1>5, <2>5 DEF IsValid
      <4> DEFINE from(i) == IF i = d THEN s ELSE i
      <4>3. from(j) < from(k) /\ from(j) \in 0 .. count - 1 /\ from(k) \in 0 .. count - 1
        BY <1>2, <2>1, <4>1, <4>2
      <4>4. At(j)' = At(from(j)) /\ At(k)' = At(from(k))
        BY <2>5, <4>1
      <4> QED
        BY <4>3, <4>4 DEF Inv, RingOrder, IsValid
    <3> QED
      BY <1>1, <1>3, <1>4, <3>1, <3>2 DEF RingOrder, IsValid
  <2> QED
    BY <1>3, <1>7, <2>1, <2>3, <2>6, <2>8, <2>9
<1> QED
  BY <1>1, <1>5, <1>8, <1>9 DEF CompactStep

\* The pointer difference at the end of inspect counts the slots cut off.
LEMMA RemovedIsDifference ==
  ASSUME stuffStart \in Slots, NEW n \in 1 .. BufferLength - 1, NEW d \in 0 .. n,
         stuffEnd = Slot(n), destination = Slot(d)
  PROVE  Removed = n - d
BY DEF Removed, Slot, Slots

\* Once source has reached the end, only holes lie behind destination.
LEMMA CompactionEnd ==
  ASSUME Inv, EndCompact
  PROVE  LET d == Offset(destination)
         IN  /\ d \in 0 .. count /\ destination = Slot(d) /\ count' = d
             /\ \A j \in 0 .. d - 1 : IsValid(At(j))
             /\ \A j \in 0 .. count - 1 : d <= j => ~IsValid(At(j))
<1> DEFINE s == Offset(source)
           d == Offset(destination)
<1>1. pc = "compact" /\ source = stuffEnd /\ count' = count - Removed
  BY DEF EndCompact, Goto, Compacting, EndCompaction
<1>2. /\ count \in 1 .. BufferLength - 1 /\ s = count /\ d \in 0 .. s
      /\ destination = Slot(d)
  BY <1>1, CompactionCursors
<1>3. Removed = count - d
  BY <1>2, RemovedIsDifference DEF Inv, TypeOK, RingOrder
<1>4. /\ \A j \in 0 .. count - 1 : j < d => IsValid(At(j))
      /\ \A j \in 0 .. count - 1 : d < j /\ j < s => ~IsValid(At(j))
      /\ d < s /\ IsValid(At(d)) => s < count
  BY <1>1 DEF Inv, CompactionSound
<1> QED
  BY <1>1, <1>2, <1>3, <1>4

\* What the end of the compaction cuts off are holes, and no other hole is
\* left.
LEMMA EndCompactInv == Inv /\ EndCompact => Inv'
<1> SUFFICES ASSUME Inv, EndCompact PROVE Inv'
  OBVIOUS
<1> DEFINE d == Offset(destination)
<1>1. /\ UNCHANGED <<buffer, stuffStart, inspectedCount, found, locals,
                     active, wasTerminal, history>>
      /\ stuffEnd' = destination /\ inspected' = TRUE
      /\ pc = "compact" /\ pc' = "endTurn"
  BY DEF EndCompact, Goto, EndCompaction
<1>2. /\ d \in 0 .. count /\ destination = Slot(d) /\ count' = d
      /\ \A j \in 0 .. d - 1 : IsValid(At(j))
  BY CompactionEnd
<1>3. /\ active # InvalidTaskId /\ count \in 1 .. BufferLength - 1
      /\ NoneOfActive(count) /\ ~wasTerminal
  BY <1>1, CompactionCursors DEF Inv, SearchSound
<1>4. \A k : Slot(k)' = Slot(k) /\ At(k)' = At(k)
  BY <1>1 DEF Slot, At
<1>5. TypeOK'
  BY <1>1, <1>2, <1>3 DEF Inv, TypeOK, locals, history
<1>6. RingOrder'
  BY <1>1, <1>2, <1>3, <1>4 DEF Inv, RingOrder, history, IsValid
<1>7. SearchSound'
  <2>1. NoHoles' /\ NoneOfActive(count)'
    BY <1>1, <1>2, <1>3, <1>4 DEF NoHoles, NoneOfActive, IsValid
  <2> QED
    BY <1>1, <1>3, <2>1 DEF SearchSound
<1>8. CompactionSound'
  BY <1>1 DEF CompactionSound
<1> QED
  BY <1>5, <1>6, <1>7, <1>8 DEF Inv

\* A step that changes nothing keeps the invariant.
LEMMA StutterInv == Inv /\ UNCHANGED vars => Inv'
BY DEF Inv, vars, cursors, locals, history, TypeOK, RingOrder, SearchSound, CompactionSound,
       NoHoles, NoneOfActive, IsEmpty, IsFull, At, Slot, Offset

\* Every step of the transmitter loop keeps the ring, the search and the
\* compaction sound.
LEMMA StepInv == Inv /\ [Next]_vars => Inv'
BY StartFromQueueInv, StartFromRingInv, ContinueFromQueueInv, KeepForLaterInv,
   FetchNothingInv, BeginInspectInv, SearchInv, PrintFoundInv, BeginCompactInv,
   CompactInv, EndCompactInv, ForceOldestInv, EndTurnInv, StutterInv DEF Next

\* All reachable states of Log::transmitterThreadFunction satisfy the
\* inductive invariant.
THEOREM InvHolds == Spec => []Inv
BY InitInv, StepInv, PTL DEF Spec

\* The variables of the loop, of CircularBuffer and of the history keep their
\* types: no cursor ever leaves the ring, and no count its range.
THEOREM TypeCorrect == Spec => []TypeOK
<1>1. Inv => TypeOK
  BY DEF Inv
<1> QED
  BY <1>1, InvHolds, PTL

\* The used part of CircularBuffer is contiguous and in order of arrival.
THEOREM RingOrdered == Spec => []RingOrder
<1>1. Inv => RingOrder
  BY DEF Inv
<1> QED
  BY <1>1, InvHolds, PTL

\* mInspected, mInspectedCount and mFound never lie about the ring.
THEOREM SearchIsSound == Spec => []SearchSound
<1>1. Inv => SearchSound
  BY DEF Inv
<1> QED
  BY <1>1, InvHolds, PTL

\* The two cursors of the compaction in CircularBuffer::inspect lose nothing.
THEOREM CompactionIsSound == Spec => []CompactionSound
<1>1. Inv => CompactionSound
  BY DEF Inv
<1> QED
  BY <1>1, InvHolds, PTL

-----------------------------------------------------------------------------
(* The loop with its ring implements the merge of messages. *)

\* The live chunks, by their places in the used part.
LEMMA LiveMember ==
  \A c : c \in Live <=> \E k \in 0 .. count - 1 : IsValid(At(k)) /\ c = At(k)
BY DEF Live, At

\* The same after a step.
LEMMA LiveMemberPrimed ==
  \A c : c \in Live' <=> \E k \in 0 .. count' - 1 : IsValid(At(k)') /\ c = At(k)'
BY DEF Live, At

\* Two live chunks with one stamp are in one slot.
LEMMA LiveDistinct ==
  ASSUME Inv, NEW j \in 0 .. count - 1, NEW k \in 0 .. count - 1,
         IsValid(At(j)), IsValid(At(k)), j # k
  PROVE  At(j) # At(k)
<1>1. count \in 0 .. BufferLength
  BY DEF Inv, TypeOK
<1>2. CASE j < k
  BY <1>2 DEF Inv, RingOrder
<1>3. CASE k < j
  BY <1>3 DEF Inv, RingOrder
<1> QED
  BY <1>1, <1>2, <1>3

\* The transmitter waits on the queue, or forces the oldest chunk out, only
\* when the ring holds nothing of the active task.
THEOREM AlwaysSearched == Spec => []SearchedWhenFetching
<1>1. Inv => SearchedWhenFetching
  <2> SUFFICES ASSUME Inv, active # InvalidTaskId, Fetches \/ IsFull, NEW c \in Live
               PROVE  c.id # active
    BY DEF SearchedWhenFetching
  <2>1. NoneOfActive(count)
    BY FetchesOnlyWhenSearched DEF Inv, SearchSound
  <2> QED
    BY <2>1, LiveMember DEF NoneOfActive
<1> QED
  BY <1>1, InvHolds, PTL

\* Only a ring without a hole and without a chunk of the active task makes the
\* transmitter cut a message (the last branch of the loop).
THEOREM CutsOnlyWhenFull == Spec => CutOnlyWhenFull
<1> DEFINE Forced == /\ \A i \in Slots : IsValid(buffer[i]) /\ buffer[i].id # active
                     /\ out' = Append(out, buffer[stuffStart])
<1>1. Inv /\ ForceOldest => Forced
  <2> SUFFICES ASSUME Inv, ForceOldest PROVE Forced
    OBVIOUS
  <2>1. /\ stuffStart \in Slots /\ count = BufferLength /\ active # InvalidTaskId
        /\ NoHoles /\ NoneOfActive(count) /\ Write(Peek)
    BY DEF ForceOldest, Inv, TypeOK, SearchSound, IsFull
  <2>2. \A i \in Slots : IsValid(buffer[i]) /\ buffer[i].id # active
    <3> TAKE i \in Slots
    <3>1. Offset(i) \in 0 .. count - 1 /\ At(Offset(i)) = buffer[i]
      BY <2>1, SlotOfOffset DEF At
    <3> QED
      BY <2>1, <3>1 DEF NoHoles, NoneOfActive
  <2> QED
    BY <2>1, <2>2 DEF Write, Peek
<1>2. Next /\ cuts' # cuts => ForceOldest
  BY DEF Next, StartFromQueue, StartFromRing, ContinueFromQueue, KeepForLater, FetchNothing,
         BeginInspect, Search, PrintFound, BeginCompact, Compact, EndCompact, EndTurn, history
<1>3. Inv /\ [Next]_vars => [cuts' # cuts => Forced]_vars
  BY <1>1, <1>2 DEF vars, history
<1> QED
  BY <1>3, InvHolds, PTL DEF Spec, CutOnlyWhenFull

-----------------------------------------------------------------------------
(* The refinement, one lemma per action. *)

\* As long as a step leaves the used part of the ring alone, so is the set of
\* the chunks in it.
LEMMA LiveUnchanged ==
  ASSUME UNCHANGED count, \A k \in 0 .. count - 1 : At(k)' = At(k)
  PROVE  UNCHANGED Live
<1>1. \A c : c \in Live' <=> c \in Live
  BY LiveMember, LiveMemberPrimed
<1> QED
  BY <1>1

\* An empty ring holds nothing.
LEMMA InitRefines == Init => Merge!Init
<1> SUFFICES ASSUME Init PROVE Merge!Init
  OBVIOUS
<1>1. Live = {}
  BY LiveMember DEF Init, BufferInit
<1> QED
  BY <1>1 DEF Merge!Init, Init

\* Printing from the queue with an empty ring is a pass through the merge.
LEMMA StartFromQueueRefines ==
  Inv /\ StartFromQueue => Merge!PassThrough \/ UNCHANGED Merge!vars
<1> SUFFICES ASSUME Inv, StartFromQueue PROVE Merge!PassThrough \/ UNCHANGED Merge!vars
  OBVIOUS
<1>1. PICK c \in Arrivals : Take(c) /\ Write(c)
  BY DEF StartFromQueue
<1>2. /\ count = 0 /\ count' = 0 /\ cuts' = cuts /\ active = InvalidTaskId
  BY DEF StartFromQueue, IsEmpty, cursors
<1>3. IsValid(c) => c \in Received(arrived + 1) /\ arrived < MaxArrivals
  BY ArrivalsAreChunks DEF Inv
<1>4. Live = {} /\ Live' = {}
  BY <1>2, LiveMember, LiveMemberPrimed
<1>5. CASE IsValid(c)
  BY <1>1, <1>2, <1>3, <1>4, <1>5
     DEF Merge!PassThrough, Merge!Arrive, Merge!Emit, Merge!Received, Received, Take, Write
<1>6. CASE ~IsValid(c)
  BY <1>1, <1>2, <1>4, <1>6 DEF Merge!vars, Take, Write
<1> QED
  BY <1>5, <1>6

\* The chunk at the start of the ring, when valid, is the oldest one held, and
\* popping it takes nothing else away.
LEMMA PopTakesOldest ==
  ASSUME Inv, count > 0, Pop, UNCHANGED buffer
  PROVE  /\ IsValid(Peek) => Peek \in Live /\ Merge!IsOldest(Peek, Live) /\ Live' = Live \ {Peek}
         /\ ~IsValid(Peek) => Live' = Live
<1>1. /\ stuffStart \in Slots /\ count \in 1 .. BufferLength
      /\ count' = count - 1 /\ stuffStart' = Advance(stuffStart)
  BY DEF Inv, TypeOK, Pop
<1>2. Peek = At(0)
  BY <1>1 DEF Peek, At, Slot, Slots
<1>3. \A k \in 0 .. BufferLength - 1 : At(k)' = At(k + 1)
  BY <1>1, SlotAfterPop DEF At
<1>4. \A c : c \in Live' <=> \E k \in 1 .. count - 1 : IsValid(At(k)) /\ c = At(k)
  <2> TAKE c
  <2>1. c \in Live' <=> \E k \in 0 .. count - 2 : IsValid(At(k + 1)) /\ c = At(k + 1)
    BY <1>1, <1>3, LiveMemberPrimed
  <2>2. ASSUME NEW k \in 0 .. count - 2, IsValid(At(k + 1)), c = At(k + 1)
        PROVE  \E j \in 1 .. count - 1 : IsValid(At(j)) /\ c = At(j)
    <3>1. k + 1 \in 1 .. count - 1
      BY <1>1
    <3> QED
      BY <2>2, <3>1
  <2>3. ASSUME NEW j \in 1 .. count - 1, IsValid(At(j)), c = At(j)
        PROVE  \E k \in 0 .. count - 2 : IsValid(At(k + 1)) /\ c = At(k + 1)
    <3>1. j - 1 \in 0 .. count - 2 /\ (j - 1) + 1 = j
      BY <1>1
    <3> QED
      BY <2>3, <3>1
  <2> QED
    BY <2>1, <2>2, <2>3
<1>5. ASSUME IsValid(Peek)
      PROVE  Peek \in Live /\ Merge!IsOldest(Peek, Live) /\ Live' = Live \ {Peek}
  <2>1. Peek \in Live
    BY <1>1, <1>2, <1>5, LiveMember
  <2>2. ASSUME NEW c \in Live PROVE Peek.stamp <= c.stamp
    <3>1. PICK k \in 0 .. count - 1 : IsValid(At(k)) /\ c = At(k)
      BY LiveMember
    <3>2. At(0).stamp \in Int /\ At(k).stamp \in Int
      BY <1>1, <1>2, <1>5, <3>1 DEF Inv, RingOrder
    <3> QED
      BY <1>1, <1>2, <1>5, <3>1, <3>2 DEF Inv, RingOrder
  <2>3. \A k \in 1 .. count - 1 : IsValid(At(k)) => At(k) # Peek
    BY <1>1, <1>2, <1>5, LiveDistinct
  <2>4. \A c : c \in Live' <=> c \in Live /\ c # Peek
    <3> TAKE c
    <3>1. \A k : k \in 0 .. count - 1 <=> k = 0 \/ k \in 1 .. count - 1
      BY <1>1
    <3> QED
      BY <1>2, <1>4, <2>3, <3>1, LiveMember
  <2> QED
    BY <2>1, <2>2, <2>4 DEF Merge!IsOldest
<1>6. ASSUME ~IsValid(Peek) PROVE Live' = Live
  <2>1. \A k : k \in 0 .. count - 1 <=> k = 0 \/ k \in 1 .. count - 1
    BY <1>1
  <2>2. \A c : c \in Live' <=> c \in Live
    BY <1>2, <1>4, <1>6, <2>1, LiveMember
  <2> QED
    BY <2>2
<1> QED
  BY <1>5, <1>6

\* Popping with no active task starts the oldest message, or drops a hole.
LEMMA StartFromRingRefines ==
  Inv /\ StartFromRing => Merge!StartOldest \/ UNCHANGED Merge!vars
<1> SUFFICES ASSUME Inv, StartFromRing PROVE Merge!StartOldest \/ UNCHANGED Merge!vars
  OBVIOUS
<1>1. /\ count > 0 /\ Pop /\ UNCHANGED <<buffer, arrived, cuts>> /\ Write(Peek)
      /\ active = InvalidTaskId
  BY DEF StartFromRing, IsEmpty, Inv, TypeOK
<1>2. /\ IsValid(Peek) => Peek \in Live /\ Merge!IsOldest(Peek, Live) /\ Live' = Live \ {Peek}
      /\ ~IsValid(Peek) => Live' = Live
  BY <1>1, PopTakesOldest
<1>3. CASE IsValid(Peek)
  BY <1>1, <1>2, <1>3 DEF Merge!StartOldest, Merge!Emit, Write
<1>4. CASE ~IsValid(Peek)
  BY <1>1, <1>2, <1>4 DEF Merge!vars, Write
<1> QED
  BY <1>3, <1>4

\* Printing from the queue with an active task is a pass through the merge: a
\* searched ring holds nothing of that task.
LEMMA ContinueFromQueueRefines == Inv /\ ContinueFromQueue => Merge!PassThrough
<1> SUFFICES ASSUME Inv, ContinueFromQueue PROVE Merge!PassThrough
  OBVIOUS
<1>1. PICK c \in Arrivals : c.id = active /\ Take(c) /\ Write(c)
  BY DEF ContinueFromQueue
<1>2. /\ active # InvalidTaskId /\ Fetches /\ cuts' = cuts
      /\ stuffStart' = stuffStart /\ count' = count
  BY DEF ContinueFromQueue, cursors
<1>3. /\ IsValid(c) /\ c \in Received(arrived + 1) /\ arrived < MaxArrivals
  BY <1>1, <1>2, ArrivalsAreChunks DEF Inv, IsValid
<1>4. count < BufferLength /\ NoneOfActive(count)
  BY <1>2, FetchesOnlyWhenSearched
<1>5. UNCHANGED Live
  BY <1>1, <1>2, <1>4, FetchOutside, LiveUnchanged DEF Take
<1>6. \A d \in Live : d.id # active
  BY <1>4, LiveMember DEF NoneOfActive
<1> QED
  BY <1>1, <1>2, <1>3, <1>5, <1>6
     DEF Merge!PassThrough, Merge!Arrive, Merge!Emit, Merge!OfTask, Merge!Received, Received,
         Take, Write

\* The ring never holds more chunks than it has slots in use.
LEMMA LiveCardinality ==
  ASSUME Inv
  PROVE  /\ IsFiniteSet(Live) /\ Cardinality(Live) <= count
         /\ NoHoles => Cardinality(Live) = count
<1> DEFINE used == {k \in 0 .. count - 1 : IsValid(At(k))}
           chunk == [k \in used |-> At(k)]
<1>1. count \in 0 .. BufferLength
  BY DEF Inv, TypeOK
<1>2. IsFiniteSet(0 .. count - 1) /\ Cardinality(0 .. count - 1) = count
  BY <1>1, FS_Interval
<1>3. used \in SUBSET (0 .. count - 1)
  OBVIOUS
<1>4. IsFiniteSet(used) /\ Cardinality(used) <= count
  <2> HIDE DEF used
  <2> QED
    BY <1>2, <1>3, FS_Subset
<1>5. chunk \in Surjection(used, Live)
  BY LiveMember DEF Surjection
<1>6. chunk \in Injection(used, Live)
  <2>1. chunk \in [used -> Live]
    BY LiveMember
  <2>2. \A j, k \in used : chunk[j] = chunk[k] => j = k
    BY LiveDistinct
  <2> HIDE DEF used, chunk
  <2> QED
    BY <2>1, <2>2 DEF Injection, IsInjective
<1>7. IsFiniteSet(Live) /\ Cardinality(Live) = Cardinality(used)
  <2> HIDE DEF used, chunk
  <2> QED
    BY <1>4, <1>5, <1>6, FS_Surjection
<1>8. NoHoles => used = 0 .. count - 1
  BY DEF NoHoles
<1>9. Cardinality(Live) \in Nat /\ Cardinality(used) \in Nat
  BY <1>4, <1>7, FS_CardinalityType
<1> QED
  BY <1>1, <1>2, <1>4, <1>7, <1>8, <1>9

\* The cardinality the abstract specification speaks of is the usual one.
LEMMA SameCardinality == Merge!Cardinality(Live) = Cardinality(Live)
BY DEF Merge!Cardinality, Cardinality

\* Keeping a chunk in the ring is holding it in the merge.
LEMMA KeepForLaterRefines == Inv /\ KeepForLater => Merge!Hold
<1> SUFFICES ASSUME Inv, KeepForLater PROVE Merge!Hold
  OBVIOUS
<1>1. PICK c \in Arrivals : c.id \notin {active, InvalidTaskId} /\ Take(c)
  BY DEF KeepForLater
<1>2. /\ active # InvalidTaskId /\ Fetches /\ count' = count + 1
      /\ stuffStart' = stuffStart /\ UNCHANGED <<active, out, cuts>>
  BY DEF KeepForLater, KeepFetched
<1>3. /\ IsValid(c) /\ c \in Received(arrived + 1) /\ arrived < MaxArrivals
  BY <1>1, ArrivalsAreChunks DEF Inv, IsValid
<1>4. count < BufferLength /\ NoneOfActive(count) /\ count \in 0 .. BufferLength
  BY <1>2, FetchesOnlyWhenSearched DEF Inv, TypeOK
<1>5. (\A k \in 0 .. count - 1 : At(k)' = At(k)) /\ buffer'[Slot(count)] = c
  BY <1>1, <1>2, <1>4, FetchOutside DEF Take
<1> DEFINE n == count
<1>6. \A k \in 0 .. n : At(k)' = IF k = n THEN c ELSE At(k)
  <2>1. Slot(n) = Slot(count) /\ \A k : Slot(k)' = Slot(k)
    BY <1>2 DEF Slot
  <2>2. \A k \in 0 .. n : k # n => k \in 0 .. count - 1
    BY <1>4
  <2> QED
    BY <1>5, <2>1, <2>2 DEF At
<1>7. \A d : d \in Live' <=> d \in Live \/ d = c
  <2>1. \A k : k \in 0 .. count' - 1 <=> k = n \/ k \in 0 .. count - 1
    BY <1>2, <1>4
  <2>2. \A k \in 0 .. count - 1 : k # n
    BY <1>4
  <2>3. n \in 0 .. n /\ \A k \in 0 .. count - 1 : k \in 0 .. n
    BY <1>4
  <2> HIDE DEF n
  <2> QED
    BY <1>3, <1>6, <2>1, <2>2, <2>3, LiveMember, LiveMemberPrimed
<1>8. Live' = Live \cup {c}
  BY <1>7
<1>9. \A d \in Live : d.id # active
  BY <1>4, LiveMember DEF NoneOfActive
<1>10. Cardinality(Live) < BufferLength
  <2>1. IsFiniteSet(Live) /\ Cardinality(Live) <= count
    BY LiveCardinality
  <2>2. Cardinality(Live) \in Nat
    BY <2>1, FS_CardinalityType
  <2> QED
    BY <1>4, <2>1, <2>2
<1>11. Merge!OfTask(active) = {}
  BY <1>9 DEF Merge!OfTask
<1>12. c \in Merge!Received(arrived + 1) /\ arrived' = arrived + 1
  BY <1>1, <1>3 DEF Merge!Received, Received, Take
<1> QED
  BY <1>1, <1>2, <1>3, <1>8, <1>10, <1>11, <1>12, SameCardinality DEF Merge!Hold, Merge!Arrive

\* An empty queue and an unregistered chunk are invisible in the merge.
LEMMA FetchNothingRefines == Inv /\ FetchNothing => UNCHANGED Merge!vars
<1> SUFFICES ASSUME Inv, FetchNothing PROVE UNCHANGED Merge!vars
  OBVIOUS
<1>1. PICK c \in Arrivals : ~IsValid(c) /\ Take(c)
  BY DEF FetchNothing
<1>2. /\ active # InvalidTaskId /\ Fetches /\ UNCHANGED <<active, out, cuts>>
      /\ stuffStart' = stuffStart /\ count' = count
  BY DEF FetchNothing, cursors
<1>3. count < BufferLength
  BY <1>2, FetchesOnlyWhenSearched
<1>4. UNCHANGED Live
  BY <1>1, <1>2, <1>3, FetchOutside, LiveUnchanged DEF Take
<1> QED
  BY <1>1, <1>2, <1>4 DEF Merge!vars, Take

\* The search stops at the oldest chunk of the active task.
LEMMA PrintFoundRefines == Inv /\ PrintFound => Merge!Continue
<1> SUFFICES ASSUME Inv, PrintFound PROVE Merge!Continue
  OBVIOUS
<1> DEFINE n == inspectedCount
           c == buffer[found]
<1>1. /\ stuffStart' = stuffStart /\ count' = count /\ arrived' = arrived /\ cuts' = cuts
      /\ Write(c) /\ RemoveFound
      /\ ~StillSearching(active) /\ n # count /\ pc = "search"
  BY DEF PrintFound, Goto, cursors
<1>2. /\ active # InvalidTaskId /\ found = Slot(n) /\ NoneOfActive(n) /\ n \in 0 .. count - 1
      /\ count \in 0 .. BufferLength - 1 /\ stuffStart \in Slots /\ found \in Slots
      /\ buffer \in [Slots -> Chunk]
  BY <1>1 DEF Inv, SearchSound, TypeOK, IsFull
<1>3. At(n) = c /\ c.id = active /\ IsValid(c) /\ c \in Chunk
  BY <1>1, <1>2 DEF StillSearching, At, IsValid
<1>4. ~IsValid(Invalidate(c))
  BY <1>3, InvalidateChunk
<1>5. \A k \in 0 .. count - 1 : At(k)' = IF k = n THEN Invalidate(c) ELSE At(k)
  <2>1. \A i \in Slots : buffer'[i] = IF i = found THEN Invalidate(c) ELSE buffer[i]
    BY <1>1, <1>2 DEF RemoveFound
  <2>2. \A k \in 0 .. count - 1 : Slot(k) \in Slots /\ (Slot(k) = found <=> k = n)
    BY <1>2, SlotInRange, SlotInjective
  <2>3. \A k : Slot(k)' = Slot(k)
    BY <1>1 DEF Slot
  <2> QED
    BY <2>1, <2>2, <2>3 DEF At
<1>6. c \in Live
  BY <1>2, <1>3, LiveMember
<1>7. \A k \in 0 .. count - 1 : k # n /\ IsValid(At(k)) => At(k) # c
  BY <1>2, <1>3, LiveDistinct
<1>8. Live' = Live \ {c}
  <2> HIDE DEF n, c
  <2>1. \A d : d \in Live' <=> d \in Live /\ d # c
    BY <1>1, <1>2, <1>3, <1>4, <1>5, <1>7, LiveMember, LiveMemberPrimed
  <2> QED
    BY <2>1
<1>9. Merge!IsOldest(c, Merge!OfTask(active))
  <2>1. c \in Merge!OfTask(active)
    BY <1>3, <1>6 DEF Merge!OfTask
  <2>2. ASSUME NEW d \in Merge!OfTask(active) PROVE c.stamp <= d.stamp
    <3>1. PICK k \in 0 .. count - 1 : IsValid(At(k)) /\ d = At(k)
      BY LiveMember DEF Merge!OfTask
    <3>2. k >= n
      BY <1>2, <3>1 DEF NoneOfActive, Merge!OfTask
    <3>3. c.stamp \in Int /\ d.stamp \in Int
      BY <1>2, <1>3, <3>1 DEF Inv, RingOrder
    <3> QED
      BY <1>2, <1>3, <3>1, <3>2, <3>3 DEF Inv, RingOrder
  <2> QED
    BY <2>1, <2>2 DEF Merge!IsOldest
<1> QED
  BY <1>1, <1>2, <1>3, <1>6, <1>8, <1>9 DEF Merge!Continue, Merge!Emit, Write

\* A turn of the compaction moves chunks and holes, and no chunk gets lost.
LEMMA CompactRefines == Inv /\ Compact => UNCHANGED Merge!vars
<1> SUFFICES ASSUME Inv, Compact PROVE UNCHANGED Merge!vars
  OBVIOUS
<1> DEFINE s == Offset(source)
           d == Offset(destination)
<1>1. /\ stuffStart' = stuffStart /\ count' = count
      /\ UNCHANGED <<active, out, arrived, cuts>>
      /\ pc = "compact" /\ source # stuffEnd
      /\ CompactStep
  BY DEF Compact, Goto, Compacting, cursors, history
<1>2. /\ count \in 1 .. BufferLength - 1 /\ s \in 0 .. count - 1 /\ d \in 0 .. s
      /\ source = Slot(s) /\ destination = Slot(d)
  BY <1>1, CompactionCursors
<1>3. /\ stuffStart \in Slots /\ source \in Slots /\ destination \in Slots
      /\ buffer \in [Slots -> Chunk]
  BY DEF Inv, TypeOK
<1>4. \A k : Slot(k)' = Slot(k)
  BY <1>1 DEF Slot
<1>5. At(s) = buffer[source] /\ At(d) = buffer[destination]
  BY <1>2 DEF At
<1>6. SUFFICES UNCHANGED Live
  BY <1>1, <1>6 DEF Merge!vars
<1>7. CASE UNCHANGED buffer
  BY <1>1, <1>4, <1>7, LiveUnchanged DEF At
<1>8. CASE /\ ~IsValid(At(d)) /\ IsValid(At(s))
           /\ buffer' = [buffer EXCEPT ![destination] = buffer[source],
                                       ![source] = Invalidate(@)]
  <2> DEFINE hole == Invalidate(buffer[source])
  <2>1. d # s /\ source # destination
    BY <1>2, <1>5, <1>8
  <2>2. ~IsValid(hole)
    BY <1>3, InvalidateChunk
  <2>3. \A i \in Slots : buffer'[i] = IF i = source THEN hole
                                      ELSE IF i = destination THEN buffer[source]
                                      ELSE buffer[i]
    BY <1>3, <1>8, <2>1
  <2>4. \A k \in 0 .. count - 1 : /\ Slot(k) \in Slots
                                  /\ Slot(k) = source <=> k = s
                                  /\ Slot(k) = destination <=> k = d
    BY <1>2, <1>3, SlotInRange, SlotInjective
  <2>5. \A k \in 0 .. count - 1 :
          At(k)' = IF k = s THEN hole ELSE IF k = d THEN At(s) ELSE At(k)
    BY <1>4, <1>5, <2>3, <2>4 DEF At
  <2>6. s \in 0 .. count - 1 /\ d \in 0 .. count - 1
    BY <1>2
  <2>7. \A c : c \in Live' <=> c \in Live
    <3> HIDE DEF hole, s, d
    <3> QED
      BY <1>1, <1>8, <2>1, <2>2, <2>5, <2>6, LiveMember, LiveMemberPrimed
  <2> QED
    BY <2>7
<1> QED
  BY <1>1, <1>5, <1>7, <1>8 DEF CompactStep

\* The end of the compaction cuts off no chunk.
LEMMA EndCompactRefines == Inv /\ EndCompact => UNCHANGED Merge!vars
<1> SUFFICES ASSUME Inv, EndCompact PROVE UNCHANGED Merge!vars
  OBVIOUS
<1> DEFINE d == Offset(destination)
<1>1. UNCHANGED <<buffer, stuffStart, active, out, arrived, cuts>>
  BY DEF EndCompact, history
<1>2. /\ d \in 0 .. count /\ count' = d
      /\ \A j \in 0 .. count - 1 : d <= j => ~IsValid(At(j))
  BY CompactionEnd
<1>3. \A k : At(k)' = At(k)
  BY <1>1 DEF At, Slot
<1>4. count \in 0 .. BufferLength
  BY DEF Inv, TypeOK
<1>5. \A k \in 0 .. count - 1 : IsValid(At(k)) => k \in 0 .. count' - 1
  BY <1>2, <1>4
<1>6. \A k \in 0 .. count' - 1 : k \in 0 .. count - 1
  BY <1>2, <1>4
<1>7. \A c : c \in Live' <=> c \in Live
  BY <1>3, <1>5, <1>6, LiveMember, LiveMemberPrimed
<1> QED
  BY <1>1, <1>7 DEF Merge!vars

\* Forcing the oldest chunk out is the overflow of the merge: a full ring has
\* no hole and nothing of the active task.
LEMMA ForceOldestRefines == Inv /\ ForceOldest => Merge!Overflow
<1> SUFFICES ASSUME Inv, ForceOldest PROVE Merge!Overflow
  OBVIOUS
<1>1. /\ active # InvalidTaskId /\ count = BufferLength /\ Write(Peek) /\ Pop
      /\ cuts' = IF IsValid(Peek) THEN cuts \cup {Len(out) + 1} ELSE cuts
      /\ UNCHANGED <<buffer, arrived>>
  BY DEF ForceOldest, IsFull
<1>2. NoHoles /\ NoneOfActive(count) /\ stuffStart \in Slots
  BY <1>1 DEF Inv, SearchSound, IsFull, TypeOK
<1>3. IsValid(Peek)
  <2>1. 0 \in 0 .. count - 1
    BY <1>1
  <2>2. Peek = At(0)
    BY <1>2 DEF Peek, At, Slot, Slots
  <2> QED
    BY <1>2, <2>1, <2>2 DEF NoHoles
<1>4. Peek \in Live /\ Merge!IsOldest(Peek, Live) /\ Live' = Live \ {Peek}
  BY <1>1, <1>3, PopTakesOldest
<1>5. Cardinality(Live) = BufferLength
  BY <1>1, <1>2, LiveCardinality
<1>6. Merge!OfTask(active) = {}
  BY <1>2, LiveMember DEF Merge!OfTask, NoneOfActive
<1> QED
  BY <1>1, <1>3, <1>4, <1>5, <1>6, SameCardinality DEF Merge!Overflow, Merge!Emit, Write

\* Searching, starting to compact and ending a turn change nothing that the
\* merge of messages speaks of.
LEMMA InternalStepsRefine ==
  BeginInspect \/ Search \/ BeginCompact \/ EndTurn \/ UNCHANGED vars => UNCHANGED Merge!vars
<1> SUFFICES ASSUME UNCHANGED <<buffer, stuffStart, count, active, out, arrived, cuts>>
             PROVE  UNCHANGED Merge!vars
  BY DEF BeginInspect, Search, BeginCompact, EndTurn, vars, cursors, history
<1>1. UNCHANGED Live
  BY LiveUnchanged DEF At, Slot
<1> QED
  BY <1>1 DEF Merge!vars

\* Every step of the loop is a step of the merge, or invisible there.
LEMMA StepRefines == Inv /\ [Next]_vars => [Merge!Next]_(Merge!vars)
BY StartFromQueueRefines, StartFromRingRefines, ContinueFromQueueRefines, KeepForLaterRefines,
   FetchNothingRefines, PrintFoundRefines, CompactRefines, EndCompactRefines,
   ForceOldestRefines, InternalStepsRefine DEF Next, Merge!Next

\* Log::transmitterThreadFunction with CircularBuffer implements the merge of
\* messages, for every length of the ring.
THEOREM ImplementsMerge == Spec => Implements
BY InitRefines, StepRefines, InvHolds, PTL DEF Implements, Spec, Merge!Spec

-----------------------------------------------------------------------------
(* What the merge promises, for the transmitter. *)

Promises == INSTANCE MessageMergeProofs WITH held <- Live, Capacity <- BufferLength

\* The merge the loop implements is the one whose promises were proved.
LEMMA SameMerge ==
  /\ Merge!Init => Promises!Init
  /\ [Merge!Next]_(Merge!vars) => [Promises!Next]_(Promises!vars)
<1>1. Merge!Init => Promises!Init
  BY DEF Merge!Init, Promises!Init
<1>2. Merge!PassThrough => Promises!PassThrough
  BY DEF Merge!PassThrough, Promises!PassThrough, Merge!Arrive, Promises!Arrive, Merge!Emit,
         Promises!Emit, Merge!Received, Promises!Received, Merge!OfTask, Promises!OfTask
<1>3. Merge!Hold => Promises!Hold
  <2>1. Merge!Cardinality(Live) = Promises!Cardinality(Live)
    BY DEF Merge!Cardinality, Promises!Cardinality
  <2> QED
    BY <2>1 DEF Merge!Hold, Promises!Hold, Merge!Arrive, Promises!Arrive, Merge!Received,
                Promises!Received, Merge!OfTask, Promises!OfTask
<1>4. Merge!StartOldest => Promises!StartOldest
  BY DEF Merge!StartOldest, Promises!StartOldest, Merge!Emit, Promises!Emit, Merge!IsOldest,
         Promises!IsOldest
<1>5. Merge!Continue => Promises!Continue
  BY DEF Merge!Continue, Promises!Continue, Merge!Emit, Promises!Emit, Merge!IsOldest,
         Promises!IsOldest, Merge!OfTask, Promises!OfTask
<1>6. Merge!Overflow => Promises!Overflow
  <2>1. Merge!Cardinality(Live) = Promises!Cardinality(Live)
    BY DEF Merge!Cardinality, Promises!Cardinality
  <2> QED
    BY <2>1 DEF Merge!Overflow, Promises!Overflow, Merge!Emit, Promises!Emit, Merge!IsOldest,
                Promises!IsOldest, Merge!OfTask, Promises!OfTask
<1> QED
  BY <1>1, <1>2, <1>3, <1>4, <1>5, <1>6
     DEF Merge!Next, Promises!Next, Merge!vars, Promises!vars

\* The loop keeps the invariant of the merge, too.
LEMMA MergeHolds == Spec => []Promises!MInv
<1>1. Spec => Promises!Spec
  BY InitRefines, StepRefines, InvHolds, SameMerge, PTL DEF Spec, Promises!Spec
<1>2. Promises!ChunkAssumption
  BY ChunkAssumption DEF Promises!ChunkAssumption
<1>3. Promises!Spec => []Promises!MInv
  BY <1>2, Promises!MergeInv, PTL
<1> QED
  BY <1>1, <1>3, PTL

\* What leaves the transmitter has each received chunk at most once, misses
\* only what is still in the ring, keeps the order of each task, cuts messages
\* only where the ring was full, and starts them in the order of their first
\* chunks (Log.h:515).
THEOREM TransmitterPromises ==
  Spec => [](ExactlyOnce /\ TaskOrder /\ WholeMessages /\ FirstChunkOrder)
<1>1. Promises!MInv => ExactlyOnce /\ TaskOrder /\ WholeMessages /\ FirstChunkOrder
  BY DEF Promises!MInv, ExactlyOnce, TaskOrder, WholeMessages, FirstChunkOrder,
         Merge!ExactlyOnce, Merge!TaskOrder, Merge!WholeMessages, Merge!FirstChunkOrder,
         Promises!ExactlyOnce, Promises!TaskOrder, Promises!WholeMessages,
         Promises!FirstChunkOrder, Merge!Starts, Promises!Starts
<1> QED
  BY <1>1, MergeHolds, PTL

\* Nothing received is lost or printed twice, in whatever order the holes of
\* the ring are made and closed (CircularBuffer::invalidateFound, inspected).
THEOREM NothingLost == Spec => []ExactlyOnce
BY TransmitterPromises, PTL

\* No chunk taken from the queue overtakes one of its own task in the ring.
THEOREM TasksInOrder == Spec => []TaskOrder
BY TransmitterPromises, PTL

\* Inside a message the next chunk printed is of the same task, except where a
\* ring full of others cut it.
THEOREM MessagesStayWhole == Spec => []WholeMessages
BY TransmitterPromises, PTL

\* What starts a message is older than all that is printed later (Log.h:516).
THEOREM FirstChunksInOrder == Spec => []FirstChunkOrder
BY TransmitterPromises, PTL

\* When the transmitter waits on the queue and no end of a message is missing, it
\* holds nothing back.
WaitsForNothingHeld == pc = "dispatch" /\ Fetches /\ AllTerminated => Live = {}

\* The loop goes to the queue with chunks in the ring only to wait for the rest of
\* the active message: as long as some can be printed, it does not stop to wait
\* (Log.cpp:159-185), so no chunk needs another to come out.
THEOREM NothingHeldBack == Spec => []WaitsForNothingHeld
<1>1. ASSUME Inv, SearchedWhenFetching, Promises!MInv
      PROVE  WaitsForNothingHeld
  <2> SUFFICES ASSUME pc = "dispatch", Fetches, AllTerminated, Live # {}
               PROVE  FALSE
    BY DEF WaitsForNothingHeld
  <2>1. active # InvalidTaskId /\ \A c \in Live : c.id # active
    <3>1. ~IsEmpty
      BY LiveMember DEF IsEmpty
    <3> QED
      BY <1>1, <3>1 DEF Fetches, SearchedWhenFetching
  <2>2. /\ out # <<>> /\ out \in Seq([id : Tasks, stamp : 1 .. MaxArrivals, last : BOOLEAN])
        /\ out[Len(out)].id = active /\ ~out[Len(out)].last
    BY <1>1, <2>1 DEF Promises!MInv, Promises!ActiveIsLast, Inv, TypeOK
  <2> DEFINE n == Len(out)
             c == out[n]
  <2>3. n \in 1 .. n
    <3>1. n \in Nat /\ n # 0
      BY <2>2, EmptySeq, LenProperties
    <3> QED
      BY <3>1
  <2>4. PICK d \in Live \cup {out[p] : p \in 1 .. n} : d.id = c.id /\ d.stamp > c.stamp
    BY <2>2, <2>3 DEF AllTerminated
  <2>5. d \notin Live
    BY <2>1, <2>2, <2>4
  <2>6. PICK p \in 1 .. n : d = out[p]
    BY <2>4, <2>5
  <2>7. out[p].stamp \in Int /\ c.stamp \in Int
    <3> DEFINE Sent == [id : Tasks, stamp : 1 .. MaxArrivals, last : BOOLEAN]
    <3>1. \A q \in 1 .. Len(out) : out[q] \in Sent
      <4>1. out \in Seq(Sent)
        BY <2>2
      <4> HIDE DEF Sent
      <4> QED
        BY <4>1
    <3>2. \A e \in Sent : e.stamp \in Int
      BY ChunkAssumption
    <3> HIDE DEF Sent
    <3> QED
      BY <2>3, <3>1, <3>2
  <2>8. p < n => out[p].stamp < c.stamp
    BY <1>1, <2>3, <2>4, <2>6 DEF Promises!MInv, Promises!TaskOrder
  <2>9. p = n \/ p < n
    BY <2>3
  <2> HIDE DEF c, n
  <2> QED
    BY <2>4, <2>6, <2>7, <2>8, <2>9 DEF c
<1> QED
  BY <1>1, AlwaysSearched, MergeHolds, InvHolds, PTL

=============================================================================
