# A verification project for cpp-logger

TLA+ models of the logger in `src/src`, the instances TLC checks, and the
theorems TLAPS proves about them.  Line numbers refer to the files under
`src/src/` unless another path is given.

## 1. The system

A message is built on the stack of the task that sends it, cut into *chunks* of
`chunkSize` bytes, the first of which is the id of the task, and pushed chunk by
chunk into a queue shared by all tasks and interrupts.  One *transmitter* thread
takes the chunks out, sorts them into whole messages with the help of a ring
buffer, and writes them to one of two transmit buffers; the other one may be on
its way through the device at that time.

    tasks, ISRs --send--> Chunk --push--> queue --fetch--> transmitter loop
                                                            |   ^
                                                      keep  v   | peek, inspect
                                                        CircularBuffer
    device <--transmit-- TransmitBuffers <--operator<<-- transmitter loop
       |                  ^         ^
       +- transmitFinished+         +- refreshNeeded -- timer

### Inventory

| Component | Code | State | Operations | What makes it correct |
|---|---|---|---|---|
| Chunk | `Log.h` 333-460, `Log.cpp` 27-50 | position in a buffer, write index | `operator++`, `=`, `invalidate`, `push`, `flush`, `pop` | stays in its buffer; the end of a message is always marked |
| Circular buffer | `LogUtil.h` 33-109, `LogUtil.cpp` 25-66 | slots, start, end, count, `mInspected`, `mInspectedCount`, `mFound` | `fetch`, `peek`, `pop`, `keepFetched`, `inspect`, `removeFound`, `clearInspected` | no chunk lost, repeated or reordered; the search flags never lie |
| Transmitter loop | `Log.cpp` 143-209 | active task, in the transmit buffers | one turn of the loop | messages whole, in the order of their first chunks, cut only by a full ring |
| Transmit buffers | `LogUtil.h` 112-165, `LogUtil.cpp` 68-123 | two buffers, fill counts, `mTransmitInProgress`, `mRefreshNeeded` | `operator<<`, `transmitIfNeeded` | never overrun, never overwritten under transmission, sent in order and in time |
| FreeRTOS/STM HAL port | `LogFreertosStmHal.h` | queue, DMA, one-shot timer, mutex | `push`, `pop`, `transmit`, `transmitFinished`, `startRefreshTimer`, `lock` | as the interface promises |
| std::thread port | `LogStdThreadOstream.*` | lock-free queue and free list, timer thread, names, mutex | the same, with threads | the same |
| SWO port | `LogFreertosCmsisSwo.h` | as STM HAL, without DMA | the same | the same |
| Task registration | `Log.cpp` 108-141, ports | `mNextTaskId`, `mTaskIds`, `mTaskNamesIds` | `registerCurrentTask`, `getCurrentTaskId` | an id of its own for each task, for good |
| Sending | `Log.h` 687-1034, `Log.cpp` 211-443 | a chunk on the stack | `send`, `startSend`, `append`, `finishSend` | a message is a run of chunks ended by one mark |
| Shift chains | `Log.h` 467-496, `Log.cpp` 84-91 | a buffer for each task id | `<<`, `Log::end` | chains of different tasks do not mix |
| Topics | `Log.h` 630-640 | counter, map | `registerTopic` | different topics, different numbers |
| Number conversion | `Log.h` 467-496, 813-1053, `Log.cpp` 388-443 | `mNextFormat` of a chain | `append`, `<<` | the text reads back as the number, in the format given for it and no other |
| Immediate ports | `LogStdOstream.h`, `LogStmHal.h`, `LogCmsisSwo.h` | none | `push` | the bytes of the message |
| Shutdown | `Log.h` 608-613 | `mKeepRunning` | `~Log` | no thread is left behind |

Components share state where the hard behaviour is: `mTransmitInProgress` is set
by the transmitter and cleared by the device, `mRefreshNeeded` is set by the
timer and by the transmitter and cleared by the transmitter, the ring is private
to the transmitter but its flags must agree with the active task kept in the
transmit buffers, and the map of task ids is shared by all tasks.  `PROJECT.json`
lists the hazards by line.

## 2. Modules

| Module | What it is |
|---|---|
| `LogChunk` | chunks: id, whether they end a message, and a stamp that stands for the payload |
| `CircularBuffer` | the ring's fields and methods, as operators |
| `Deinterleaver` | the transmitter loop over the ring; extends `CircularBuffer` |
| `MessageMerge` | what the loop promises, with a set of held chunks instead of the ring |
| `TransmitBuffers` | the double buffer and `transmitIfNeeded`, with the port as parameters of two actions |
| `FreeRtosPort` | the double buffer over the two FreeRTOS ports: UART with DMA and transfer-complete interrupt or SWO pin, and a FreeRTOS timer; UART and timer may refuse to start |
| `StdThreadPort` | the double buffer with a stream and the timer thread |
| `ChunkStream` | what a double buffer promises: the chunks written come out in that order, and only so many are on the way |
| `TaskRegistry` | `doRegisterCurrentTask`, for any number of tasks and both kinds of port |
| `FreeRtosQueue` | the lock-free queue and free list of the std::thread port, `send` and `receive` |
| `LossyQueue` | what a port's queue promises: order, and losses only when it is full and does not block |
| `LogSend` | how messages become chunks: `send`, shift chains, `startSend`, `Chunk::push` and `flush`, and the ports that write chunks at once |
| `NumberFormat` | how arguments become text: the overloads of `append`, formats in chains and in `send`, integers and floating point numbers |
| `LogSystem` | senders, queue, loop, double buffer and device together, for the two FreeRTOS ports: an instance of `MessageMerge` and one of `FreeRtosPort` |
| `MCLogSend`, `MCNumberFormat`, `MCLogSystem` | the threads of the instance of `LogSend`; widths, formats and numbers of that of `NumberFormat`; how many chunks the senders of that of `LogSystem` have |
| `DeinterleaverProofs`, `MessageMergeProofs`, `PortProofs` (both ports), `TaskRegistryProofs`, `FreeRtosQueueProofs`, `LogSendProofs`, `LogSystemProofs`, `NumberFormatProofs` | theorems and proofs |

### How state and steps correspond

`Deinterleaver`.  A `Chunk` used as an iterator is the index of its slot.  One
step is one branch of the loop body: `StartFromQueue` (150-152), `StartFromRing`
(153-156), `ContinueFromQueue`, `KeepForLater` and `FetchNothing` (159-185, which
is the same code twice: for the empty ring, and for a searched ring with room),
`BeginInspect`, `Search`, `PrintFound`, `BeginCompact`, `Compact` and
`EndCompact` (186-194 with `inspect`, one step for each turn of its two loops),
`ForceOldest` (196-200), and `EndTurn` (202-207).  The slots start with any ids,
since `new char[]` does not initialise them.  The queue hands over any chunk of
any registered task, a chunk of a task that never registered (id 0, which the
loop drops), or nothing in time, at every fetch: this includes each order in
which tasks can interleave, and queues that drop chunks.  `out`, `arrived` and
`cuts` are history.

`TransmitBuffers`.  `transmitIfNeeded` is cut at the accesses of the two shared
flags: the fill test, the wait for the device, the forced refresh, the decision,
the clearing, and the arming of the timer.  The decision (the two loads of line
111) and the transmission are one step: between them only the device could clear
`mTransmitInProgress`, which was found clear, and the timer could set
`mRefreshNeeded`, which was found set.  A chunk takes one cell; `mIndex` counts
the characters of the same chunks and moves with `mChunkCount`.

`FreeRtosPort`.  `LogFreeRtosStmHal` and `LogFreeRtosCmsisSwo` differ in `transmit` alone,
and `swo` tells which of them it is.  Over the UART the DMA reads the buffer cell by cell
after `transmit` has returned, and the interrupt at the end clears the progress flag; over
the SWO pin all is done when `transmit` returns.  The timer may expire at any point while
it is armed.  `HAL_UART_Transmit_DMA` (`TransmitRefused`) and `xTimerStart`
(`XTimerRefused`, and the first call, `LogUtil.h` 141, in `Init`) may fail at each call, and
the code goes on as if they had not; `failed` remembers it.

`StdThreadPort`.  `transmit` is done when it returns.  The thread of the timer is
cut at its wait, its callback and its disarming.  It is started before
`mKeepRunning` is stored (`LogStdThreadOstream.h` 106-113), so it may have ended
from the beginning.  Names that `FreeRtosPort` has as well begin with `Std`, so that one
module can prove about both.

`TaskRegistry`.  One step for each access of shared state in
`doRegisterCurrentTask`.  `LockExcludes` tells `std::recursive_mutex` from
`xSemaphoreTakeFromISR`, which does not wait; `NamesGiveHandles` tells the
std::thread port, where `registerThreadName` makes the handle, from FreeRTOS,
where a task has one.  In the instance without exclusion each access of the map
and the counter still counts as atomic, which is more than the code gives: what
goes wrong there goes wrong under the mildest assumption.

`FreeRtosQueue`.  One step for each operation on one of the two lock-free queues
and for each copying of a chunk, so that senders and the transmitter meet in
every order between them; boost's queues themselves are external and taken as
linearizable.  `notify_one` has no step of its own effect: `wait_for` may end
without a notification (spurious wake-ups are allowed) and may end with a timeout
though one was given, and these two cover both a notification that arrives and
one that is lost.  That the mutex of the condition variable is locked by the
constructor's thread and waited with by the transmitter is formally undefined and
taken to work.  `atCall`, `sent`, `received` and `lost` are history.

`LogSend`.  A message is the number of its characters; what they are is the
business of the conversion.  One step is one `Chunk::push` of a character, one
`flush`, or the beginning of one call.  The buffers behind a chunk are reused
and never cleared, as on the stack and in `mShiftChainingCallBuffers`, so what an
earlier message left in them is still there.  `read` is what the transmitter makes of
the chunks by the id they carry, which is how it tells them apart, and in how many chunks
each message came; `printed` is what a port without a transmitter makes of them.  Two preconditions are
the application's by `src/README.md` 282 and 302: a thread has one message open at
a time, and gives a chain up only after `Log::end`.  Interrupts share one id and
run one at a time.  That a message has no carriage return in it is the application's
as well (`EndOfMessage` is none of its `Chars`).  `ImmediatePush` is `push` of
`LogStdOstream`, `LogStmHal` and `LogCmsisSwo`, which keep no state of their own.

`NumberFormat`.  A text is the sequence of its characters; strings and `bool` are
words of one.  The links of one chain follow each other (`SetFormat`, `Argument`);
`send` with a format is `SendFormatted`.  `item` keeps the format as it was written, also one
with a base that is not valid, which a chain passes over (`Ignored`) and `send` does not; so
`ReadsBack` holds the text against what the documents say of that format, and `Diverges` lists
where the code is known to do otherwise (section 5).  The types keep their order of widths, from
3 to 6 bits in the instance, and the least integer has no opposite, as in the code.
A floating point number is its decimal digits and an exponent, which
`std::floor(log10(x))` is taken to find, and `10.0 * (normalized - firstDigit)` is
computed exactly; binary rounding errors are not modelled.  `inf` loses its sign, as
in the code (`Log.cpp` 392).  The write behind the stack buffer at `Log.h` 1004 is
taken to do no harm.

`LogSystem`.  A call of `push` puts the chunk into the queue (`Enqueue`), drops it
(`Refuse`), or waits for space (`Block`, `Resume`); each of them is atomic, as the calls of
FreeRTOS are.  Whether a chunk is the last of its message is chosen when it gets in.  One step of the transmitter is a branch of its loop or one of the steps of
`transmitIfNeeded`.  The ring is `MessageMerge` here, which `Deinterleaver` was shown
to implement: `PrintFetched` is its `PassThrough`, `HoldFetched` its `Hold`, `PrintHeld`
its other steps.  Besides the held chunks the ring has `holes`, one for each chunk found
by a search, wherever they are.  They make turns that print nothing: the compaction after a
search in vain, also in a ring of holes alone (`InspectInVain`), and a hole popped between
two messages (`PopHole`); as long as one is left the ring is not empty, and the queue is not
asked.  `inspected` is `mInspected`, so `Fetches` is decided by what the code looks at.  The buffers, the devices and the
timer are those of `FreeRtosPort`, with either port and all its failures.  `wire` holds the
numbers of the chunks printed, `taken` and `lost` tell which they were; `Road` puts what was
accepted together again, from the wire back to the queue.

## 3. What TLC checks

| Run | Instance | Shows |
|---|---|---|
| `deinterleaver` | 3 tasks, ring of 3, 5 chunks | ring, search and compaction are sound (`RingOrder`, `SearchSound`, `CompactionSound`), the output keeps `ExactlyOnce`, `TaskOrder`, `WholeMessages`, `FirstChunkOrder`, messages are cut only when the ring is full, the loop implements `MessageMerge`, and with no end of a message missing the ring gets empty (`EverythingPrinted`) |
| `freertos_port` | buffers of 3, 8 chunks, UART or SWO | space at the head of the loop, no overlap of thread and DMA (`BuffersApart`), a stream in order, at most two buffers behind (`Implements`), all of it also after device or timer refused to start, and without that everything is sent (`SentUnlessFailed`) |
| `stdthread` | buffers of 3, 8 chunks | space at the head of the loop, output in order, and nothing left in the other buffer (`StreamInOrder`), whatever the timer thread does; full buffers are sent |
| `stdthread_refresh` | the same | **violated**: the timer thread can lose an alarm, section 5 |
| `queue` | 2 senders, 2 blocks, 3 chunks each, blocking or not | every block has one owner, pushes that are not checked succeed, the chunks of a sender stay in order, none that is there is missed by `receive`, everything arrives or was refused, and the queue implements `LossyQueue` |
| `logsend` | a task with 4 calls, an interrupt and an unregistered task with 1 each; chunks of 3 bytes | the chunks of an id hold exactly the messages that were ended (`MessagesWhole`), in no more chunks than needed (`NoMoreChunks`) |
| `immediate` | one task, ports without a transmitter | **violated**: what is behind the end mark in a chunk is sent, section 5 |
| `number` | integers of 3 to 6 bits of all eight types, floating point numbers of 3 digits, 5 formats, a stack buffer of 5, chains of 3 links | the text of each argument, read by the format given for it, gives its value and as many digits as asked for, or is `#` for a base that is not valid (`ReadsBack`); with `alignSigned` a number and its opposite take the same space (`Aligned`); both except where the code is known to diverge, section 5 |
| `system` | a blocking task with 3 chunks and an interrupt with 2, queue of 1, ring of 2, buffers of 2, UART or SWO | accepted chunks are on their way once and in order (`EachOnceInOrder`), those of a message next to each other on the wire (`MessagesContiguous`), no sender stays in `push` (`SendersReturn`), and all gets to the wire when nobody logs on (`Delivered`) |
| `registry` | 4 tasks, 3 ids, 6 calls, std::thread port with names | own ids, kept for good, announced rightly, refused only when none are left |
| `registry_freertos` | 2 tasks, FreeRTOS ports | **violated**: two tasks get one id, section 5 |
| `registry_unnamed` | 2 tasks, std::thread port without names | **violated**: tasks without a name share one id, section 5 |

Bounds.  A ring of three with five arrivals fills, wraps, gets holes on both sides
of the wrap, is compacted while it wraps, and is forced when full, with two
messages waiting behind the active one; three tasks are the least at which the
order of first chunks can go wrong.  (The safety properties also pass with a ring of four and six arrivals, in a run too
long to keep.)  Eight chunks through buffers of three use each buffer at least twice,
full and partly filled.  Four tasks for three ids with six calls reach the end of
the ids and register again.  Two senders with two blocks compete for the last one while the
transmitter holds the other, and with three chunks each every block goes round more than
once.  Chunks of three bytes hold two characters: headers and topics of one and
arguments of two characters end a message in the middle, at the end and at the
beginning of a chunk, and four calls allow a chain with two messages, or a chain and a
`send` that find the leavings of earlier ones.  A stack buffer of five is filled by
binary numbers of five digits and too short for those of six, which every type of six
bits has; three links are two formats and an argument, or an argument between two others.
Words of at most six bits are read in full, so no value of a type is left out.  A queue
of one is full as soon as one chunk is in it, so the task waits and the interrupt's chunk
is dropped, a last one or any other, as a task's would be without `blocks`; a ring of two is
forced when both are held.  With five chunks one can be left to wait when the device stands
still with the first, the other buffer holds two and the queue one: with four, nobody would
be held up by a device that refused.  The last call of each sender ends its message; one
that never ends is a sender that calls no more.  `MaxArrivals`, `MaxChunks`, `MaxSends`,
`MaxCalls` and `MaxLinks` are the only bounds that the code does not have.  `registry`,
`logsend`, `immediate` and `number` may stop when their calls or links are used up, and
`freertos_port` and `system` when the UART has refused a transfer, so their runs do not
check for deadlock; the others do.  `MaxChunks` of `system` is the number of chunks that all
senders have (`AllChunks`), so it holds back nothing.

Fairness.  The transmitter is a thread of its own that the scheduler runs for
ever (`mKeepRunning` stays set), so some step of it is taken when one is enabled:
`WF_vars(Next)` in `Deinterleaver`, `WF_vars(Transmitter)` in the ports.  Nothing
is assumed of the tasks: a fetch may time out for ever.  The DMA, its interrupt and
the timer are hardware or a service task and get weak fairness, one each; the
timer thread gets it for its thread as a whole.  In `FreeRtosQueue` the transmitter
and each sender inside `send` get it.  A sender that polls for a block could be
overtaken by others for ever; the calls of the instance are finite, so
`EverythingReceived` does not claim more than that each such race ends with them.
`EverythingPrinted` is conditional on the ends of the messages having arrived; a lost
one holds the others back until the ring is full.  In `LogSystem` the transmitter, the
device, the timer and each sender that waits inside `push` get weak fairness; nobody has to log.
`Delivered` asks for what `EverythingPrinted` needs, the last chunk accepted of each
sender being the last of a message, though chunks before it may have been refused; and for
a device and a timer that have not refused to start.

Every property has a mutant of a mapped definition that breaks it; the mutants
stand before the definitions they change.

## 4. What is proved

The proofs hold for every value of the constants, from the assumptions named in
the modules (`ChunkAssumption`, `BufferAssumption`, `TransmitAssumption`,
`RegistryAssumption`, `QueueAssumption`, `SendAssumption`, `SystemAssumption`,
`FormatAssumption`) and nothing else.

* `DeinterleaverProofs`: `Spec => []Inv`, where `Inv` is `TypeOK`, `RingOrder`,
  `SearchSound` and `CompactionSound` together.  None of them is inductive alone:
  the search is sound because the ring is in order, the end of the compaction
  needs the position of its cursors, and the next search relies on what the
  compaction left.  One lemma for each action; the indexes go through `Slot` and
  `Offset`, whose lemmas come first.  Under `Inv` each step maps to a step of
  `MessageMerge` or a stutter, with the live chunks of the ring as the held set
  (`ImplementsMerge`).  The full ring has no hole, so it holds as many chunks as it
  has slots, and only then a message is cut (`CutsOnlyWhenFull`); what the queue
  hands over never overtakes (`AlwaysSearched`).  `TransmitterPromises` carries the
  promises of the merge over to the loop; `NothingLost`, `TasksInOrder`,
  `MessagesStayWhole` and `FirstChunksInOrder` state them one by one.  `NothingHeldBack` is
  the safety side of `EverythingPrinted`: a loop that goes to the queue to wait,
  while the end of each message has arrived, has nothing left in the ring.
* `MessageMergeProofs`: the merge keeps its four promises.  The strengthening
  says that nothing is younger than the last arrival and that the last chunk
  printed determines the active task.
* `PortProofs`, over the FreeRTOS ports: the invariant says what each buffer holds: the one
  being written the youngest chunks, the one under transmission those that come next on
  the wire, and each place of the thread what it knows of the flags.  A refused transfer
  loses a buffer, and the progress flag it leaves behind keeps any other from being sent
  (`Stuck`, `Progress`), so what is on the wire stays in order even then.  From it:
  space at the head of the loop, buffers apart, output in order, for UART and SWO.
  Two more conjuncts, `Behind` and `Awaited`, are inductive with it (`AheadHolds`).  The
  first, that no more than one buffer is with the device, makes the double buffer a
  `ChunkStream` with room for two (`ImplementsStream`).  The second, that the timer
  is armed or has left its flag, gives the safety side of `SentUnlessFailed`:
  when thread, device and timer have come to rest and neither has refused to start, all
  that was written is on the wire (`NothingForgotten`).
* `PortProofs`, over the stream: the same without a device that reads later.  What the
  buffer to write holds is what the stream has not got (`StreamSentInOrder`), whatever
  the thread of the timer does with the two flags; so it is a `ChunkStream` with
  room for one buffer only (`StdImplementsStream`).
* `TaskRegistryProofs`: with a lock that excludes, and calls that give a name
  where names make the handles (`Exclusive`), ids are unique, valid, announced
  and kept.  The invariant says that the next id is in use only by the task
  between the insertion and the increment.
* `FreeRtosQueueProofs`: the blocks are partitioned into free list, queue and the
  hands of the threads, no list has one twice, and where a thread stands tells whether
  it has one (`Owners`, `HoldsBlock`): so `BlocksHaveOneOwner`.  Counting the partition
  bounds both lists by the number of blocks, their capacity, and a push cannot fail
  (`PushesAlwaysSucceed`).  The one consumer makes what was there at the call stay there
  (`PresentIsAlwaysReceived`).  The refinement mapping reads a sender with a block as
  accepted, the blocks in the queue as the chunks in them, which nobody overwrites, and
  the block of the transmitter as the chunk taken; an empty free list is then the lack
  of a place, by the same counting (`ImplementsPromise`).  In `LossyQueue` received, taken
  and queued chunks make one line, in which each sender's numbers grow, and a number missing
  in it was refused (`QueuePromises`); `ReceivedInOrder` carries that over to `FreeRtosQueue`.
  Refused chunks are older than what their sender waits with, so they never enter (`RInv`);
  `NothingVanishes`, the safety side of `EverythingReceived`, follows: when all calls have
  returned, each chunk was received or refused, and never both.
* `LogSendProofs`: what was read under the id of a thread, and the bytes in front of the
  write index of its buffer, make up its message so far.  That is inductive since nobody
  else writes into that buffer or under that id, and since those bytes are characters, so
  that the first end mark in a chunk is the one just written, whatever is behind
  it (`MessagesStayWhole`).  With it the chunks of the open message are counted: each of
  them is full, hence `ChunksAreFull`.
* `LogSystemProofs`: every step of the whole is a step of `MessageMerge` and one of
  `FreeRtosPort`, or leaves them alone (`PartsRun`), so the invariants of both hold in it.
  What they know nothing of is who sent which chunk.  That is in the line of all chunks
  accepted, `taken \o queue`: the numbers of each sender grow in it, each number is in the
  line, refused, or waited with, and one of these only (`Orderly`); and the chunks in the
  merge are those of the line at their stamps (`Linked`).  Fetching does not change the line.
  `EachOnce` then follows without another induction: what is further on the road stands
  further in the line (`AheadStands`), by the order the merge and the device keep, and each
  place of the line is on the road (`LineOnRoad`), as the merge loses nothing.  For
  `Contiguous` take the first chunk printed between two neighbours of a message: with no
  cut it is of the same task (`WholeMessages`), so its number would have to be between theirs.
  `RestMeansDelivered` is the safety side of `Delivered`: once the transmitter only turns
  idly, the device and the timer stand still without having refused, and each sender's last
  accepted chunk ends its message, the wire has everything accepted.  Backwards along
  the road: the double buffer at rest is empty (`BuffersEmpty`), the loop that finds nothing
  has an empty ring (`RingEmpty`, for a ring that counts as searched has nothing of the active
  task: `Searched`, inductive by itself), and the queue it found empty has nothing either.
* `NumberFormatProofs`: the text of a number reads back as that number (`NumbersReadBack`),
  for words of any width, each base, and any fill, stack buffer and decimal precision.  What
  `Digits`, `Power`, `Value` and `FloatingDigits` compute is recursive, and the library's induction
  theorems cannot be used (they take an operator).  `SetInduction` states induction for the
  *set* of naturals that have a property, from the least one without it, and `Iteration` gives
  each recursive function a witness that satisfies its equation, so that the definition
  by `CHOOSE` does as well.  With these: the digit at each place is the remainder of what
  the turns before left over (`DigitsFacts`); the value of such a row of remainders telescopes to
  what was divided (`SumsToValue`, `RemaindersRead`), zeros in front change nothing
  (`ZerosRead`), and the row is longer than the stack buffer just when the number is not below
  that power of the base.  For floating point numbers the fraction left after k digits is the
  error of those digits, less than one unit of the last (`FloatingDigitsRead`), also where the
  last is capped at nine; and the reader finds the `e` that was written, for no character before it
  is one (`ExponentFound`).  The state needs only `Waiting`: the format that waits in the chain is the
  one given last, or has no base (`FormatServesNext`, which says of every argument, also where
  the code diverges, which overload prints it).  `NumbersReadBack` and `OppositesAligned`
  have the exceptions of the properties they prove.  `OppositesAligned` compares two texts: a number and
  its opposite are divided down from the same absolute value, so they have as many digits.

`AlwaysSearched`, `QueuePromises`, `FormatServesNext`, and the theorems about states at rest are about
formulas that no run checks: what the proof of the refinement needs when the queue is asked, what
`ReceivedInOrder` and `NumbersReadBack` rest on, and the part of the liveness properties that needs no
fairness.

Only model-checked: the liveness properties themselves (`EverythingPrinted`,
`SentUnlessFailed`, `FullBufferSent`, `EverythingReceived`, `SendersReturn`, `Delivered`), since
fairness and `ENABLED` are out of the prover's reach.  Every other property of a passing run is a
theorem.

## 5. Where code and documentation disagree

* *Lost alarm* (`LogStdThreadOstream.cpp` 66-67).  The timer thread calls back
  first and disarms afterwards.  A transmission in between arms the timer, and the
  thread disarms it again: the next partly filled buffer is not sent in time
  (`Log.h` 518).  Storing `false` before the callback would do.
* *Lock of the FreeRTOS ports* (`LogFreertosStmHal.h` 217-224).
  `xSemaphoreTakeFromISR` does not wait, so registrations are not exclusive
  (`Log.h` 617), and two tasks can get one id.
* *Registration without a name on std::thread* (`LogStdThreadOstream.cpp`
  98-108).  `src/README.md` 170 tells to call `registerCurrentTask()`; on this
  port the tasks then share one id, and their messages interleave.
* *Number of tasks* (`Log.cpp` 110).  254 tasks get an id, not 255
  (`Log.h` 615), and the messages of the others are dropped, not handled as one.
* *`Log << Log::end`* (`Log.cpp` 307-312).  `src/README.md` 271 says of it "just for
  fun, does nothing"; the code sends a message that consists of the header.  `LogSend`
  has it as a chain that is ended at once.
* *Ports without a transmitter* (`LogStmHal.h` 98, the same in `LogStdOstream.h` and
  `LogCmsisSwo.h`).  They end a chunk at a line feed, but a message ends with a
  carriage return (`Log.h` 447): what the chunk held before is sent behind it, and the
  newline of `Log.h` 769 is never sent.
* *Formatted `int32_t`* (`Log.h` 825).  The overload is called `yappend`, so
  `-=unknown=-` is printed; `src/README.md` 317 allows a format.
* *Default format of `uint64_t`* (`Log.h` 922).  It is that of `uint32_t`, not
  `uint64Format` (`Log.h` 917).
* *Alignment* (`Log.h` 1018).  Integers get the space of `alignSigned` (`Log.h` 217) only
  when a fill is given, and unsigned ones get it as well.
* *Stack buffer* (`Log.h` 1008).  A number that is too long is refused only after one
  character was written behind the buffer.
* *Bases other than 2, 10 and 16 in a chain* (`Log.h` 1042-1047).  `src/README.md` 185-188
  says that they result in an error message and that floating point numbers do not care for
  the base, as does `Log.h` 114-115.  `send` does that; a chain prints an integer in its
  default format with no `#`, and a floating point number with the default digits instead of
  the fill given.  `ReadsBack` has it as its exception `Ignored`.
* *`cNone`* (`Log.h` 1046).  `src/README.md` 198 says that it omits the next parameter.  In
  a chain the parameter is printed in its default format, in `send` as `#`.
* *Truncation* (`Log.h` 871-876).  The comment of `append` for a character speaks of a
  message that is cut with `@` and a newline when a buffer is full, and of a result.  There is
  none of this: the chunk is pushed and the message goes on in the next one (`Log.cpp` 41-50),
  however long it is.

A refused `HAL_UART_Transmit_DMA` (`LogFreertosStmHal.h` 187) leaves
`mTransmitInProgress` set for ever: the transmitter waits in `transmitIfNeeded`, and with
`blocks` so does each task once the queue is full, which is the exception in
`SendersReturn`.  No document promises otherwise; `src/README.md` 406 knows of a lockup.

## 6. Not modelled

* Payload bytes beyond what `NumberFormat` and `LogSend` say of them, and the words of
  the header.
* Time: a timeout may happen whenever one is awaited.
* Binary floating point arithmetic: TLA+ has none, see `NumberFormat` above.
* `registerTopic`: one addition to a counter of 8 bits, which wraps (`Log.h` 633).
* Lookups in the maps of ids while a registration changes them (`Log.cpp` 138): undefined
  behaviour of which a model says no more than that.
* Shutdown (`Log.h` 609): `src/README.md` 160-162 says that the instances should not be
  destructed.
* `LogNop`, `LogStub`, `BanCopyMove` and `CmsisOsUtils`, which have no behaviour of their
  own.

## 7. What is left

The modules are complete, and every safety and action property that a run checks is proved, with both
refinements of the double buffer, that of the loop and that of the queue.  `LossyQueue` is not stated of the
queue inside `LogSystem`: a call of `push` is one step there and three in `LossyQueue`, so it would need
steps of its own that stand for them.  What could be added is that ring and buffers of `LogSystem` together
are one bounded pipe; now the order in it is proved (`EachOnce`) and that it gets empty (`RestMeansDelivered`).
