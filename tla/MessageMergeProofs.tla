------------------------- MODULE MessageMergeProofs -------------------------
(***************************************************************************)
(* What the merge of messages promises follows from its actions, whatever  *)
(* the capacity, the tasks and the number of chunks.                       *)
(***************************************************************************)
EXTENDS MessageMerge, TLAPS

USE ChunkAssumption

\* Stamps are given out in order, so nothing in the system is younger than the
\* last arrival.
Bounded ==
  /\ \A c \in held : c.stamp <= arrived
  /\ \A p \in 1 .. Len(out) : out[p].stamp <= arrived

\* The active task is that of the last chunk printed, unless it was terminal.
ActiveIsLast ==
  /\ active = InvalidTaskId => out = <<>> \/ out[Len(out)].last
  /\ active # InvalidTaskId =>
       out # <<>> /\ out[Len(out)].id = active /\ ~out[Len(out)].last

MInv ==
  /\ TypeOK /\ Bounded /\ ActiveIsLast
  /\ ExactlyOnce /\ TaskOrder /\ WholeMessages /\ FirstChunkOrder

\* The promises hold of an empty output.
LEMMA MergeInit == Init => MInv
BY DEF Init, MInv, TypeOK, Bounded, ActiveIsLast, ExactlyOnce, TaskOrder, WholeMessages,
       FirstChunkOrder

\* Printing a chunk appends it and leaves what was printed as it was.
LEMMA PrintAppends ==
  ASSUME TypeOK, NEW c \in LiveChunk, Emit(c)
  PROVE  /\ out' \in Seq(LiveChunk)
         /\ Len(out) \in Nat /\ Len(out') = Len(out) + 1
         /\ \A p \in 1 .. Len(out) : out'[p] = out[p]
         /\ out'[Len(out) + 1] = c
         /\ \A p : p \in 1 .. Len(out') <=> p \in 1 .. Len(out) \/ p = Len(out) + 1
         /\ active' \in Tasks \cup {InvalidTaskId}
BY DEF TypeOK, Emit, LiveChunk

\* Whether a position starts a message is settled when it is printed.
LEMMA StartsStable ==
  ASSUME TypeOK, NEW c \in LiveChunk, Emit(c), cuts' \subseteq cuts \cup {Len(out) + 1},
         NEW p \in 1 .. Len(out), Starts(p)'
  PROVE  Starts(p)
<1>1. p # Len(out) + 1 /\ (p # 1 => p - 1 \in 1 .. Len(out))
  BY DEF TypeOK
<1> QED
  BY <1>1, PrintAppends DEF Starts

\* The last chunk printed decides the active task.
LEMMA ActiveFollows ==
  ASSUME TypeOK, NEW c \in LiveChunk, Emit(c)
  PROVE  ActiveIsLast'
<1>1. Len(out') = Len(out) + 1 /\ out'[Len(out')] = c /\ out' # <<>>
  BY PrintAppends DEF Emit, TypeOK
<1>2. c.id \in Tasks /\ c.last \in BOOLEAN
  BY DEF LiveChunk
<1> QED
  BY <1>1, <1>2 DEF ActiveIsLast, Emit

\* A chunk that is printed while not starting a message continues the one of
\* the chunk before it.
LEMMA WholeFollows ==
  ASSUME MInv, NEW c \in LiveChunk, Emit(c), cuts \subseteq cuts',
         \/ active \in {InvalidTaskId, c.id}
         \/ Len(out) + 1 \in cuts'
  PROVE  WholeMessages'
<1> SUFFICES ASSUME NEW p \in 2 .. Len(out'), ~Starts(p)'
             PROVE  out'[p].id = out'[p - 1].id
  BY DEF WholeMessages
<1>1. TypeOK
  BY DEF MInv
<1>2. /\ Len(out) \in Nat /\ Len(out') = Len(out) + 1
      /\ \A q \in 1 .. Len(out) : out'[q] = out[q]
      /\ out'[Len(out) + 1] = c
  BY <1>1, PrintAppends
<1>3. p - 1 \in 1 .. Len(out) /\ out'[p - 1] = out[p - 1] /\ ~out[p - 1].last /\ p \notin cuts'
  BY <1>2 DEF Starts
<1>4. CASE p \in 2 .. Len(out)
  BY <1>2, <1>3, <1>4 DEF MInv, WholeMessages, Starts
<1>5. CASE p = Len(out) + 1
  BY <1>2, <1>3, <1>5 DEF MInv, ActiveIsLast
<1> QED
  BY <1>2, <1>4, <1>5

\* Printing a held chunk that is the oldest of its task, and the oldest of all
\* unless it continues the active message, keeps every promise.
LEMMA PrintHeld ==
  ASSUME MInv, NEW c \in held, IsOldest(c, OfTask(c.id)), Emit(c),
         held' = held \ {c}, arrived' = arrived,
         \/ active = c.id /\ cuts' = cuts
         \/ IsOldest(c, held) /\ active = InvalidTaskId /\ cuts' = cuts
         \/ IsOldest(c, held) /\ cuts' = cuts \cup {Len(out) + 1}
  PROVE  MInv'
<1> DEFINE n == Len(out) + 1
<1>1. TypeOK /\ c \in LiveChunk
  BY DEF MInv, TypeOK
<1>2. /\ out' \in Seq(LiveChunk) /\ Len(out) \in Nat /\ Len(out') = n
      /\ \A p \in 1 .. Len(out) : out'[p] = out[p]
      /\ out'[n] = c /\ out' = Append(out, c)
      /\ \A p : p \in 1 .. Len(out') <=> p \in 1 .. Len(out) \/ p = n
      /\ n \notin 1 .. Len(out) /\ \A p \in 1 .. Len(out) : p < n /\ ~(n < p)
  BY <1>1, PrintAppends DEF Emit
<1>3. cuts \subseteq 1 .. Len(out) /\ cuts' \subseteq cuts \cup {n}
  BY <1>1 DEF TypeOK
<1>4. TypeOK'
  <2>1. active' \in Tasks \cup {InvalidTaskId} /\ cuts' \subseteq 1 .. Len(out')
    BY <1>1, <1>2, <1>3, PrintAppends
  <2> QED
    BY <1>1, <1>2, <2>1 DEF TypeOK, LiveChunk
<1>5. Bounded'
  BY <1>2 DEF MInv, Bounded
<1>6. ActiveIsLast'
  BY <1>1, ActiveFollows
<1>7. ExactlyOnce'
  <2>1. \A p \in 1 .. Len(out) : out[p].stamp # c.stamp
    BY DEF MInv, ExactlyOnce
  <2>2. ASSUME NEW m \in 1 .. arrived
        PROVE  \/ \E d \in held' : d.stamp = m
               \/ \E p \in 1 .. Len(out') : out'[p].stamp = m
    <3>1. CASE c.stamp = m
      BY <1>2, <3>1
    <3>2. CASE \E d \in held : d # c /\ d.stamp = m
      BY <3>2
    <3>3. CASE \E p \in 1 .. Len(out) : out[p].stamp = m
      BY <1>2, <3>3
    <3> QED
      BY <3>1, <3>2, <3>3 DEF MInv, ExactlyOnce
  <2>3. \A d \in held' : \A p \in 1 .. Len(out') : out'[p].stamp # d.stamp
    BY <1>2 DEF MInv, ExactlyOnce
  <2>4. \A p, q \in 1 .. Len(out') : out'[p].stamp = out'[q].stamp => p = q
    BY <1>2, <2>1 DEF MInv, ExactlyOnce
  <2> QED
    BY <2>2, <2>3, <2>4 DEF MInv, ExactlyOnce
<1>8. \A d \in held' : d \in held /\ d.stamp # c.stamp /\ d.stamp \in Int /\ c.stamp \in Int
  BY <1>1 DEF MInv, ExactlyOnce, TypeOK, LiveChunk
<1>9. TaskOrder'
  <2>1. \A p \in 1 .. Len(out) : out[p].id = c.id => out[p].stamp < c.stamp
    BY DEF MInv, TaskOrder
  <2>2. \A d \in held' : d.id = c.id => c.stamp < d.stamp
    BY <1>8 DEF IsOldest, OfTask
  <2>3. \A p, q \in 1 .. Len(out') :
          p < q /\ out'[p].id = out'[q].id => out'[p].stamp < out'[q].stamp
    BY <1>2, <2>1 DEF MInv, TaskOrder
  <2>4. \A p \in 1 .. Len(out') : \A d \in held' :
          d.id = out'[p].id => out'[p].stamp < d.stamp
    BY <1>2, <1>8, <2>2 DEF MInv, TaskOrder
  <2> QED
    BY <2>3, <2>4 DEF TaskOrder
<1>10. WholeMessages'
  BY <1>1, WholeFollows
<1>11. FirstChunkOrder'
  <2>1. ASSUME NEW p \in 1 .. Len(out), Starts(p)'
        PROVE  /\ \A q \in 1 .. Len(out') : p < q => out'[p].stamp < out'[q].stamp
               /\ \A d \in held' : out'[p].stamp < d.stamp
    <3>1. Starts(p)
      BY <1>1, <1>3, <2>1, StartsStable
    <3> QED
      BY <1>2, <1>8, <3>1 DEF MInv, FirstChunkOrder
  <2>2. ASSUME NEW p, p = n, Starts(p)'
        PROVE  \A d \in held' : c.stamp < d.stamp
    <3>1. IsOldest(c, held)
      <4>1. CASE active = c.id /\ cuts' = cuts
        <5>1. active # InvalidTaskId
          BY <1>1, <4>1 DEF LiveChunk
        <5>2. Len(out) # 0 /\ ~out[Len(out)].last /\ n - 1 = Len(out) /\ n # 1 /\ n \notin cuts'
          BY <1>1, <1>2, <1>3, <4>1, <5>1 DEF MInv, ActiveIsLast, TypeOK
        <5>3. Len(out) \in 1 .. Len(out)
          BY <1>2, <5>2
        <5>4. out'[n - 1] = out[Len(out)]
          BY <1>2, <5>2, <5>3
        <5> QED
          BY <2>2, <5>2, <5>4 DEF Starts
      <4> QED
        BY <4>1
    <3> QED
      BY <1>8, <3>1 DEF IsOldest
  <2> QED
    BY <1>2, <2>1, <2>2 DEF FirstChunkOrder
<1> QED
  BY <1>4, <1>5, <1>6, <1>7, <1>9, <1>10, <1>11 DEF MInv

\* A chunk that arrives is younger than everything in the system.
LEMMA ArrivalIsYoungest ==
  ASSUME MInv, NEW c, Arrive(c)
  PROVE  /\ c \in LiveChunk /\ c.stamp = arrived + 1 /\ arrived' = arrived + 1
         /\ arrived \in Nat /\ arrived' \in 0 .. MaxArrivals
         /\ \A d \in held : d.stamp \in Int /\ d.stamp < c.stamp
         /\ \A p \in 1 .. Len(out) : out[p].stamp \in Int /\ out[p].stamp < c.stamp
<1>1. /\ arrived \in 0 .. MaxArrivals /\ held \subseteq LiveChunk /\ out \in Seq(LiveChunk)
      /\ arrived < MaxArrivals /\ arrived' = arrived + 1
  BY DEF MInv, TypeOK, Arrive
<1>2. c \in LiveChunk /\ c.stamp = arrived + 1
  BY <1>1 DEF Arrive, Received, LiveChunk
<1>3. \A d \in held : d.stamp \in Int
  BY <1>1 DEF LiveChunk
<1>4. \A p \in 1 .. Len(out) : out[p] \in LiveChunk
  BY <1>1
<1>5. \A p \in 1 .. Len(out) : out[p].stamp \in Int
  BY <1>4 DEF LiveChunk
<1> QED
  BY <1>1, <1>2, <1>3, <1>5 DEF MInv, Bounded

\* Printing an arriving chunk at once, with nothing of its message held, keeps
\* every promise.
LEMMA PassThroughKeeps == MInv /\ PassThrough => MInv'
<1> SUFFICES ASSUME MInv, PassThrough PROVE MInv'
  OBVIOUS
<1>1. PICK c : /\ Arrive(c) /\ Emit(c)
               /\ held' = held /\ cuts' = cuts
               /\ \/ active = InvalidTaskId /\ held = {}
                  \/ active = c.id /\ OfTask(active) = {}
  BY DEF PassThrough
<1> DEFINE n == Len(out) + 1
<1>2. TypeOK
  BY DEF MInv
<1>3. /\ c \in LiveChunk /\ c.stamp = arrived + 1 /\ arrived' = arrived + 1
      /\ arrived \in Nat /\ arrived' \in 0 .. MaxArrivals
      /\ \A d \in held : d.stamp \in Int /\ d.stamp < c.stamp
      /\ \A p \in 1 .. Len(out) : out[p].stamp \in Int /\ out[p].stamp < c.stamp
  BY <1>1, ArrivalIsYoungest
<1>4. /\ out' \in Seq(LiveChunk) /\ Len(out) \in Nat /\ Len(out') = n
      /\ \A p \in 1 .. Len(out) : out'[p] = out[p]
      /\ out'[n] = c
      /\ \A p : p \in 1 .. Len(out') <=> p \in 1 .. Len(out) \/ p = n
      /\ n \notin 1 .. Len(out) /\ \A p \in 1 .. Len(out) : p < n /\ ~(n < p)
  BY <1>1, <1>2, <1>3, PrintAppends
<1>5. cuts \subseteq 1 .. Len(out) /\ cuts' \subseteq cuts \cup {n}
  BY <1>1, <1>2 DEF TypeOK
<1>6. TypeOK'
  <2>1. active' \in Tasks \cup {InvalidTaskId} /\ cuts' \subseteq 1 .. Len(out')
    BY <1>1, <1>2, <1>3, <1>4, <1>5, PrintAppends
  <2> QED
    BY <1>1, <1>2, <1>3, <1>4, <2>1 DEF TypeOK, LiveChunk
<1>7. Bounded'
  <2>1. \A d \in held : d.stamp <= arrived'
    BY ONLY <1>3
  <2>2. \A p \in 1 .. Len(out') : out'[p].stamp <= arrived'
    BY ONLY <1>3, <1>4
  <2>3. held' = held
    BY <1>1
  <2> QED
    BY ONLY <2>1, <2>2, <2>3 DEF Bounded
<1>8. ActiveIsLast'
  BY <1>1, <1>2, <1>3, ActiveFollows
<1>9. ExactlyOnce'
  <2>1. \A m \in 1 .. arrived' : m \in 1 .. arrived \/ m = c.stamp
    BY <1>3
  <2>2. \A m \in 1 .. arrived' : \/ \E d \in held' : d.stamp = m
                                 \/ \E p \in 1 .. Len(out') : out'[p].stamp = m
    BY <1>1, <1>4, <2>1 DEF MInv, ExactlyOnce
  <2>3. \A d \in held' : \A p \in 1 .. Len(out') : out'[p].stamp # d.stamp
    BY <1>1, <1>3, <1>4 DEF MInv, ExactlyOnce
  <2>4. \A p, q \in 1 .. Len(out') : out'[p].stamp = out'[q].stamp => p = q
    BY <1>3, <1>4 DEF MInv, ExactlyOnce
  <2> QED
    BY <1>1, <2>2, <2>3, <2>4 DEF MInv, ExactlyOnce
<1>10. TaskOrder'
  <2>1. \A p, q \in 1 .. Len(out') :
          p < q /\ out'[p].id = out'[q].id => out'[p].stamp < out'[q].stamp
    BY <1>3, <1>4 DEF MInv, TaskOrder
  <2>2. \A d \in held : d.id # c.id
    BY <1>1 DEF OfTask
  <2>3. \A p \in 1 .. Len(out') : \A d \in held' : d.id = out'[p].id => out'[p].stamp < d.stamp
    BY <1>1, <1>4, <2>2 DEF MInv, TaskOrder
  <2> QED
    BY <2>1, <2>3 DEF TaskOrder
<1>11. WholeMessages'
  BY <1>1, <1>3, WholeFollows
<1>12. FirstChunkOrder'
  <2>1. ASSUME NEW p \in 1 .. Len(out), Starts(p)'
        PROVE  /\ \A q \in 1 .. Len(out') : p < q => out'[p].stamp < out'[q].stamp
               /\ \A d \in held' : out'[p].stamp < d.stamp
    <3>1. Starts(p)
      BY <1>1, <1>2, <1>3, <1>5, <2>1, StartsStable
    <3> QED
      BY <1>1, <1>3, <1>4, <3>1 DEF MInv, FirstChunkOrder
  <2>2. ASSUME NEW p, p = n, Starts(p)'
        PROVE  held = {}
    <3>1. CASE active = c.id
      <4>1. active # InvalidTaskId
        BY <1>3, <3>1 DEF LiveChunk
      <4>2. Len(out) # 0 /\ ~out[Len(out)].last /\ n - 1 = Len(out) /\ n # 1 /\ n \notin cuts'
        BY <1>1, <1>2, <1>4, <1>5, <4>1 DEF MInv, ActiveIsLast, TypeOK
      <4>3. Len(out) \in 1 .. Len(out)
        BY <1>4, <4>2
      <4>4. out'[n - 1] = out[Len(out)]
        BY <1>4, <4>2, <4>3
      <4> QED
        BY <2>2, <4>2, <4>4 DEF Starts
    <3> QED
      BY <1>1, <3>1
  <2> QED
    BY <1>1, <1>4, <2>1, <2>2 DEF FirstChunkOrder
<1> QED
  BY <1>6, <1>7, <1>8, <1>9, <1>10, <1>11, <1>12 DEF MInv

\* Holding an arriving chunk keeps every promise.
LEMMA HoldKeeps == MInv /\ Hold => MInv'
<1> SUFFICES ASSUME MInv, Hold PROVE MInv'
  OBVIOUS
<1>1. PICK c : /\ Arrive(c) /\ held' = held \cup {c}
               /\ active' = active /\ out' = out /\ cuts' = cuts
  BY DEF Hold
<1>2. /\ c \in LiveChunk /\ c.stamp = arrived + 1 /\ arrived' = arrived + 1
      /\ arrived \in Nat /\ arrived' \in 0 .. MaxArrivals
      /\ \A d \in held : d.stamp \in Int /\ d.stamp < c.stamp
      /\ \A p \in 1 .. Len(out) : out[p].stamp \in Int /\ out[p].stamp < c.stamp
  BY <1>1, ArrivalIsYoungest
<1>3. TypeOK'
  BY <1>1, <1>2 DEF MInv, TypeOK, LiveChunk
<1>4. Bounded' /\ ActiveIsLast' /\ WholeMessages'
  BY <1>1, <1>2 DEF MInv, Bounded, ActiveIsLast, WholeMessages, Starts
<1>5. ExactlyOnce'
  <2>1. \A m \in 1 .. arrived' : m \in 1 .. arrived \/ m = c.stamp
    BY <1>2
  <2>2. \A m \in 1 .. arrived' : \/ \E d \in held' : d.stamp = m
                                 \/ \E p \in 1 .. Len(out') : out'[p].stamp = m
    BY <1>1, <2>1 DEF MInv, ExactlyOnce
  <2>3. \A d \in held' : \A p \in 1 .. Len(out') : out'[p].stamp # d.stamp
    BY <1>1, <1>2 DEF MInv, ExactlyOnce
  <2>4. \A d, e \in held' : d.stamp = e.stamp => d = e
    BY <1>1, <1>2 DEF MInv, ExactlyOnce
  <2> QED
    BY <1>1, <2>2, <2>3, <2>4 DEF MInv, ExactlyOnce
<1>6. TaskOrder' /\ FirstChunkOrder'
  BY <1>1, <1>2 DEF MInv, TaskOrder, FirstChunkOrder, Starts
<1> QED
  BY <1>3, <1>4, <1>5, <1>6 DEF MInv

\* The oldest chunk held is older than all that is printed later.
LEMMA StartOldestKeeps == MInv /\ StartOldest => MInv'
<1> SUFFICES ASSUME MInv, StartOldest PROVE MInv'
  OBVIOUS
<1>1. PICK c \in held : IsOldest(c, held) /\ Emit(c) /\ held' = held \ {c}
  BY DEF StartOldest
<1>2. IsOldest(c, OfTask(c.id))
  BY <1>1 DEF IsOldest, OfTask
<1> QED
  BY <1>1, <1>2, PrintHeld DEF StartOldest

\* A chunk of the active task goes on with its message.
LEMMA ContinueKeeps == MInv /\ Continue => MInv'
<1> SUFFICES ASSUME MInv, Continue PROVE MInv'
  OBVIOUS
<1>1. PICK c \in held : IsOldest(c, OfTask(active)) /\ Emit(c) /\ held' = held \ {c}
  BY DEF Continue
<1>2. active = c.id
  BY <1>1 DEF IsOldest, OfTask
<1> QED
  BY <1>1, <1>2, PrintHeld DEF Continue

\* An overflow marks the place where it cut the message.
LEMMA OverflowKeeps == MInv /\ Overflow => MInv'
<1> SUFFICES ASSUME MInv, Overflow PROVE MInv'
  OBVIOUS
<1>1. PICK c \in held : IsOldest(c, held) /\ Emit(c) /\ held' = held \ {c}
  BY DEF Overflow
<1>2. IsOldest(c, OfTask(c.id))
  BY <1>1 DEF IsOldest, OfTask
<1> QED
  BY <1>1, <1>2, PrintHeld DEF Overflow

\* A step that changes nothing keeps the promises.
LEMMA MergeStutter == MInv /\ UNCHANGED vars => MInv'
<1> SUFFICES ASSUME MInv, UNCHANGED vars PROVE MInv'
  OBVIOUS
<1> USE DEF vars, MInv
<1>1. TypeOK' /\ Bounded'
  BY DEF TypeOK, Bounded
<1>2. ActiveIsLast'
  BY DEF ActiveIsLast
<1>3. ExactlyOnce'
  BY DEF ExactlyOnce
<1>4. TaskOrder'
  BY DEF TaskOrder
<1>5. WholeMessages'
  BY DEF WholeMessages, Starts
<1>6. FirstChunkOrder'
  BY DEF FirstChunkOrder, Starts
<1> QED
  BY <1>1, <1>2, <1>3, <1>4, <1>5, <1>6

\* The merge keeps all it promises of the output of the logger.
THEOREM MergeInv == Spec => []MInv
<1>1. MInv /\ [Next]_vars => MInv'
  BY PassThroughKeeps, HoldKeeps, StartOldestKeeps, ContinueKeeps, OverflowKeeps,
     MergeStutter DEF Next
<1> QED
  BY MergeInit, <1>1, PTL DEF Spec

\* The four promises, for use by what implements the merge.
THEOREM MergePromises == Spec => [](ExactlyOnce /\ TaskOrder /\ WholeMessages /\ FirstChunkOrder)
<1>1. MInv => ExactlyOnce /\ TaskOrder /\ WholeMessages /\ FirstChunkOrder
  BY DEF MInv
<1> QED
  BY <1>1, MergeInv, PTL

=============================================================================
