-------------------------- MODULE LogSystemProofs --------------------------
(***************************************************************************)
(* Between push and the wire no chunk is lost, repeated or put in front of *)
(* another of its sender, and messages stay in one piece, for any senders, *)
(* queue, ring and buffers.  The loop and the double buffer bring their    *)
(* theorems along; what is added here is the line of the chunks accepted.  *)
(***************************************************************************)
EXTENDS LogSystem, SequenceTheorems, TLAPS

Message == [id : Tasks, number : Nat \ {0}, last : BOOLEAN]

\* What the queue has accepted, in that order.
line == taken \o queue

\* A line m in which the chunks of every sender are in order, with those it has
\* refused and the one its sender waits with beside it, when s, l and w say how
\* much was sent, lost and waited with.
Orderly(m, s, l, w) ==
  /\ \A i, j \in 1 .. Len(m) : i < j /\ m[i].id = m[j].id => m[i].number < m[j].number
  /\ \A i \in 1 .. Len(m) :
       /\ m[i].number <= s[m[i].id]
       /\ m[i].id \in w => m[i].number < s[m[i].id]
       /\ m[i].number \notin l[m[i].id]
  /\ \A t \in Tasks :
       /\ \A n \in l[t] : 1 <= n /\ n <= s[t] /\ (t \in w => n < s[t])
       /\ t \in w => 1 <= s[t]
       /\ \A n \in 1 .. s[t] :
            \/ n \in l[t]
            \/ t \in w /\ n = s[t]
            \/ \E i \in 1 .. Len(m) : m[i].id = t /\ m[i].number = n

LineTypeOK ==
  /\ pushing \subseteq Tasks
  /\ sent \in [Tasks -> Nat]
  /\ lost \in [Tasks -> SUBSET Nat]
  /\ queue \in Seq(Message) /\ taken \in Seq(Message)

\* The chunks of the merge are those taken from the queue.
Linked ==
  /\ Len(taken) = arrived
  /\ Len(out) = written
  /\ \A c \in held : /\ c.stamp \in 1 .. Len(taken)
                     /\ taken[c.stamp].id = c.id /\ taken[c.stamp].last = c.last
  /\ \A p \in 1 .. Len(out) :
       /\ out[p].stamp \in 1 .. Len(taken)
       /\ Printed(p).id = out[p].id /\ Printed(p).last = out[p].last

Inv == LineTypeOK /\ Linked /\ Orderly(line, sent, lost, pushing)

-----------------------------------------------------------------------------
(* The line of the senders. *)

\* The parts of an element of a line.
LEMMA Elements ==
  ASSUME NEW m \in Seq(Message)
  PROVE  /\ Len(m) \in Nat
         /\ \A i \in 1 .. Len(m) : m[i] \in Message /\ m[i].id \in Tasks
                                   /\ m[i].number \in Nat /\ 1 <= m[i].number
<1>1. \A i \in 1 .. Len(m) : m[i] \in Message
  BY ElementOfSeq
<1>2. \A c \in Message : c.id \in Tasks /\ c.number \in Nat /\ 1 <= c.number
  BY DEF Message
<1> QED
  BY <1>1, <1>2, LenProperties

\* A chunk that its sender has just come up with, or was waiting with, goes to
\* the end of the line.
LEMMA AppendOrderly ==
  ASSUME NEW m \in Seq(Message), NEW l \in [Tasks -> SUBSET Nat],
         NEW s \in [Tasks -> Nat], NEW w \in SUBSET Tasks, Orderly(m, s, l, w),
         NEW sn \in [Tasks -> Nat], NEW wn \in SUBSET Tasks, NEW c \in Message,
         c.number = sn[c.id], c.id \notin wn,
         \A t \in Tasks : t # c.id => sn[t] = s[t] /\ (t \in wn <=> t \in w),
         \/ c.id \in w /\ sn[c.id] = s[c.id]
         \/ c.id \notin w /\ sn[c.id] = s[c.id] + 1
  PROVE  Orderly(Append(m, c), sn, l, wn)
<1> DEFINE mn == Append(m, c)
           u == c.id
<1>1. /\ Len(m) \in Nat /\ Len(mn) = Len(m) + 1 /\ mn[Len(m) + 1] = c
      /\ \A i \in 1 .. Len(m) : mn[i] = m[i]
      /\ \A i \in 1 .. Len(mn) : i \in 1 .. Len(m) \/ i = Len(m) + 1
  <2>1. /\ Len(m) \in Nat /\ Len(mn) = Len(m) + 1 /\ mn[Len(m) + 1] = c
        /\ \A i \in 1 .. Len(m) : mn[i] = m[i]
    BY AppendProperties, LenProperties
  <2> HIDE DEF mn
  <2> QED
    BY ONLY <2>1
<1>2. u \in Tasks /\ c.number \in Nat /\ s[u] \in Nat /\ sn[u] \in Nat
  BY DEF Message
<1>3. \A i \in 1 .. Len(m) : m[i].id \in Tasks /\ m[i].number \in Nat
                             /\ s[m[i].id] \in Nat /\ sn[m[i].id] \in Nat
  BY Elements
<1>4. \A i \in 1 .. Len(m) : m[i].id = u => m[i].number < c.number
  <2> SUFFICES ASSUME NEW i \in 1 .. Len(m), m[i].id = u
               PROVE  m[i].number < c.number
    OBVIOUS
  <2>1. m[i].number <= s[u] /\ (u \in w => m[i].number < s[u])
    BY DEF Orderly
  <2>2. m[i].number \in Nat
    BY <1>3
  <2> HIDE DEF u
  <2> QED
    BY <1>2, <2>1, <2>2 DEF u
<1>5. c.number \notin l[u]
  <2> SUFFICES ASSUME c.number \in l[u] PROVE FALSE
    OBVIOUS
  <2> HIDE DEF u
  <2>1. c.number <= s[u] /\ (u \in w => c.number < s[u])
    BY <1>2 DEF Orderly
  <2>2. c.number = sn[u]
    BY DEF u
  <2>3. (u \in w /\ sn[u] = s[u]) \/ sn[u] = s[u] + 1
    BY DEF u
  <2>4. CASE sn[u] = s[u] + 1
    BY <1>2, <2>1, <2>2, <2>4
  <2>5. CASE u \in w /\ sn[u] = s[u]
    <3>1. c.number < s[u] /\ c.number = s[u]
      BY <2>1, <2>2, <2>5
    <3> QED
      BY <1>2, <3>1
  <2> QED
    BY <2>3, <2>4, <2>5
<1>6. \A i, j \in 1 .. Len(mn) : i < j /\ mn[i].id = mn[j].id => mn[i].number < mn[j].number
  <2> SUFFICES ASSUME NEW i \in 1 .. Len(mn), NEW j \in 1 .. Len(mn), i < j, mn[i].id = mn[j].id
               PROVE  mn[i].number < mn[j].number
    OBVIOUS
  <2> HIDE DEF mn
  <2>1. i \in 1 .. Len(m) /\ mn[i] = m[i]
    BY <1>1
  <2>2. CASE j = Len(m) + 1
    BY <1>1, <1>4, <2>1, <2>2
  <2>3. CASE j \in 1 .. Len(m)
    BY <1>1, <2>1, <2>3 DEF Orderly
  <2> QED
    BY <1>1, <2>2, <2>3
<1>7. \A i \in 1 .. Len(mn) :
        /\ mn[i].number <= sn[mn[i].id]
        /\ mn[i].id \in wn => mn[i].number < sn[mn[i].id]
        /\ mn[i].number \notin l[mn[i].id]
  <2> SUFFICES ASSUME NEW i \in 1 .. Len(mn)
               PROVE  /\ mn[i].number <= sn[mn[i].id]
                      /\ mn[i].id \in wn => mn[i].number < sn[mn[i].id]
                      /\ mn[i].number \notin l[mn[i].id]
    OBVIOUS
  <2> HIDE DEF mn
  <2>1. CASE i = Len(m) + 1
    BY <1>1, <1>2, <1>5, <2>1
  <2>2. CASE i \in 1 .. Len(m)
    <3>1. /\ m[i].number <= s[m[i].id]
          /\ m[i].id \in w => m[i].number < s[m[i].id]
          /\ m[i].number \notin l[m[i].id]
      BY <2>2 DEF Orderly
    <3>2. CASE m[i].id = u
      <4>1. m[i].number <= sn[u] /\ u \notin wn
        BY <1>2, <1>3, <1>4, <2>2, <3>2
      <4> QED
        BY <1>1, <2>2, <3>1, <3>2, <4>1
    <3>3. CASE m[i].id # u
      BY <1>1, <1>3, <2>2, <3>1, <3>3
    <3> QED
      BY <3>2, <3>3
  <2> QED
    BY <1>1, <2>1, <2>2
<1>8. ASSUME NEW t \in Tasks
      PROVE  /\ \A n \in l[t] : 1 <= n /\ n <= sn[t] /\ (t \in wn => n < sn[t])
             /\ t \in wn => 1 <= sn[t]
             /\ \A n \in 1 .. sn[t] :
                  \/ n \in l[t]
                  \/ t \in wn /\ n = sn[t]
                  \/ \E i \in 1 .. Len(mn) : mn[i].id = t /\ mn[i].number = n
  <2> HIDE DEF mn, u
  <2>1. /\ \A n \in l[t] : 1 <= n /\ n <= s[t] /\ (t \in w => n < s[t])
        /\ t \in w => 1 <= s[t]
        /\ \A n \in 1 .. s[t] :
             \/ n \in l[t]
             \/ t \in w /\ n = s[t]
             \/ \E i \in 1 .. Len(m) : m[i].id = t /\ m[i].number = n
    BY DEF Orderly
  <2>2. s[t] \in Nat /\ sn[t] \in Nat /\ \A n \in l[t] : n \in Nat
    OBVIOUS
  <2>3. \A n : (\E i \in 1 .. Len(m) : m[i].id = t /\ m[i].number = n)
                 => \E i \in 1 .. Len(mn) : mn[i].id = t /\ mn[i].number = n
    BY <1>1
  <2>4. CASE t = u
    <3>1. t \notin wn /\ c.number = sn[t] /\ c.id = t
      BY <2>4 DEF u
    <3>2. \A n \in l[t] : 1 <= n /\ n <= sn[t]
      BY <1>2, <2>1, <2>2, <2>4 DEF u
    <3>3. ASSUME NEW n \in 1 .. sn[t]
          PROVE  n \in l[t] \/ \E i \in 1 .. Len(mn) : mn[i].id = t /\ mn[i].number = n
      <4>1. CASE n = sn[t]
        <5>1. Len(m) + 1 \in 1 .. Len(mn)
          BY <1>1
        <5> QED
          BY <1>1, <3>1, <4>1, <5>1
      <4>2. CASE n # sn[t]
        <5>1. n \in 1 .. s[t] /\ (t \in w => n # s[t])
          BY <2>2, <2>4, <4>2 DEF u
        <5> QED
          BY <2>1, <2>3, <5>1
      <4> QED
        BY <4>1, <4>2
    <3> QED
      BY <3>1, <3>2, <3>3
  <2>5. CASE t # u
    <3>1. sn[t] = s[t] /\ (t \in wn <=> t \in w)
      BY <2>5 DEF u
    <3> QED
      BY <2>1, <2>3, <3>1
  <2> QED
    BY <2>4, <2>5
<1> HIDE DEF mn
<1>9. Orderly(mn, sn, l, wn)
  BY <1>6, <1>7, <1>8 DEF Orderly
<1> QED
  BY <1>9 DEF mn

\* A sender comes up with its next chunk, and it is refused or has to wait.
Aside(s, l, w, sn, ln, wn) ==
  \E u \in Tasks :
    /\ u \notin w /\ sn[u] = s[u] + 1
    /\ \A t \in Tasks \ {u} : sn[t] = s[t] /\ ln[t] = l[t] /\ (t \in wn <=> t \in w)
    /\ \/ u \notin wn /\ ln[u] = l[u] \cup {sn[u]}
       \/ u \in wn /\ ln[u] = l[u]

\* The line stays in order then.
LEMMA AsideOrderly ==
  ASSUME NEW m \in Seq(Message), NEW l \in [Tasks -> SUBSET Nat],
         NEW s \in [Tasks -> Nat], NEW w \in SUBSET Tasks, Orderly(m, s, l, w),
         NEW ln \in [Tasks -> SUBSET Nat], NEW sn \in [Tasks -> Nat], NEW wn \in SUBSET Tasks,
         Aside(s, l, w, sn, ln, wn)
  PROVE  Orderly(m, sn, ln, wn)
<1> PICK u \in Tasks :
      /\ u \notin w /\ sn[u] = s[u] + 1
      /\ \A t \in Tasks \ {u} : sn[t] = s[t] /\ ln[t] = l[t] /\ (t \in wn <=> t \in w)
      /\ \/ u \notin wn /\ ln[u] = l[u] \cup {sn[u]}
         \/ u \in wn /\ ln[u] = l[u]
  BY DEF Aside
<1>1. Len(m) \in Nat /\ \A i \in 1 .. Len(m) : m[i].id \in Tasks /\ m[i].number \in Nat
  BY Elements
<1>2. ASSUME NEW i \in 1 .. Len(m)
      PROVE  /\ m[i].number <= sn[m[i].id]
             /\ m[i].id \in wn => m[i].number < sn[m[i].id]
             /\ m[i].number \notin ln[m[i].id]
  <2> DEFINE t == m[i].id
             n == m[i].number
  <2>1. t \in Tasks /\ n \in Nat
    BY <1>1
  <2>2. n <= s[t] /\ (t \in w => n < s[t]) /\ n \notin l[t]
    BY DEF Orderly
  <2> HIDE DEF t, n
  <2>3. s[t] \in Nat /\ sn[t] \in Nat
    BY <2>1
  <2>4. CASE t = u
    <3>1. n < sn[t]
      BY <2>1, <2>2, <2>3, <2>4
    <3>2. n # sn[t]
      BY <2>1, <2>3, <3>1
    <3>3. n \notin ln[t]
      BY <2>2, <2>4, <3>2
    <3>4. n <= sn[t]
      BY <2>1, <2>3, <3>1
    <3> QED
      BY <3>1, <3>3, <3>4 DEF t, n
  <2>5. CASE t # u
    <3>1. sn[t] = s[t] /\ ln[t] = l[t] /\ (t \in wn <=> t \in w)
      BY <2>1, <2>5
    <3> QED
      BY <2>2, <3>1 DEF t, n
  <2> QED
    BY <2>4, <2>5
<1>3. ASSUME NEW t \in Tasks
      PROVE  /\ \A n \in ln[t] : 1 <= n /\ n <= sn[t] /\ (t \in wn => n < sn[t])
             /\ t \in wn => 1 <= sn[t]
             /\ \A n \in 1 .. sn[t] :
                  \/ n \in ln[t]
                  \/ t \in wn /\ n = sn[t]
                  \/ \E i \in 1 .. Len(m) : m[i].id = t /\ m[i].number = n
  <2>1. /\ \A n \in l[t] : 1 <= n /\ n <= s[t] /\ (t \in w => n < s[t])
        /\ t \in w => 1 <= s[t]
        /\ \A n \in 1 .. s[t] :
             \/ n \in l[t]
             \/ t \in w /\ n = s[t]
             \/ \E i \in 1 .. Len(m) : m[i].id = t /\ m[i].number = n
    BY DEF Orderly
  <2>2. s[t] \in Nat /\ sn[t] \in Nat /\ \A n \in l[t] : n \in Nat
    OBVIOUS
  <2>3. CASE t = u
    <3>1. /\ \A n \in l[t] : 1 <= n /\ n < sn[t]
          /\ 1 <= sn[t]
      BY <2>1, <2>2, <2>3
    <3>2. \A n \in ln[t] : n \in l[t] \/ (t \notin wn /\ n = sn[t])
      BY <2>3
    <3>3. \A n \in ln[t] : 1 <= n /\ n <= sn[t] /\ (t \in wn => n < sn[t])
      BY <2>2, <3>1, <3>2
    <3>4. ASSUME NEW n \in 1 .. sn[t]
          PROVE  \/ n \in ln[t]
                 \/ t \in wn /\ n = sn[t]
                 \/ \E i \in 1 .. Len(m) : m[i].id = t /\ m[i].number = n
      <4>1. CASE n = sn[t]
        BY <2>3, <4>1
      <4>2. CASE n # sn[t]
        <5>1. n \in 1 .. s[t] /\ t \notin w
          BY <2>2, <2>3, <4>2
        <5>2. l[t] \subseteq ln[t]
          BY <2>3
        <5> QED
          BY <2>1, <5>1, <5>2
      <4> QED
        BY <4>1, <4>2
    <3> QED
      BY <3>1, <3>3, <3>4
  <2>4. CASE t # u
    <3>1. sn[t] = s[t] /\ ln[t] = l[t] /\ (t \in wn <=> t \in w)
      BY <2>4
    <3> QED
      BY <2>1, <3>1
  <2> QED
    BY <2>3, <2>4
<1> QED
  BY <1>2, <1>3 DEF Orderly

-----------------------------------------------------------------------------
(* The merge and the double buffer inside the whole. *)

MP == INSTANCE MessageMergeProofs WITH MaxArrivals <- MaxChunks
\* The timer thread of the other port has no part in this one.
PP == INSTANCE PortProofs WITH alarmed <- FALSE, timer <- "ended"

\* The assumptions of the parts.
LEMMA PartAssumptions == MP!ChunkAssumption /\ PP!TransmitAssumption
BY SystemAssumption DEF MP!ChunkAssumption, PP!TransmitAssumption

\* Each step of the merge is one of the merge whose promises were proved.
LEMMA SameMerge ==
  /\ Merge!Init => MP!Init
  /\ Merge!PassThrough => MP!PassThrough
  /\ Merge!Hold => MP!Hold
  /\ Merge!StartOldest => MP!StartOldest
  /\ Merge!Continue => MP!Continue
  /\ Merge!Overflow => MP!Overflow
<1>1. Merge!Init => MP!Init
  BY DEF Merge!Init, MP!Init
<1>2. Merge!PassThrough => MP!PassThrough
  BY DEF Merge!PassThrough, MP!PassThrough, Merge!Arrive, MP!Arrive, Merge!Emit,
         MP!Emit, Merge!Received, MP!Received, Merge!OfTask, MP!OfTask
<1>3. Merge!Hold => MP!Hold
  <2>1. Merge!Cardinality(held) = MP!Cardinality(held)
    BY DEF Merge!Cardinality, MP!Cardinality
  <2> QED
    BY <2>1 DEF Merge!Hold, MP!Hold, Merge!Arrive, MP!Arrive, Merge!Received,
                MP!Received, Merge!OfTask, MP!OfTask
<1>4. Merge!StartOldest => MP!StartOldest
  BY DEF Merge!StartOldest, MP!StartOldest, Merge!Emit, MP!Emit, Merge!IsOldest, MP!IsOldest
<1>5. Merge!Continue => MP!Continue
  BY DEF Merge!Continue, MP!Continue, Merge!Emit, MP!Emit, Merge!IsOldest,
         MP!IsOldest, Merge!OfTask, MP!OfTask
<1>6. Merge!Overflow => MP!Overflow
  <2>1. Merge!Cardinality(held) = MP!Cardinality(held)
    BY DEF Merge!Cardinality, MP!Cardinality
  <2> QED
    BY <2>1 DEF Merge!Overflow, MP!Overflow, Merge!Emit, MP!Emit, Merge!IsOldest,
                MP!IsOldest, Merge!OfTask, MP!OfTask
<1> QED
  BY <1>1, <1>2, <1>3, <1>4, <1>5, <1>6

\* Each step of the whole is one of the merge or leaves it alone.
LEMMA MergeSteps == [Next]_vars => [MP!Next]_(MP!vars)
<1>1. CASE UNCHANGED mergeVars
  BY <1>1 DEF mergeVars, MP!vars
<1>2. PrintFetched \/ HoldFetched \/ PrintHeld => MP!Next
  BY SameMerge DEF PrintFetched, HoldFetched, PrintHeld, MP!Next
<1>3. FetchNothing \/ PopHole \/ InspectInVain => UNCHANGED mergeVars
  BY DEF FetchNothing, PopHole, InspectInVain, loopVars
<1>4. Transmitter => MP!Next \/ UNCHANGED mergeVars
  BY <1>2, <1>3 DEF Transmitter, Turn, loopVars
<1>5. ASSUME NEW t \in Tasks, Enqueue(t) \/ Refuse(t) \/ Block(t) \/ Resume(t)
      PROVE  UNCHANGED mergeVars
  BY <1>5 DEF Enqueue, Refuse, Block, Resume, loopVars
<1>6. Device \/ Timer \/ UNCHANGED vars => UNCHANGED mergeVars
  BY DEF Device, Timer, vars, loopVars
<1> QED
  BY <1>1, <1>4, <1>5, <1>6 DEF Next

\* Each step of the double buffer and the device is one of those whose
\* invariant was proved.
LEMMA SamePort ==
  /\ Port!Init => PP!Init
  /\ Port!WriteChunk => PP!WriteChunk
  /\ Port!WriteNothing => PP!WriteNothing
  /\ Port!TransmitIfNeeded => PP!TransmitIfNeeded
  /\ Port!DmaSend => PP!DmaSend
  /\ Port!TransmitFinished => PP!TransmitFinished
  /\ Port!TimerExpires => PP!TimerExpires
<1>1. Port!Init => PP!Init
  BY DEF Port!Init, PP!Init, Port!TransmitInit, PP!TransmitInit, Port!Cells, PP!Cells
<1>2. Port!WriteChunk => PP!WriteChunk
  BY DEF Port!WriteChunk, PP!WriteChunk, Port!Step, PP!Step, Port!Filled, PP!Filled
<1>3. Port!WriteNothing => PP!WriteNothing
  BY DEF Port!WriteNothing, PP!WriteNothing, Port!Step, PP!Step
<1>4. Port!TransmitIfNeeded => PP!TransmitIfNeeded
  <2>1. Port!NothingToTransmit => PP!NothingToTransmit
    BY DEF Port!NothingToTransmit, PP!NothingToTransmit, Port!Step, PP!Step, Port!Filled, PP!Filled
  <2>2. Port!Partial => PP!Partial
    BY DEF Port!Partial, PP!Partial, Port!Step, PP!Step, Port!Filled, PP!Filled
  <2>3. Port!AwaitDevice => PP!AwaitDevice
    BY DEF Port!AwaitDevice, PP!AwaitDevice, Port!Step, PP!Step, Port!Filled, PP!Filled
  <2>4. Port!ForceRefresh \/ Port!NotNow \/ Port!ClearRefresh
          => PP!ForceRefresh \/ PP!NotNow \/ PP!ClearRefresh
    BY DEF Port!ForceRefresh, PP!ForceRefresh, Port!NotNow, PP!NotNow, Port!ClearRefresh,
           PP!ClearRefresh, Port!Step, PP!Step
  <2>5. Port!StartTransmit(Port!TransmitSwo \/ Port!TransmitDma \/ Port!TransmitRefused)
          => PP!StartTransmit(PP!TransmitSwo \/ PP!TransmitDma \/ PP!TransmitRefused)
    BY DEF Port!StartTransmit, PP!StartTransmit, Port!TransmitSwo, PP!TransmitSwo,
           Port!TransmitDma, PP!TransmitDma, Port!TransmitRefused, PP!TransmitRefused,
           Port!Step, PP!Step, Port!Filled, PP!Filled
  <2>6. Port!ArmTimer(Port!XTimerStart \/ Port!XTimerRefused)
          => PP!ArmTimer(PP!XTimerStart \/ PP!XTimerRefused)
    BY DEF Port!ArmTimer, PP!ArmTimer, Port!XTimerStart, PP!XTimerStart, Port!XTimerRefused,
           PP!XTimerRefused, Port!Step, PP!Step
  <2> QED
    BY <2>1, <2>2, <2>3, <2>4, <2>5, <2>6 DEF Port!TransmitIfNeeded, PP!TransmitIfNeeded
<1>5. Port!DmaSend => PP!DmaSend
  BY DEF Port!DmaSend, PP!DmaSend
<1>6. Port!TransmitFinished => PP!TransmitFinished
  BY DEF Port!TransmitFinished, PP!TransmitFinished
<1>7. Port!TimerExpires => PP!TimerExpires
  BY DEF Port!TimerExpires, PP!TimerExpires
<1> QED
  BY <1>1, <1>2, <1>3, <1>4, <1>5, <1>6, <1>7

\* Each step of the whole is one of the double buffer and its device, or
\* leaves them alone.
LEMMA PortSteps == [Next]_vars => [PP!Next]_(PP!vars)
<1>1. CASE UNCHANGED portVars
  BY <1>1 DEF portVars, PP!vars
<1>2. Turn => PP!WriteChunk \/ PP!WriteNothing
  BY SamePort DEF Turn, PrintFetched, HoldFetched, PrintHeld, FetchNothing, PopHole,
                   InspectInVain
<1>3. Transmitter => PP!Transmitter
  BY <1>2, SamePort DEF Transmitter, PP!Transmitter
<1>4. Device \/ Timer => PP!DmaSend \/ PP!TransmitFinished \/ PP!TimerExpires
  BY SamePort DEF Device, Timer
<1>5. ASSUME NEW t \in Tasks, Enqueue(t) \/ Refuse(t) \/ Block(t) \/ Resume(t)
      PROVE  UNCHANGED portVars
  BY <1>5 DEF Enqueue, Refuse, Block, Resume
<1>6. UNCHANGED vars => UNCHANGED portVars
  BY DEF vars
<1> QED
  BY <1>1, <1>3, <1>4, <1>5, <1>6 DEF Next, PP!Next

\* Inside the logger the transmitter still is the merge of messages and the
\* double buffer with its device: nothing that senders and queue do gets in
\* their way (Log.cpp:143, LogUtil.cpp:98).
THEOREM PartsRun == Spec => MP!Spec /\ PP!Spec
<1>1. Init => MP!Init /\ PP!Init
  BY SameMerge, SamePort DEF Init
<1> QED
  BY <1>1, MergeSteps, PortSteps, PTL DEF Spec, MP!Spec, PP!Spec

\* What the parts guarantee in each state of the whole.
Parts == MP!MInv /\ PP!Inv

\* Their invariants hold in each state of the whole.
LEMMA PartsHold == Spec => []Parts
<1>1. Spec => MP!Spec /\ PP!Spec
  BY PartsRun
<1>2. MP!Spec => []MP!MInv
  BY PartAssumptions, MP!MergeInv
<1>3. PP!Spec => []PP!Inv
  BY PartAssumptions, PP!InvHolds
<1> QED
  BY <1>1, <1>2, <1>3, PTL DEF Parts

-----------------------------------------------------------------------------
(* The line of the chunks accepted, and its way through the loop. *)

\* Putting at the end, and taking from the queue what was first.
LEMMA LineMoves ==
  ASSUME NEW a \in Seq(Message), NEW q \in Seq(Message)
  PROVE  /\ a \o q \in Seq(Message)
         /\ \A c \in Message : /\ Append(q, c) \in Seq(Message)
                               /\ a \o Append(q, c) = Append(a \o q, c)
         /\ q # <<>> => /\ Head(q) \in Message /\ Tail(q) \in Seq(Message)
                        /\ Append(a, Head(q)) \in Seq(Message)
                        /\ Append(a, Head(q)) \o Tail(q) = a \o q
<1>1. a \o q \in Seq(Message)
  BY ConcatProperties
<1>2. ASSUME NEW c \in Message
      PROVE  Append(q, c) \in Seq(Message) /\ a \o Append(q, c) = Append(a \o q, c)
  OBVIOUS
<1>3. ASSUME q # <<>>
      PROVE  /\ Head(q) \in Message /\ Tail(q) \in Seq(Message)
             /\ Append(a, Head(q)) \in Seq(Message)
             /\ Append(a, Head(q)) \o Tail(q) = a \o q
  BY <1>3
<1> QED
  BY <1>1, <1>2, <1>3

\* The line is one of messages.
LEMMA LineType ==
  ASSUME LineTypeOK
  PROVE  line \in Seq(Message)
BY LineMoves DEF LineTypeOK, line

\* Nothing was sent at first.
LEMMA LineInit == Init => Inv
<1> SUFFICES ASSUME Init PROVE Inv
  OBVIOUS
<1>1. line = <<>> /\ Len(line) = 0
  <2>1. <<>> \o <<>> = <<>>
    OBVIOUS
  <2> QED
    BY <2>1 DEF Init, line
<1>2. LineTypeOK
  BY DEF Init, LineTypeOK
<1>3. Linked
  BY DEF Init, Linked, Merge!Init, Port!Init, Port!TransmitInit
<1>4. Orderly(line, sent, lost, pushing)
  BY <1>1 DEF Init, Orderly
<1> QED
  BY <1>2, <1>3, <1>4 DEF Inv

\* What a sender counts when it calls push.
LEMMA Counted ==
  ASSUME LineTypeOK, NEW t \in Tasks, Call(t)
  PROVE  /\ t \notin pushing /\ sent' \in [Tasks -> Nat] /\ sent'[t] = sent[t] + 1
         /\ \A u \in Tasks : u # t => sent'[u] = sent[u]
BY DEF LineTypeOK, Call

\* Senders do not touch what was taken.
LEMMA SendersKeepLinks ==
  ASSUME Linked, UNCHANGED <<taken, loopVars, portVars>>
  PROVE  Linked'
BY DEF Linked, Printed, loopVars, mergeVars, portVars

\* A chunk goes to the end of the line as its sender calls push.
LEMMA EnqueueInv ==
  ASSUME Inv, NEW t \in Tasks, Enqueue(t)
  PROVE  Inv'
<1>1. LineTypeOK /\ Linked /\ Orderly(line, sent, lost, pushing)
  BY DEF Inv
<1>2. /\ t \notin pushing /\ sent' \in [Tasks -> Nat] /\ sent'[t] = sent[t] + 1
      /\ \A u \in Tasks : u # t => sent'[u] = sent[u]
  BY <1>1, Counted DEF Enqueue
<1>3. PICK e \in BOOLEAN : queue' = Append(queue, [id |-> t, number |-> sent[t] + 1, last |-> e])
  BY DEF Enqueue, Put
<1> DEFINE c == [id |-> t, number |-> sent[t] + 1, last |-> e]
<1>4. c \in Message /\ c.id = t /\ c.number = sent'[t]
  BY <1>1, <1>2 DEF Message, LineTypeOK
<1>5. UNCHANGED <<pushing, lost, taken>>
  BY DEF Enqueue
<1>6. Linked'
  BY <1>1, SendersKeepLinks DEF Enqueue
<1> HIDE DEF c
<1>7. line' = Append(line, c) /\ queue' \in Seq(Message) /\ line \in Seq(Message)
  BY <1>1, <1>3, <1>4, <1>5, LineMoves DEF line, LineTypeOK, c
<1>8. LineTypeOK'
  BY <1>1, <1>2, <1>5, <1>7 DEF LineTypeOK
<1>9. Orderly(Append(line, c), sent', lost, pushing)
  <2>1. /\ lost \in [Tasks -> SUBSET Nat] /\ sent \in [Tasks -> Nat]
        /\ pushing \in SUBSET Tasks
    BY <1>1 DEF LineTypeOK
  <2> QED
    BY <1>1, <1>2, <1>4, <1>7, <2>1, AppendOrderly
<1> QED
  BY <1>5, <1>6, <1>7, <1>8, <1>9 DEF Inv

\* A chunk whose sender waited goes to the end of the line.
LEMMA ResumeInv ==
  ASSUME Inv, NEW t \in Tasks, Resume(t)
  PROVE  Inv'
<1>1. LineTypeOK /\ Linked /\ Orderly(line, sent, lost, pushing)
  BY DEF Inv
<1>2. /\ lost \in [Tasks -> SUBSET Nat] /\ sent \in [Tasks -> Nat]
      /\ pushing \in SUBSET Tasks
  BY <1>1 DEF LineTypeOK
<1>3. PICK e \in BOOLEAN : queue' = Append(queue, [id |-> t, number |-> sent[t], last |-> e])
  BY DEF Resume, Put
<1> DEFINE c == [id |-> t, number |-> sent[t], last |-> e]
<1>4. c \in Message /\ c.id = t /\ c.number = sent[t]
  <2>1. 1 <= sent[t] /\ sent[t] \in Nat
    BY <1>1, <1>2 DEF Orderly, Resume
  <2> QED
    BY <2>1 DEF Message
<1>5. UNCHANGED <<sent, lost, taken>> /\ t \in pushing /\ pushing' = pushing \ {t}
  BY DEF Resume
<1>6. Linked'
  BY <1>1, SendersKeepLinks DEF Resume
<1> HIDE DEF c
<1>7. line' = Append(line, c) /\ queue' \in Seq(Message) /\ line \in Seq(Message)
  BY <1>1, <1>3, <1>4, <1>5, LineMoves DEF line, LineTypeOK, c
<1>8. LineTypeOK'
  BY <1>1, <1>2, <1>5, <1>7 DEF LineTypeOK
<1>9. Orderly(Append(line, c), sent, lost, pushing')
  <2>1. pushing' \in SUBSET Tasks /\ \A u \in Tasks : u # t => (u \in pushing' <=> u \in pushing)
    BY <1>2, <1>5
  <2> QED
    BY <1>1, <1>2, <1>4, <1>5, <1>7, <2>1, AppendOrderly
<1> QED
  BY <1>5, <1>6, <1>7, <1>8, <1>9 DEF Inv

\* A full queue refuses a chunk or makes its sender wait.
LEMMA AsideInv ==
  ASSUME Inv, NEW t \in Tasks, Refuse(t) \/ Block(t)
  PROVE  Inv'
<1>1. LineTypeOK /\ Linked /\ Orderly(line, sent, lost, pushing) /\ line \in Seq(Message)
  BY LineType DEF Inv
<1>2. /\ lost \in [Tasks -> SUBSET Nat] /\ sent \in [Tasks -> Nat]
      /\ pushing \in SUBSET Tasks
  BY <1>1 DEF LineTypeOK
<1>3. /\ t \notin pushing /\ sent' \in [Tasks -> Nat] /\ sent'[t] = sent[t] + 1
      /\ \A u \in Tasks : u # t => sent'[u] = sent[u]
  BY <1>1, Counted DEF Refuse, Block
<1>4. queue' = queue /\ taken' = taken /\ line' = line
  BY DEF Refuse, Block, queueVars, line
<1>5. Linked'
  BY <1>1, SendersKeepLinks DEF Refuse, Block, queueVars
<1>6. /\ lost' \in [Tasks -> SUBSET Nat] /\ pushing' \in SUBSET Tasks
      /\ \A u \in Tasks : u # t => lost'[u] = lost[u] /\ (u \in pushing' <=> u \in pushing)
      /\ \/ t \notin pushing' /\ lost'[t] = lost[t] \cup {sent'[t]}
         \/ t \in pushing' /\ lost'[t] = lost[t]
  <2>1. CASE Refuse(t)
    BY <1>2, <1>3, <2>1 DEF Refuse
  <2>2. CASE Block(t)
    BY <1>2, <1>3, <2>2 DEF Block
  <2> QED
    BY <2>1, <2>2
<1>7. Orderly(line, sent', lost', pushing')
  <2>1. \A u \in Tasks \ {t} : /\ sent'[u] = sent[u] /\ lost'[u] = lost[u]
                              /\ (u \in pushing' <=> u \in pushing)
    BY <1>3, <1>6
  <2>2. Aside(sent, lost, pushing, sent', lost', pushing')
    BY <1>3, <1>6, <2>1 DEF Aside
  <2> QED
    BY <1>1, <1>2, <1>3, <1>6, <2>2, AsideOrderly
<1>8. LineTypeOK'
  BY <1>1, <1>3, <1>4, <1>6 DEF LineTypeOK
<1> QED
  BY <1>4, <1>5, <1>7, <1>8 DEF Inv

\* Taking a chunk from the queue leaves the line as it is.
LEMMA FetchKeeps ==
  ASSUME Inv, Fetch, UNCHANGED senderVars
  PROVE  /\ LineTypeOK' /\ Orderly(line, sent, lost, pushing)'
         /\ Len(taken) \in Nat /\ Len(taken') = Len(taken) + 1
         /\ \A i \in 1 .. Len(taken) : taken'[i] = taken[i]
         /\ taken'[Len(taken) + 1] = Head(queue) /\ Head(queue) \in Message
<1>1. LineTypeOK /\ Orderly(line, sent, lost, pushing)
  BY DEF Inv
<1>2. queue \in Seq(Message) /\ taken \in Seq(Message)
  BY <1>1 DEF LineTypeOK
<1>3. queue # <<>> /\ queue' = Tail(queue) /\ taken' = Append(taken, Head(queue))
  BY DEF Fetch
<1>4. /\ line' = line /\ queue' \in Seq(Message) /\ taken' \in Seq(Message)
      /\ Head(queue) \in Message
  BY <1>2, <1>3, LineMoves DEF line
<1>5. UNCHANGED <<pushing, sent, lost>>
  BY DEF senderVars
<1>6. LineTypeOK' /\ Orderly(line, sent, lost, pushing)'
  BY <1>1, <1>4, <1>5 DEF LineTypeOK
<1> QED
  BY <1>2, <1>3, <1>4, <1>6, AppendProperties, LenProperties

\* The fetched chunk is the next in the line.
LEMMA FetchedLinks ==
  ASSUME Inv, Parts, Fetch, UNCHANGED senderVars
  PROVE  /\ arrived = Len(taken) /\ Fetched.stamp = Len(taken) + 1
         /\ Fetched.stamp \in 1 .. Len(taken')
         /\ taken'[Fetched.stamp].id = Fetched.id /\ taken'[Fetched.stamp].last = Fetched.last
         /\ \A i \in 1 .. Len(taken) : i \in 1 .. Len(taken') /\ taken'[i] = taken[i]
<1>1. /\ Len(taken) \in Nat /\ Len(taken') = Len(taken) + 1
      /\ \A i \in 1 .. Len(taken) : taken'[i] = taken[i]
      /\ taken'[Len(taken) + 1] = Head(queue)
  BY FetchKeeps
<1>2. arrived = Len(taken)
  BY DEF Inv, Linked
<1>3. /\ Fetched.stamp = Len(taken) + 1
      /\ Fetched.id = Head(queue).id /\ Fetched.last = Head(queue).last
  BY <1>2 DEF Fetched
<1>4. /\ Len(taken) + 1 \in 1 .. Len(taken')
      /\ \A i \in 1 .. Len(taken) : i \in 1 .. Len(taken')
  BY ONLY <1>1
<1> QED
  BY <1>1, <1>2, <1>3, <1>4

\* A chunk appended to the output that stands in the line keeps the links.
LEMMA PrintedLinks ==
  ASSUME Inv, Parts, NEW c, out' = Append(out, c), written' = written + 1,
         Len(taken') = arrived',
         c.stamp \in 1 .. Len(taken'),
         taken'[c.stamp].id = c.id, taken'[c.stamp].last = c.last,
         \A i \in 1 .. Len(taken) : i \in 1 .. Len(taken') /\ taken'[i] = taken[i],
         held' \subseteq held
  PROVE  Linked'
<1>1. /\ Len(out) \in Nat /\ Len(out') = Len(out) + 1
      /\ out'[Len(out) + 1] = c
      /\ \A p \in 1 .. Len(out) : out'[p] = out[p]
  <2>1. out \in Seq(MP!LiveChunk)
    BY DEF Parts, MP!MInv, MP!TypeOK
  <2> QED
    BY <2>1
<1>2. \A p \in 1 .. Len(out') : p \in 1 .. Len(out) \/ p = Len(out) + 1
  BY ONLY <1>1
<1>3. /\ Len(out) = written
      /\ \A d \in held : /\ d.stamp \in 1 .. Len(taken)
                         /\ taken[d.stamp].id = d.id /\ taken[d.stamp].last = d.last
      /\ \A p \in 1 .. Len(out) :
           /\ out[p].stamp \in 1 .. Len(taken)
           /\ taken[out[p].stamp].id = out[p].id /\ taken[out[p].stamp].last = out[p].last
  BY DEF Inv, Linked, Printed
<1>4. ASSUME NEW p \in 1 .. Len(out')
      PROVE  /\ out'[p].stamp \in 1 .. Len(taken')
             /\ taken'[out'[p].stamp].id = out'[p].id
             /\ taken'[out'[p].stamp].last = out'[p].last
  <2>1. CASE p = Len(out) + 1
    BY <1>1, <2>1
  <2>2. CASE p \in 1 .. Len(out)
    BY <1>1, <1>3, <2>2
  <2> QED
    BY <1>2, <2>1, <2>2
<1>5. \A d \in held' : /\ d.stamp \in 1 .. Len(taken')
                       /\ taken'[d.stamp].id = d.id /\ taken'[d.stamp].last = d.last
  BY <1>3
<1> QED
  BY <1>1, <1>3, <1>4, <1>5 DEF Linked, Printed

\* A chunk is fetched and printed at once.
LEMMA PrintFetchedInv ==
  ASSUME Inv, Parts, PrintFetched, UNCHANGED senderVars
  PROVE  Inv'
<1>1. Fetch /\ Merge!PassThrough /\ out' = Append(out, Fetched) /\ Port!WriteChunk
  BY DEF PrintFetched
<1>2. arrived' = arrived + 1 /\ held' = held /\ written' = written + 1
  BY <1>1 DEF Merge!PassThrough, Merge!Arrive, Port!WriteChunk
<1>3. Len(taken') = arrived'
  BY <1>1, <1>2, FetchKeeps DEF Inv, Linked
<1>4. Linked'
  <2> DEFINE c == Fetched
  <2>1. /\ c.stamp \in 1 .. Len(taken')
        /\ taken'[c.stamp].id = c.id /\ taken'[c.stamp].last = c.last
        /\ \A i \in 1 .. Len(taken) : i \in 1 .. Len(taken') /\ taken'[i] = taken[i]
    BY <1>1, FetchedLinks
  <2>2. out' = Append(out, c)
    BY <1>1
  <2> HIDE DEF c
  <2> QED
    BY <1>2, <1>3, <2>1, <2>2, PrintedLinks
<1> QED
  BY <1>1, <1>4, FetchKeeps DEF Inv

\* A chunk is fetched and held.
LEMMA HoldFetchedInv ==
  ASSUME Inv, Parts, HoldFetched, UNCHANGED senderVars
  PROVE  Inv'
<1>1. Fetch /\ Merge!Hold /\ held' = held \cup {Fetched} /\ Port!WriteNothing
  BY DEF HoldFetched
<1>2. arrived' = arrived + 1 /\ out' = out /\ written' = written
  BY <1>1 DEF Merge!Hold, Merge!Arrive, Port!WriteNothing
<1>3. Len(taken') = arrived'
  BY <1>1, <1>2, FetchKeeps DEF Inv, Linked
<1>4. /\ Fetched.stamp \in 1 .. Len(taken')
      /\ taken'[Fetched.stamp].id = Fetched.id /\ taken'[Fetched.stamp].last = Fetched.last
      /\ \A i \in 1 .. Len(taken) : i \in 1 .. Len(taken') /\ taken'[i] = taken[i]
  BY <1>1, FetchedLinks
<1>5. /\ Len(out) = written
      /\ \A d \in held : /\ d.stamp \in 1 .. Len(taken)
                         /\ taken[d.stamp].id = d.id /\ taken[d.stamp].last = d.last
      /\ \A p \in 1 .. Len(out) :
           /\ out[p].stamp \in 1 .. Len(taken)
           /\ taken[out[p].stamp].id = out[p].id /\ taken[out[p].stamp].last = out[p].last
  BY DEF Inv, Linked, Printed
<1>6. \A d \in held' : /\ d.stamp \in 1 .. Len(taken')
                       /\ taken'[d.stamp].id = d.id /\ taken'[d.stamp].last = d.last
  <2> SUFFICES ASSUME NEW d \in held'
               PROVE  /\ d.stamp \in 1 .. Len(taken')
                      /\ taken'[d.stamp].id = d.id /\ taken'[d.stamp].last = d.last
    OBVIOUS
  <2>1. CASE d = Fetched
    BY <1>4, <2>1
  <2>2. CASE d \in held
    BY <1>4, <1>5, <2>2
  <2> QED
    BY <1>1, <2>1, <2>2
<1>7. \A p \in 1 .. Len(out') :
        /\ out'[p].stamp \in 1 .. Len(taken')
        /\ taken'[out'[p].stamp].id = out'[p].id
        /\ taken'[out'[p].stamp].last = out'[p].last
  BY <1>2, <1>4, <1>5
<1>8. Linked'
  BY <1>2, <1>3, <1>5, <1>6, <1>7 DEF Linked, Printed
<1> QED
  BY <1>1, <1>8, FetchKeeps DEF Inv

\* What does not touch line and senders keeps their part of the invariant.
LEMMA LineUntouched ==
  ASSUME Inv, UNCHANGED senderVars, UNCHANGED queueVars
  PROVE  LineTypeOK' /\ Orderly(line, sent, lost, pushing)'
<1>1. UNCHANGED <<pushing, sent, lost, queue, taken>> /\ line' = line
  BY DEF senderVars, queueVars, line
<1> QED
  BY <1>1 DEF Inv, LineTypeOK

\* A held chunk is printed.
LEMMA PrintHeldInv ==
  ASSUME Inv, Parts, PrintHeld, UNCHANGED senderVars
  PROVE  Inv'
<1>1. Port!WriteChunk /\ UNCHANGED queueVars
  BY DEF PrintHeld
<1>2. written' = written + 1 /\ taken' = taken
  BY <1>1 DEF Port!WriteChunk, queueVars
<1>3. PICK c \in held : out' = Append(out, c) /\ held' = held \ {c} /\ arrived' = arrived
  <2>1. CASE Merge!StartOldest
    BY <2>1 DEF Merge!StartOldest, Merge!Emit
  <2>2. CASE Merge!Continue
    BY <2>2 DEF Merge!Continue, Merge!Emit
  <2>3. CASE Merge!Overflow
    BY <2>3 DEF Merge!Overflow, Merge!Emit
  <2> QED
    BY <2>1, <2>2, <2>3 DEF PrintHeld
<1>4. /\ Len(taken') = arrived'
      /\ c.stamp \in 1 .. Len(taken')
      /\ taken'[c.stamp].id = c.id /\ taken'[c.stamp].last = c.last
  BY <1>2, <1>3 DEF Inv, Linked
<1>5. held' \subseteq held
  BY <1>3
<1>6. \A i \in 1 .. Len(taken) : i \in 1 .. Len(taken') /\ taken'[i] = taken[i]
  BY <1>2
<1>7. Linked'
  BY <1>2, <1>3, <1>4, <1>5, <1>6, PrintedLinks
<1> QED
  BY <1>1, <1>7, LineUntouched DEF Inv

\* A step that prints nothing and fetches nothing.
LEMMA OtherInv ==
  ASSUME Inv, UNCHANGED senderVars, UNCHANGED queueVars, UNCHANGED mergeVars,
         written' = written
  PROVE  Inv'
<1>1. UNCHANGED <<held, out, arrived, taken>>
  BY DEF mergeVars, queueVars
<1>2. Linked'
  BY <1>1 DEF Inv, Linked, Printed
<1> QED
  BY <1>2, LineUntouched DEF Inv

\* Only a chunk written counts.
LEMMA OnlyWriteCounts ==
  /\ Port!WriteNothing => written' = written
  /\ Port!TransmitIfNeeded => written' = written
  /\ Port!DmaSend \/ Port!TransmitFinished \/ Port!TimerExpires => written' = written
<1>1. Port!WriteNothing => written' = written
  BY DEF Port!WriteNothing
<1>2. Port!TransmitIfNeeded => written' = written
  BY DEF Port!TransmitIfNeeded, Port!NothingToTransmit, Port!Partial, Port!AwaitDevice,
         Port!ForceRefresh, Port!NotNow, Port!ClearRefresh, Port!StartTransmit, Port!ArmTimer
<1>3. Port!DmaSend \/ Port!TransmitFinished \/ Port!TimerExpires => written' = written
  BY DEF Port!DmaSend, Port!TransmitFinished, Port!TimerExpires
<1> QED
  BY <1>1, <1>2, <1>3

\* Each step keeps the line in order and the links to it.
LEMMA LineStep == Inv /\ Parts /\ [Next]_vars => Inv'
<1> SUFFICES ASSUME Inv, Parts, [Next]_vars PROVE Inv'
  OBVIOUS
<1>1. CASE UNCHANGED vars
  <2>1. /\ UNCHANGED senderVars /\ UNCHANGED queueVars /\ UNCHANGED mergeVars
        /\ written' = written
    BY <1>1 DEF vars, loopVars, portVars
  <2> QED
    BY <2>1, OtherInv
<1>2. ASSUME NEW t \in Tasks, Enqueue(t) \/ Refuse(t) \/ Block(t) \/ Resume(t)
      PROVE  Inv'
  BY <1>2, EnqueueInv, AsideInv, ResumeInv
<1>3. CASE Transmitter
  <2>1. UNCHANGED senderVars
    BY <1>3 DEF Transmitter
  <2>2. CASE PrintFetched
    BY <2>1, <2>2, PrintFetchedInv
  <2>3. CASE HoldFetched
    BY <2>1, <2>3, HoldFetchedInv
  <2>4. CASE PrintHeld
    BY <2>1, <2>4, PrintHeldInv
  <2>5. CASE FetchNothing \/ PopHole \/ InspectInVain
    <3>1. UNCHANGED queueVars /\ UNCHANGED mergeVars /\ written' = written
      BY <2>5, OnlyWriteCounts DEF FetchNothing, PopHole, InspectInVain, loopVars
    <3> QED
      BY <2>1, <3>1, OtherInv
  <2>6. CASE Port!TransmitIfNeeded /\ UNCHANGED <<queueVars, loopVars>>
    <3>1. UNCHANGED queueVars /\ UNCHANGED mergeVars /\ written' = written
      BY <2>6, OnlyWriteCounts DEF loopVars
    <3> QED
      BY <2>1, <3>1, OtherInv
  <2> QED
    BY <1>3, <2>2, <2>3, <2>4, <2>5, <2>6 DEF Transmitter, Turn
<1>4. CASE Device \/ Timer
  <2>1. /\ UNCHANGED senderVars /\ UNCHANGED queueVars /\ UNCHANGED mergeVars
        /\ written' = written
    BY <1>4, OnlyWriteCounts DEF Device, Timer, loopVars
  <2> QED
    BY <2>1, OtherInv
<1> QED
  BY <1>1, <1>2, <1>3, <1>4 DEF Next

\* The line is in order, and the merge works on it, in every state.
LEMMA LineHolds == Spec => []Inv
BY LineInit, LineStep, PartsHold, PTL DEF Spec

-----------------------------------------------------------------------------
(* From the line to the road. *)

\* Places of the line: first what was taken, then the queue.
LEMMA Places ==
  ASSUME Inv
  PROVE  /\ Len(taken) \in Nat /\ Len(queue) \in Nat /\ Len(line) = Len(taken) + Len(queue)
         /\ \A i \in 1 .. Len(taken) : i \in 1 .. Len(line) /\ line[i] = taken[i]
         /\ \A j \in 1 .. Len(queue) : /\ Len(taken) + j \in 1 .. Len(line)
                                       /\ line[Len(taken) + j] = queue[j]
         /\ \A i \in 1 .. Len(line) : \/ i \in 1 .. Len(taken)
                                      \/ i - Len(taken) \in 1 .. Len(queue)
         /\ \A i \in 1 .. Len(line) : line[i].id \in Tasks /\ line[i].number \in Nat
<1>1. taken \in Seq(Message) /\ queue \in Seq(Message)
  BY DEF Inv, LineTypeOK
<1>2. /\ Len(taken) \in Nat /\ Len(queue) \in Nat /\ Len(line) = Len(taken) + Len(queue)
      /\ \A i \in 1 .. Len(line) :
           line[i] = IF i <= Len(taken) THEN taken[i] ELSE queue[i - Len(taken)]
  BY <1>1, ConcatProperties, LenProperties DEF line
<1>3. \A i \in 1 .. Len(taken) : i \in 1 .. Len(line) /\ line[i] = taken[i]
  BY <1>2
<1>4. ASSUME NEW j \in 1 .. Len(queue)
      PROVE  Len(taken) + j \in 1 .. Len(line) /\ line[Len(taken) + j] = queue[j]
  <2> DEFINE i == Len(taken) + j
  <2>1. i \in 1 .. Len(line) /\ ~(i <= Len(taken)) /\ i - Len(taken) = j
    BY <1>2
  <2> HIDE DEF i
  <2>2. line[i] = queue[j]
    BY <1>2, <2>1
  <2> QED
    BY <2>1, <2>2 DEF i
<1>5. \A i \in 1 .. Len(line) : i \in 1 .. Len(taken) \/ i - Len(taken) \in 1 .. Len(queue)
  BY ONLY <1>2
<1>6. \A i \in 1 .. Len(line) : line[i].id \in Tasks /\ line[i].number \in Nat
  BY LineType, Elements DEF Inv
<1> QED
  BY <1>2, <1>3, <1>4, <1>5, <1>6

\* What the device has sent is the beginning of what was printed.
LEMMA WireIsPrinted ==
  ASSUME Inv, Parts
  PROVE  /\ Len(wire) \in Nat /\ Len(out) \in Nat /\ Len(wire) <= Len(out)
         /\ \A i \in 1 .. Len(wire) : wire[i] = i /\ i \in 1 .. Len(out)
<1>1. PP!WireInOrder /\ PP!TypeOK
  BY DEF Parts, PP!Inv
<1>2. Len(wire) \in Nat
  <2>1. wire \in Seq(1 .. MaxChunks)
    BY <1>1 DEF PP!TypeOK, PP!TransmitTypeOK
  <2> QED
    BY <2>1, LenProperties
<1>3. Len(out) \in Nat
  <2>1. out \in Seq(MP!LiveChunk)
    BY DEF Parts, MP!MInv, MP!TypeOK
  <2> QED
    BY <2>1, LenProperties
<1>4. Len(wire) <= Len(out) /\ \A i \in 1 .. Len(wire) : wire[i] = i
  BY <1>1 DEF PP!WireInOrder, Inv, Linked
<1>5. \A i \in 1 .. Len(wire) : i \in 1 .. Len(out)
  BY ONLY <1>2, <1>3, <1>4
<1> QED
  BY <1>2, <1>3, <1>4, <1>5

\* A chunk of the road stands at place i of the line.
Stands(a, i) ==
  /\ i \in 1 .. Len(line) /\ a.chunk = line[i]
  /\ \/ /\ a.stage \in {1, 2} /\ a.place \in 1 .. Len(out) /\ i = out[a.place].stamp
        /\ a.stage = 1 <=> a.place <= Len(wire)
     \/ a.stage = 3 /\ a.place = i /\ \E c \in held : c.stamp = i
     \/ a.stage = 4 /\ a.place \in 1 .. Len(queue) /\ i = Len(taken) + a.place

\* What was printed at p, and what is held, stands at its stamp.
LEMMA StampsStand ==
  ASSUME Inv
  PROVE  /\ \A p \in 1 .. Len(out) : /\ out[p].stamp \in 1 .. Len(line)
                                     /\ out[p].stamp \in 1 .. Len(taken)
                                     /\ Printed(p) = line[out[p].stamp]
                                     /\ line[out[p].stamp].id = out[p].id
                                     /\ line[out[p].stamp].last = out[p].last
         /\ \A c \in held : /\ c.stamp \in 1 .. Len(line)
                            /\ c.stamp \in 1 .. Len(taken)
                            /\ taken[c.stamp] = line[c.stamp]
                            /\ line[c.stamp].id = c.id
BY Places DEF Inv, Linked, Printed

\* Each chunk of the road stands in the line.
LEMMA RoadStands ==
  ASSUME Inv, Parts, NEW a \in Road
  PROVE  \E i : Stands(a, i)
<1>1. /\ Len(wire) \in Nat /\ Len(out) \in Nat /\ Len(wire) <= Len(out)
      /\ \A i \in 1 .. Len(wire) : wire[i] = i /\ i \in 1 .. Len(out)
  BY WireIsPrinted
<1>2. CASE \E i \in 1 .. Len(wire) : a = [stage |-> 1, place |-> i, chunk |-> OnWire(i)]
  <2>1. PICK i \in 1 .. Len(wire) : a = [stage |-> 1, place |-> i, chunk |-> OnWire(i)]
    BY <1>2
  <2>2. a.stage = 1 /\ a.place = i /\ a.chunk = Printed(i) /\ i \in 1 .. Len(out)
        /\ i <= Len(wire)
    BY <1>1, <2>1 DEF OnWire
  <2> QED
    BY <2>2, StampsStand DEF Stands
<1>3. CASE \E p \in Len(wire) + 1 .. Len(out) :
             a = [stage |-> 2, place |-> p, chunk |-> Printed(p)]
  <2>1. PICK p \in Len(wire) + 1 .. Len(out) :
               a = [stage |-> 2, place |-> p, chunk |-> Printed(p)]
    BY <1>3
  <2>2. p \in 1 .. Len(out) /\ ~(p <= Len(wire))
    BY ONLY <1>1, p \in Len(wire) + 1 .. Len(out)
  <2>3. a.stage = 2 /\ a.place = p /\ a.chunk = Printed(p)
    BY <2>1
  <2> QED
    BY <2>2, <2>3, StampsStand DEF Stands
<1>4. CASE \E c \in held : a = [stage |-> 3, place |-> c.stamp, chunk |-> taken[c.stamp]]
  <2>1. PICK c \in held : a = [stage |-> 3, place |-> c.stamp, chunk |-> taken[c.stamp]]
    BY <1>4
  <2>2. a.stage = 3 /\ a.place = c.stamp /\ a.chunk = taken[c.stamp]
    BY <2>1
  <2> QED
    BY <2>2, StampsStand DEF Stands
<1>5. CASE \E j \in 1 .. Len(queue) : a = [stage |-> 4, place |-> j, chunk |-> queue[j]]
  <2>1. PICK j \in 1 .. Len(queue) : a = [stage |-> 4, place |-> j, chunk |-> queue[j]]
    BY <1>5
  <2>2. a.stage = 4 /\ a.place = j /\ a.chunk = queue[j]
    BY <2>1
  <2> QED
    BY <2>2, Places DEF Stands
<1> QED
  BY <1>2, <1>3, <1>4, <1>5 DEF Road

\* Of two chunks of a sender the one further on the road is further in the line.
LEMMA AheadStands ==
  ASSUME Inv, Parts, NEW a, NEW b, NEW i, NEW j, Stands(a, i), Stands(b, j),
         Ahead(a, b), a.chunk.id = b.chunk.id
  PROVE  i < j
<1>1. /\ Len(wire) \in Nat /\ Len(out) \in Nat /\ Len(taken) \in Nat /\ Len(queue) \in Nat
      /\ i \in Nat /\ j \in Nat
  BY WireIsPrinted, Places DEF Stands
<1>2. line[i].id = line[j].id
  BY DEF Stands
<1>3. /\ \A p, q \in 1 .. Len(out) : p < q /\ out[p].id = out[q].id
                                       => out[p].stamp < out[q].stamp
      /\ \A p \in 1 .. Len(out) : \A c \in held : c.id = out[p].id
                                       => out[p].stamp < c.stamp
  BY DEF Parts, MP!MInv, MP!TaskOrder
<1> DEFINE printed(x, k) == /\ x.stage \in {1, 2} /\ x.place \in 1 .. Len(out)
                            /\ k = out[x.place].stamp
                            /\ x.stage = 1 <=> x.place <= Len(wire)
           ring(x, k) == x.stage = 3 /\ x.place = k /\ \E c \in held : c.stamp = k
           queued(x, k) == x.stage = 4 /\ x.place \in 1 .. Len(queue) /\ k = Len(taken) + x.place
<1>4. printed(a, i) \/ ring(a, i) \/ queued(a, i)
  BY DEF Stands
<1>5. printed(b, j) \/ ring(b, j) \/ queued(b, j)
  BY DEF Stands
<1>6. CASE printed(a, i) /\ printed(b, j)
  <2> DEFINE p == a.place
             q == b.place
  <2>1. p \in 1 .. Len(out) /\ q \in 1 .. Len(out) /\ i = out[p].stamp /\ j = out[q].stamp
    BY <1>6
  <2>2. p < q
    <3>1. \/ a.stage < b.stage
          \/ a.stage = b.stage /\ p < q
      BY DEF Ahead
    <3>2. CASE a.stage < b.stage
      <4>1. a.stage = 1 /\ b.stage = 2
        BY <1>6, <3>2
      <4>2. p <= Len(wire) /\ ~(q <= Len(wire))
        BY <1>6, <4>1
      <4> HIDE DEF p, q
      <4> QED
        BY <1>1, <2>1, <4>2
    <3> QED
      BY <3>1, <3>2
  <2>3. out[p].id = out[q].id
    BY <1>2, <2>1, StampsStand
  <2> QED
    BY <1>3, <2>1, <2>2, <2>3
<1>7. CASE printed(a, i) /\ ring(b, j)
  <2>1. PICK c \in held : c.stamp = j
    BY <1>7
  <2>2. c.id = out[a.place].id
    BY <1>2, <1>7, <2>1, StampsStand
  <2> QED
    BY <1>3, <1>7, <2>1, <2>2
<1>8. CASE ring(a, i) /\ ring(b, j)
  BY <1>8 DEF Ahead
<1>9. CASE queued(b, j)
  <2>1. CASE queued(a, i)
    <3>1. a.place < b.place
      BY <1>9, <2>1 DEF Ahead
    <3> QED
      BY <1>1, <1>9, <2>1, <3>1
  <2>2. CASE printed(a, i) \/ ring(a, i)
    <3>1. i \in 1 .. Len(taken)
      BY <2>2, StampsStand
    <3>2. j = Len(taken) + b.place /\ b.place \in 1 .. Len(queue)
      BY <1>9
    <3> QED
      BY ONLY <1>1, <3>1, <3>2
  <2> QED
    BY <1>4, <2>1, <2>2
<1>10. CASE (ring(a, i) \/ queued(a, i)) /\ printed(b, j)
  <2>1. a.stage \in {3, 4} /\ b.stage \in {1, 2}
    BY <1>10
  <2> QED
    BY <2>1 DEF Ahead
<1>11. CASE queued(a, i) /\ ring(b, j)
  <2>1. a.stage = 4 /\ b.stage = 3
    BY <1>11
  <2> QED
    BY <2>1 DEF Ahead
<1> HIDE DEF printed, ring, queued
<1> QED
  BY <1>4, <1>5, <1>6, <1>7, <1>8, <1>9, <1>10, <1>11

\* Each chunk of the line is on the road.
LEMMA LineOnRoad ==
  ASSUME Inv, Parts, NEW i \in 1 .. Len(line)
  PROVE  \E a \in Road : a.chunk = line[i]
<1>1. /\ Len(wire) \in Nat /\ Len(out) \in Nat /\ Len(wire) <= Len(out)
      /\ \A k \in 1 .. Len(wire) : wire[k] = k /\ k \in 1 .. Len(out)
  BY WireIsPrinted
<1>2. CASE i - Len(taken) \in 1 .. Len(queue)
  <2> DEFINE j == i - Len(taken)
  <2>1. i = Len(taken) + j
    BY Places
  <2>2. line[i] = queue[j]
    BY <1>2, <2>1, Places
  <2>3. [stage |-> 4, place |-> j, chunk |-> queue[j]] \in Road
    BY <1>2 DEF Road
  <2> QED
    BY <2>2, <2>3
<1>3. CASE \E c \in held : c.stamp = i
  <2>1. PICK c \in held : c.stamp = i
    BY <1>3
  <2>2. [stage |-> 3, place |-> c.stamp, chunk |-> taken[c.stamp]] \in Road
    BY DEF Road
  <2> QED
    BY <2>1, <2>2, StampsStand
<1>4. CASE \E p \in 1 .. Len(out) : out[p].stamp = i
  <2>1. PICK p \in 1 .. Len(out) : out[p].stamp = i
    BY <1>4
  <2>2. Printed(p) = line[i]
    BY <2>1, StampsStand
  <2>3. CASE p \in 1 .. Len(wire)
    <3>1. [stage |-> 1, place |-> p, chunk |-> OnWire(p)] \in Road
      BY <2>3 DEF Road
    <3>2. OnWire(p) = Printed(p)
      BY <1>1, <2>3 DEF OnWire
    <3> QED
      BY <2>2, <3>1, <3>2
  <2>4. CASE p \in Len(wire) + 1 .. Len(out)
    <3>1. [stage |-> 2, place |-> p, chunk |-> Printed(p)] \in Road
      BY <2>4 DEF Road
    <3> QED
      BY <2>2, <3>1
  <2>5. p \in 1 .. Len(wire) \/ p \in Len(wire) + 1 .. Len(out)
    BY ONLY <1>1, p \in 1 .. Len(out)
  <2> QED
    BY <2>3, <2>4, <2>5
<1>5. CASE i \in 1 .. Len(taken)
  <2>1. i \in 1 .. arrived
    BY <1>5 DEF Inv, Linked
  <2>2. \/ \E c \in held : c.stamp = i
        \/ \E p \in 1 .. Len(out) : out[p].stamp = i
    BY <2>1 DEF Parts, MP!MInv, MP!ExactlyOnce
  <2> QED
    BY <1>3, <1>4, <2>2
<1> QED
  BY <1>2, <1>5, Places

\* On the road the chunks of each sender are in order, and what it has sent is
\* there, refused, or what it waits with, and only one of these.
LEMMA RoadInOrder == Inv /\ Parts => EachOnceInOrder
<1> SUFFICES ASSUME Inv, Parts, NEW t \in Tasks
             PROVE  LET mine == RoadOf(t)
                        numbers == {a.chunk.number : a \in mine}
                        elsewhere == lost[t] \cup (IF t \in pushing THEN {sent[t]} ELSE {})
                    IN  /\ \A a, b \in mine : Ahead(a, b) => a.chunk.number < b.chunk.number
                        /\ numbers \cup elsewhere = 1 .. sent[t]
                        /\ numbers \cap elsewhere = {}
  BY DEF EachOnceInOrder
<1> DEFINE mine == RoadOf(t)
           numbers == {a.chunk.number : a \in mine}
           elsewhere == lost[t] \cup (IF t \in pushing THEN {sent[t]} ELSE {})
<1>1. /\ \A i, j \in 1 .. Len(line) : i < j /\ line[i].id = line[j].id
                                        => line[i].number < line[j].number
      /\ \A i \in 1 .. Len(line) :
           /\ line[i].number <= sent[line[i].id]
           /\ line[i].id \in pushing => line[i].number < sent[line[i].id]
           /\ line[i].number \notin lost[line[i].id]
      /\ \A n \in lost[t] : 1 <= n /\ n <= sent[t]
      /\ t \in pushing => 1 <= sent[t]
      /\ \A n \in 1 .. sent[t] :
           \/ n \in lost[t]
           \/ t \in pushing /\ n = sent[t]
           \/ \E i \in 1 .. Len(line) : line[i].id = t /\ line[i].number = n
  BY DEF Inv, Orderly
<1>2. sent[t] \in Nat /\ \A n \in lost[t] : n \in Nat
  BY DEF Inv, LineTypeOK
<1>3. \A a, b \in mine : Ahead(a, b) => a.chunk.number < b.chunk.number
  <2> SUFFICES ASSUME NEW a \in mine, NEW b \in mine, Ahead(a, b)
               PROVE  a.chunk.number < b.chunk.number
    OBVIOUS
  <2>1. a \in Road /\ b \in Road /\ a.chunk.id = b.chunk.id
    BY DEF RoadOf
  <2>2. PICK i, j : Stands(a, i) /\ Stands(b, j)
    BY <2>1, RoadStands
  <2>3. i < j
    BY <2>1, <2>2, AheadStands
  <2>4. /\ i \in 1 .. Len(line) /\ j \in 1 .. Len(line)
        /\ a.chunk = line[i] /\ b.chunk = line[j]
    BY <2>2 DEF Stands
  <2> QED
    BY <1>1, <2>1, <2>3, <2>4
<1>4. ASSUME NEW n \in numbers
      PROVE  \E i \in 1 .. Len(line) : line[i].id = t /\ line[i].number = n
  <2>1. PICK a \in mine : n = a.chunk.number
    OBVIOUS
  <2>2. a \in Road /\ a.chunk.id = t
    BY <2>1 DEF RoadOf
  <2>3. PICK i : Stands(a, i)
    BY <2>2, RoadStands
  <2> QED
    BY <2>1, <2>2, <2>3 DEF Stands
<1>5. ASSUME NEW i \in 1 .. Len(line), line[i].id = t
      PROVE  line[i].number \in numbers
  <2>1. PICK a \in Road : a.chunk = line[i]
    BY LineOnRoad
  <2>2. a \in mine
    BY <1>5, <2>1 DEF RoadOf
  <2> QED
    BY <2>1, <2>2
<1>6. \A i \in 1 .. Len(line) : line[i].number \in Nat /\ 1 <= line[i].number
  BY LineType, Elements DEF Inv
<1> HIDE DEF numbers, mine
<1>7. ASSUME NEW n \in numbers
      PROVE  n \in 1 .. sent[t] /\ n \notin elsewhere
  <2>1. PICK i \in 1 .. Len(line) : line[i].id = t /\ line[i].number = n
    BY <1>4
  <2>2. n \in Nat /\ 1 <= n /\ n <= sent[t]
    BY <1>1, <1>6, <2>1
  <2>3. n \notin lost[t] /\ (t \in pushing => n < sent[t])
    BY <1>1, <2>1
  <2>4. t \in pushing => n # sent[t]
    BY <1>2, <2>2, <2>3
  <2>5. n \in 1 .. sent[t]
    BY <1>2, <2>2
  <2> QED
    BY <2>3, <2>4, <2>5
<1>8. \A n \in elsewhere : n \in 1 .. sent[t]
  <2>1. \A n \in lost[t] : n \in 1 .. sent[t]
    BY <1>1, <1>2
  <2>2. t \in pushing => sent[t] \in 1 .. sent[t]
    BY <1>1, <1>2
  <2> QED
    BY <2>1, <2>2
<1>9. ASSUME NEW n \in 1 .. sent[t]
      PROVE  n \in numbers \cup elsewhere
  <2>1. CASE \E i \in 1 .. Len(line) : line[i].id = t /\ line[i].number = n
    BY <1>5, <2>1
  <2>2. CASE n \in lost[t] \/ (t \in pushing /\ n = sent[t])
    BY <2>2
  <2> QED
    BY <1>1, <2>1, <2>2
<1>10. numbers \cup elsewhere = 1 .. sent[t] /\ numbers \cap elsewhere = {}
  <2> HIDE DEF elsewhere
  <2> QED
    BY <1>7, <1>8, <1>9
<1> QED
  BY <1>3, <1>10 DEF numbers, mine

\* Queue, ring, double buffer and device keep the chunks of each sender in
\* order, lose none that was accepted and repeat none, whatever the sizes, and
\* whether device and timer start or not (Log.cpp:143, LogUtil.cpp:98).
THEOREM EachOnce == Spec => []EachOnceInOrder
BY LineHolds, PartsHold, RoadInOrder, PTL

\* Chunks that follow each other in a message cannot be apart: the first in
\* between would start no message, so it would be of the same one.
LEMMA PrintedTogether == Inv /\ Parts => MessagesContiguous
<1> SUFFICES ASSUME Inv, Parts, NEW p \in 1 .. Len(wire), NEW q \in 1 .. Len(wire),
                    OnWire(p).id = OnWire(q).id, OnWire(q).number = OnWire(p).number + 1,
                    ~OnWire(p).last, \A k \in p + 1 .. q : k \notin cuts, q # p + 1
             PROVE  FALSE
  BY DEF MessagesContiguous
<1> DEFINE r == p + 1
           n(k) == line[out[k].stamp].number
<1>1. /\ Len(out) \in Nat /\ p \in 1 .. Len(out) /\ q \in 1 .. Len(out)
      /\ wire[p] = p /\ wire[q] = q
  BY WireIsPrinted
<1>2. \A k \in 1 .. Len(out) : /\ out[k].stamp \in 1 .. Len(line)
                               /\ Printed(k) = line[out[k].stamp]
                               /\ line[out[k].stamp].id = out[k].id
                               /\ line[out[k].stamp].last = out[k].last
                               /\ n(k) \in Nat
  BY StampsStand, Places
<1>3. out[p].id = out[q].id /\ n(q) = n(p) + 1 /\ ~out[p].last
  <2>1. OnWire(p) = Printed(p) /\ OnWire(q) = Printed(q)
    BY <1>1 DEF OnWire
  <2>2. /\ Printed(p).id = Printed(q).id /\ Printed(q).number = Printed(p).number + 1
        /\ ~Printed(p).last
    BY <2>1
  <2>3. /\ Printed(p).id = out[p].id /\ Printed(p).number = n(p)
        /\ Printed(q).id = out[q].id /\ Printed(q).number = n(q)
    BY <1>1, <1>2
  <2>4. Printed(p).last = out[p].last
    BY <1>1, <1>2
  <2> QED
    BY <2>2, <2>3, <2>4
<1>4. \A i, j \in 1 .. Len(out) : i < j /\ out[i].id = out[j].id => n(i) < n(j)
  <2>1. \A i, j \in 1 .. Len(line) : i < j /\ line[i].id = line[j].id
                                       => line[i].number < line[j].number
    BY DEF Inv, Orderly
  <2> SUFFICES ASSUME NEW i \in 1 .. Len(out), NEW j \in 1 .. Len(out),
                      i < j, out[i].id = out[j].id
               PROVE  n(i) < n(j)
    OBVIOUS
  <2> DEFINE x == out[i].stamp
             y == out[j].stamp
  <2>2. x < y
    BY DEF Parts, MP!MInv, MP!TaskOrder
  <2>3. x \in 1 .. Len(line) /\ y \in 1 .. Len(line) /\ line[x].id = line[y].id
    BY <1>2
  <2> HIDE DEF x, y
  <2>4. line[x].number < line[y].number
    BY ONLY <2>1, <2>2, <2>3
  <2> QED
    BY <2>4 DEF x, y
<1> HIDE DEF n
<1>5. p < q
  <2>1. n(p) \in Nat /\ n(q) \in Nat
    BY <1>1, <1>2
  <2>2. ASSUME p = q PROVE FALSE
    <3>1. n(p) = n(p) + 1
      BY <1>3, <2>2
    <3> QED
      BY <2>1, <3>1
  <2>3. ASSUME q < p PROVE FALSE
    <3>1. n(q) < n(p)
      BY <1>1, <1>3, <1>4, <2>3
    <3> QED
      BY ONLY <1>3, <2>1, <3>1
  <2> QED
    BY <2>2, <2>3
<1>6. r \in 2 .. Len(out) /\ r < q /\ r \in 1 .. Len(out) /\ r - 1 = p /\ p < r /\ r # 1
      /\ r \in p + 1 .. q
  BY ONLY <1>1, <1>5, q # p + 1
<1> HIDE DEF r
<1>7. r \notin cuts
  BY <1>6
<1>8. out[r].id = out[r - 1].id
  <2>1. ~MP!Starts(r)
    BY <1>3, <1>6, <1>7 DEF MP!Starts
  <2> QED
    BY <1>6, <2>1 DEF Parts, MP!MInv, MP!WholeMessages
<1>9. n(p) < n(r) /\ n(r) < n(q)
  BY <1>1, <1>3, <1>4, <1>6, <1>8
<1>10. n(p) \in Nat /\ n(q) \in Nat /\ n(r) \in Nat
  BY <1>1, <1>2, <1>6
<1> QED
  BY <1>3, <1>9, <1>10

\* On the wire a message is in one piece, except where chunks were refused or
\* the full ring cut it (Log.h:516).
THEOREM Contiguous == Spec => []MessagesContiguous
BY LineHolds, PartsHold, PrintedTogether, PTL

-----------------------------------------------------------------------------
(* What is on the wire when the logger has come to rest. *)

\* A ring that counts as searched holds nothing of the active task, and nothing at all
\* between two messages.
Searched == inspected => \A c \in held : active # InvalidTaskId /\ c.id # active

\* The flag is cleared by whatever could make it untrue.
LEMMA SearchedStep == Inv /\ Parts /\ Searched /\ [Next]_vars => Searched'
<1> SUFFICES ASSUME Inv, Parts, Searched, [Next]_vars, inspected', NEW c \in held'
             PROVE  active' # InvalidTaskId /\ c.id # active'
  BY DEF Searched
<1>1. CASE UNCHANGED loopVars
  BY <1>1 DEF loopVars, mergeVars, Searched
<1>2. CASE PrintFetched
  <2>1. PICK d : /\ (active = InvalidTaskId /\ held = {}) \/ active = d.id
                 /\ out' = Append(out, d) /\ held' = held
                 /\ active' = IF d.last THEN InvalidTaskId ELSE d.id
    BY <1>2 DEF PrintFetched, Merge!PassThrough, Merge!Emit
  <2>2. inspected /\ ~Fetched.last /\ out' = Append(out, Fetched)
    BY <1>2 DEF PrintFetched
  <2>3. d = Fetched
    <3>1. out \in Seq(MP!LiveChunk)
      BY DEF Parts, MP!MInv, MP!TypeOK
    <3>2. ASSUME NEW e
          PROVE  Append(out, e)[Len(out) + 1] = e
      BY <3>1
    <3> QED
      BY <2>1, <2>2, <3>2
  <2> QED
    BY <2>1, <2>2, <2>3 DEF Searched
<1>3. CASE HoldFetched
  <2>1. PICK d : /\ active \notin {InvalidTaskId, d.id}
                 /\ held' = held \cup {d} /\ active' = active
    BY <1>3 DEF HoldFetched, Merge!Hold
  <2>2. inspected
    BY <1>3 DEF HoldFetched
  <2> QED
    BY <2>1, <2>2 DEF Searched
<1>4. CASE PrintHeld
  BY <1>4 DEF PrintHeld
<1>5. CASE FetchNothing \/ PopHole
  BY <1>5 DEF FetchNothing, PopHole, loopVars, mergeVars, Searched
<1>6. CASE InspectInVain
  BY <1>6 DEF InspectInVain, mergeVars, Merge!OfTask
<1>7. CASE Transmitter
  BY <1>1, <1>2, <1>3, <1>4, <1>5, <1>6, <1>7 DEF Transmitter, Turn
<1>8. CASE Device \/ Timer \/ UNCHANGED vars
  BY <1>1, <1>8 DEF Device, Timer, vars
<1>9. ASSUME NEW t \in Tasks, Enqueue(t) \/ Refuse(t) \/ Block(t) \/ Resume(t)
      PROVE  UNCHANGED loopVars
  BY <1>9 DEF Enqueue, Refuse, Block, Resume
<1> QED
  BY <1>1, <1>7, <1>8, <1>9 DEF Next

\* So it never lies.
LEMMA SearchedHolds == Spec => []Searched
<1>1. Init => Searched
  BY DEF Init, Merge!Init, Searched
<1> QED
  BY <1>1, SearchedStep, LineHolds, PartsHold, PTL DEF Spec

\* The next turns of the loop wait for the empty queue, and neither device nor timer
\* has anything to do.
Resting == queue = <<>> /\ Fetches /\ PP!AtRest

\* The safety side of Delivered: at rest, with no end of a message missing and nothing
\* refused by device or timer, all that was accepted is on the wire.
NothingOnTheWay == Resting /\ Quiet => \A a \in Road : a.stage = 1

\* No chunk stays behind in the double buffer of the logger at rest.
LEMMA BuffersEmpty == Spec => []PP!NothingLeft
<1>1. PP!Spec => []PP!NothingLeft
  BY PartAssumptions, PP!NothingForgotten
<1> QED
  BY <1>1, PartsRun, PTL

\* The ring holds nothing back: it would only wait for the rest of the active message,
\* which is on its way, and the only place left for that is the ring itself.
LEMMA RingEmpty ==
  ASSUME Inv, Parts, Searched, Resting, Quiet, Len(wire) = Len(out)
  PROVE  held = {}
<1> SUFFICES ASSUME held # {} PROVE FALSE
  OBVIOUS
<1> DEFINE n == Len(out)
           a == [stage |-> 1, place |-> n, chunk |-> OnWire(n)]
<1>1. active # InvalidTaskId /\ \A c \in held : c.id # active
  BY DEF Resting, Fetches, IsEmpty, Searched
<1>2. out # <<>> /\ out[n].id = active /\ ~out[n].last /\ active \in Tasks
  BY <1>1 DEF Parts, MP!MInv, MP!ActiveIsLast, MP!TypeOK
<1>3. n \in Nat /\ n # 0
  <2>1. out \in Seq(MP!LiveChunk)
    BY DEF Parts, MP!MInv, MP!TypeOK
  <2> QED
    BY <1>2, <2>1, EmptySeq, LenProperties
<1>4. n \in 1 .. Len(out) /\ n \in 1 .. Len(wire)
  BY <1>3
<1>5. OnWire(n).id = active /\ ~OnWire(n).last
  <2>1. OnWire(n) = Printed(n)
    BY <1>4, WireIsPrinted DEF OnWire
  <2> QED
    BY <1>2, <1>4, <2>1 DEF Inv, Linked
<1>6. a \in RoadOf(active)
  BY <1>4, <1>5 DEF Road, RoadOf
<1>7. PICK b \in RoadOf(active) : Ahead(a, b)
  <2>1. ~a.chunk.last
    BY <1>5
  <2> QED
    BY <1>2, <1>6, <2>1 DEF Quiet, Terminated
<1>8. PICK j : Stands(b, j)
  BY <1>7, RoadStands DEF RoadOf
<1>9. CASE b.stage = 3
  <2>1. PICK c \in held : c.stamp = j
    BY <1>8, <1>9 DEF Stands
  <2>2. c.id = active
    BY <1>8, <2>1, StampsStand DEF Stands, RoadOf
  <2> QED
    BY <1>1, <2>2
<1>10. CASE b.stage = 4
  BY <1>8, <1>10, EmptySeq DEF Stands, Resting
<1>11. CASE b.stage \in {1, 2}
  <2>1. b.place \in 1 .. n /\ b.place <= n
    BY <1>3, <1>8, <1>11 DEF Stands
  <2>2. b.stage = 1
    BY <1>8, <1>11, <2>1 DEF Stands
  <2>3. n < b.place
    BY <1>7, <2>2 DEF Ahead
  <2> QED
    BY <1>3, <2>1, <2>3
<1> QED
  BY <1>8, <1>9, <1>10, <1>11 DEF Stands

\* When nobody logs any more and the loop has nothing but the queue to wait for, every
\* chunk accepted is on the wire: no place of the road from queue to device is left out by
\* those who look at the others (Log.cpp:143, LogUtil.cpp:98).
THEOREM RestMeansDelivered == Spec => []NothingOnTheWay
<1>1. Inv /\ Parts /\ Searched /\ PP!NothingLeft => NothingOnTheWay
  <2> SUFFICES ASSUME Inv, Parts, Searched, PP!NothingLeft, Resting, Quiet, NEW a \in Road
               PROVE  a.stage = 1
    BY DEF NothingOnTheWay
  <2>1. Len(wire) = Len(out)
    <3>1. failed = {} /\ PP!AtRest
      BY DEF Quiet, Resting
    <3>2. Len(wire) = written
      BY <3>1 DEF PP!NothingLeft
    <3> QED
      BY <3>2 DEF Inv, Linked
  <2>2. held = {}
    BY <2>1, RingEmpty
  <2>3. PICK i : Stands(a, i)
    BY RoadStands
  <2>4. a.stage # 4
    BY <2>3, EmptySeq DEF Stands, Resting
  <2>5. a.stage \in {1, 2} => a.stage = 1
    BY <2>1, <2>3, WireIsPrinted DEF Stands
  <2> QED
    BY <2>2, <2>3, <2>4, <2>5 DEF Stands
<1> QED
  BY <1>1, LineHolds, PartsHold, SearchedHolds, BuffersEmpty, PTL

=============================================================================
