------------------------ MODULE FreeRtosQueueProofs ------------------------
(***************************************************************************)
(* The blocks of the std::thread queue go round without loss and without a *)
(* second owner, and the queue keeps its promise, for any number of        *)
(* senders and blocks.                                                     *)
(***************************************************************************)
EXTENDS FreeRtosQueue, SequenceTheorems, FiniteSetTheorems, TLAPS

USE QueueAssumption

\* The blocks that the threads hold.
WithSenders == {spayload[s] : s \in Senders} \ {NoBlock}
WithTransmitter == {rpayload} \ {NoBlock}

\* No block is twice in a queue, in two queues, or in the hands of a thread
\* while another thread or a queue has it.
Apart ==
  /\ IsInjective(freeList) /\ IsInjective(mQueue)
  /\ \A s, r \in Senders : spayload[s] = spayload[r] /\ spayload[s] # NoBlock => s = r
  /\ Range(freeList) \cap Range(mQueue) = {}
  /\ (Range(freeList) \cup Range(mQueue)) \cap (WithSenders \cup WithTransmitter) = {}
  /\ WithSenders \cap WithTransmitter = {}

NoneLeaks == Blocks = Range(freeList) \cup Range(mQueue) \cup WithSenders \cup WithTransmitter

\* Where a thread stands tells whether it holds a block.
HoldsBlock ==
  /\ \A s \in Senders : spayload[s] # NoBlock <=> spc[s] \in {"copy", "push"}
  /\ rpayload # NoBlock <=> rpc \in {"copy", "free"}

\* What is passed on is a chunk that was sent.
Filled ==
  /\ \A s \in Senders : spc[s] = "push" => memory[spayload[s]] = ChunkOf(s, sent[s])
  /\ \A b \in Range(mQueue) : memory[b] \in Chunks
  /\ rpc = "copy" => memory[rpayload] \in Chunks
  /\ rpc = "free" => chunk \in Chunks
  /\ \A s \in Senders : spc[s] # "idle" => sent[s] # 0

\* Nobody else takes what was in the queue when receive was called.
SinceCall ==
  /\ rpc = "wait" => atCall = 0
  /\ rpc = "pop" /\ atCall # 0 => mQueue # <<>>

Owners == Apart /\ NoneLeaks

Inv == TypeOK /\ Owners /\ HoldsBlock /\ Filled /\ SinceCall

-----------------------------------------------------------------------------
\* A queue of blocks loses its head.
LEMMA TailFacts ==
  ASSUME NEW q \in Seq(Blocks), q # <<>>, IsInjective(q)
  PROVE  /\ Head(q) \in Range(q) /\ Range(q) \subseteq Blocks
         /\ Tail(q) \in Seq(Blocks) /\ IsInjective(Tail(q))
         /\ Range(Tail(q)) = Range(q) \ {Head(q)}
<1>1. /\ Len(q) \in Nat \ {0} /\ DOMAIN q = 1 .. Len(q)
      /\ \A i \in 1 .. Len(q) : q[i] \in Blocks
  BY EmptySeq, LenProperties, ElementOfSeq
<1>2. /\ Tail(q) \in Seq(Blocks) /\ Len(Tail(q)) = Len(q) - 1
      /\ DOMAIN Tail(q) = 1 .. Len(q) - 1
      /\ \A i \in 1 .. Len(q) - 1 : Tail(q)[i] = q[i + 1]
      /\ Head(q) = q[1]
  BY HeadTailProperties, LenProperties
<1>3. Head(q) \in Range(q) /\ Range(q) \subseteq Blocks
  BY <1>1, <1>2 DEF Range
<1>4. IsInjective(Tail(q))
  BY <1>1, <1>2 DEF IsInjective
<1>5. Range(Tail(q)) = Range(q) \ {Head(q)}
  <2>1. ASSUME NEW b \in Range(Tail(q))
        PROVE  b \in Range(q) \ {Head(q)}
    BY <1>1, <1>2 DEF Range, IsInjective
  <2>2. ASSUME NEW b \in Range(q), b # Head(q)
        PROVE  b \in Range(Tail(q))
    <3>1. PICK i \in 1 .. Len(q) : b = q[i]
      BY <1>1 DEF Range
    <3>2. i - 1 \in 1 .. Len(q) - 1 /\ Tail(q)[i - 1] = b
      BY <1>1, <1>2, <2>2, <3>1
    <3> QED
      BY <1>2, <3>2 DEF Range
  <2> QED
    BY <2>1, <2>2
<1> QED
  BY <1>2, <1>3, <1>4, <1>5

\* A queue of blocks gets one that it does not have.
LEMMA AppendFacts ==
  ASSUME NEW q \in Seq(Blocks), NEW b \in Blocks, IsInjective(q), b \notin Range(q)
  PROVE  /\ Append(q, b) \in Seq(Blocks) /\ IsInjective(Append(q, b))
         /\ Range(Append(q, b)) = Range(q) \cup {b}
         /\ Append(q, b) # <<>>
<1>1. Len(q) \in Nat /\ DOMAIN q = 1 .. Len(q)
  BY LenProperties
<1>2. /\ Append(q, b) \in Seq(Blocks) /\ Append(q, b) # <<>>
      /\ DOMAIN Append(q, b) = 1 .. Len(q) + 1
      /\ \A i \in 1 .. Len(q) : Append(q, b)[i] = q[i]
      /\ Append(q, b)[Len(q) + 1] = b
  BY AppendProperties, LenProperties
<1> DEFINE r == Append(q, b)
<1> HIDE DEF r
<1>3. IsInjective(r)
  BY <1>1, <1>2 DEF IsInjective, Range, r
<1>4. Range(r) = Range(q) \cup {b}
  BY <1>1, <1>2 DEF Range, r
<1> QED
  BY <1>2, <1>3, <1>4 DEF r

\* A queue that lacks a block has room for it.
LEMMA RoomFor ==
  ASSUME NEW q \in Seq(Blocks), NEW b \in Blocks, IsInjective(q), b \notin Range(q)
  PROVE  Len(q) < BlockCount
<1>1. Len(q) \in Nat /\ q \in [1 .. Len(q) -> Blocks] /\ DOMAIN q = 1 .. Len(q)
  BY LenProperties
<1>2. IsFiniteSet(Blocks) /\ Cardinality(Blocks) = BlockCount
  BY FS_Interval DEF Blocks
<1>3. IsFiniteSet(Blocks \ {b}) /\ Cardinality(Blocks \ {b}) = BlockCount - 1
  BY <1>2, FS_RemoveElement
<1>4. q \in Injection(1 .. Len(q), Blocks \ {b})
  BY <1>1 DEF Injection, IsInjective, Range
<1>5. Cardinality(1 .. Len(q)) <= BlockCount - 1
  BY <1>3, <1>4, FS_Injection
<1>6. Cardinality(1 .. Len(q)) = Len(q)
  BY <1>1, FS_Interval
<1> QED
  BY <1>1, <1>5, <1>6

\* No queue of blocks without repetition is longer than there are blocks.
LEMMA NeverLonger ==
  ASSUME NEW q \in Seq(Blocks), IsInjective(q)
  PROVE  Len(q) \in 0 .. BlockCount
<1>1. Len(q) \in Nat /\ q \in [1 .. Len(q) -> Blocks] /\ DOMAIN q = 1 .. Len(q)
  BY LenProperties
<1>2. IsFiniteSet(Blocks) /\ Cardinality(Blocks) = BlockCount
  BY FS_Interval DEF Blocks
<1>3. q \in Injection(1 .. Len(q), Blocks)
  BY <1>1 DEF Injection, IsInjective
<1>4. Cardinality(1 .. Len(q)) <= BlockCount
  BY <1>2, <1>3, FS_Injection
<1>5. Cardinality(1 .. Len(q)) = Len(q)
  BY <1>1, FS_Interval
<1> QED
  BY <1>1, <1>4, <1>5

-----------------------------------------------------------------------------
\* The types of what holds blocks.
LEMMA Types ==
  ASSUME TypeOK
  PROVE  /\ freeList \in Seq(Blocks) /\ mQueue \in Seq(Blocks)
         /\ spayload \in [Senders -> Blocks \cup {NoBlock}]
         /\ rpayload \in Blocks \cup {NoBlock}
         /\ spc \in [Senders -> {"idle", "pop", "sleep", "copy", "push", "notify"}]
         /\ NoBlock \notin Blocks
BY DEF TypeOK, Blocks, NoBlock

\* A sender gets a block.
LEMMA SenderGets ==
  ASSUME spayload \in [Senders -> Blocks \cup {NoBlock}], NEW s \in Senders,
         NEW b \in Blocks, spayload[s] = NoBlock, spayload' = [spayload EXCEPT ![s] = b]
  PROVE  WithSenders' = WithSenders \cup {b}
<1>1. NoBlock \notin Blocks
  BY DEF Blocks, NoBlock
<1> QED
  BY <1>1 DEF WithSenders

\* A sender gives its block away, which no other sender has.
LEMMA SenderGives ==
  ASSUME spayload \in [Senders -> Blocks \cup {NoBlock}], NEW s \in Senders,
         \A r \in Senders : spayload[s] = spayload[r] /\ spayload[s] # NoBlock => s = r,
         spayload[s] # NoBlock, spayload' = [spayload EXCEPT ![s] = NoBlock]
  PROVE  WithSenders' = WithSenders \ {spayload[s]}
BY DEF WithSenders

\* The head of the free list goes to a sender.
LEMMA PopFreeOwners ==
  ASSUME TypeOK, Owners, NEW s \in Senders, freeList # <<>>, spayload[s] = NoBlock,
         spayload' = [spayload EXCEPT ![s] = Head(freeList)], freeList' = Tail(freeList),
         UNCHANGED <<mQueue, rpayload>>
  PROVE  Owners' /\ freeList' \in Seq(Blocks) /\ Head(freeList) \in Blocks
<1> DEFINE b == Head(freeList)
<1>1. /\ b \in Range(freeList) /\ Range(freeList) \subseteq Blocks
      /\ freeList' \in Seq(Blocks) /\ IsInjective(freeList')
      /\ Range(freeList') = Range(freeList) \ {b}
  BY Types, TailFacts DEF Owners, Apart
<1>2. WithSenders' = WithSenders \cup {b} /\ WithTransmitter' = WithTransmitter
  BY <1>1, Types, SenderGets DEF WithTransmitter
<1>3. Range(mQueue)' = Range(mQueue) /\ IsInjective(mQueue)'
      /\ Range(freeList)' = Range(freeList')
  BY DEF Owners, Apart, IsInjective, Range
<1>4. \A r \in Senders : spayload[r] # b
  <2>1. NoBlock \notin Blocks
    BY Types
  <2> QED
    BY <1>1, <2>1 DEF Owners, Apart, WithSenders
<1>5. \A u, v \in Senders : spayload'[u] = spayload'[v] /\ spayload'[u] # NoBlock => u = v
  BY <1>4, Types DEF Owners, Apart
<1>6. Apart'
  <2> HIDE DEF b
  <2>1. Range(freeList') \cap Range(mQueue) = {}
    BY <1>1 DEF Owners, Apart
  <2>2. b \notin Range(mQueue) /\ b \notin WithTransmitter
    BY <1>1 DEF Owners, Apart
  <2>3. (Range(freeList') \cup Range(mQueue)) \cap (WithSenders' \cup WithTransmitter') = {}
    BY <1>1, <1>2, <2>2 DEF Owners, Apart
  <2>4. WithSenders' \cap WithTransmitter' = {}
    BY <1>2, <2>2 DEF Owners, Apart
  <2> QED
    BY <1>1, <1>3, <1>5, <2>1, <2>3, <2>4 DEF Apart
<1>7. NoneLeaks'
  BY <1>1, <1>2, <1>3 DEF Owners, NoneLeaks
<1> QED
  BY <1>1, <1>6, <1>7 DEF Owners

\* The block of a sender goes behind the queue, which has room for it.
LEMMA PushOwners ==
  ASSUME TypeOK, Owners, NEW s \in Senders, spayload[s] # NoBlock,
         mQueue' = BoundedPush(mQueue, spayload[s]),
         spayload' = [spayload EXCEPT ![s] = NoBlock],
         UNCHANGED <<freeList, rpayload>>
  PROVE  /\ Owners' /\ mQueue' = Append(mQueue, spayload[s]) /\ mQueue' \in Seq(Blocks)
         /\ Range(mQueue') = Range(mQueue) \cup {spayload[s]}
<1> DEFINE b == spayload[s]
<1>1. b \in Blocks /\ b \in WithSenders
  BY Types DEF WithSenders
<1>2. b \notin Range(freeList) /\ b \notin Range(mQueue) /\ b \notin WithTransmitter
  BY <1>1 DEF Owners, Apart
<1>3. mQueue' = Append(mQueue, b)
  BY <1>1, <1>2, Types, RoomFor DEF Owners, Apart, BoundedPush
<1>4. mQueue' \in Seq(Blocks) /\ IsInjective(mQueue') /\ Range(mQueue') = Range(mQueue) \cup {b}
  BY <1>1, <1>2, <1>3, Types, AppendFacts DEF Owners, Apart
<1>5. WithSenders' = WithSenders \ {b} /\ WithTransmitter' = WithTransmitter
  BY Types, SenderGives DEF WithTransmitter, Owners, Apart
<1>6. Range(freeList)' = Range(freeList) /\ IsInjective(freeList)'
      /\ Range(mQueue)' = Range(mQueue')
  BY DEF Owners, Apart, IsInjective, Range
<1>7. \A u, v \in Senders : spayload'[u] = spayload'[v] /\ spayload'[u] # NoBlock => u = v
  BY Types DEF Owners, Apart
<1>8. Apart'
  <2> HIDE DEF b
  <2>1. Range(freeList) \cap Range(mQueue') = {}
    BY <1>2, <1>4 DEF Owners, Apart
  <2>2. (Range(freeList) \cup Range(mQueue')) \cap (WithSenders' \cup WithTransmitter') = {}
    BY <1>2, <1>4, <1>5 DEF Owners, Apart
  <2>3. WithSenders' \cap WithTransmitter' = {}
    BY <1>5 DEF Owners, Apart
  <2> QED
    BY <1>4, <1>6, <1>7, <2>1, <2>2, <2>3 DEF Apart
<1>9. NoneLeaks'
  BY <1>1, <1>4, <1>5, <1>6 DEF Owners, NoneLeaks
<1> QED
  BY <1>3, <1>4, <1>8, <1>9 DEF Owners

\* The head of the queue goes to the transmitter.
LEMMA PopOwners ==
  ASSUME TypeOK, Owners, mQueue # <<>>, rpayload = NoBlock,
         rpayload' = Head(mQueue), mQueue' = Tail(mQueue), UNCHANGED <<freeList, spayload>>
  PROVE  /\ Owners' /\ mQueue' \in Seq(Blocks)
         /\ rpayload' \in Range(mQueue) /\ rpayload' \in Blocks
         /\ Range(mQueue') \subseteq Range(mQueue)
<1> DEFINE b == Head(mQueue)
<1>1. /\ b \in Range(mQueue) /\ Range(mQueue) \subseteq Blocks
      /\ mQueue' \in Seq(Blocks) /\ IsInjective(mQueue')
      /\ Range(mQueue') = Range(mQueue) \ {b}
  BY Types, TailFacts DEF Owners, Apart
<1>2. WithSenders' = WithSenders /\ WithTransmitter = {} /\ WithTransmitter' = {b}
  BY <1>1, Types DEF WithSenders, WithTransmitter
<1>3. Range(freeList)' = Range(freeList) /\ IsInjective(freeList)'
      /\ Range(mQueue)' = Range(mQueue')
  BY DEF Owners, Apart, IsInjective, Range
<1>4. Apart'
  <2> HIDE DEF b
  <2>1. Range(freeList) \cap Range(mQueue') = {}
    BY <1>1 DEF Owners, Apart
  <2>2. b \notin Range(freeList) /\ b \notin WithSenders
    BY <1>1 DEF Owners, Apart
  <2>3. (Range(freeList) \cup Range(mQueue')) \cap (WithSenders' \cup WithTransmitter') = {}
    BY <1>1, <1>2, <2>2 DEF Owners, Apart
  <2>4. WithSenders' \cap WithTransmitter' = {}
    BY <1>2, <2>2
  <2>5. \A u, v \in Senders : spayload'[u] = spayload'[v] /\ spayload'[u] # NoBlock => u = v
    BY DEF Owners, Apart
  <2> QED
    BY <1>1, <1>3, <2>1, <2>3, <2>4, <2>5 DEF Apart
<1>5. NoneLeaks'
  BY <1>1, <1>2, <1>3 DEF Owners, NoneLeaks
<1> QED
  BY <1>1, <1>4, <1>5 DEF Owners

\* The block of the transmitter goes back to the free list, which has room.
LEMMA FreeOwners ==
  ASSUME TypeOK, Owners, rpayload # NoBlock, freeList' = BoundedPush(freeList, rpayload),
         rpayload' = NoBlock, UNCHANGED <<mQueue, spayload>>
  PROVE  Owners' /\ freeList' \in Seq(Blocks)
<1> DEFINE b == rpayload
<1>1. b \in Blocks /\ WithTransmitter = {b} /\ WithTransmitter' = {}
      /\ WithSenders' = WithSenders
  BY Types DEF WithTransmitter, WithSenders
<1>2. b \notin Range(freeList) /\ b \notin Range(mQueue) /\ b \notin WithSenders
  BY <1>1 DEF Owners, Apart
<1>3. freeList' = Append(freeList, b)
  BY <1>1, <1>2, Types, RoomFor DEF Owners, Apart, BoundedPush
<1>4. /\ freeList' \in Seq(Blocks) /\ IsInjective(freeList')
      /\ Range(freeList') = Range(freeList) \cup {b}
  BY <1>1, <1>2, <1>3, Types, AppendFacts DEF Owners, Apart
<1>5. Range(mQueue)' = Range(mQueue) /\ IsInjective(mQueue)'
      /\ Range(freeList)' = Range(freeList')
  BY DEF Owners, Apart, IsInjective, Range
<1>6. Apart'
  <2> HIDE DEF b
  <2>1. Range(freeList') \cap Range(mQueue) = {}
    BY <1>2, <1>4 DEF Owners, Apart
  <2>2. (Range(freeList') \cup Range(mQueue)) \cap (WithSenders' \cup WithTransmitter') = {}
    BY <1>1, <1>2, <1>4 DEF Owners, Apart
  <2>3. \A u, v \in Senders : spayload'[u] = spayload'[v] /\ spayload'[u] # NoBlock => u = v
    BY DEF Owners, Apart
  <2> QED
    BY <1>1, <1>4, <1>5, <2>1, <2>2, <2>3 DEF Apart
<1>7. NoneLeaks'
  BY <1>1, <1>4, <1>5 DEF Owners, NoneLeaks
<1> QED
  BY <1>4, <1>6, <1>7 DEF Owners

-----------------------------------------------------------------------------
\* All blocks are free, and no thread has one.
LEMMA InitInv == Init => Inv
<1> SUFFICES ASSUME Init PROVE Inv
  OBVIOUS
<1>1. freeList \in Seq(Blocks) /\ IsInjective(freeList) /\ Range(freeList) = Blocks
  <2>1. freeList = [b \in 1 .. BlockCount |-> b] /\ BlockCount \in Nat
    BY DEF Init, Blocks
  <2> QED
    BY <2>1 DEF Blocks, IsInjective, Range
<1>2. mQueue = <<>> /\ Range(mQueue) = {} /\ IsInjective(mQueue) /\ mQueue \in Seq(Blocks)
  BY DEF Init, IsInjective, Range
<1>3. WithSenders = {} /\ WithTransmitter = {}
  BY DEF Init, WithSenders, WithTransmitter
<1>4. \A s \in Senders : spayload[s] = NoBlock /\ spc[s] = "idle"
  BY DEF Init
<1>5. TypeOK
  BY <1>1, <1>2 DEF Init, TypeOK
<1>6. Owners
  BY <1>1, <1>2, <1>3, <1>4 DEF Owners, Apart, NoneLeaks
<1>7. HoldsBlock /\ Filled /\ SinceCall
  BY <1>2, <1>4 DEF Init, HoldsBlock, Filled, SinceCall
<1> QED
  BY <1>5, <1>6, <1>7 DEF Inv

\* What leaves the blocks where they are keeps their owners.
LEMMA SameOwners ==
  ASSUME Owners, UNCHANGED <<freeList, mQueue, spayload, rpayload>>
  PROVE  Owners'
BY DEF Owners, Apart, NoneLeaks, WithSenders, WithTransmitter, IsInjective, Range

\* The steps of a sender that move no block.
LEMMA SenderInv ==
  ASSUME Inv, NEW s \in Senders, Send(s) \/ Sleep(s) \/ WakeUp(s) \/ Notify(s)
  PROVE  Inv'
<1>1. /\ UNCHANGED <<blocks, freeList, mQueue, memory, spayload, rpc, rpayload, chunk, received,
                     atCall>>
      /\ \E to \in {"idle", "pop", "sleep"} : spc' = [spc EXCEPT ![s] = to]
      /\ spc[s] \notin {"copy", "push"}
      /\ \/ sent' = sent /\ spc[s] # "idle"
         \/ sent[s] < MaxSends /\ sent' = [sent EXCEPT ![s] = sent[s] + 1]
      /\ lost' = lost \/ (lost' = lost \cup {ChunkOf(s, sent[s])} /\ spc[s] # "idle")
  BY DEF Send, Sleep, WakeUp, Notify, At, receiverVars, Inv, TypeOK
<1>2. PICK to \in {"idle", "pop", "sleep"} : spc' = [spc EXCEPT ![s] = to]
  BY <1>1
<1>3. /\ spc \in [Senders -> {"idle", "pop", "sleep", "copy", "push", "notify"}]
      /\ sent \in [Senders -> 0 .. MaxSends]
      /\ \A r \in Senders : spc[r] # "idle" => sent[r] # 0
  BY DEF Inv, TypeOK, Filled
<1>4. /\ spc' \in [Senders -> {"idle", "pop", "sleep", "copy", "push", "notify"}]
      /\ sent' \in [Senders -> 0 .. MaxSends]
      /\ spc'[s] = to /\ sent'[s] # 0
      /\ \A r \in Senders : r # s => spc'[r] = spc[r] /\ sent'[r] = sent[r]
  BY <1>1, <1>2, <1>3
<1>5. lost' \subseteq Chunks
  <2>1. spc[s] # "idle" => ChunkOf(s, sent[s]) \in Chunks
    BY <1>3 DEF ChunkOf, Chunks
  <2> QED
    BY <1>1, <2>1 DEF Inv, TypeOK
<1>6. TypeOK'
  BY <1>1, <1>4, <1>5 DEF Inv, TypeOK
<1>7. Owners'
  BY <1>1, SameOwners DEF Inv
<1>8. HoldsBlock'
  BY <1>1, <1>4 DEF Inv, HoldsBlock
<1>9. Filled'
  <2>1. Range(mQueue)' = Range(mQueue)
    BY <1>1 DEF Range
  <2>2. \A r \in Senders : spc'[r] = "push" => memory[spayload[r]] = ChunkOf(r, sent'[r])
    BY <1>4 DEF Inv, Filled
  <2> QED
    BY <1>1, <1>3, <1>4, <2>1, <2>2 DEF Inv, Filled, ChunkOf
<1>10. SinceCall'
  BY <1>1 DEF Inv, SinceCall
<1> QED
  BY <1>6, <1>7, <1>8, <1>9, <1>10 DEF Inv

\* A sender takes the first free block.
LEMMA PopFreeInv ==
  ASSUME Inv, NEW s \in Senders, PopFree(s)
  PROVE  Inv'
<1>1. /\ freeList # <<>> /\ spc[s] = "pop" /\ spc' = [spc EXCEPT ![s] = "copy"]
      /\ spayload' = [spayload EXCEPT ![s] = Head(freeList)] /\ freeList' = Tail(freeList)
      /\ UNCHANGED <<blocks, mQueue, memory, sent, lost, rpc, rpayload, chunk, received, atCall>>
  BY DEF PopFree, At, receiverVars
<1>2. spayload[s] = NoBlock
  BY <1>1 DEF Inv, HoldsBlock
<1>3. Owners' /\ freeList' \in Seq(Blocks) /\ Head(freeList) \in Blocks
  BY <1>1, <1>2, PopFreeOwners DEF Inv
<1>4. /\ spc \in [Senders -> {"idle", "pop", "sleep", "copy", "push", "notify"}]
      /\ spayload \in [Senders -> Blocks \cup {NoBlock}] /\ NoBlock \notin Blocks
  BY Types DEF Inv
<1>5. /\ spc' \in [Senders -> {"idle", "pop", "sleep", "copy", "push", "notify"}]
      /\ spayload' \in [Senders -> Blocks \cup {NoBlock}]
      /\ spc'[s] = "copy" /\ spayload'[s] \in Blocks
      /\ \A r \in Senders : r # s => spc'[r] = spc[r] /\ spayload'[r] = spayload[r]
  BY <1>1, <1>3, <1>4
<1>6. TypeOK'
  BY <1>1, <1>3, <1>5 DEF Inv, TypeOK
<1>7. HoldsBlock'
  BY <1>1, <1>4, <1>5 DEF Inv, HoldsBlock
<1>8. Filled'
  <2>1. Range(mQueue)' = Range(mQueue)
    BY <1>1 DEF Range
  <2>2. \A r \in Senders : spc'[r] = "push" => memory[spayload'[r]] = ChunkOf(r, sent[r])
    BY <1>5 DEF Inv, Filled
  <2>3. \A r \in Senders : spc'[r] # "idle" => sent[r] # 0
    BY <1>1, <1>5 DEF Inv, Filled
  <2> QED
    BY <1>1, <2>1, <2>2, <2>3 DEF Inv, Filled, ChunkOf
<1>9. SinceCall'
  BY <1>1 DEF Inv, SinceCall
<1> QED
  BY <1>3, <1>6, <1>7, <1>8, <1>9 DEF Inv

\* A sender copies its chunk to its block, which nobody else uses.
LEMMA CopyInInv ==
  ASSUME Inv, NEW s \in Senders, CopyIn(s)
  PROVE  /\ Inv' /\ spayload[s] \in Blocks
         /\ \A b \in Blocks : b # spayload[s] => memory'[b] = memory[b]
         /\ spayload[s] \notin Range(mQueue)
         /\ spayload[s] # rpayload
<1>1. /\ spc[s] = "copy" /\ spc' = [spc EXCEPT ![s] = "push"]
      /\ memory' = [memory EXCEPT ![spayload[s]] = ChunkOf(s, sent[s])]
      /\ UNCHANGED <<blocks, freeList, mQueue, spayload, sent, lost, rpc, rpayload, chunk,
                     received, atCall>>
  BY DEF CopyIn, At, receiverVars
<1>2. /\ spc \in [Senders -> {"idle", "pop", "sleep", "copy", "push", "notify"}]
      /\ spayload \in [Senders -> Blocks \cup {NoBlock}] /\ NoBlock \notin Blocks
      /\ rpayload \in Blocks \cup {NoBlock}
      /\ memory \in [Blocks -> Chunks \cup {NoChunk}] /\ sent \in [Senders -> 0 .. MaxSends]
  BY Types DEF Inv, TypeOK
<1>3. spayload[s] \in Blocks /\ spayload[s] \in WithSenders
  BY <1>1, <1>2 DEF Inv, HoldsBlock, WithSenders
<1>4. spayload[s] \notin Range(mQueue) /\ spayload[s] \notin WithTransmitter
  BY <1>3 DEF Inv, Owners, Apart
<1>5. spayload[s] # rpayload
  BY <1>2, <1>3, <1>4 DEF WithTransmitter
<1>6. ChunkOf(s, sent[s]) \in Chunks
  <2>1. sent[s] # 0
    BY <1>1 DEF Inv, Filled
  <2> QED
    BY <1>2, <2>1 DEF ChunkOf, Chunks
<1>7. /\ memory' \in [Blocks -> Chunks \cup {NoChunk}]
      /\ memory'[spayload[s]] = ChunkOf(s, sent[s])
      /\ \A b \in Blocks : b # spayload[s] => memory'[b] = memory[b]
  BY <1>1, <1>2, <1>3, <1>6
<1>8. /\ spc' \in [Senders -> {"idle", "pop", "sleep", "copy", "push", "notify"}]
      /\ spc'[s] = "push"
      /\ \A r \in Senders : r # s => spc'[r] = spc[r]
  BY <1>1, <1>2
<1>9. TypeOK'
  BY <1>1, <1>7, <1>8 DEF Inv, TypeOK
<1>10. Owners'
  BY <1>1, SameOwners DEF Inv
<1>11. HoldsBlock'
  BY <1>1, <1>8 DEF Inv, HoldsBlock
<1>12. Filled'
  <2>1. Range(mQueue)' = Range(mQueue) /\ Range(mQueue) \subseteq Blocks
    BY <1>1 DEF Range, Inv, Owners, NoneLeaks
  <2>2. ASSUME NEW r \in Senders, spc'[r] = "push"
        PROVE  memory'[spayload[r]] = ChunkOf(r, sent[r])
    <3>1. CASE r = s
      BY <1>7, <3>1
    <3>2. CASE r # s
      <4>1. spc[r] = "push" /\ spayload[r] # NoBlock
        BY <1>8, <2>2, <3>2 DEF Inv, HoldsBlock
      <4>2. spayload[r] \in Blocks /\ spayload[r] # spayload[s]
        BY <1>2, <3>2, <4>1 DEF Inv, Owners, Apart
      <4> QED
        BY <1>7, <4>1, <4>2 DEF Inv, Filled
    <3> QED
      BY <3>1, <3>2
  <2>3. \A b \in Range(mQueue) : memory'[b] \in Chunks
    BY <1>4, <1>7, <2>1 DEF Inv, Filled
  <2>4. rpc = "copy" => memory'[rpayload] \in Chunks
    BY <1>2, <1>5, <1>7 DEF Inv, Filled, HoldsBlock
  <2>5. \A r \in Senders : spc'[r] # "idle" => sent[r] # 0
    BY <1>1, <1>8 DEF Inv, Filled
  <2> QED
    BY <1>1, <2>1, <2>2, <2>3, <2>4, <2>5 DEF Inv, Filled, ChunkOf
<1>13. SinceCall'
  BY <1>1 DEF Inv, SinceCall
<1> QED
  BY <1>3, <1>4, <1>5, <1>7, <1>9, <1>10, <1>11, <1>12, <1>13 DEF Inv

\* A sender passes its block on.
LEMMA PushInv ==
  ASSUME Inv, NEW s \in Senders, Push(s)
  PROVE  Inv' /\ mQueue' = Append(mQueue, spayload[s]) /\ spayload[s] \in Blocks
<1>1. /\ spc[s] = "push" /\ spc' = [spc EXCEPT ![s] = "notify"]
      /\ mQueue' = BoundedPush(mQueue, spayload[s])
      /\ spayload' = [spayload EXCEPT ![s] = NoBlock]
      /\ UNCHANGED <<blocks, freeList, memory, sent, lost, rpc, rpayload, chunk, received, atCall>>
  BY DEF Push, At, receiverVars
<1>2. /\ spc \in [Senders -> {"idle", "pop", "sleep", "copy", "push", "notify"}]
      /\ spayload \in [Senders -> Blocks \cup {NoBlock}] /\ NoBlock \notin Blocks
      /\ sent \in [Senders -> 0 .. MaxSends] /\ mQueue \in Seq(Blocks)
  BY Types DEF Inv, TypeOK
<1>3. spayload[s] # NoBlock /\ spayload[s] \in Blocks
  BY <1>1, <1>2 DEF Inv, HoldsBlock
<1>4. /\ Owners' /\ mQueue' = Append(mQueue, spayload[s]) /\ mQueue' \in Seq(Blocks)
      /\ Range(mQueue') = Range(mQueue) \cup {spayload[s]}
  BY <1>1, <1>3, PushOwners DEF Inv
<1>5. /\ spc' \in [Senders -> {"idle", "pop", "sleep", "copy", "push", "notify"}]
      /\ spayload' \in [Senders -> Blocks \cup {NoBlock}]
      /\ spc'[s] = "notify" /\ spayload'[s] = NoBlock
      /\ \A r \in Senders : r # s => spc'[r] = spc[r] /\ spayload'[r] = spayload[r]
  BY <1>1, <1>2
<1>6. TypeOK'
  BY <1>1, <1>4, <1>5 DEF Inv, TypeOK
<1>7. HoldsBlock'
  BY <1>1, <1>2, <1>5 DEF Inv, HoldsBlock
<1>8. Filled'
  <2>1. memory[spayload[s]] = ChunkOf(s, sent[s]) /\ ChunkOf(s, sent[s]) \in Chunks
    <3>1. memory[spayload[s]] = ChunkOf(s, sent[s]) /\ sent[s] # 0
      BY <1>1 DEF Inv, Filled
    <3> QED
      BY <1>2, <3>1 DEF ChunkOf, Chunks
  <2>2. \A b \in Range(mQueue') : memory[b] \in Chunks
    BY <1>4, <2>1 DEF Inv, Filled
  <2>3. \A r \in Senders : spc'[r] = "push" => memory[spayload'[r]] = ChunkOf(r, sent[r])
    BY <1>5 DEF Inv, Filled
  <2>4. \A r \in Senders : spc'[r] # "idle" => sent[r] # 0
    BY <1>1, <1>5 DEF Inv, Filled
  <2>5. Range(mQueue)' = Range(mQueue')
    BY DEF Range
  <2> QED
    BY <1>1, <2>2, <2>3, <2>4, <2>5 DEF Inv, Filled, ChunkOf
<1>9. SinceCall'
  <2>1. mQueue' # <<>>
    BY <1>2, <1>3, <1>4, AppendProperties
  <2> QED
    BY <1>1, <2>1 DEF Inv, SinceCall
<1> QED
  BY <1>3, <1>4, <1>6, <1>7, <1>8, <1>9 DEF Inv

\* The steps of receive that move no block.
LEMMA ReceiverInv ==
  ASSUME Inv, Receive \/ WaitTimesOut \/ WaitEnds \/ PopNothing
  PROVE  Inv'
<1>1. /\ UNCHANGED <<blocks, freeList, mQueue, memory, spc, spayload, sent, lost, rpayload, chunk,
                     received>>
      /\ rpc \notin {"copy", "free"} /\ rpc' \in {"idle", "wait", "pop"}
  BY DEF Receive, WaitTimesOut, WaitEnds, PopNothing, senderVars
<1>2. atCall' \in 0 .. BlockCount /\ SinceCall'
  <2>1. CASE Receive
    <3>1. Len(mQueue) \in 0 .. BlockCount /\ (mQueue = <<>> => Len(mQueue) = 0)
      BY NeverLonger, Types DEF Inv, Owners, Apart
    <3> QED
      BY <1>1, <2>1, <3>1 DEF Receive, SinceCall
  <2>2. CASE ~Receive
    BY <1>1, <2>2 DEF WaitTimesOut, WaitEnds, PopNothing, Inv, TypeOK, SinceCall
  <2> QED
    BY <2>1, <2>2
<1>3. TypeOK'
  BY <1>1, <1>2 DEF Inv, TypeOK
<1>4. Owners'
  BY <1>1, SameOwners DEF Inv
<1>5. HoldsBlock'
  BY <1>1 DEF Inv, HoldsBlock
<1>6. Filled'
  BY <1>1 DEF Inv, Filled, Range, ChunkOf
<1> QED
  BY <1>2, <1>3, <1>4, <1>5, <1>6 DEF Inv

\* The transmitter takes the oldest block of the queue.
LEMMA PopInv ==
  ASSUME Inv, Pop
  PROVE  Inv'
<1>1. /\ rpc = "pop" /\ mQueue # <<>> /\ rpc' = "copy"
      /\ rpayload' = Head(mQueue) /\ mQueue' = Tail(mQueue)
      /\ UNCHANGED <<blocks, freeList, memory, chunk, received, atCall, spc, spayload, sent, lost>>
  BY DEF Pop, senderVars
<1>2. rpayload = NoBlock /\ NoBlock \notin Blocks
  BY <1>1, Types DEF Inv, HoldsBlock
<1>3. /\ Owners' /\ mQueue' \in Seq(Blocks)
      /\ rpayload' \in Range(mQueue) /\ rpayload' \in Blocks
      /\ Range(mQueue') \subseteq Range(mQueue)
  BY <1>1, <1>2, PopOwners DEF Inv
<1>4. TypeOK'
  BY <1>1, <1>3 DEF Inv, TypeOK
<1>5. HoldsBlock'
  BY <1>1, <1>2, <1>3 DEF Inv, HoldsBlock
<1>6. Filled'
  <2>1. Range(mQueue)' = Range(mQueue')
    BY DEF Range
  <2> QED
    BY <1>1, <1>3, <2>1 DEF Inv, Filled, ChunkOf
<1>7. SinceCall'
  BY <1>1 DEF SinceCall
<1> QED
  BY <1>3, <1>4, <1>5, <1>6, <1>7 DEF Inv

\* The transmitter copies the chunk out of the block it has.
LEMMA CopyOutInv ==
  ASSUME Inv, CopyOut
  PROVE  Inv'
<1>1. /\ rpc = "copy" /\ rpc' = "free" /\ chunk' = memory[rpayload]
      /\ UNCHANGED <<blocks, freeList, mQueue, memory, rpayload, received, atCall, spc, spayload,
                     sent, lost>>
  BY DEF CopyOut, senderVars
<1>2. chunk' \in Chunks
  BY <1>1 DEF Inv, Filled
<1>3. TypeOK'
  BY <1>1, <1>2 DEF Inv, TypeOK
<1>4. Owners'
  BY <1>1, SameOwners DEF Inv
<1>5. HoldsBlock' /\ SinceCall'
  BY <1>1 DEF Inv, HoldsBlock, SinceCall
<1>6. Filled'
  BY <1>1, <1>2 DEF Inv, Filled, Range, ChunkOf
<1> QED
  BY <1>3, <1>4, <1>5, <1>6 DEF Inv

\* The block goes back, and the chunk is received.
LEMMA FreeInv ==
  ASSUME Inv, Free
  PROVE  Inv'
<1>1. /\ rpc = "free" /\ rpc' = "idle" /\ freeList' = BoundedPush(freeList, rpayload)
      /\ rpayload' = NoBlock /\ received' = Append(received, chunk)
      /\ UNCHANGED <<blocks, mQueue, memory, chunk, atCall, spc, spayload, sent, lost>>
  BY DEF Free, senderVars
<1>2. rpayload # NoBlock /\ chunk \in Chunks
  BY <1>1 DEF Inv, HoldsBlock, Filled
<1>3. Owners' /\ freeList' \in Seq(Blocks)
  BY <1>1, <1>2, FreeOwners DEF Inv
<1>4. received' \in Seq(Chunks)
  BY <1>1, <1>2, AppendProperties DEF Inv, TypeOK
<1>5. TypeOK'
  BY <1>1, <1>3, <1>4 DEF Inv, TypeOK
<1>6. HoldsBlock' /\ SinceCall'
  BY <1>1 DEF Inv, HoldsBlock, SinceCall
<1>7. Filled'
  BY <1>1 DEF Inv, Filled, Range, ChunkOf
<1> QED
  BY <1>3, <1>5, <1>6, <1>7 DEF Inv

\* Every step of the senders and of the transmitter keeps the invariant.
LEMMA StepInv == Inv /\ [Next]_vars => Inv'
<1>1. Inv /\ UNCHANGED vars => Inv'
  <2> SUFFICES ASSUME Inv, UNCHANGED vars PROVE Inv'
    OBVIOUS
  <2>1. UNCHANGED <<blocks, freeList, mQueue, memory, spc, spayload, sent, lost, rpc, rpayload,
                    chunk, received, atCall>>
    BY DEF vars, senderVars, receiverVars
  <2> QED
    BY <2>1, SameOwners DEF Inv, TypeOK, HoldsBlock, Filled, SinceCall, Range, ChunkOf
<1>2. ASSUME Inv, NEW s \in Senders, Send(s) \/ InSend(s)
      PROVE  Inv'
  BY <1>2, SenderInv, PopFreeInv, CopyInInv, PushInv DEF InSend
<1>3. ASSUME Inv, Transmitter
      PROVE  Inv'
  BY <1>3, ReceiverInv, PopInv, CopyOutInv, FreeInv DEF Transmitter
<1> QED
  BY <1>1, <1>2, <1>3 DEF Next

\* The invariant of the queue of the std::thread port.
THEOREM InvHolds == Spec => []Inv
BY InitInv, StepInv, PTL DEF Spec

\* Blocks, queues and program counters stay in their types: neither queue is
\* ever longer than there are blocks.
THEOREM TypeCorrect == Spec => []TypeOK
<1>1. Inv => TypeOK
  BY DEF Inv
<1> QED
  BY <1>1, InvHolds, PTL

\* A block of a queue without repetition is at one place of it.
LEMMA OnePlace ==
  ASSUME NEW q, IsInjective(q), NEW b \in Range(q)
  PROVE  \E i : \A j : j \in DOMAIN q /\ q[j] = b <=> j = i
<1>1. PICK i \in DOMAIN q : q[i] = b
  BY DEF Range
<1>2. \A j : j \in DOMAIN q /\ q[j] = b <=> j = i
  BY <1>1 DEF IsInjective
<1> QED
  BY <1>2

\* Every block is in one queue or in one hand at any time, though no lock
\* protects it: none leaks, and no two threads copy into or out of one.
THEOREM BlocksHaveOneOwner == Spec => []OneOwner
<1>1. Inv => OneOwner
  <2> SUFFICES ASSUME Inv, NEW b \in Blocks PROVE Cardinality(Positions(b)) = 1
    BY DEF OneOwner
  <2> DEFINE F == {<<"free", i>> : i \in {j \in DOMAIN freeList : freeList[j] = b}}
             Q == {<<"queue", i>> : i \in {j \in DOMAIN mQueue : mQueue[j] = b}}
             S == {<<"sender", s>> : s \in {r \in Senders : spayload[r] = b}}
             R == {<<"transmitter", 0>> : i \in {j \in {0} : rpayload = b}}
  <2>1. NoBlock \notin Blocks /\ b # NoBlock
    BY Types DEF Inv
  <2>2. /\ b \notin Range(freeList) => F = {}
        /\ b \in Range(freeList) => \E p : F = {p}
    <3>1. b \notin Range(freeList) => F = {}
      BY DEF Range
    <3>2. ASSUME b \in Range(freeList)
          PROVE  \E p : F = {p}
      <4>1. IsInjective(freeList)
        BY DEF Inv, Owners, Apart
      <4>2. PICK i : \A j : j \in DOMAIN freeList /\ freeList[j] = b <=> j = i
        BY <3>2, <4>1, OnePlace
      <4>3. F = {<<"free", i>>}
        BY <4>2
      <4> QED
        BY <4>3
    <3> QED
      BY <3>1, <3>2
  <2>3. /\ b \notin Range(mQueue) => Q = {}
        /\ b \in Range(mQueue) => \E p : Q = {p}
    <3>1. b \notin Range(mQueue) => Q = {}
      BY DEF Range
    <3>2. ASSUME b \in Range(mQueue)
          PROVE  \E p : Q = {p}
      <4>1. IsInjective(mQueue)
        BY DEF Inv, Owners, Apart
      <4>2. PICK i : \A j : j \in DOMAIN mQueue /\ mQueue[j] = b <=> j = i
        BY <3>2, <4>1, OnePlace
      <4>3. Q = {<<"queue", i>>}
        BY <4>2
      <4> QED
        BY <4>3
    <3> QED
      BY <3>1, <3>2
  <2>4. /\ b \notin WithSenders => S = {}
        /\ b \in WithSenders => \E p : S = {p}
    <3>1. b \notin WithSenders => S = {}
      BY <2>1 DEF WithSenders
    <3>2. ASSUME b \in WithSenders
          PROVE  \E p : S = {p}
      <4>1. PICK s \in Senders : spayload[s] = b
        BY <3>2 DEF WithSenders
      <4>2. {r \in Senders : spayload[r] = b} = {s}
        BY <2>1, <4>1 DEF Inv, Owners, Apart
      <4>3. S = {<<"sender", s>>}
        BY <4>2
      <4> QED
        BY <4>3
    <3> QED
      BY <3>1, <3>2
  <2>5. /\ b \notin WithTransmitter => R = {}
        /\ b \in WithTransmitter => \E p : R = {p}
    BY <2>1 DEF WithTransmitter
  <2>6. Positions(b) = F \cup Q \cup S \cup R
    BY DEF Positions
  <2> HIDE DEF F, Q, S, R
  <2>7. \E p : Positions(b) = {p}
    <3>1. b \in Range(freeList) \/ b \in Range(mQueue) \/ b \in WithSenders \/ b \in WithTransmitter
      BY DEF Inv, Owners, NoneLeaks
    <3>2. CASE b \in Range(freeList)
      <4>1. b \notin Range(mQueue) /\ b \notin WithSenders /\ b \notin WithTransmitter
        BY <3>2 DEF Inv, Owners, Apart
      <4> QED
        BY <2>2, <2>3, <2>4, <2>5, <2>6, <3>2, <4>1
    <3>3. CASE b \in Range(mQueue)
      <4>1. b \notin Range(freeList) /\ b \notin WithSenders /\ b \notin WithTransmitter
        BY <3>3 DEF Inv, Owners, Apart
      <4> QED
        BY <2>2, <2>3, <2>4, <2>5, <2>6, <3>3, <4>1
    <3>4. CASE b \in WithSenders
      <4>1. b \notin Range(freeList) /\ b \notin Range(mQueue) /\ b \notin WithTransmitter
        BY <3>4 DEF Inv, Owners, Apart
      <4> QED
        BY <2>2, <2>3, <2>4, <2>5, <2>6, <3>4, <4>1
    <3>5. CASE b \in WithTransmitter
      <4>1. b \notin Range(freeList) /\ b \notin Range(mQueue) /\ b \notin WithSenders
        BY <3>5 DEF Inv, Owners, Apart
      <4> QED
        BY <2>2, <2>3, <2>4, <2>5, <2>6, <3>5, <4>1
    <3> QED
      BY <3>1, <3>2, <3>3, <3>4, <3>5
  <2> QED
    BY <2>7, FS_Singleton
<1> QED
  BY <1>1, InvHolds, PTL

\* No bounded_push fails: "this should always succeed here"
\* (LogStdThreadOstream.cpp:35 and 55), whose result is not looked at.
THEOREM PushesAlwaysSucceed == Spec => []PushesSucceed
<1>1. Inv => PushesSucceed
  <2> SUFFICES ASSUME Inv PROVE PushesSucceed
    OBVIOUS
  <2>1. ASSUME NEW s \in Senders, spc[s] = "push"
        PROVE  Len(mQueue) < BlockCount
    <3>1. spayload[s] \in Blocks /\ spayload[s] \in WithSenders
      BY <2>1, Types DEF Inv, HoldsBlock, WithSenders
    <3>2. spayload[s] \notin Range(mQueue)
      BY <3>1 DEF Inv, Owners, Apart
    <3> QED
      BY <3>1, <3>2, Types, RoomFor DEF Inv, Owners, Apart
  <2>2. ASSUME rpc = "free"
        PROVE  Len(freeList) < BlockCount
    <3>1. rpayload \in Blocks /\ rpayload \in WithTransmitter
      BY <2>2, Types DEF Inv, HoldsBlock, WithTransmitter
    <3>2. rpayload \notin Range(freeList)
      BY <3>1 DEF Inv, Owners, Apart
    <3> QED
      BY <3>1, <3>2, Types, RoomFor DEF Inv, Owners, Apart
  <2> QED
    BY <2>1, <2>2 DEF PushesSucceed
<1> QED
  BY <1>1, InvHolds, PTL

\* receive never returns without a chunk when there was one as it was called,
\* whatever became of the notifications.
THEOREM PresentIsAlwaysReceived == Spec => PresentIsReceived
<1>1. Inv /\ [Next]_vars => [(rpc \in {"wait", "pop"}) /\ rpc' = "idle" => atCall = 0]_vars
  <2> SUFFICES ASSUME Inv, Next, rpc \in {"wait", "pop"}, rpc' = "idle"
               PROVE  atCall = 0
    OBVIOUS
  <2>1. rpc' # rpc
    OBVIOUS
  <2>2. \A s \in Senders : Send(s) \/ InSend(s) => rpc' = rpc
    BY DEF Send, InSend, PopFree, Sleep, WakeUp, CopyIn, Push, Notify, receiverVars
  <2>3. WaitTimesOut \/ PopNothing
    BY <2>1, <2>2 DEF Next, Transmitter, Receive, WaitEnds, Pop, CopyOut, Free
  <2> QED
    BY <2>3 DEF WaitTimesOut, PopNothing, Inv, SinceCall
<1> QED
  BY <1>1, InvHolds, PTL DEF Spec, PresentIsReceived

-----------------------------------------------------------------------------
(* The blocks that are not free are the places taken in the promised queue. *)

\* A queue without repetition is as long as it has elements.
LEMMA RangeCardinality ==
  ASSUME NEW q \in Seq(Blocks), IsInjective(q)
  PROVE  IsFiniteSet(Range(q)) /\ Cardinality(Range(q)) = Len(q)
<1>1. Len(q) \in Nat /\ q \in [1 .. Len(q) -> Blocks] /\ DOMAIN q = 1 .. Len(q)
  BY LenProperties
<1>2. IsFiniteSet(1 .. Len(q)) /\ Cardinality(1 .. Len(q)) = Len(q)
  BY <1>1, FS_Interval
<1>3. q \in Surjection(1 .. Len(q), Range(q)) /\ q \in Injection(1 .. Len(q), Range(q))
  <2>1. q \in [1 .. Len(q) -> Range(q)]
    BY <1>1 DEF Range
  <2>2. \A y \in Range(q) : \E x \in 1 .. Len(q) : q[x] = y
    BY <1>1 DEF Range
  <2>3. \A x, y \in 1 .. Len(q) : q[x] = q[y] => x = y
    BY <1>1 DEF IsInjective
  <2> QED
    BY <2>1, <2>2, <2>3 DEF Surjection, Injection
<1> QED
  BY <1>2, <1>3, FS_Surjection

\* Disjoint finite sets.
LEMMA DisjointCardinality ==
  ASSUME NEW S, NEW T, IsFiniteSet(S), IsFiniteSet(T), S \cap T = {}
  PROVE  IsFiniteSet(S \cup T) /\ Cardinality(S \cup T) = Cardinality(S) + Cardinality(T)
<1>1. /\ IsFiniteSet(S \cup T)
      /\ Cardinality(S \cup T) = Cardinality(S) + Cardinality(T) - Cardinality(S \cap T)
  BY FS_Union
<1>2. Cardinality(S \cap T) = 0 /\ Cardinality(S) \in Nat /\ Cardinality(T) \in Nat
  BY FS_EmptySet, FS_CardinalityType
<1> QED
  BY <1>1, <1>2

\* As many blocks are with senders as there are senders between their pop and
\* their push.
LEMMA HandsCardinality ==
  ASSUME Inv, NEW A, A = {s \in Senders : spc[s] \in {"copy", "push"}}
  PROVE  IsFiniteSet(WithSenders) /\ Cardinality(WithSenders) = Cardinality(A)
<1> DEFINE f == [s \in A |-> spayload[s]]
<1>1. A \subseteq Senders /\ \A s \in Senders : s \in A <=> spayload[s] # NoBlock
  BY DEF Inv, HoldsBlock
<1>2. WithSenders \subseteq Blocks
  BY DEF Inv, Owners, NoneLeaks
<1>3. IsFiniteSet(WithSenders)
  <2>1. IsFiniteSet(Blocks)
    BY FS_Interval DEF Blocks
  <2> QED
    BY ONLY <1>2, <2>1, FS_Subset
<1>4. f \in [A -> WithSenders] /\ \A s \in A : f[s] = spayload[s]
  BY <1>1 DEF WithSenders
<1>5. IsInjective(f)
  <2>1. DOMAIN f = A
    OBVIOUS
  <2> HIDE DEF f
  <2> QED
    BY <1>1, <1>4, <2>1 DEF IsInjective, Inv, Owners, Apart
<1>6. f \in Surjection(A, WithSenders)
  <2>1. \A b \in WithSenders : \E s \in A : f[s] = b
    BY <1>1, <1>4 DEF WithSenders
  <2> HIDE DEF f
  <2> QED
    BY <1>4, <2>1 DEF Surjection
<1>7. f \in Injection(A, WithSenders)
  BY <1>4, <1>5 DEF Injection
<1> QED
  BY <1>3, <1>6, <1>7, FS_Injection

\* The places taken are the blocks that are not free.
LEMMA PlacesAreBlocks ==
  ASSUME Inv
  PROVE  Promise!PlacesTaken = BlockCount - Len(freeList) /\ Len(freeList) \in 0 .. BlockCount
<1> DEFINE A == {s \in Senders : spc[s] \in {"copy", "push"}}
           F == Range(freeList)
           Q == Range(mQueue)
<1>1. /\ IsFiniteSet(F) /\ Cardinality(F) = Len(freeList)
      /\ IsFiniteSet(Q) /\ Cardinality(Q) = Len(mQueue)
      /\ Len(freeList) \in 0 .. BlockCount /\ Len(mQueue) \in Nat
  BY Types, RangeCardinality, NeverLonger DEF Inv, Owners, Apart
<1>2. /\ IsFiniteSet(WithSenders) /\ Cardinality(WithSenders) = Cardinality(A)
      /\ Cardinality(A) \in Nat
  BY HandsCardinality, FS_CardinalityType
<1>3. IsFiniteSet(WithTransmitter) /\ Cardinality(WithTransmitter) = Len(inTransfer)
  <2>1. CASE rpc \in {"copy", "free"}
    <3>1. WithTransmitter = {rpayload}
      BY <2>1 DEF Inv, HoldsBlock, WithTransmitter
    <3>2. Len(inTransfer) = 1
      BY <2>1 DEF inTransfer
    <3> QED
      BY <3>1, <3>2, FS_Singleton
  <2>2. CASE rpc \notin {"copy", "free"}
    <3>1. WithTransmitter = {}
      BY <2>2 DEF Inv, HoldsBlock, WithTransmitter
    <3>2. Len(inTransfer) = 0
      BY <2>2 DEF inTransfer
    <3> QED
      BY <3>1, <3>2, FS_EmptySet
  <2> QED
    BY <2>1, <2>2
<1>4. Promise!PlacesTaken = Cardinality(A) + Len(mQueue) + Len(inTransfer)
  <2>1. Promise!Accepted = A
    BY DEF Promise!Accepted, offers
  <2>2. Len(queued) = Len(mQueue)
    BY <1>1, Types, LenProperties DEF queued, Inv
  <2>3. Promise!Cardinality(A) = Cardinality(A)
    BY DEF Promise!Cardinality, Cardinality
  <2> QED
    BY <2>1, <2>2, <2>3 DEF Promise!PlacesTaken
<1> HIDE DEF A, F, Q
<1>5. BlockCount = Cardinality(F) + Cardinality(Q) + Cardinality(WithSenders)
                     + Cardinality(WithTransmitter)
  <2>1. F \cap Q = {} /\ (F \cup Q) \cap (WithSenders \cup WithTransmitter) = {}
        /\ WithSenders \cap WithTransmitter = {}
    BY DEF Inv, Owners, Apart, F, Q
  <2>2. Blocks = (F \cup Q) \cup (WithSenders \cup WithTransmitter)
    BY DEF Inv, Owners, NoneLeaks, F, Q
  <2>3. Cardinality(Blocks) = BlockCount
    BY FS_Interval DEF Blocks
  <2>4. /\ IsFiniteSet(F \cup Q)
        /\ Cardinality(F \cup Q) = Cardinality(F) + Cardinality(Q)
    BY <1>1, <2>1, DisjointCardinality
  <2>5. /\ IsFiniteSet(WithSenders \cup WithTransmitter)
        /\ Cardinality(WithSenders \cup WithTransmitter)
             = Cardinality(WithSenders) + Cardinality(WithTransmitter)
    BY <1>2, <1>3, <2>1, DisjointCardinality
  <2>6. Cardinality(Blocks)
          = Cardinality(F \cup Q) + Cardinality(WithSenders \cup WithTransmitter)
    BY <2>1, <2>2, <2>4, <2>5, DisjointCardinality
  <2>7. /\ Cardinality(F) \in Nat /\ Cardinality(Q) \in Nat
        /\ Cardinality(WithSenders) \in Nat /\ Cardinality(WithTransmitter) \in Nat
    BY <1>1, <1>2, <1>3, FS_CardinalityType
  <2> QED
    BY <2>3, <2>4, <2>5, <2>6, <2>7
<1>6. Len(inTransfer) \in Nat
  BY <1>3, FS_CardinalityType
<1>7. BlockCount = Len(freeList) + Len(mQueue) + Cardinality(A) + Len(inTransfer)
  BY <1>1, <1>2, <1>3, <1>5
<1>8. Len(freeList) \in Int
  BY <1>1
<1> QED
  <2>1. Promise!PlacesTaken = Cardinality(A) + Len(mQueue) + Len(inTransfer)
    BY ONLY <1>4
  <2>2. Len(freeList) \in 0 .. BlockCount
    BY ONLY <1>1
  <2>3. Cardinality(A) + Len(mQueue) + Len(inTransfer) = BlockCount - Len(freeList)
    <3>1. Cardinality(A) \in Int /\ Len(mQueue) \in Int
      BY ONLY <1>1, <1>2
    <3> QED
      BY ONLY <1>6, <1>7, <1>8, <3>1
  <2> QED
    BY ONLY <2>1, <2>2, <2>3

-----------------------------------------------------------------------------
(* The queue of blocks implements the promised queue of chunks. *)

\* Nothing is offered, queued or in transfer at first.
LEMMA InitRefines == Init => Promise!Init
<1> SUFFICES ASSUME Init PROVE Promise!Init
  OBVIOUS
<1>1. offers = [s \in Senders |-> "done"]
  BY DEF Init, offers
<1>2. queued = <<>>
  BY DEF Init, queued
<1>3. inTransfer = <<>>
  BY DEF Init, inTransfer
<1> QED
  BY <1>1, <1>2, <1>3 DEF Init, Promise!Init

\* A step of one sender changes only what became of its own chunk.
LEMMA OffersMove ==
  ASSUME TypeOK, NEW s \in Senders, NEW to, spc' = [spc EXCEPT ![s] = to], blocks' = blocks
  PROVE  offers' = [offers EXCEPT ![s] = offers'[s]] /\ spc'[s] = to
<1>1. spc'[s] = to /\ \A r \in Senders : r # s => spc'[r] = spc[r]
  BY Types
<1>2. \A r \in Senders : r # s => offers'[r] = offers[r]
  BY <1>1 DEF offers
<1>3. DOMAIN offers = Senders /\ DOMAIN offers' = Senders
  BY DEF offers
<1>4. offers' = [r \in Senders |-> offers'[r]] /\ offers = [r \in Senders |-> offers[r]]
  BY DEF offers
<1> HIDE DEF offers
<1>5. offers' = [offers EXCEPT ![s] = offers'[s]]
  BY <1>2, <1>3, <1>4
<1> QED
  BY <1>1, <1>5

\* What a step leaves alone in the queue of blocks it leaves in that of chunks.
LEMMA QueuedStays ==
  ASSUME UNCHANGED <<mQueue, memory>>
  PROVE  queued' = queued
BY DEF queued

LEMMA InTransferStays ==
  ASSUME UNCHANGED <<rpc, rpayload, memory, chunk>>
  PROVE  inTransfer' = inTransfer
BY DEF inTransfer

\* A call of send offers a chunk, and a chunk that finds a free block has a
\* place: not all of them can be taken.
LEMMA SendRefines ==
  ASSUME Inv, NEW s \in Senders, Send(s) \/ PopFree(s)
  PROVE  Promise!Offer(s) \/ Promise!Accept(s)
<1>1. UNCHANGED <<blocks, received, lost, mQueue, memory, rpc, rpayload, chunk>>
  BY DEF Send, PopFree, receiverVars
<1>2. queued' = queued /\ inTransfer' = inTransfer
  BY <1>1, QueuedStays, InTransferStays
<1>3. CASE Send(s)
  <2>1. /\ sent[s] < MaxSends /\ spc[s] = "idle" /\ spc' = [spc EXCEPT ![s] = "pop"]
        /\ sent' = [sent EXCEPT ![s] = @ + 1]
    BY <1>3 DEF Send, At
  <2>2. offers' = [offers EXCEPT ![s] = "asking"] /\ offers[s] = "done"
    <3>1. offers' = [offers EXCEPT ![s] = offers'[s]] /\ spc'[s] = "pop"
      BY <1>1, <2>1, OffersMove DEF Inv
    <3>2. offers'[s] = "asking" /\ offers[s] = "done"
      BY <2>1, <3>1 DEF offers
    <3> QED
      BY ONLY <3>1, <3>2
  <2> QED
    BY <1>1, <1>2, <2>1, <2>2 DEF Promise!Offer
<1>4. CASE PopFree(s)
  <2>1. /\ freeList # <<>> /\ spc[s] = "pop" /\ spc' = [spc EXCEPT ![s] = "copy"]
        /\ sent' = sent
    BY <1>4 DEF PopFree, At
  <2>2. offers' = [offers EXCEPT ![s] = "accepted"] /\ offers[s] = "asking"
    BY <1>1, <2>1, OffersMove DEF offers, Inv
  <2>3. Len(freeList) # 0
    BY <2>1, Types, EmptySeq DEF Inv
  <2>4. Promise!PlacesTaken < BlockCount
    BY <2>3, PlacesAreBlocks
  <2> QED
    BY <1>1, <1>2, <2>1, <2>2, <2>4 DEF Promise!Accept
<1> QED
  BY <1>3, <1>4

\* A sender that finds no block is refused, or goes on asking.
LEMMA SleepRefines ==
  ASSUME Inv, NEW s \in Senders, Sleep(s)
  PROVE  Promise!Refuse(s) \/ UNCHANGED Promise!vars
<1>1. /\ UNCHANGED <<blocks, received, sent, mQueue, memory, rpc, rpayload, chunk>>
      /\ freeList = <<>> /\ spc[s] = "pop" /\ spc' = [spc EXCEPT ![s] = "sleep"]
      /\ lost' = IF blocks THEN lost ELSE lost \cup {ChunkOf(s, sent[s])}
  BY DEF Sleep, At, receiverVars
<1>2. queued' = queued /\ inTransfer' = inTransfer
  BY <1>1, QueuedStays, InTransferStays
<1>3. offers' = [offers EXCEPT ![s] = offers'[s]] /\ spc'[s] = "sleep"
  BY <1>1, OffersMove DEF Inv
<1>4. offers[s] = "asking" /\ offers'[s] = IF blocks THEN "asking" ELSE "done"
  BY <1>1, <1>3 DEF offers
<1>5. CASE blocks
  <2>1. offers' = offers
    <3>1. offers = [r \in Senders |-> offers[r]]
      BY DEF offers
    <3> QED
      BY <1>3, <1>4, <1>5, <3>1
  <2> QED
    BY <1>1, <1>2, <1>5, <2>1 DEF Promise!vars
<1>6. CASE ~blocks
  <2>1. Promise!PlacesTaken = BlockCount
    <3>1. Len(freeList) = 0
      BY <1>1
    <3> QED
      BY <3>1, PlacesAreBlocks
  <2> QED
    BY <1>1, <1>2, <1>3, <1>4, <1>6, <2>1 DEF Promise!Refuse, Promise!Last, Promise!ChunkOf, ChunkOf
<1> QED
  BY <1>5, <1>6

\* Going on asking, giving up and notifying are invisible in the promised
\* queue, and so is the copying to a block that only its sender has.
LEMMA SenderStutters ==
  ASSUME Inv, NEW s \in Senders, WakeUp(s) \/ Notify(s) \/ CopyIn(s)
  PROVE  UNCHANGED Promise!vars
<1>1. /\ UNCHANGED <<blocks, received, sent, lost, mQueue, rpc, rpayload, chunk>>
      /\ \/ spc[s] = "sleep" /\ spc' = [spc EXCEPT ![s] = IF blocks THEN "pop" ELSE "idle"]
         \/ spc[s] = "notify" /\ spc' = [spc EXCEPT ![s] = "idle"]
         \/ spc[s] = "copy" /\ spc' = [spc EXCEPT ![s] = "push"]
  BY DEF WakeUp, Notify, CopyIn, At, receiverVars
<1>2. offers' = [offers EXCEPT ![s] = offers'[s]] /\ offers'[s] = offers[s]
  BY <1>1, OffersMove DEF offers, Inv
<1>3. offers' = offers
  <2>1. offers = [r \in Senders |-> offers[r]]
    BY DEF offers
  <2> QED
    BY <1>2, <2>1
<1>4. queued' = queued /\ inTransfer' = inTransfer
  <2>1. CASE WakeUp(s) \/ Notify(s)
    BY <1>1, <2>1, QueuedStays, InTransferStays DEF WakeUp, Notify
  <2>2. CASE CopyIn(s)
    <3>1. /\ \A b \in Blocks : b # spayload[s] => memory'[b] = memory[b]
          /\ spayload[s] \notin Range(mQueue) /\ spayload[s] # rpayload
      BY <2>2, CopyInInv
    <3>2. \A i \in DOMAIN mQueue : mQueue[i] \in Blocks
          /\ memory'[mQueue[i]] = memory[mQueue[i]]
      BY <3>1 DEF Range, Inv, Owners, NoneLeaks
    <3>3. rpc = "copy" => memory'[rpayload] = memory[rpayload]
      BY <3>1, Types DEF Inv, HoldsBlock
    <3> QED
      BY <1>1, <3>2, <3>3 DEF queued, inTransfer
  <2> QED
    BY <2>1, <2>2
<1> QED
  BY <1>1, <1>3, <1>4 DEF Promise!vars

\* The queue of chunks is a sequence as long as the queue of blocks.
QueuedOK ==
  /\ queued \in Seq(Chunks) /\ Len(queued) = Len(mQueue) /\ Len(mQueue) \in Nat
  /\ \A i \in 1 .. Len(mQueue) : queued[i] = memory[mQueue[i]]

LEMMA QueuedType == Inv => QueuedOK
<1> SUFFICES ASSUME Inv PROVE QueuedOK
  OBVIOUS
<1>1. /\ Len(mQueue) \in Nat /\ DOMAIN mQueue = 1 .. Len(mQueue)
  BY Types, LenProperties DEF Inv
<1>2. \A i \in 1 .. Len(mQueue) : memory[mQueue[i]] \in Chunks
  BY <1>1 DEF Inv, Filled, Range
<1> QED
  BY <1>1, <1>2 DEF queued, QueuedOK

\* The same after a step.
LEMMA QueuedTypeNext == Inv' => QueuedOK'
BY QueuedType, PTL

\* The chunk that a sender has copied enters the queue.
LEMMA PushRefines ==
  ASSUME Inv, NEW s \in Senders, Push(s)
  PROVE  Promise!Enter(s)
<1>1. /\ UNCHANGED <<blocks, received, sent, lost, memory, rpc, rpayload, chunk>>
      /\ spc[s] = "push" /\ spc' = [spc EXCEPT ![s] = "notify"]
  BY DEF Push, At, receiverVars
<1>2. Inv' /\ mQueue' = Append(mQueue, spayload[s]) /\ spayload[s] \in Blocks
  BY PushInv
<1>3. offers' = [offers EXCEPT ![s] = "done"] /\ offers[s] = "accepted"
  <2>1. offers' = [offers EXCEPT ![s] = offers'[s]] /\ spc'[s] = "notify"
    BY <1>1, OffersMove DEF Inv
  <2>2. offers'[s] = "done" /\ offers[s] = "accepted"
    BY <1>1, <2>1 DEF offers
  <2> QED
    BY ONLY <2>1, <2>2
<1>4. inTransfer' = inTransfer
  BY <1>1, InTransferStays
<1> DEFINE c == ChunkOf(s, sent[s])
           n == Len(mQueue)
<1>5. memory[spayload[s]] = c
  BY <1>1 DEF Inv, Filled
<1>6. /\ n \in Nat /\ Len(mQueue') = n + 1
      /\ \A i \in 1 .. n : mQueue'[i] = mQueue[i]
      /\ mQueue'[n + 1] = spayload[s]
  BY <1>2, Types, LenProperties, AppendProperties DEF Inv
<1>7. /\ queued \in Seq(Chunks) /\ Len(queued) = n
      /\ \A i \in 1 .. n : queued[i] = memory[mQueue[i]]
  BY QueuedType DEF QueuedOK
<1>8. /\ queued' \in Seq(Chunks) /\ Len(queued') = n + 1
      /\ \A i \in 1 .. n + 1 : queued'[i] = memory[mQueue'[i]]
  <2>1. /\ queued' \in Seq(Chunks) /\ Len(queued') = Len(mQueue')
        /\ \A i \in 1 .. Len(mQueue') : queued'[i] = memory'[mQueue'[i]]
    BY <1>2, QueuedTypeNext DEF QueuedOK
  <2> QED
    BY <1>1, <1>6, <2>1
<1>9. c \in Chunks
  <2>1. sent[s] # 0 /\ sent[s] \in 0 .. MaxSends
    BY <1>1 DEF Inv, Filled, TypeOK
  <2> QED
    BY <2>1 DEF ChunkOf, Chunks
<1> HIDE DEF c, n
<1>10. queued' = Append(queued, c)
  <2>1. /\ Append(queued, c) \in Seq(Chunks) /\ Len(Append(queued, c)) = n + 1
        /\ \A i \in 1 .. n : Append(queued, c)[i] = queued[i]
        /\ Append(queued, c)[n + 1] = c
    BY <1>7, <1>9, AppendProperties
  <2>2. \A i \in 1 .. n + 1 : queued'[i] = Append(queued, c)[i]
    BY <1>5, <1>6, <1>7, <1>8, <2>1
  <2> QED
    BY <1>8, <2>1, <2>2, SeqEqual
<1> QED
  BY <1>1, <1>3, <1>4, <1>10 DEF Promise!Enter, Promise!Last, Promise!ChunkOf, ChunkOf, c

\* Waiting, looking and copying out are invisible in the promised queue.
LEMMA ReceiverStutters ==
  ASSUME Inv, Receive \/ WaitTimesOut \/ WaitEnds \/ PopNothing \/ CopyOut
  PROVE  UNCHANGED Promise!vars
<1>1. UNCHANGED <<blocks, received, sent, lost, spc, mQueue, memory, rpayload>>
  BY DEF Receive, WaitTimesOut, WaitEnds, PopNothing, CopyOut, senderVars
<1>2. offers' = offers /\ queued' = queued
  BY <1>1, QueuedStays DEF offers
<1>3. inTransfer' = inTransfer
  <2>1. CASE CopyOut
    BY <1>1, <2>1 DEF CopyOut, inTransfer
  <2>2. CASE ~CopyOut
    BY <1>1, <2>2 DEF Receive, WaitTimesOut, WaitEnds, PopNothing, inTransfer
  <2> QED
    BY <2>1, <2>2
<1> QED
  BY <1>1, <1>2, <1>3 DEF Promise!vars

\* The oldest chunk leaves the queue.
LEMMA PopRefines ==
  ASSUME Inv, Pop
  PROVE  Promise!Take
<1>1. /\ UNCHANGED <<blocks, received, sent, lost, spc, memory>>
      /\ rpc = "pop" /\ mQueue # <<>> /\ rpc' = "copy"
      /\ rpayload' = Head(mQueue) /\ mQueue' = Tail(mQueue)
  BY DEF Pop, senderVars
<1>2. offers' = offers
  BY <1>1 DEF offers
<1> DEFINE n == Len(mQueue)
<1>3. /\ queued \in Seq(Chunks) /\ Len(queued) = n
      /\ \A i \in 1 .. n : queued[i] = memory[mQueue[i]]
  BY QueuedType DEF QueuedOK
<1>4. /\ queued' \in Seq(Chunks) /\ Len(queued') = Len(mQueue')
      /\ \A i \in 1 .. Len(mQueue') : queued'[i] = memory[mQueue'[i]]
  BY <1>1, PopInv, QueuedTypeNext DEF QueuedOK
<1>5. /\ n \in Nat \ {0} /\ Len(mQueue') = n - 1
      /\ \A i \in 1 .. n - 1 : mQueue'[i] = mQueue[i + 1]
      /\ Head(mQueue) = mQueue[1]
  BY <1>1, Types, EmptySeq, HeadTailProperties DEF Inv
<1> HIDE DEF n
<1>6. queued # <<>> /\ Head(queued) = memory[Head(mQueue)]
  BY <1>3, <1>5
<1>7. queued' = Tail(queued)
  <2>1. /\ Tail(queued) \in Seq(Chunks) /\ Len(Tail(queued)) = n - 1
        /\ \A i \in 1 .. n - 1 : Tail(queued)[i] = queued[i + 1]
    BY <1>3, <1>5, <1>6, HeadTailProperties
  <2>2. \A i \in 1 .. n - 1 : queued'[i] = Tail(queued)[i]
    BY <1>3, <1>4, <1>5, <2>1
  <2>3. queued' \in Seq(Chunks) /\ Len(queued') = n - 1
    BY <1>4, <1>5
  <2> QED
    BY ONLY <2>1, <2>2, <2>3, SeqEqual
<1>8. inTransfer = <<>> /\ inTransfer' = <<Head(queued)>>
  BY <1>1, <1>6 DEF inTransfer
<1> QED
  BY <1>1, <1>2, <1>6, <1>7, <1>8 DEF Promise!Take

\* The chunk is received when its block is given back.
LEMMA FreeRefines ==
  ASSUME Inv, Free
  PROVE  Promise!Deliver
<1>1. /\ UNCHANGED <<blocks, sent, lost, spc, memory, mQueue>>
      /\ rpc = "free" /\ rpc' = "idle" /\ received' = Append(received, chunk)
  BY DEF Free, senderVars
<1>2. offers' = offers /\ queued' = queued
  BY <1>1, QueuedStays DEF offers
<1>3. inTransfer = <<chunk>> /\ inTransfer' = <<>>
  BY <1>1 DEF inTransfer
<1>4. received' = received \o <<chunk>>
  <2>1. received \in Seq(Chunks) /\ chunk \in Chunks
    BY <1>1 DEF Inv, TypeOK, Filled
  <2> QED
    BY <1>1, <2>1, AppendIsConcat
<1> QED
  BY <1>1, <1>2, <1>3, <1>4 DEF Promise!Deliver

\* Every step is one of the promised queue, or invisible there.
LEMMA StepRefines == Inv /\ [Next]_vars => [Promise!Next]_(Promise!vars)
<1>1. Inv /\ UNCHANGED vars => UNCHANGED Promise!vars
  BY DEF vars, senderVars, receiverVars, Promise!vars, offers, queued, inTransfer
<1>2. ASSUME Inv, NEW s \in Senders, Send(s) \/ InSend(s)
      PROVE  \/ Promise!Offer(s) \/ Promise!Accept(s) \/ Promise!Refuse(s) \/ Promise!Enter(s)
             \/ UNCHANGED Promise!vars
  BY <1>2, SendRefines, SleepRefines, SenderStutters, PushRefines DEF InSend
<1>3. ASSUME Inv, Transmitter
      PROVE  Promise!Take \/ Promise!Deliver \/ UNCHANGED Promise!vars
  BY <1>3, ReceiverStutters, PopRefines, FreeRefines DEF Transmitter
<1> QED
  BY <1>1, <1>2, <1>3 DEF Next, Promise!Next

\* FreeRtosQueue of the std::thread port implements the bounded queue that the
\* senders and the transmitter are promised: a chunk is refused only when all
\* places are taken, and none is lost after that.
THEOREM ImplementsPromise == Spec => Implements
BY InitRefines, StepRefines, InvHolds, PTL DEF Implements, Spec, Promise!Spec

-----------------------------------------------------------------------------
(* What the bounded queue promises, whoever implements it. *)

LineChunks == [sender : Senders, number : Nat]

\* All that has entered the queue, in the order of entry.
line == received \o (inTransfer \o queued)

LineTypeOK ==
  /\ sent \in [Senders -> Nat]
  /\ offers \in [Senders -> {"asking", "accepted", "done"}]
  /\ queued \in Seq(LineChunks) /\ inTransfer \in Seq(LineChunks)
     /\ received \in Seq(LineChunks)

InOrder ==
  \A i, j \in 1 .. Len(line) :
    i < j /\ line[i].sender = line[j].sender => line[i].number < line[j].number

\* What has entered was offered, and is not what its sender waits with.
Offered ==
  \A i \in 1 .. Len(line) :
    LET s == line[i].sender
    IN  /\ line[i].number <= sent[s]
        /\ offers[s] # "done" => line[i].number < sent[s]

\* What was offered is with its sender, was refused, or has entered.
NoneMissing ==
  \A s \in Senders : \A n \in 1 .. sent[s] :
    \/ n = sent[s] /\ offers[s] # "done"
    \/ Promise!ChunkOf(s, n) \in lost
    \/ \E k \in 1 .. Len(line) : line[k] = Promise!ChunkOf(s, n)

LInv == LineTypeOK /\ InOrder /\ Offered /\ NoneMissing

\* The queue of chunks and what entered are sequences of chunks.
LEMMA LineType ==
  ASSUME LineTypeOK
  PROVE  line \in Seq(LineChunks) /\ Len(line) \in Nat
<1>1. queued \in Seq(LineChunks) /\ inTransfer \in Seq(LineChunks)
      /\ received \in Seq(LineChunks)
  BY DEF LineTypeOK
<1>2. inTransfer \o queued \in Seq(LineChunks)
  BY <1>1, ConcatProperties
<1>3. line \in Seq(LineChunks)
  BY <1>1, <1>2, ConcatProperties DEF line
<1> QED
  BY <1>3, LenProperties

\* Nothing was offered at first.
LEMMA LInit == Promise!Init => LInv
<1> SUFFICES ASSUME Promise!Init PROVE LInv
  OBVIOUS
<1>1. line = <<>> /\ Len(line) = 0
  <2>1. <<>> \o (<<>> \o <<>>) = <<>>
    OBVIOUS
  <2> QED
    BY <2>1 DEF Promise!Init, line
<1>2. LineTypeOK
  BY DEF Promise!Init, LineTypeOK
<1> QED
  BY <1>1, <1>2 DEF Promise!Init, LInv, InOrder, Offered, NoneMissing

\* What keeps the line and only lets a sender go on with a new chunk, or ask,
\* or give up, keeps the invariant when types and completeness are kept.
LEMMA SameLine ==
  ASSUME LInv, LineTypeOK', line' = line, NoneMissing',
         \A s \in Senders : sent[s] <= sent'[s] /\ (offers'[s] # "done" =>
                              offers[s] # "done" \/ sent[s] < sent'[s])
  PROVE  LInv'
<1>1. line \in Seq(LineChunks) /\ Len(line) \in Nat
  BY LineType DEF LInv
<1>2. Offered'
  <2>1. ASSUME NEW i \in 1 .. Len(line)
        PROVE  /\ line[i].number <= sent'[line[i].sender]
               /\ offers'[line[i].sender] # "done" => line[i].number < sent'[line[i].sender]
    <3> DEFINE c == line[i]
               s == c.sender
    <3>1. c \in LineChunks
      BY <1>1, ElementOfSeq
    <3>2. s \in Senders /\ c.number \in Nat
      BY <3>1 DEF LineChunks
    <3>3. sent[s] \in Nat /\ sent'[s] \in Nat
      BY <3>2 DEF LInv, LineTypeOK
    <3>4. c.number <= sent[s] /\ (offers[s] # "done" => c.number < sent[s])
      BY DEF LInv, Offered
    <3> HIDE DEF c, s
    <3>5. c.number <= sent'[s] /\ (offers'[s] # "done" => c.number < sent'[s])
      BY <3>2, <3>3, <3>4
    <3> QED
      BY <3>5 DEF c, s
  <2> QED
    BY <2>1 DEF Offered
<1>3. InOrder'
  BY DEF LInv, InOrder
<1> QED
  BY <1>2, <1>3 DEF LInv

\* A new chunk is with its sender.
LEMMA OfferKeeps ==
  ASSUME LInv, NEW s \in Senders, Promise!Offer(s)
  PROVE  LInv'
<1>1. /\ offers[s] = "done"
      /\ sent' = [sent EXCEPT ![s] = sent[s] + 1]
      /\ offers' = [offers EXCEPT ![s] = "asking"]
      /\ queued' = queued /\ inTransfer' = inTransfer /\ received' = received /\ lost' = lost
  BY DEF Promise!Offer
<1>2. sent \in [Senders -> Nat] /\ offers \in [Senders -> {"asking", "accepted", "done"}]
  BY DEF LInv, LineTypeOK
<1>3. line' = line
  BY <1>1 DEF line
<1>4. /\ sent'[s] = sent[s] + 1 /\ offers'[s] = "asking"
      /\ \A r \in Senders : r # s => sent'[r] = sent[r] /\ offers'[r] = offers[r]
      /\ sent' \in [Senders -> Nat] /\ offers' \in [Senders -> {"asking", "accepted", "done"}]
  BY <1>1, <1>2
<1>5. LineTypeOK'
  BY <1>1, <1>4 DEF LInv, LineTypeOK
<1>6. NoneMissing'
  <2>1. ASSUME NEW r \in Senders, NEW n \in 1 .. sent'[r]
        PROVE  \/ n = sent'[r] /\ offers'[r] # "done"
               \/ Promise!ChunkOf(r, n) \in lost
               \/ \E k \in 1 .. Len(line) : line[k] = Promise!ChunkOf(r, n)
    <3>1. CASE r = s /\ n = sent'[r]
      BY <1>4, <3>1
    <3>2. CASE ~(r = s /\ n = sent'[r])
      <4>1. n \in 1 .. sent[r] /\ (r = s => offers[r] = "done")
            /\ (r # s => sent'[r] = sent[r] /\ offers'[r] = offers[r])
        BY <1>1, <1>2, <1>4, <3>2
      <4> QED
        BY <4>1 DEF LInv, NoneMissing
    <3> QED
      BY <3>1, <3>2
  <2> QED
    BY <1>1, <1>3, <2>1 DEF NoneMissing, Promise!ChunkOf
<1>7. \A r \in Senders : sent[r] <= sent'[r] /\ (offers'[r] # "done" =>
                           offers[r] # "done" \/ sent[r] < sent'[r])
  BY <1>2, <1>4
<1> QED
  BY <1>3, <1>5, <1>6, <1>7, SameLine

\* A chunk that has a place, or that is refused, changes no order.
LEMMA AnswerKeeps ==
  ASSUME LInv, NEW s \in Senders, Promise!Accept(s) \/ Promise!Refuse(s)
  PROVE  LInv'
<1>1. /\ offers[s] = "asking"
      /\ \/ offers' = [offers EXCEPT ![s] = "accepted"] /\ lost' = lost
         \/ offers' = [offers EXCEPT ![s] = "done"]
            /\ lost' = lost \cup {Promise!ChunkOf(s, sent[s])}
      /\ sent' = sent /\ queued' = queued /\ inTransfer' = inTransfer /\ received' = received
  BY DEF Promise!Accept, Promise!Refuse, Promise!Last
<1>2. sent \in [Senders -> Nat] /\ offers \in [Senders -> {"asking", "accepted", "done"}]
  BY DEF LInv, LineTypeOK
<1>3. line' = line
  BY <1>1 DEF line
<1>4. /\ \A r \in Senders : r # s => offers'[r] = offers[r]
      /\ offers'[s] \in {"accepted", "done"}
      /\ offers' \in [Senders -> {"asking", "accepted", "done"}]
  BY <1>1, <1>2
<1>5. LineTypeOK'
  BY <1>1, <1>2, <1>4 DEF LInv, LineTypeOK
<1>6. NoneMissing'
  <2>1. ASSUME NEW r \in Senders, NEW n \in 1 .. sent[r]
        PROVE  \/ n = sent[r] /\ offers'[r] # "done"
               \/ Promise!ChunkOf(r, n) \in lost'
               \/ \E k \in 1 .. Len(line) : line[k] = Promise!ChunkOf(r, n)
    <3>1. \/ n = sent[r] /\ offers[r] # "done"
          \/ Promise!ChunkOf(r, n) \in lost
          \/ \E k \in 1 .. Len(line) : line[k] = Promise!ChunkOf(r, n)
      BY DEF LInv, NoneMissing
    <3>2. CASE n = sent[r] /\ offers[r] # "done"
      <4>1. CASE r = s
        BY <1>1, <1>2, <3>2, <4>1
      <4>2. CASE r # s
        BY <1>4, <3>2, <4>2
      <4> QED
        BY <4>1, <4>2
    <3> QED
      BY <1>1, <3>1, <3>2
  <2> QED
    BY <1>1, <1>3, <2>1 DEF NoneMissing, Promise!ChunkOf
<1>7. \A r \in Senders : sent[r] <= sent'[r] /\ (offers'[r] # "done" => offers[r] # "done")
  BY <1>1, <1>2, <1>4
<1> QED
  BY <1>3, <1>5, <1>6, <1>7, SameLine

\* Appending behind a sequence in two parts.
LEMMA AppendBehind ==
  ASSUME NEW S, NEW q \in Seq(S), NEW r \in Seq(S), NEW e \in S
  PROVE  q \o Append(r, e) = Append(q \o r, e)
<1>1. Append(r, e) = r \o <<e>> /\ <<e>> \in Seq(S) /\ q \o r \in Seq(S)
  BY AppendIsConcat, ConcatProperties
<1>2. Append(q \o r, e) = (q \o r) \o <<e>>
  BY <1>1, AppendIsConcat
<1>3. (q \o r) \o <<e>> = q \o (r \o <<e>>)
  BY <1>1, ConcatAssociative
<1> QED
  BY <1>1, <1>2, <1>3

\* What enters the queue enters the line.
LEMMA EnterAppends ==
  ASSUME LInv, NEW s \in Senders, Promise!Enter(s)
  PROVE  line' = Append(line, Promise!ChunkOf(s, sent[s]))
<1> DEFINE c == Promise!ChunkOf(s, sent[s])
<1>1. queued' = Append(queued, c) /\ inTransfer' = inTransfer /\ received' = received
  BY DEF Promise!Enter, Promise!Last
<1>2. /\ sent \in [Senders -> Nat] /\ queued \in Seq(LineChunks)
      /\ inTransfer \in Seq(LineChunks) /\ received \in Seq(LineChunks)
  BY DEF LInv, LineTypeOK
<1>3. c \in LineChunks
  BY <1>2 DEF Promise!ChunkOf, LineChunks
<1> HIDE DEF c
<1>4. inTransfer \o Append(queued, c) = Append(inTransfer \o queued, c)
      /\ inTransfer \o queued \in Seq(LineChunks)
  BY <1>2, <1>3, AppendBehind, ConcatProperties
<1>5. received \o Append(inTransfer \o queued, c) = Append(received \o (inTransfer \o queued), c)
  BY <1>2, <1>3, <1>4, AppendBehind
<1>6. line' = Append(line, c)
  BY <1>1, <1>4, <1>5 DEF line
<1> QED
  BY <1>6 DEF c

\* The chunk that enters is the youngest of its sender.
LEMMA EnterKeeps ==
  ASSUME LInv, NEW s \in Senders, Promise!Enter(s)
  PROVE  LInv'
<1> DEFINE c == Promise!ChunkOf(s, sent[s])
           n == Len(line)
<1>1. /\ offers[s] = "accepted"
      /\ offers' = [offers EXCEPT ![s] = "done"]
      /\ queued' = Append(queued, c)
      /\ sent' = sent /\ inTransfer' = inTransfer /\ received' = received /\ lost' = lost
  BY DEF Promise!Enter, Promise!Last
<1>2. /\ sent \in [Senders -> Nat] /\ offers \in [Senders -> {"asking", "accepted", "done"}]
      /\ queued \in Seq(LineChunks) /\ inTransfer \in Seq(LineChunks)
         /\ received \in Seq(LineChunks)
  BY DEF LInv, LineTypeOK
<1>3. c \in LineChunks /\ c.sender = s /\ c.number = sent[s]
  BY <1>2 DEF Promise!ChunkOf, LineChunks
<1>4. line \in Seq(LineChunks) /\ n \in Nat
  BY LineType DEF LInv
<1>5. line' = Append(line, c)
  BY EnterAppends
<1> HIDE DEF c, n
<1>6. /\ Len(line') = n + 1
      /\ \A i \in 1 .. n : line'[i] = line[i]
      /\ line'[n + 1] = c
  BY <1>3, <1>4, <1>5, AppendProperties DEF n
<1>7. \A i \in 1 .. n : line[i] \in LineChunks
  BY <1>4, ElementOfSeq DEF n
<1>8. /\ offers'[s] = "done" /\ \A r \in Senders : r # s => offers'[r] = offers[r]
      /\ offers' \in [Senders -> {"asking", "accepted", "done"}]
  BY <1>1, <1>2
<1>9. LineTypeOK'
  <2>1. queued' \in Seq(LineChunks)
    BY <1>1, <1>2, <1>3, AppendProperties
  <2> QED
    BY <1>1, <1>2, <1>8, <2>1 DEF LineTypeOK
<1>10. InOrder'
  <2>1. ASSUME NEW i \in 1 .. n + 1, NEW j \in 1 .. n + 1, i < j,
               line'[i].sender = line'[j].sender
        PROVE  line'[i].number < line'[j].number
    <3>1. i \in 1 .. n /\ line'[i] = line[i]
      BY <1>4, <1>6, <2>1 DEF n
    <3>2. CASE j \in 1 .. n
      BY <1>6, <2>1, <3>1, <3>2 DEF LInv, InOrder, n
    <3>3. CASE j = n + 1
      <4>1. line[i].sender = s
        BY <1>3, <1>6, <2>1, <3>1, <3>3
      <4>2. line[i].number < sent[s]
        BY <1>1, <3>1, <4>1 DEF LInv, Offered, n
      <4> QED
        BY <1>3, <1>6, <3>1, <3>3, <4>2
    <3> QED
      BY <1>4, <3>2, <3>3 DEF n
  <2> QED
    BY <1>6, <2>1 DEF InOrder
<1>11. Offered'
  <2>1. ASSUME NEW i \in 1 .. n + 1
        PROVE  /\ line'[i].number <= sent[line'[i].sender]
               /\ offers'[line'[i].sender] # "done" => line'[i].number < sent[line'[i].sender]
    <3>1. CASE i = n + 1
      BY <1>2, <1>3, <1>6, <1>8, <3>1
    <3>2. CASE i \in 1 .. n
      <4>1. line'[i] = line[i] /\ line[i].sender \in Senders
        BY <1>6, <1>7, <3>2 DEF LineChunks
      <4>2. /\ line[i].number <= sent[line[i].sender]
            /\ offers[line[i].sender] # "done" => line[i].number < sent[line[i].sender]
        BY <3>2 DEF LInv, Offered, n
      <4> QED
        BY <1>8, <4>1, <4>2
    <3> QED
      BY <1>4, <3>1, <3>2 DEF n
  <2> QED
    BY <1>1, <1>6, <2>1 DEF Offered
<1>12. NoneMissing'
  <2>1. ASSUME NEW r \in Senders, NEW m \in 1 .. sent[r]
        PROVE  \/ m = sent[r] /\ offers'[r] # "done"
               \/ Promise!ChunkOf(r, m) \in lost
               \/ \E k \in 1 .. n + 1 : line'[k] = Promise!ChunkOf(r, m)
    <3>1. \/ m = sent[r] /\ offers[r] # "done"
          \/ Promise!ChunkOf(r, m) \in lost
          \/ \E k \in 1 .. n : line[k] = Promise!ChunkOf(r, m)
      BY DEF LInv, NoneMissing, n
    <3>2. n + 1 \in 1 .. n + 1 /\ \A k \in 1 .. n : k \in 1 .. n + 1
      BY <1>4 DEF n
    <3>3. CASE r = s /\ m = sent[r]
      BY <1>6, <3>2, <3>3 DEF c
    <3>4. CASE ~(r = s /\ m = sent[r])
      <4>1. ~(m = sent[r] /\ offers'[r] # "done" /\ r = s)
        BY <3>4
      <4>2. r # s => offers'[r] = offers[r]
        BY <1>8
      <4>3. m = sent[r] /\ offers[r] # "done" => m = sent[r] /\ offers'[r] # "done"
        BY ONLY <3>4, <4>1, <4>2
      <4>4. \A k \in 1 .. n : k \in 1 .. n + 1 /\ line'[k] = line[k]
        BY ONLY <1>6, <3>2
      <4> QED
        BY ONLY <3>1, <4>3, <4>4
    <3> QED
      BY <3>3, <3>4
  <2> QED
    BY <1>1, <1>6, <2>1 DEF NoneMissing, Promise!ChunkOf
<1> QED
  BY <1>9, <1>10, <1>11, <1>12 DEF LInv

\* Taking a chunk and handing it over leave all that has entered in its order.
LEMMA MovesKeepLine ==
  ASSUME LineTypeOK, Promise!Take \/ Promise!Deliver
  PROVE  line' = line /\ LineTypeOK'
<1>1. queued \in Seq(LineChunks) /\ inTransfer \in Seq(LineChunks)
      /\ received \in Seq(LineChunks)
  BY DEF LineTypeOK
<1>2. ASSUME Promise!Take
      PROVE  line' = line /\ LineTypeOK'
  <2>1. /\ queued # <<>> /\ inTransfer = <<>> /\ inTransfer' = <<Head(queued)>>
           /\ queued' = Tail(queued)
        /\ sent' = sent /\ offers' = offers /\ received' = received
    BY <1>2 DEF Promise!Take
  <2>2. Head(queued) \in LineChunks /\ Tail(queued) \in Seq(LineChunks)
        /\ <<Head(queued)>> \in Seq(LineChunks)
    BY <1>1, <2>1, HeadTailProperties
  <2>3. <<Head(queued)>> \o Tail(queued) = queued
    BY <1>1, <2>1
  <2>4. <<>> \o queued = queued
    BY <1>1, ConcatEmptySeq
  <2> QED
    BY <2>1, <2>2, <2>3, <2>4 DEF line, LineTypeOK
<1>3. ASSUME Promise!Deliver
      PROVE  line' = line /\ LineTypeOK'
  <2>1. /\ received' = received \o inTransfer /\ inTransfer' = <<>>
        /\ sent' = sent /\ offers' = offers /\ queued' = queued
    BY <1>3 DEF Promise!Deliver
  <2>2. received \o inTransfer \in Seq(LineChunks) /\ <<>> \in Seq(LineChunks)
        /\ <<>> \o queued = queued
    BY <1>1, ConcatProperties, ConcatEmptySeq
  <2>3. (received \o inTransfer) \o queued = received \o (inTransfer \o queued)
    BY <1>1, ConcatAssociative
  <2> QED
    BY <2>1, <2>2, <2>3 DEF line, LineTypeOK
<1> QED
  BY <1>2, <1>3

LEMMA MoveKeeps ==
  ASSUME LInv, Promise!Take \/ Promise!Deliver
  PROVE  LInv'
<1>1. sent' = sent /\ offers' = offers /\ lost' = lost
  BY DEF Promise!Take, Promise!Deliver
<1>2. line' = line /\ LineTypeOK'
  BY MovesKeepLine DEF LInv
<1> QED
  BY <1>1, <1>2 DEF LInv, InOrder, Offered, NoneMissing, Promise!ChunkOf

\* The invariant of the bounded queue.
LEMMA PromiseInv == Promise!Spec => []LInv
<1>1. LInv /\ UNCHANGED Promise!vars => LInv'
  BY DEF Promise!vars, LInv, LineTypeOK, InOrder, Offered, NoneMissing, Promise!ChunkOf, line
<1>2. LInv /\ Promise!Next => LInv'
  BY OfferKeeps, AnswerKeeps, EnterKeeps, MoveKeeps DEF Promise!Next
<1> QED
  BY LInit, <1>1, <1>2, PTL DEF Promise!Spec

\* What was handed over is the beginning of what has entered; between two
\* chunks of a sender there is each one that was not refused.
LEMMA OrderFollows == LInv => Promise!SenderOrder
<1> SUFFICES ASSUME LInv PROVE Promise!SenderOrder
  OBVIOUS
<1> DEFINE m == Len(received)
<1>1. /\ queued \in Seq(LineChunks) /\ inTransfer \in Seq(LineChunks)
         /\ received \in Seq(LineChunks)
      /\ sent \in [Senders -> Nat]
  BY DEF LInv, LineTypeOK
<1>2. inTransfer \o queued \in Seq(LineChunks) /\ Len(inTransfer \o queued) \in Nat /\ m \in Nat
  BY <1>1, ConcatProperties, LenProperties
<1>3. /\ m <= Len(line) /\ Len(line) \in Nat
      /\ \A i \in 1 .. m : line[i] = received[i]
  <2>1. /\ Len(line) = m + Len(inTransfer \o queued)
        /\ \A i \in 1 .. m + Len(inTransfer \o queued) :
             line[i] = IF i <= m THEN received[i] ELSE (inTransfer \o queued)[i - m]
    BY <1>1, <1>2, ConcatProperties DEF line
  <2> HIDE DEF m
  <2> QED
    BY <1>2, <2>1
<1>4. DOMAIN received = 1 .. m /\ \A i \in 1 .. m : received[i] \in LineChunks
  BY <1>1, LenProperties, ElementOfSeq
<1> HIDE DEF m
<1>5. ASSUME NEW i \in 1 .. m, NEW j \in 1 .. m, i < j,
             received[i].sender = received[j].sender
      PROVE  /\ received[i].number < received[j].number
             /\ \A n \in received[i].number + 1 .. received[j].number - 1 :
                  \/ Promise!ChunkOf(received[i].sender, n) \in lost
                  \/ \E k \in i + 1 .. j - 1 : received[k] = Promise!ChunkOf(received[i].sender, n)
  <2> DEFINE s == received[i].sender
             a == received[i].number
             b == received[j].number
  <2>1. i \in 1 .. Len(line) /\ j \in 1 .. Len(line) /\ line[i] = received[i]
        /\ line[j] = received[j]
    BY <1>2, <1>3
  <2>2. s \in Senders /\ a \in Nat /\ b \in Nat /\ sent[s] \in Nat
    BY <1>1, <1>4 DEF LineChunks
  <2>3. a < b
    BY <1>5, <2>1 DEF LInv, InOrder
  <2>4. b <= sent[s]
    BY <1>5, <2>1 DEF LInv, Offered
  <2>5. ASSUME NEW n \in a + 1 .. b - 1, Promise!ChunkOf(s, n) \notin lost
        PROVE  \E k \in i + 1 .. j - 1 : received[k] = Promise!ChunkOf(s, n)
    <3>1. n \in 1 .. sent[s] /\ n # sent[s] /\ n \in Nat /\ a < n /\ n < b
      BY <2>2, <2>4
    <3>2. PICK k \in 1 .. Len(line) : line[k] = Promise!ChunkOf(s, n)
      BY <2>2, <2>5, <3>1 DEF LInv, NoneMissing
    <3>3. line[k].sender = s /\ line[k].number = n
      BY <3>2 DEF Promise!ChunkOf
    <3>4. ~(k < i)
      <4>1. k < i => n < a
        BY <2>1, <3>3 DEF LInv, InOrder
      <4> QED
        BY <2>2, <3>1, <4>1
    <3>5. ~(j < k)
      <4>1. j < k => b < n
        BY <1>5, <2>1, <3>3 DEF LInv, InOrder
      <4> QED
        BY <2>2, <3>1, <4>1
    <3>6. k # i /\ k # j
      BY <2>1, <2>2, <3>1, <3>3
    <3>7. k \in i + 1 .. j - 1 /\ k \in 1 .. m
      <4> HIDE DEF s, a, b
      <4> QED
        BY <1>2, <1>3, <3>4, <3>5, <3>6
    <3> QED
      BY <1>3, <3>2, <3>7
  <2> QED
    BY <2>3, <2>5
<1> QED
  BY <1>4, <1>5 DEF Promise!SenderOrder

\* Whatever keeps the promise of push and pop (Log.h:507) hands over the chunks
\* of each sender in the order of their offers, none twice and none missing that
\* was not refused.
THEOREM QueuePromises == Promise!Spec => []SenderOrder
BY OrderFollows, PromiseInv, PTL DEF SenderOrder

\* Chunks of a sender are received in the order of its calls of send, none
\* twice; what is missing in between found no block.
THEOREM ReceivedInOrder == Spec => []SenderOrder
BY ImplementsPromise, QueuePromises, PTL DEF Implements

-----------------------------------------------------------------------------
(* What is refused stays out. *)

\* What was refused was offered, and is not what its sender waits with.
RefusedBefore ==
  \A c \in lost :
    /\ c \in LineChunks
    /\ c.number <= sent[c.sender]
    /\ offers[c.sender] # "done" => c.number < sent[c.sender]

RefusedStaysOut == \A i \in 1 .. Len(line) : line[i] \notin lost

RInv == RefusedBefore /\ RefusedStaysOut

\* A sender that goes on, and steps that leave the line and what was refused alone.
LEMMA SameRefused ==
  ASSUME LInv, LInv', RInv, line' = line, lost' = lost,
         \A s \in Senders : sent[s] <= sent'[s] /\ (offers'[s] # "done" =>
                              offers[s] # "done" \/ sent[s] < sent'[s])
  PROVE  RInv'
<1>1. RefusedStaysOut'
  BY DEF RInv, RefusedStaysOut
<1>2. ASSUME NEW c \in lost
      PROVE  /\ c \in LineChunks
             /\ c.number <= sent'[c.sender]
             /\ offers'[c.sender] # "done" => c.number < sent'[c.sender]
  <2> DEFINE s == c.sender
  <2>1. /\ c \in LineChunks /\ c.number <= sent[s]
        /\ offers[s] # "done" => c.number < sent[s]
    BY DEF RInv, RefusedBefore
  <2>2. s \in Senders /\ c.number \in Nat
    BY <2>1 DEF LineChunks
  <2>3. sent[s] \in Nat /\ sent'[s] \in Nat
    BY <2>2 DEF LInv, LineTypeOK
  <2> HIDE DEF s
  <2>4. c.number <= sent'[s] /\ (offers'[s] # "done" => c.number < sent'[s])
    BY <2>1, <2>2, <2>3
  <2> QED
    BY <2>1, <2>4 DEF s
<1>3. RefusedBefore'
  BY <1>2 DEF RefusedBefore
<1> QED
  BY <1>1, <1>3 DEF RInv

\* The chunk refused is younger than all of its sender that have entered.
LEMMA RefuseKeeps ==
  ASSUME LInv, LInv', RInv, NEW s \in Senders, Promise!Refuse(s)
  PROVE  RInv'
<1> DEFINE c == Promise!ChunkOf(s, sent[s])
<1>1. /\ offers[s] = "asking" /\ offers' = [offers EXCEPT ![s] = "done"]
      /\ lost' = lost \cup {c}
      /\ sent' = sent /\ line' = line
  BY DEF Promise!Refuse, Promise!Last, line
<1>2. sent \in [Senders -> Nat] /\ offers \in [Senders -> {"asking", "accepted", "done"}]
  BY DEF LInv, LineTypeOK
<1>3. c \in LineChunks /\ c.sender = s /\ c.number = sent[s] /\ sent[s] \in Nat
  BY <1>2 DEF Promise!ChunkOf, LineChunks
<1> HIDE DEF c
<1>4. offers'[s] = "done" /\ \A r \in Senders : r # s => offers'[r] = offers[r]
  BY <1>1, <1>2
<1>5. ASSUME NEW d \in lost'
      PROVE  /\ d \in LineChunks
             /\ d.number <= sent'[d.sender]
             /\ offers'[d.sender] # "done" => d.number < sent'[d.sender]
  <2>1. CASE d = c
    BY <1>1, <1>3, <1>4, <2>1
  <2>2. CASE d \in lost
    <3>1. /\ d \in LineChunks /\ d.number <= sent[d.sender]
          /\ offers[d.sender] # "done" => d.number < sent[d.sender]
      BY <2>2 DEF RInv, RefusedBefore
    <3>2. d.sender \in Senders
      BY <3>1 DEF LineChunks
    <3> QED
      BY <1>1, <1>4, <3>1, <3>2
  <2> QED
    BY <1>1, <2>1, <2>2
<1>6. ASSUME NEW i \in 1 .. Len(line)
      PROVE  line[i] # c
  <2> SUFFICES ASSUME line[i] = c PROVE FALSE
    OBVIOUS
  <2>1. c.number < sent[s]
    BY <1>1, <1>3 DEF LInv, Offered
  <2> QED
    BY <1>3, <2>1
<1>7. RefusedStaysOut'
  BY <1>1, <1>6 DEF RInv, RefusedStaysOut
<1> QED
  BY <1>5, <1>7 DEF RInv, RefusedBefore

\* What enters was accepted, so it was not refused.
LEMMA AcceptedNotRefused ==
  ASSUME LInv, LInv', RInv, NEW s \in Senders, Promise!Enter(s)
  PROVE  RInv'
<1> DEFINE c == Promise!ChunkOf(s, sent[s])
           n == Len(line)
<1>1. /\ offers[s] = "accepted" /\ offers' = [offers EXCEPT ![s] = "done"]
      /\ lost' = lost /\ sent' = sent
  BY DEF Promise!Enter
<1>2. sent \in [Senders -> Nat] /\ offers \in [Senders -> {"asking", "accepted", "done"}]
  BY DEF LInv, LineTypeOK
<1>3. c \in LineChunks /\ c.sender = s /\ c.number = sent[s] /\ sent[s] \in Nat
  BY <1>2 DEF Promise!ChunkOf, LineChunks
<1>4. line \in Seq(LineChunks) /\ n \in Nat
  BY LineType DEF LInv
<1>5. line' = Append(line, c)
  BY EnterAppends
<1> HIDE DEF c, n
<1>6. Len(line') = n + 1 /\ (\A i \in 1 .. n : line'[i] = line[i]) /\ line'[n + 1] = c
  BY <1>3, <1>4, <1>5, AppendProperties DEF n
<1>7. c \notin lost
  <2> SUFFICES ASSUME c \in lost PROVE FALSE
    OBVIOUS
  <2>1. c.number < sent[s]
    BY <1>1, <1>3 DEF RInv, RefusedBefore
  <2> QED
    BY <1>3, <2>1
<1>8. RefusedStaysOut'
  <2>1. ASSUME NEW i \in 1 .. n + 1
        PROVE  line'[i] \notin lost
    <3>1. CASE i = n + 1
      BY <1>6, <1>7, <3>1
    <3>2. CASE i # n + 1
      <4>1. i \in 1 .. n
        BY <1>4, <3>2 DEF n
      <4> QED
        BY <1>6, <4>1 DEF RInv, RefusedStaysOut, n
    <3> QED
      BY <3>1, <3>2
  <2> QED
    BY <1>1, <1>6, <2>1 DEF RefusedStaysOut
<1>9. RefusedBefore'
  <2>1. ASSUME NEW d \in lost
        PROVE  /\ d \in LineChunks
               /\ d.number <= sent[d.sender]
               /\ offers'[d.sender] # "done" => d.number < sent[d.sender]
    <3>1. /\ d \in LineChunks /\ d.number <= sent[d.sender]
          /\ offers[d.sender] # "done" => d.number < sent[d.sender]
      BY DEF RInv, RefusedBefore
    <3>2. d.sender \in Senders
      BY <3>1 DEF LineChunks
    <3>3. offers'[d.sender] # "done" => offers[d.sender] # "done"
      BY <1>1, <1>2, <3>2
    <3> QED
      BY <3>1, <3>3
  <2> QED
    BY <1>1, <2>1 DEF RefusedBefore
<1> QED
  BY <1>8, <1>9 DEF RInv

\* Refused chunks stay out of the queue, whoever keeps its promise.
LEMMA RefusedHolds == Promise!Spec => [](LInv /\ RInv)
<1>1. Promise!Init => RInv
  <2> SUFFICES ASSUME Promise!Init PROVE RInv
    OBVIOUS
  <2>1. lost = {}
    BY DEF Promise!Init
  <2> QED
    BY <2>1 DEF RInv, RefusedBefore, RefusedStaysOut
<1>2. ASSUME LInv, LInv', RInv, NEW s \in Senders, Promise!Offer(s) \/ Promise!Accept(s)
      PROVE  RInv'
  <2>1. /\ line' = line /\ lost' = lost
        /\ \/ /\ sent' = [sent EXCEPT ![s] = sent[s] + 1]
              /\ offers' = [offers EXCEPT ![s] = "asking"]
           \/ /\ sent' = sent /\ offers[s] = "asking"
              /\ offers' = [offers EXCEPT ![s] = "accepted"]
    BY <1>2 DEF Promise!Offer, Promise!Accept, line
  <2>2. sent \in [Senders -> Nat] /\ offers \in [Senders -> {"asking", "accepted", "done"}]
    BY <1>2 DEF LInv, LineTypeOK
  <2>3. \A r \in Senders : sent[r] <= sent'[r] /\ (offers'[r] # "done" =>
                             offers[r] # "done" \/ sent[r] < sent'[r])
    BY <2>1, <2>2
  <2> QED
    BY <1>2, <2>1, <2>3, SameRefused
<1>3. ASSUME LInv, LInv', RInv, UNCHANGED Promise!vars \/ Promise!Take \/ Promise!Deliver
      PROVE  RInv'
  <2>1. sent' = sent /\ offers' = offers /\ lost' = lost
    BY <1>3 DEF Promise!vars, Promise!Take, Promise!Deliver
  <2>2. line' = line
    BY <1>3, MovesKeepLine DEF LInv, Promise!vars, line
  <2>3. sent \in [Senders -> Nat]
    BY <1>3 DEF LInv, LineTypeOK
  <2>4. \A r \in Senders : sent[r] <= sent'[r] /\ (offers'[r] # "done" => offers[r] # "done")
    BY <2>1, <2>3
  <2> QED
    BY <1>3, <2>1, <2>2, <2>4, SameRefused
<1>4. LInv /\ LInv' /\ RInv /\ [Promise!Next]_(Promise!vars) => RInv'
  BY <1>2, <1>3, RefuseKeeps, AcceptedNotRefused DEF Promise!Next
<1> QED
  BY <1>1, <1>4, PromiseInv, PTL DEF Promise!Spec

\* Every sender has returned from send, and nothing is left for receive.
AllReturned ==
  (\A s \in Senders : spc[s] = "idle") /\ mQueue = <<>> /\ rpc \notin {"copy", "free"}

EachAccountedFor ==
  /\ \A i \in 1 .. Len(received) : received[i] \notin lost
  /\ AllReturned =>
       \A s \in Senders : \A n \in 1 .. sent[s] :
         \/ ChunkOf(s, n) \in lost
         \/ \E i \in 1 .. Len(received) : received[i] = ChunkOf(s, n)

\* The safety side of EverythingReceived: each chunk is refused or received, never both,
\* and none is left on the way when all have returned.  send tells its caller nothing
\* (LogStdThreadOstream.cpp:28-43), but what it did is final: a chunk given up in the
\* poll for a block never turns up later.
THEOREM NothingVanishes == Spec => []EachAccountedFor
<1>1. LInv /\ RInv => EachAccountedFor
  <2> SUFFICES ASSUME LInv, RInv PROVE EachAccountedFor
    OBVIOUS
  <2> DEFINE m == Len(received)
  <2>1. /\ queued \in Seq(LineChunks) /\ inTransfer \in Seq(LineChunks)
        /\ received \in Seq(LineChunks)
    BY DEF LInv, LineTypeOK
  <2>2. inTransfer \o queued \in Seq(LineChunks) /\ Len(inTransfer \o queued) \in Nat /\ m \in Nat
    BY <2>1, ConcatProperties, LenProperties
  <2>3. m <= Len(line) /\ \A i \in 1 .. m : i \in 1 .. Len(line) /\ line[i] = received[i]
    <3>1. /\ Len(line) = m + Len(inTransfer \o queued)
          /\ \A i \in 1 .. m + Len(inTransfer \o queued) :
               line[i] = IF i <= m THEN received[i] ELSE (inTransfer \o queued)[i - m]
      BY <2>1, <2>2, ConcatProperties DEF line
    <3> HIDE DEF m
    <3> QED
      BY <2>2, <3>1
  <2>4. \A i \in 1 .. m : received[i] \notin lost
    <3> HIDE DEF m
    <3> QED
      BY <2>3 DEF RInv, RefusedStaysOut
  <2>5. ASSUME AllReturned, NEW s \in Senders, NEW n \in 1 .. sent[s], ChunkOf(s, n) \notin lost
        PROVE  \E i \in 1 .. m : received[i] = ChunkOf(s, n)
    <3>1. offers[s] = "done"
      BY <2>5 DEF AllReturned, offers
    <3>2. queued = <<>> /\ inTransfer = <<>>
      BY <2>5 DEF AllReturned, queued, inTransfer
    <3>3. line = received
      BY <2>1, <3>2, ConcatEmptySeq DEF line
    <3> QED
      BY <2>5, <3>1, <3>3 DEF LInv, NoneMissing, Promise!ChunkOf, ChunkOf
  <2> QED
    BY <2>4, <2>5 DEF EachAccountedFor
<1> QED
  BY <1>1, RefusedHolds, ImplementsPromise, PTL DEF Implements

=============================================================================
