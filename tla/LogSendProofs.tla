---------------------------- MODULE LogSendProofs ---------------------------
(***************************************************************************)
(* What the transmitter reads in the chunks of an id are the messages of   *)
(* its thread, whole and in no more chunks than they need, for any number  *)
(* of threads, chunks of any size and messages of any length.              *)
(***************************************************************************)
EXTENDS LogSend, SequenceTheorems, WellFoundedInduction, TLAPS

USE SendAssumption

\* A thread writes into a buffer of its own or of its id, and nothing is left
\* of a message when it has none open.
InBuffers ==
  \A t \in Threads :
    /\ open[t] \in {NoBuffer, StackBuffer(t), ShiftBuffer(t)}
    /\ open[t] = NoBuffer => text[t] = <<>>

\* What was read of the thread of an id, the properties and the number of chunks of
\* the present message: all of them are full.
Whole(t) ==
  /\ Len(read[TaskId(t)].messages) = Len(said[t])
  /\ \A k \in DOMAIN said[t] : read[TaskId(t)].messages[k].text = said[t][k]
  /\ read[TaskId(t)].part.text \o Unsent(t) = text[t]
  /\ \A k \in DOMAIN read[TaskId(t)].messages :
       Needs(Len(read[TaskId(t)].messages[k].text), read[TaskId(t)].messages[k].chunks)
  /\ Len(text[t]) = read[TaskId(t)].part.chunks * (ChunkSize - 1) + Len(Unsent(t))

Inv ==
  /\ TypeOK
  /\ InBuffers
  /\ \A t \in Threads : HasOwnId(t) => Whole(t)

-----------------------------------------------------------------------------
\* The least of some positions.
LEMMA LeastFacts ==
  ASSUME NEW S \in SUBSET Nat, S # {}
  PROVE  Min(S) \in S /\ \A j \in S : Min(S) <= j
<1> DEFINE less == OpToRel(<, Nat)
<1>1. \A i, j \in Nat : j < i => <<j, i>> \in less
  BY DEF OpToRel
<1>2. IsWellFoundedOn(less, Nat)
  BY NatLessThanWellFounded
<1> HIDE DEF less
<1>3. PICK i \in S : \A j \in S : ~ (<<j, i>> \in less)
  BY <1>2, WFMin
<1>4. ASSUME NEW j \in S
      PROVE  i <= j
  <2>1. i \in Nat /\ j \in Nat
    OBVIOUS
  <2>2. ~ (j < i)
    BY <1>1, <1>3, <2>1
  <2> QED
    BY <2>1, <2>2
<1> QED
  BY <1>4 DEF Min

\* A payload is a sequence of ChunkSize - 1 bytes.
LEMMA PayloadIsSeq ==
  ASSUME NEW c \in [Payload -> Bytes]
  PROVE  c \in Seq(Bytes) /\ Len(c) = ChunkSize - 1
BY DEF Payload

\* What is read or printed of a chunk are bytes of it.
LEMMA ReadTypes ==
  ASSUME NEW c \in [Payload -> Bytes]
  PROVE  Read(c) \in Seq(Bytes) /\ ImmediatePush(c) \in Seq(Bytes)
<1> DEFINE marks == {i \in Payload : c[i] = EndOfMessage} \cup {ChunkSize}
           feeds == {i \in Payload : IsLineFeed(c[i])} \cup {ChunkSize - 1}
<1>1. /\ marks \in SUBSET Nat /\ marks # {} /\ marks \subseteq 1 .. ChunkSize
      /\ feeds \in SUBSET Nat /\ feeds # {} /\ feeds \subseteq 1 .. ChunkSize - 1
  BY DEF Payload
<1>2. Min(marks) \in 1 .. ChunkSize /\ Min(feeds) \in 1 .. ChunkSize - 1
  <2> HIDE DEF marks, feeds
  <2> QED BY <1>1, LeastFacts
<1>3. /\ Read(c) = SubSeq(c, 1, Min(marks) - 1)
      /\ ImmediatePush(c) = SubSeq(c, 1, Min(feeds))
  BY DEF Read, ImmediatePush
<1> HIDE DEF marks, feeds
<1> QED
  BY <1>2, <1>3, PayloadIsSeq, SubSeqProperties

\* A chunk without end mark is read as a whole.
LEMMA ReadFull ==
  ASSUME NEW c \in [Payload -> Bytes], \A i \in Payload : c[i] # EndOfMessage
  PROVE  ~ Ends(c) /\ Read(c) = SubSeq(c, 1, ChunkSize - 1)
<1>1. {i \in Payload : c[i] = EndOfMessage} \cup {ChunkSize} = {ChunkSize}
  OBVIOUS
<1>2. Min({ChunkSize}) = ChunkSize
  BY LeastFacts
<1> QED
  BY <1>1, <1>2 DEF Read, Ends

\* A chunk is read up to the first end mark, whatever stands behind it.
LEMMA ReadEnded ==
  ASSUME NEW c \in [Payload -> Bytes], NEW n \in Payload,
         c[n] = EndOfMessage, \A i \in 1 .. n - 1 : c[i] # EndOfMessage
  PROVE  Ends(c) /\ Read(c) = SubSeq(c, 1, n - 1)
<1> DEFINE marks == {i \in Payload : c[i] = EndOfMessage} \cup {ChunkSize}
<1>1. /\ marks \in SUBSET Nat /\ n \in marks
      /\ \A j \in marks : n <= j
  BY DEF Payload
<1>2. Min(marks) = n
  <2>1. Min(marks) \in marks /\ Min(marks) <= n
    <3> HIDE DEF marks
    <3> QED BY <1>1, LeastFacts
  <2>2. n <= Min(marks) /\ Min(marks) \in Nat /\ n \in Nat
    <3> HIDE DEF marks
    <3> QED BY <1>1, <2>1
  <2> HIDE DEF marks
  <2> QED BY <2>1, <2>2
<1>3. Read(c) = SubSeq(c, 1, Min(marks) - 1)
  BY DEF Read
<1> HIDE DEF marks
<1> QED
  BY <1>2, <1>3 DEF Ends

\* Reading one more chunk keeps the types.
LEMMA ReceiveTypes ==
  ASSUME NEW r \in [messages : Seq(ReadMessage), part : ReadMessage],
         NEW c \in [Payload -> Bytes]
  PROVE  Receive(r, c) \in [messages : Seq(ReadMessage), part : ReadMessage]
<1> DEFINE part == [text |-> r.part.text \o Read(c), chunks |-> r.part.chunks + 1]
<1>1. part \in ReadMessage
  BY ReadTypes DEF ReadMessage
<1>2. NothingRead \in ReadMessage
  BY DEF ReadMessage, NothingRead
<1>3. Receive(r, c) = IF Ends(c) THEN [messages |-> Append(r.messages, part), part |-> NothingRead]
                      ELSE [r EXCEPT !.part = part]
  BY DEF Receive
<1> HIDE DEF part
<1> QED
  BY <1>1, <1>2, <1>3

\* A character behind a text that has two parts prolongs the second.
LEMMA AppendToConcat ==
  ASSUME NEW a \in Seq(Bytes), NEW d \in Seq(Bytes), NEW x \in Bytes
  PROVE  /\ Append(d, x) \in Seq(Bytes) /\ Len(Append(d, x)) = Len(d) + 1
         /\ a \o Append(d, x) = Append(a \o d, x)
<1>1. Append(d, x) = d \o <<x>> /\ Append(a \o d, x) = (a \o d) \o <<x>>
  BY AppendIsConcat, ConcatProperties
<1>2. (a \o d) \o <<x>> = a \o (d \o <<x>>)
  BY ConcatAssociative
<1> QED
  BY <1>1, <1>2, AppendProperties

\* A character written behind the prefix of a buffer prolongs it.
LEMMA PrefixExtended ==
  ASSUME NEW f \in [Payload -> Bytes], NEW n \in Payload, NEW x \in Bytes
  PROVE  /\ [f EXCEPT ![n] = x] \in [Payload -> Bytes]
         /\ SubSeq([f EXCEPT ![n] = x], 1, n) = Append(SubSeq(f, 1, n - 1), x)
         /\ SubSeq([f EXCEPT ![n] = x], 1, n - 1) = SubSeq(f, 1, n - 1)
BY DEF Payload

-----------------------------------------------------------------------------
\* The buffers of the threads are buffers, and each thread has an id.
LEMMA BufferFacts ==
  ASSUME NEW t \in Threads
  PROVE  /\ TaskId(t) \in Ids
         /\ StackBuffer(t) \in Buffers /\ ShiftBuffer(t) \in Buffers
         /\ StackBuffer(t) # NoBuffer /\ ShiftBuffer(t) # NoBuffer
         /\ StackBuffer(t) # ShiftBuffer(t) /\ NoBuffer \notin Buffers
<1>1. TaskId(t) \in Ids
  BY DEF Ids
<1>2. StackBuffer(t) \in Buffers /\ ShiftBuffer(t) \in Buffers
  BY <1>1 DEF Buffers, StackBuffer, ShiftBuffer
<1> QED
  BY <1>1, <1>2 DEF Buffers, StackBuffer, ShiftBuffer, NoBuffer

\* Nobody writes into the buffer of a thread that has its id for itself.
LEMMA OwnBuffer ==
  ASSUME InBuffers, NEW t \in Threads, NEW u \in Threads, u # t, HasOwnId(u),
         open[u] # NoBuffer, open[t] # NoBuffer
  PROVE  open[u] # open[t] /\ TaskId(u) # TaskId(t)
<1>1. TaskId(u) # TaskId(t)
  BY DEF HasOwnId
<1>2. /\ open[u] \in {StackBuffer(u), ShiftBuffer(u)}
      /\ open[t] \in {StackBuffer(t), ShiftBuffer(t)}
  BY DEF InBuffers
<1> QED
  BY <1>1, <1>2 DEF StackBuffer, ShiftBuffer

\* What is in a buffer and what was read are bytes.
LEMMA UnsentTypes ==
  ASSUME TypeOK, NEW t \in Threads
  PROVE  /\ Unsent(t) \in Seq(Bytes)
         /\ open[t] # NoBuffer => /\ buffers[open[t]] \in [Payload -> Bytes]
                                 /\ Len(Unsent(t)) = index[t] - 1
         /\ read[TaskId(t)].part.text \in Seq(Bytes)
         /\ read[TaskId(t)].part.chunks \in Nat
         /\ read[TaskId(t)].messages \in Seq(ReadMessage)
<1>1. read[TaskId(t)] \in [messages : Seq(ReadMessage), part : ReadMessage]
  BY BufferFacts DEF TypeOK
<1>2. open[t] # NoBuffer => buffers[open[t]] \in [Payload -> Bytes]
  BY DEF TypeOK
<1>3. index[t] \in Payload
  BY DEF TypeOK
<1>4. CASE open[t] = NoBuffer
  BY <1>1, <1>4 DEF Unsent, ReadMessage
<1>5. CASE open[t] # NoBuffer
  <2>1. Unsent(t) = SubSeq(buffers[open[t]], 1, index[t] - 1)
    BY <1>5 DEF Unsent
  <2>2. /\ buffers[open[t]] \in Seq(Bytes) /\ Len(buffers[open[t]]) = ChunkSize - 1
        /\ index[t] - 1 \in 0 .. ChunkSize - 1
    BY <1>2, <1>3, <1>5, PayloadIsSeq DEF Payload
  <2>3. Unsent(t) \in Seq(Bytes) /\ Len(Unsent(t)) = index[t] - 1
    BY <2>1, <2>2
  <2> QED
    BY <1>1, <1>2, <2>3 DEF ReadMessage
<1> QED
  BY <1>4, <1>5

\* What a thread has in its buffer it wrote there: no end mark is among it.
LEMMA UnsentChars ==
  ASSUME TypeOK, NEW t \in Threads, open[t] # NoBuffer, Whole(t)
  PROVE  \A i \in 1 .. index[t] - 1 : buffers[open[t]][i] # EndOfMessage
<1> DEFINE b == buffers[open[t]]
           part == read[TaskId(t)].part.text
           n == index[t] - 1
           all == text[t]
<1>1. b \in [Payload -> Bytes] /\ index[t] \in Payload /\ part \in Seq(Bytes)
  BY BufferFacts DEF TypeOK, ReadMessage
<1>2. part \o SubSeq(b, 1, n) = all /\ all \in Seq(Chars)
  BY DEF Whole, Unsent, TypeOK
<1>3. b \in Seq(Bytes) /\ n \in 0 .. Len(b)
  BY <1>1, PayloadIsSeq DEF Payload
<1> SUFFICES ASSUME NEW i \in 1 .. n
             PROVE  b[i] # EndOfMessage
  OBVIOUS
<1> HIDE DEF b, part, n, all
<1>4. /\ SubSeq(b, 1, n) \in Seq(Bytes)
      /\ Len(SubSeq(b, 1, n)) = n
      /\ SubSeq(b, 1, n)[i] = b[i]
  BY <1>3
<1>5. /\ Len(all) = Len(part) + n
      /\ all[Len(part) + i] = b[i]
  BY <1>1, <1>2, <1>3, <1>4
<1>6. all[Len(part) + i] \in Chars
  BY <1>1, <1>2, <1>3, <1>5
<1> QED
  BY <1>5, <1>6

\* A thread that is left alone keeps what was read of it.
LEMMA WholeFrame ==
  ASSUME NEW u \in Threads, Whole(u),
         read'[TaskId(u)] = read[TaskId(u)], Unsent(u)' = Unsent(u),
         text'[u] = text[u], said'[u] = said[u]
  PROVE  Whole(u)'
BY DEF Whole

-----------------------------------------------------------------------------
\* Nothing is written and nothing read at first.
LEMMA InitInv == Init => Inv
<1> SUFFICES ASSUME Init PROVE Inv
  OBVIOUS
<1>1. TypeOK
  <2>1. buffers \in [Buffers -> [Payload -> Bytes]]
    BY DEF Init, Bytes
  <2>2. read \in [Ids -> [messages : Seq(ReadMessage), part : ReadMessage]]
    BY DEF Init, NothingRead, ReadMessage
  <2>3. index \in [Threads -> Payload]
    BY DEF Init, Payload
  <2> QED
    BY <2>1, <2>2, <2>3 DEF Init, TypeOK
<1>2. InBuffers
  BY DEF Init, InBuffers
<1>3. ASSUME NEW t \in Threads
      PROVE  Whole(t)
  <2>1. /\ read[TaskId(t)] = [messages |-> <<>>, part |-> NothingRead]
        /\ Unsent(t) = <<>> /\ text[t] = <<>> /\ said[t] = <<>>
    BY BufferFacts DEF Init, Unsent
  <2> QED
    BY <2>1 DEF Whole, NothingRead
<1> QED
  BY <1>1, <1>2, <1>3 DEF Inv

\* A message begins: nothing of it is written.
LEMMA StartInv ==
  ASSUME Inv, NEW t \in Threads, NEW b \in {StackBuffer(t), ShiftBuffer(t)}, NEW n \in Nat,
         Called(t), open[t] = NoBuffer, Start(t, b, n)
  PROVE  Inv'
<1>1. TypeOK'
  <2>1. open' \in [Threads -> Buffers \cup {NoBuffer}] /\ index' \in [Threads -> Payload]
    BY BufferFacts DEF Inv, TypeOK, Start, Payload
  <2>2. calls' \in [Threads -> Nat] /\ \A u \in Threads : calls'[u] <= MaxCalls[u]
    BY DEF Inv, TypeOK, Called
  <2> QED
    BY <2>1, <2>2 DEF Inv, TypeOK, Start
<1>2. InBuffers'
  BY BufferFacts DEF Inv, TypeOK, InBuffers, Start
<1>3. ASSUME NEW u \in Threads, Whole(u)
      PROVE  Whole(u)'
  <2>1. Unsent(u)' = Unsent(u)
    <3>1. CASE u # t
      BY <3>1 DEF Inv, TypeOK, Start, Unsent
    <3>2. CASE u = t
      <4>1. open'[t] = b /\ index'[t] = 1 /\ b # NoBuffer /\ b \in Buffers /\ buffers' = buffers
        BY BufferFacts DEF Inv, TypeOK, Start
      <4>2. Unsent(t)' = SubSeq(buffers[b], 1, 0)
        BY <4>1 DEF Unsent
      <4>3. buffers[b] \in Seq(Bytes)
        BY <4>1, PayloadIsSeq DEF Inv, TypeOK
      <4>4. Unsent(t)' = <<>>
        BY <4>2, <4>3, SubSeqEmpty
      <4>5. Unsent(t) = <<>>
        BY DEF Unsent
      <4> QED
        BY <3>2, <4>4, <4>5
    <3> QED BY <3>1, <3>2
  <2> QED
    BY <1>3, <2>1, WholeFrame DEF Start
<1> QED
  BY <1>1, <1>2, <1>3 DEF Inv, HasOwnId

\* Steps that only count calls or the characters to come.
LEMMA IdleInv ==
  ASSUME Inv, UNCHANGED <<buffers, open, index, read, printed, text, said>>,
         left' \in [Threads -> Nat],
         calls' \in [Threads -> Nat], \A u \in Threads : calls'[u] <= MaxCalls[u]
  PROVE  Inv'
<1>1. TypeOK' /\ InBuffers'
  BY DEF Inv, TypeOK, InBuffers
<1>2. ASSUME NEW u \in Threads, Whole(u)
      PROVE  Whole(u)'
  <2>1. Unsent(u)' = Unsent(u)
    BY DEF Unsent
  <2> QED
    BY <1>2, <2>1, WholeFrame
<1> QED
  BY <1>1, <1>2 DEF Inv, HasOwnId

\* A chain is left with nothing in its buffer.
LEMMA LeaveChainInv ==
  ASSUME Inv, NEW t \in Threads, LeaveChain(t)
  PROVE  Inv'
<1>1. TypeOK'
  BY DEF Inv, TypeOK, LeaveChain
<1>2. InBuffers'
  BY DEF Inv, TypeOK, InBuffers, LeaveChain
<1>3. ASSUME NEW u \in Threads, Whole(u)
      PROVE  Whole(u)'
  <2>1. Unsent(u)' = Unsent(u)
    <3>1. CASE u # t
      BY <3>1 DEF Inv, TypeOK, LeaveChain, Unsent
    <3>2. CASE u = t
      <4>1. open[t] # NoBuffer /\ open'[t] = NoBuffer
        BY DEF Inv, TypeOK, LeaveChain, InChain
      <4>2. Unsent(t) \in Seq(Bytes) /\ read[TaskId(t)].part.text \in Seq(Bytes)
        BY UnsentTypes DEF Inv
      <4>3. read[TaskId(t)].part.text \o Unsent(t) = <<>>
        BY <1>3, <3>2 DEF Whole, LeaveChain
      <4>4. Unsent(t) = <<>>
        <5>1. Len(Unsent(t)) = 0
          BY <4>2, <4>3
        <5> QED BY <4>2, <5>1, EmptySeq
      <4>5. Unsent(t)' = <<>>
        BY <4>1 DEF Unsent
      <4> QED
        BY <3>2, <4>4, <4>5
    <3> QED BY <3>1, <3>2
  <2> QED
    BY <1>3, <2>1, WholeFrame DEF LeaveChain
<1> QED
  BY <1>1, <1>2, <1>3 DEF Inv, HasOwnId

-----------------------------------------------------------------------------
\* A chunk handed over keeps the types of what is read and printed.
LEMMA PushTypes ==
  ASSUME TypeOK, NEW t \in Threads, NEW c \in [Payload -> Bytes], Push(t, c)
  PROVE  /\ read' \in [Ids -> [messages : Seq(ReadMessage), part : ReadMessage]]
         /\ printed' \in [Ids -> Seq(Bytes)]
<1>1. TaskId(t) \in Ids
  BY BufferFacts
<1>2. Receive(read[TaskId(t)], c) \in [messages : Seq(ReadMessage), part : ReadMessage]
  BY <1>1, ReceiveTypes DEF TypeOK
<1>3. printed[TaskId(t)] \o ImmediatePush(c) \in Seq(Bytes)
  BY <1>1, ReadTypes DEF TypeOK
<1> QED
  BY <1>1, <1>2, <1>3 DEF TypeOK, Push

\* What one thread writes and hands over leaves alone the threads that have
\* ids of their own.
LEMMA OthersWhole ==
  ASSUME Inv, NEW t \in Threads, open[t] # NoBuffer,
         NEW u \in Threads, u # t, HasOwnId(u),
         \A b \in Buffers : b # open[t] => buffers'[b] = buffers[b],
         \A i \in Ids : i # TaskId(t) => read'[i] = read[i],
         open'[u] = open[u], index'[u] = index[u], text'[u] = text[u], said'[u] = said[u]
  PROVE  Whole(u)'
<1>1. read'[TaskId(u)] = read[TaskId(u)]
  BY BufferFacts DEF HasOwnId
<1>2. Unsent(u)' = Unsent(u)
  <2>1. CASE open[u] = NoBuffer
    BY <2>1 DEF Unsent
  <2>2. CASE open[u] # NoBuffer
    <3>1. open[u] # open[t] /\ open[u] \in Buffers
      BY <2>2, OwnBuffer DEF Inv, TypeOK
    <3> QED
      BY <2>2, <3>1 DEF Unsent
  <2> QED BY <2>1, <2>2
<1> QED
  BY <1>1, <1>2, WholeFrame DEF Inv

\* The next character is the last of those in the buffer; when it fills the
\* chunk, all of them are handed over.
LEMMA PushCharInv ==
  ASSUME Inv, NEW t \in Threads, PushChar(t)
  PROVE  Inv'
<1> DEFINE b == open[t]
           i == index[t]
           c == Char(t, Len(text[t]) + 1)
           payload == [buffers[b] EXCEPT ![i] = c]
           r == read[TaskId(t)]
<1>1. /\ TypeOK /\ b # NoBuffer /\ b \in Buffers /\ i \in Payload
      /\ buffers[b] \in [Payload -> Bytes] /\ buffers[b] \in Seq(Bytes)
      /\ text[t] \in Seq(Chars) /\ left[t] \in Nat /\ left[t] > 0
  BY PayloadIsSeq DEF Inv, TypeOK, PushChar
<1>2. c \in Chars /\ c \in Bytes
  BY <1>1 DEF Char, Chars, Bytes, TypeOK
<1>3. /\ payload \in [Payload -> Bytes]
      /\ SubSeq(payload, 1, i) = Append(SubSeq(buffers[b], 1, i - 1), c)
  <2>1. b \in Buffers /\ buffers[b] \in [Payload -> Bytes] /\ i \in Payload
    BY <1>1
  <2> HIDE DEF b, c, i
  <2> QED BY ONLY <2>1, <1>2, PrefixExtended
<1>4. /\ buffers' = [buffers EXCEPT ![b] = payload]
      /\ PushIf(i + 1 = ChunkSize, t, payload)
      /\ index' = [index EXCEPT ![t] = IF i + 1 = ChunkSize THEN 1 ELSE i + 1]
      /\ text' = [text EXCEPT ![t] = Append(text[t], c)]
      /\ left' = [left EXCEPT ![t] = left[t] - 1]
      /\ open' = open /\ calls' = calls /\ said' = said
  BY DEF PushChar
<1>5. TypeOK'
  <2>1. /\ read' \in [Ids -> [messages : Seq(ReadMessage), part : ReadMessage]]
        /\ printed' \in [Ids -> Seq(Bytes)]
    BY <1>1, <1>3, <1>4, PushTypes DEF PushIf, TypeOK
  <2>2. index' \in [Threads -> Payload]
    BY <1>1, <1>4 DEF TypeOK, Payload
  <2>3. buffers' \in [Buffers -> [Payload -> Bytes]]
    <3>1. buffers \in [Buffers -> [Payload -> Bytes]]
      BY <1>1 DEF TypeOK
    <3> HIDE DEF payload, b
    <3> QED BY ONLY <3>1, <1>3, <1>4
  <2>4. text' \in [Threads -> Seq(Chars)] /\ left' \in [Threads -> Nat]
    BY <1>1, <1>2, <1>4 DEF TypeOK
  <2>5. /\ open' \in [Threads -> Buffers \cup {NoBuffer}]
        /\ said' \in [Threads -> Seq(Seq(Chars))]
    BY <1>1, <1>4 DEF TypeOK
  <2>6. calls' \in [Threads -> Nat] /\ \A u \in Threads : calls'[u] <= MaxCalls[u]
    BY <1>1, <1>4 DEF TypeOK
  <2> QED
    BY ONLY <2>1, <2>2, <2>3, <2>4, <2>5, <2>6 DEF TypeOK
<1>6. InBuffers'
  BY <1>1, <1>4 DEF Inv, InBuffers, TypeOK
<1>7. ASSUME HasOwnId(t)
      PROVE  Whole(t)'
  <2>1. Whole(t)
    BY <1>7 DEF Inv
  <2>2. /\ Unsent(t) = SubSeq(buffers[b], 1, i - 1) /\ Unsent(t) \in Seq(Bytes)
        /\ Len(Unsent(t)) = i - 1
        /\ r.part.text \in Seq(Bytes) /\ r.part.chunks \in Nat
        /\ r \in [messages : Seq(ReadMessage), part : ReadMessage]
    BY <1>1, UnsentTypes, BufferFacts DEF Unsent, TypeOK
  <2>3. /\ r.part.text \o Unsent(t) = text[t]
        /\ Len(text[t]) = r.part.chunks * (ChunkSize - 1) + (i - 1)
    BY <2>1, <2>2 DEF Whole
  <2>4. /\ text'[t] = r.part.text \o SubSeq(payload, 1, i)
        /\ Len(text'[t]) = r.part.chunks * (ChunkSize - 1) + i
        /\ SubSeq(payload, 1, i) \in Seq(Bytes) /\ Len(SubSeq(payload, 1, i)) = i
    <3> DEFINE part == r.part.text
               unsent == Unsent(t)
               full == r.part.chunks * (ChunkSize - 1)
               written == SubSeq(payload, 1, i)
    <3>1. /\ text'[t] = Append(text[t], c) /\ Len(text'[t]) = Len(text[t]) + 1
          /\ text[t] = part \o unsent /\ Len(text[t]) = full + (i - 1)
      <4>1. text'[t] = Append(text[t], c)
        BY <1>4 DEF TypeOK, Inv
      <4>2. Len(Append(text[t], c)) = Len(text[t]) + 1
        <5> HIDE DEF c
        <5> QED BY <1>1, <1>2, AppendProperties
      <4>3. text[t] = part \o unsent /\ Len(text[t]) = full + (i - 1)
        BY <2>3
      <4> QED BY ONLY <4>1, <4>2, <4>3
    <3>2. /\ part \in Seq(Bytes) /\ unsent \in Seq(Bytes) /\ Len(unsent) = i - 1
          /\ full \in Int /\ i \in Int /\ c \in Bytes
      BY <1>1, <1>2, <2>2 DEF Payload
    <3>3. written = Append(unsent, c)
      BY <1>3, <2>2
    <3>4. /\ text'[t] = part \o written /\ Len(text'[t]) = full + i
          /\ written \in Seq(Bytes) /\ Len(written) = i
      <4> HIDE DEF part, unsent, full, written, c, i
      <4>1. /\ Append(unsent, c) \in Seq(Bytes) /\ Len(Append(unsent, c)) = Len(unsent) + 1
            /\ part \o Append(unsent, c) = Append(part \o unsent, c)
        BY <3>2, AppendToConcat
      <4> QED
        BY <3>1, <3>2, <3>3, <4>1
    <3> QED
      BY <3>4
  <2>5. said'[t] = said[t] /\ open'[t] = b /\ buffers'[b] = payload
    BY <1>1, <1>4 DEF TypeOK
  <2>6. CASE i + 1 # ChunkSize
    <3>1. read'[TaskId(t)] = r /\ index'[t] = i + 1
      BY <1>1, <1>4, <2>6 DEF TypeOK, PushIf
    <3>2. Unsent(t)' = SubSeq(payload, 1, i)
      BY <1>1, <2>5, <3>1 DEF Unsent, Payload
    <3> HIDE DEF r, payload, c
    <3> QED
      BY <2>1, <2>4, <2>5, <3>1, <3>2 DEF Whole, r
  <2>7. CASE i + 1 = ChunkSize
    <3>1. ~ Ends(payload) /\ Read(payload) = SubSeq(payload, 1, i)
      <4>1. \A j \in 1 .. i - 1 : buffers[b][j] # EndOfMessage
        BY <1>1, <2>1, UnsentChars
      <4>2. c # EndOfMessage
        BY <1>2
      <4>3. \A j \in Payload : payload[j] # EndOfMessage
        <5> HIDE DEF c
        <5> QED BY <1>1, <2>7, <4>1, <4>2 DEF Payload
      <4>4. ~ Ends(payload) /\ Read(payload) = SubSeq(payload, 1, ChunkSize - 1)
        <5> HIDE DEF payload
        <5> QED BY <1>3, <4>3, ReadFull
      <4>5. i = ChunkSize - 1
        BY <1>1, <2>7 DEF Payload
      <4> HIDE DEF payload
      <4> QED BY <4>4, <4>5
    <3>2. /\ read'[TaskId(t)] = Receive(r, payload)
          /\ index'[t] = 1
      BY <1>1, <1>4, <1>7, <2>7, BufferFacts DEF TypeOK, PushIf, Push, HasOwnId
    <3>3. Receive(r, payload) =
            [r EXCEPT !.part = [text |-> r.part.text \o SubSeq(payload, 1, i),
                                chunks |-> r.part.chunks + 1]]
      BY <3>1 DEF Receive
    <3>4. Unsent(t)' = <<>>
      <4>1. Unsent(t)' = SubSeq(payload, 1, 0)
        BY <1>1, <2>5, <3>2 DEF Unsent
      <4> QED BY <4>1, SubSeqEmpty
    <3>5. /\ read'[TaskId(t)].messages = r.messages
          /\ read'[TaskId(t)].part.text = text'[t]
          /\ read'[TaskId(t)].part.chunks = r.part.chunks + 1
      <4> DEFINE part == [text |-> r.part.text \o SubSeq(payload, 1, i),
                          chunks |-> r.part.chunks + 1]
      <4>1. /\ part.text = text'[t] /\ part.chunks = r.part.chunks + 1
            /\ read'[TaskId(t)] = [r EXCEPT !.part = part]
        BY <2>4, <3>2, <3>3
      <4> HIDE DEF r, part
      <4> QED BY <2>2, <4>1
    <3>6. text'[t] \in Seq(Bytes)
      <4> HIDE DEF payload, c
      <4> QED BY <2>2, <2>4
    <3>7. Len(text'[t]) = (r.part.chunks + 1) * (ChunkSize - 1) + 0
      <4> DEFINE k == r.part.chunks
      <4>1. k \in Nat /\ Len(text'[t]) = k * (ChunkSize - 1) + (ChunkSize - 1)
        <5>1. ChunkSize - 1 = i
          BY <1>1, <2>7 DEF Payload
        <5> HIDE DEF r
        <5> QED BY <2>2, <2>4, <5>1
      <4> HIDE DEF k
      <4>2. (k + 1) * (ChunkSize - 1) = k * (ChunkSize - 1) + (ChunkSize - 1)
        BY <4>1
      <4>3. k * (ChunkSize - 1) \in Int
        BY <4>1
      <4> QED BY <4>1, <4>2, <4>3 DEF k
    <3> HIDE DEF r, payload, c
    <3>8. /\ read'[TaskId(t)].part.text \o Unsent(t)' = text'[t]
          /\ Len(Unsent(t)') = 0
      BY <3>4, <3>5, <3>6
    <3> QED
      BY <2>1, <2>5, <3>5, <3>7, <3>8 DEF Whole, r
  <2> QED BY <2>6, <2>7
<1>8. ASSUME NEW u \in Threads, u # t, HasOwnId(u)
      PROVE  Whole(u)'
  <2>1. \A d \in Buffers : d # b => buffers'[d] = buffers[d]
    BY <1>1, <1>4 DEF TypeOK
  <2>2. \A j \in Ids : j # TaskId(t) => read'[j] = read[j]
    BY <1>1, <1>4 DEF TypeOK, PushIf, Push
  <2>3. open'[u] = open[u] /\ index'[u] = index[u] /\ text'[u] = text[u] /\ said'[u] = said[u]
    BY <1>1, <1>4, <1>8 DEF TypeOK
  <2> HIDE DEF b
  <2> QED
    BY <1>1, <1>8, <2>1, <2>2, <2>3, OthersWhole DEF b
<1> QED
  BY <1>5, <1>6, <1>7, <1>8 DEF Inv, HasOwnId

\* The end mark behind the last character hands over the rest of the message;
\* the buffer is open for the next one or closed.
LEMMA FlushInv ==
  ASSUME Inv, NEW t \in Threads, open[t] # NoBuffer, Flush(t),
         open' = open \/ open' = [open EXCEPT ![t] = NoBuffer],
         calls' \in [Threads -> Nat], \A u \in Threads : calls'[u] <= MaxCalls[u]
  PROVE  Inv'
<1> DEFINE b == open[t]
           i == index[t]
           payload == [buffers[b] EXCEPT ![i] = EndOfMessage]
           r == read[TaskId(t)]
<1>1. /\ TypeOK /\ b \in Buffers /\ i \in Payload
      /\ buffers[b] \in [Payload -> Bytes] /\ buffers[b] \in Seq(Bytes)
      /\ text[t] \in Seq(Chars) /\ said[t] \in Seq(Seq(Chars))
  BY PayloadIsSeq DEF Inv, TypeOK
<1>2. /\ payload \in [Payload -> Bytes]
      /\ SubSeq(payload, 1, i - 1) = SubSeq(buffers[b], 1, i - 1)
  <2>1. EndOfMessage \in Bytes
    BY DEF Bytes
  <2> QED
    BY <1>1, <2>1, PrefixExtended
<1>3. /\ buffers' = [buffers EXCEPT ![b] = payload]
      /\ Push(t, payload)
      /\ index' = [index EXCEPT ![t] = 1]
      /\ text' = [text EXCEPT ![t] = <<>>]
      /\ said' = [said EXCEPT ![t] = Append(said[t], text[t])]
      /\ left' = left
  BY DEF Flush
<1>4. TypeOK'
  <2>1. /\ read' \in [Ids -> [messages : Seq(ReadMessage), part : ReadMessage]]
        /\ printed' \in [Ids -> Seq(Bytes)]
    BY <1>1, <1>2, <1>3, PushTypes
  <2>2. index' \in [Threads -> Payload]
    BY <1>1, <1>3 DEF TypeOK, Payload
  <2>3. buffers' \in [Buffers -> [Payload -> Bytes]]
    BY <1>1, <1>2, <1>3 DEF TypeOK
  <2>4. text' \in [Threads -> Seq(Chars)]
    BY <1>1, <1>3 DEF TypeOK
  <2>5. said' \in [Threads -> Seq(Seq(Chars))]
    BY <1>1, <1>3, AppendProperties DEF TypeOK
  <2>6. open' \in [Threads -> Buffers \cup {NoBuffer}] /\ left' \in [Threads -> Nat]
    BY <1>1, <1>3 DEF TypeOK
  <2> QED
    BY <2>1, <2>2, <2>3, <2>4, <2>5, <2>6 DEF TypeOK
<1>5. InBuffers'
  BY <1>1, <1>3 DEF Inv, InBuffers, TypeOK
<1>6. ASSUME HasOwnId(t)
      PROVE  Whole(t)'
  <2>1. Whole(t)
    BY <1>6 DEF Inv
  <2>2. /\ Unsent(t) = SubSeq(buffers[b], 1, i - 1) /\ Len(Unsent(t)) = i - 1
        /\ r.part.chunks \in Nat /\ r.messages \in Seq(ReadMessage)
        /\ r \in [messages : Seq(ReadMessage), part : ReadMessage]
    BY <1>1, UnsentTypes, BufferFacts DEF Unsent, TypeOK
  <2>3. Ends(payload) /\ Read(payload) = Unsent(t)
    <3>1. \A j \in 1 .. i - 1 : buffers[b][j] # EndOfMessage
      BY <1>1, <2>1, UnsentChars
    <3>2. payload[i] = EndOfMessage /\ \A j \in 1 .. i - 1 : payload[j] # EndOfMessage
      <4>1. i \in Payload /\ \A j \in 1 .. i - 1 : j \in Payload /\ j # i
        BY <1>1 DEF Payload
      <4>2. payload[i] = EndOfMessage
        BY <1>1, <4>1
      <4>3. \A j \in 1 .. i - 1 : payload[j] = buffers[b][j]
        BY <1>1, <4>1
      <4> QED BY <3>1, <4>2, <4>3
    <3>3. Ends(payload) /\ Read(payload) = SubSeq(payload, 1, i - 1)
      <4> HIDE DEF payload
      <4> QED BY <1>1, <1>2, <3>2, ReadEnded
    <3> QED
      BY <1>2, <2>2, <3>3
  <2> DEFINE message == [text |-> text[t], chunks |-> r.part.chunks + 1]
  <2>4. read'[TaskId(t)] = [messages |-> Append(r.messages, message), part |-> NothingRead]
    <3>1. read'[TaskId(t)] = Receive(r, payload)
      BY <1>1, <1>3, <1>6, BufferFacts DEF TypeOK, Push, HasOwnId
    <3>2. Receive(r, payload) =
            [messages |-> Append(r.messages, [text |-> r.part.text \o Read(payload),
                                              chunks |-> r.part.chunks + 1]),
             part |-> NothingRead]
      BY <2>3 DEF Receive
    <3>3. r.part.text \o Read(payload) = text[t]
      BY <2>1, <2>3 DEF Whole
    <3> HIDE DEF r, payload
    <3> QED
      BY <3>1, <3>2, <3>3
  <2>5. Needs(Len(message.text), message.chunks)
    <3>1. Len(text[t]) = r.part.chunks * (ChunkSize - 1) + (i - 1)
      BY <2>1, <2>2 DEF Whole
    <3>2. i - 1 >= 0 /\ i - 1 < ChunkSize - 1 /\ i \in Int
      BY <1>1 DEF Payload
    <3>3. (r.part.chunks + 1) * (ChunkSize - 1) = r.part.chunks * (ChunkSize - 1) + (ChunkSize - 1)
      BY <2>2
    <3>4. r.part.chunks * (ChunkSize - 1) \in Int /\ (r.part.chunks + 1) - 1 = r.part.chunks
      BY <2>2
    <3> HIDE DEF r, i
    <3> QED
      BY <3>1, <3>2, <3>3, <3>4 DEF Needs
  <2>6. said'[t] = Append(said[t], text[t]) /\ text'[t] = <<>>
    BY <1>1, <1>3 DEF TypeOK
  <2>7. Unsent(t)' = <<>>
    <3>1. CASE open'[t] = NoBuffer
      BY <3>1 DEF Unsent
    <3>2. CASE open'[t] # NoBuffer
      <4>1. open'[t] = b /\ index'[t] = 1
        BY <1>1, <1>3, <3>2 DEF TypeOK
      <4>2. Unsent(t)' = SubSeq(buffers'[b], 1, 0)
        BY <3>2, <4>1 DEF Unsent
      <4> QED BY <4>2, SubSeqEmpty
    <3> QED BY <3>1, <3>2
  <2> DEFINE messages == read'[TaskId(t)].messages
  <2>8. /\ messages = Append(r.messages, message)
        /\ read'[TaskId(t)].part.text = <<>> /\ read'[TaskId(t)].part.chunks = 0
    BY <2>4 DEF NothingRead
  <2>9. /\ Len(messages) = Len(r.messages) + 1 /\ DOMAIN messages = 1 .. Len(r.messages) + 1
        /\ \A k \in 1 .. Len(r.messages) : messages[k] = r.messages[k]
        /\ messages[Len(r.messages) + 1] = message
    <3>1. message \in ReadMessage
      <4>1. text[t] \in Seq(Bytes)
        BY <1>1 DEF Bytes
      <4> HIDE DEF r
      <4> QED BY <2>2, <4>1 DEF ReadMessage
    <3> DEFINE ended == r.messages
    <3>2. ended \in Seq(ReadMessage) /\ messages = Append(ended, message)
      BY <2>2, <2>8
    <3> HIDE DEF message, messages, ended
    <3>3. /\ messages \in Seq(ReadMessage) /\ Len(messages) = Len(ended) + 1
          /\ \A k \in 1 .. Len(ended) : messages[k] = ended[k]
          /\ messages[Len(ended) + 1] = message
      BY <3>1, <3>2, AppendProperties
    <3>4. DOMAIN messages = 1 .. Len(ended) + 1
      BY ONLY <3>3, LenProperties
    <3>5. /\ Len(messages) = Len(ended) + 1 /\ DOMAIN messages = 1 .. Len(ended) + 1
          /\ \A k \in 1 .. Len(ended) : messages[k] = ended[k]
          /\ messages[Len(ended) + 1] = message
      BY ONLY <3>3, <3>4
    <3> QED
      BY ONLY <3>5 DEF ended
  <2>10. /\ Len(said'[t]) = Len(said[t]) + 1 /\ DOMAIN said'[t] = 1 .. Len(said[t]) + 1
         /\ \A k \in 1 .. Len(said[t]) : said'[t][k] = said[t][k]
         /\ said'[t][Len(said[t]) + 1] = text[t]
         /\ DOMAIN said[t] = 1 .. Len(said[t]) /\ DOMAIN r.messages = 1 .. Len(r.messages)
         /\ Len(said[t]) \in Nat
    <3> DEFINE ended == said[t]
               new == text[t]
               others == r.messages
    <3>1. ended \in Seq(Seq(Chars)) /\ new \in Seq(Chars) /\ said'[t] = Append(ended, new)
      BY <1>1, <2>6 DEF TypeOK
    <3>2. others \in Seq(ReadMessage)
      BY <2>2
    <3> HIDE DEF ended, new, others
    <3>3. DOMAIN others = 1 .. Len(others)
      BY ONLY <3>2, LenProperties
    <3>4. /\ Append(ended, new) \in Seq(Seq(Chars)) /\ Len(Append(ended, new)) = Len(ended) + 1
          /\ \A k \in 1 .. Len(ended) : Append(ended, new)[k] = ended[k]
          /\ Append(ended, new)[Len(ended) + 1] = new
      BY ONLY <3>1, AppendProperties
    <3>5. /\ DOMAIN ended = 1 .. Len(ended) /\ Len(ended) \in Nat
          /\ DOMAIN Append(ended, new) = 1 .. Len(ended) + 1
      BY ONLY <3>1, <3>4, LenProperties
    <3> QED
      BY ONLY <3>1, <3>3, <3>4, <3>5 DEF ended, new, others
  <2>11. /\ Len(r.messages) = Len(said[t])
         /\ \A k \in 1 .. Len(said[t]) : r.messages[k].text = said[t][k]
         /\ \A k \in 1 .. Len(said[t]) : Needs(Len(r.messages[k].text), r.messages[k].chunks)
    BY <2>1, <2>10 DEF Whole
  <2>12. message.text = text[t]
    OBVIOUS
  <2> HIDE DEF message, messages, r
  <2>13. /\ Len(messages) = Len(said'[t])
         /\ \A k \in DOMAIN said'[t] : messages[k].text = said'[t][k]
         /\ \A k \in DOMAIN messages : Needs(Len(messages[k].text), messages[k].chunks)
    <3> DEFINE n == Len(said[t])
    <3>1. /\ Len(messages) = n + 1 /\ DOMAIN messages = 1 .. n + 1 /\ n \in Nat
          /\ Len(said'[t]) = n + 1 /\ DOMAIN said'[t] = 1 .. n + 1
          /\ messages[n + 1] = message /\ said'[t][n + 1] = text[t]
      BY <2>9, <2>10, <2>11
    <3>2. ASSUME NEW k \in 1 .. n + 1
          PROVE  messages[k].text = said'[t][k] /\ Needs(Len(messages[k].text), messages[k].chunks)
      <4>1. CASE k = n + 1
        BY <2>5, <2>12, <3>1, <4>1
      <4>2. CASE k \in 1 .. n
        BY <2>9, <2>10, <2>11, <4>2
      <4> QED
        BY <3>1, <4>1, <4>2
    <3> QED
      BY <3>1, <3>2
  <2>14. /\ read'[TaskId(t)].part.text \o Unsent(t)' = text'[t]
         /\ Len(text'[t]) = read'[TaskId(t)].part.chunks * (ChunkSize - 1) + Len(Unsent(t)')
    BY <2>6, <2>7, <2>8
  <2>15. /\ Len(read'[TaskId(t)].messages) = Len(said'[t])
         /\ \A k \in DOMAIN said'[t] : read'[TaskId(t)].messages[k].text = said'[t][k]
         /\ \A k \in DOMAIN read'[TaskId(t)].messages :
              Needs(Len(read'[TaskId(t)].messages[k].text), read'[TaskId(t)].messages[k].chunks)
    BY <2>13 DEF messages
  <2> QED
    BY <2>14, <2>15 DEF Whole
<1>7. ASSUME NEW u \in Threads, u # t, HasOwnId(u)
      PROVE  Whole(u)'
  <2>1. \A d \in Buffers : d # b => buffers'[d] = buffers[d]
    BY <1>1, <1>3 DEF TypeOK
  <2>2. \A j \in Ids : j # TaskId(t) => read'[j] = read[j]
    BY <1>1, <1>3 DEF TypeOK, Push
  <2>3. open'[u] = open[u] /\ index'[u] = index[u] /\ text'[u] = text[u] /\ said'[u] = said[u]
    BY <1>1, <1>3, <1>7 DEF TypeOK
  <2> HIDE DEF b
  <2> QED
    BY <1>1, <1>7, <2>1, <2>2, <2>3, OthersWhole DEF b
<1> QED
  BY <1>4, <1>5, <1>6, <1>7 DEF Inv, HasOwnId

-----------------------------------------------------------------------------
LEMMA NextInv == Inv /\ [Next]_vars => Inv'
<1> SUFFICES ASSUME Inv, [Next]_vars PROVE Inv'
  OBVIOUS
<1>1. CASE UNCHANGED vars
  BY <1>1, IdleInv DEF vars, Inv, TypeOK
<1>2. ASSUME NEW t \in Threads, NEW header \in BOOLEAN, NEW topic \in Topics, NEW n \in ArgChars,
             Send(t, header, topic, n)
      PROVE  Inv'
  <2>1. Preamble(header, topic) + n \in Nat
    BY DEF Preamble
  <2> QED
    BY <1>2, <2>1, StartInv DEF Send
<1>3. ASSUME NEW t \in Threads, NEW header \in BOOLEAN, NEW topic \in Topics,
             StartChain(t, header, topic)
      PROVE  Inv'
  <2>1. Preamble(header, topic) \in Nat
    BY DEF Preamble
  <2> QED
    BY <1>3, <2>1, StartInv DEF StartChain
<1>4. ASSUME NEW t \in Threads, Called(t)
      PROVE  calls' \in [Threads -> Nat] /\ \A u \in Threads : calls'[u] <= MaxCalls[u]
  BY <1>4 DEF Called, Inv, TypeOK
<1>5. ASSUME NEW t \in Threads, NEW topic \in Topics, Discard(t, topic)
      PROVE  Inv'
  BY <1>4, <1>5, IdleInv DEF Discard, Inv, TypeOK
<1>6. ASSUME NEW t \in Threads, NEW n \in ArgChars, AppendArg(t, n)
      PROVE  Inv'
  <2>1. left' \in [Threads -> Nat]
    BY <1>6 DEF AppendArg, Inv, TypeOK
  <2> QED
    BY <1>4, <1>6, <2>1, IdleInv DEF AppendArg
<1>7. ASSUME NEW t \in Threads, PushChar(t)
      PROVE  Inv'
  BY <1>7, PushCharInv
<1>8. ASSUME NEW t \in Threads, FinishSend(t)
      PROVE  Inv'
  <2>1. open[t] # NoBuffer
    BY <1>8, BufferFacts DEF FinishSend
  <2> QED
    BY <1>8, <2>1, FlushInv DEF FinishSend, Inv, TypeOK
<1>9. ASSUME NEW t \in Threads, EndChain(t)
      PROVE  Inv'
  BY <1>4, <1>9, FlushInv DEF EndChain, InChain
<1>10. ASSUME NEW t \in Threads, LeaveChain(t)
       PROVE  Inv'
  BY <1>10, LeaveChainInv
<1> QED
  BY <1>1, <1>2, <1>3, <1>5, <1>6, <1>7, <1>8, <1>9, <1>10 DEF Next

-----------------------------------------------------------------------------
\* The inductive invariant: with the messages, the chunks of the present one
\* are counted, and all of them are full.
THEOREM InvHolds == Spec => []Inv
<1> QED
  BY InitInv, NextInv, PTL DEF Spec

\* The write index of a chunk stays in it (Chunk::push, Chunk::flush), whatever
\* is written, and the calls stay within their types.
THEOREM TypeCorrect == Spec => []TypeOK
<1>1. Inv => TypeOK
  BY DEF Inv
<1> QED
  BY <1>1, InvHolds, PTL

\* What Log::send and the shift chains hand over chunk by chunk is read by
\* TransmitBuffers::operator<< as the messages of the thread, for any size of
\* chunks and length of messages, though the buffers are never cleared and one
\* of them may be shared by others.
THEOREM MessagesStayWhole == Spec => []MessagesWhole
<1>1. Inv => MessagesWhole
  BY DEF Inv, Whole, MessagesWhole
<1> QED
  BY <1>1, InvHolds, PTL

\* Chunk::push and flush need no more chunks than the characters and the end
\* mark of a message take, and no fewer.
THEOREM ChunksAreFull == Spec => []NoMoreChunks
<1>1. ASSUME Inv, NEW t \in Threads, HasOwnId(t)
      PROVE  Needs(Len(text[t]), read[TaskId(t)].part.chunks + 1)
  <2> DEFINE chunks == read[TaskId(t)].part.chunks
             unsent == Len(Unsent(t))
             chars == Len(text[t])
  <2>1. chunks \in Nat /\ unsent \in Nat /\ unsent < ChunkSize - 1
    <3>1. index[t] \in Payload
      BY <1>1 DEF Inv, TypeOK
    <3>2. CASE open[t] = NoBuffer
      BY <1>1, <3>2, UnsentTypes DEF Inv, Unsent
    <3>3. CASE open[t] # NoBuffer
      BY <1>1, <3>1, <3>3, UnsentTypes DEF Inv, Payload
    <3> QED BY <3>2, <3>3
  <2>2. chars = chunks * (ChunkSize - 1) + unsent
    BY <1>1 DEF Inv, Whole
  <2> HIDE DEF chunks, unsent, chars
  <2>3. (chunks + 1) * (ChunkSize - 1) = chunks * (ChunkSize - 1) + (ChunkSize - 1)
    BY <2>1
  <2>4. chunks * (ChunkSize - 1) \in Int /\ (chunks + 1) - 1 = chunks
    BY <2>1
  <2>5. Needs(chars, chunks + 1)
    BY <2>1, <2>2, <2>3, <2>4 DEF Needs
  <2> QED
    BY <2>5 DEF chunks, chars
<1>2. Inv => NoMoreChunks
  BY <1>1 DEF Inv, Whole, NoMoreChunks
<1> QED
  BY <1>2, InvHolds, PTL

=============================================================================
