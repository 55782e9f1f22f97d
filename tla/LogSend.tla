------------------------------ MODULE LogSend -------------------------------
(***************************************************************************)
(* How messages become chunks: Log::send and sendNoHeader, the shift chains*)
(* (Log::i, Log::n and LogShiftChainHelper), startSend, and Chunk::push and*)
(* flush.  A thread writes a message character by character into a buffer  *)
(* of one chunk, on its stack or in the part of mShiftChainingCallBuffers  *)
(* that belongs to its id, and hands the chunk over to the port whenever it*)
(* is full, and once more for the end mark.  The buffers are used again and*)
(* again and never cleared.                                                *)
(*                                                                         *)
(* A thread has one message open at a time, and a chain is given up only   *)
(* after Log::end: README.md:282 and 302 leave both to the application.    *)
(***************************************************************************)
EXTENDS Integers, Sequences, SequencesExt

CONSTANTS
  Threads,       \* tasks, and interrupts one at a time
  Interrupts,    \* the threads that stand for interrupts; one id for all
  Unregistered,  \* the tasks that never registered
  IsrTaskId,     \* Chunk::cIsrTaskId
  InvalidTaskId, \* Chunk::cInvalidTaskId
  EndOfMessage,  \* Chunk::cEndOfMessage
  Unset,         \* what memory holds that was never written
  LogFromIsr,    \* LogConfig::logFromIsr
  AllowSend,     \* LogConfig::allowVariadicTemplatesWork
  AllowChains,   \* LogConfig::allowShiftChainingCalls
  ChunkSize,     \* LogConfig::chunkSize
  HeaderChars,   \* characters of the header: task, time and separators
  TopicChars,    \* characters of the name of a topic and its separator
  ArgChars,      \* how many characters an argument may have
  LineFeeds,     \* the places of line feeds in messages
  MaxCalls       \* bound: calls of the API by each thread

\* The characters of the messages: position by position, of one thread each.
Chars == [thread : Threads, message : Nat \ {0}, position : Nat \ {0}]

ASSUME SendAssumption ==
  /\ Interrupts \subseteq Threads /\ Unregistered \subseteq Threads \ Interrupts
  /\ {IsrTaskId, InvalidTaskId} \cap Threads = {} /\ IsrTaskId # InvalidTaskId
  /\ EndOfMessage \notin Chars
  /\ {LogFromIsr, AllowSend, AllowChains} \subseteq BOOLEAN
  /\ ChunkSize \in Nat /\ ChunkSize >= 2
  /\ HeaderChars \in Nat /\ TopicChars \in Nat /\ ArgChars \subseteq Nat
  /\ LineFeeds \subseteq Nat
  /\ MaxCalls \in [Threads -> Nat]

VARIABLES
  buffers,  \* the bytes of the chunk buffers behind the id
  open,     \* the buffer into which each thread writes; NoBuffer: no message
  index,    \* mIndex of its Chunk
  left,     \* the characters of the present arguments still to come
  read,     \* by id, what the transmitter reads in the chunks pushed
  printed,  \* by id, what a port without a transmitter prints of them
  calls,    \* history: calls so far
  text,     \* history: what each thread wrote of its present message
  said      \* history: the messages each thread has ended

vars == <<buffers, open, index, left, read, printed, calls, text, said>>

NoBuffer == <<"none">>
Payload == 1 .. ChunkSize - 1
Bytes == Chars \cup {EndOfMessage, Unset}

\* getCurrentTaskId: the id a registered task has for itself alone.
TaskId(t) ==
  CASE t \in Interrupts -> IsrTaskId
    [] t \in Unregistered -> InvalidTaskId
    [] OTHER -> t

Ids == {TaskId(t) : t \in Threads}

\* The array on the stack of send.
StackBuffer(t) == <<"stack", t>>

\* Mutant: the id is looked up only by startSendNoHeader, as for send.
ShiftBufferOfNobody(t) == <<"shift", InvalidTaskId>>

\* The part of mShiftChainingCallBuffers for the id of the caller.
ShiftBuffer(t) == <<"shift", TaskId(t)>>

Buffers == {StackBuffer(t) : t \in Threads} \cup {<<"shift", i>> : i \in Ids \cup {InvalidTaskId}}

\* A message as far as it was read, and in how many chunks it came.
NothingRead == [text |-> <<>>, chunks |-> 0]

Init ==
  /\ buffers = [b \in Buffers |-> [i \in Payload |-> Unset]]
  /\ open = [t \in Threads |-> NoBuffer]
  /\ index = [t \in Threads |-> 1]
  /\ left = [t \in Threads |-> 0]
  /\ read = [i \in Ids |-> [messages |-> <<>>, part |-> NothingRead]]
  /\ printed = [i \in Ids |-> <<>>]
  /\ calls = [t \in Threads |-> 0]
  /\ text = [t \in Threads |-> <<>>]
  /\ said = [t \in Threads |-> <<>>]

\* The p-th character of the next message of t.
Char(t, p) == [thread |-> t, message |-> Len(said[t]) + 1, position |-> p]

\* startSendNoHeader: interrupts only if LogConfig allows them; a topic that is
\* not registered discards the message.
Starts(t, topic) ==
  /\ t \in Interrupts => LogFromIsr
  /\ topic # "unregistered"

\* What startSend writes before the arguments: the name of the topic goes only
\* with a header.
Preamble(header, topic) ==
  IF header THEN HeaderChars + (IF topic = "registered" THEN TopicChars ELSE 0) ELSE 0

Called(t) == calls[t] < MaxCalls[t] /\ calls' = [calls EXCEPT ![t] = @ + 1]

Start(t, b, chars) ==
  /\ open' = [open EXCEPT ![t] = b]
  /\ index' = [index EXCEPT ![t] = 1]
  /\ left' = [left EXCEPT ![t] = chars]
  /\ UNCHANGED <<buffers, read, printed, text, said>>

\* send and sendNoHeader, with all arguments at once.
Send(t, header, topic, n) ==
  /\ Called(t)
  /\ AllowSend
  /\ open[t] = NoBuffer
  /\ Starts(t, topic)
  /\ Start(t, StackBuffer(t), Preamble(header, topic) + n)

\* Log::i and Log::n, or the << of Log: a chain begins.  By Log.h:144 not in
\* an interrupt.
StartChain(t, header, topic) ==
  /\ Called(t)
  /\ AllowChains /\ t \notin Interrupts
  /\ open[t] = NoBuffer
  /\ Starts(t, topic)
  /\ Start(t, ShiftBuffer(t), Preamble(header, topic))

\* The message is discarded: Chunk() is not valid, and a chain leads nowhere.
Discard(t, topic) ==
  /\ Called(t)
  /\ open[t] = NoBuffer
  /\ AllowSend /\ AllowChains => ~Starts(t, topic)
  /\ UNCHANGED <<buffers, open, index, left, read, printed, text, said>>

InChain(t) == open[t] # NoBuffer /\ open[t] # StackBuffer(t)

\* << of LogShiftChainHelper with an argument.  After Log::end the next one
\* begins a message without header in the same buffer.
AppendArg(t, n) ==
  /\ Called(t)
  /\ InChain(t) /\ left[t] = 0
  /\ left' = [left EXCEPT ![t] = n]
  /\ UNCHANGED <<buffers, open, index, read, printed, text, said>>

\* The transmitter (TransmitBuffers::operator<<) takes the characters of a chunk
\* up to the first end mark.
Ends(c) == \E i \in Payload : c[i] = EndOfMessage
Read(c) == SubSeq(c, 1, Min({i \in Payload : c[i] = EndOfMessage} \cup {ChunkSize}) - 1)

\* The messages read and the beginning of another, with one more chunk.
Receive(r, c) ==
  LET part == [text |-> r.part.text \o Read(c), chunks |-> r.part.chunks + 1]
  IN  IF Ends(c) THEN [messages |-> Append(r.messages, part), part |-> NothingRead]
                 ELSE [r EXCEPT !.part = part]

\* push of the ports that have no transmitter (LogStdOstream, LogStmHal and
\* LogCmsisSwo, all alike): the whole payload, or up to a line feed in it.
IsLineFeed(c) == c \notin {EndOfMessage, Unset} /\ c.position \in LineFeeds
ImmediatePush(c) ==
  SubSeq(c, 1, Min({i \in Payload : IsLineFeed(c[i])} \cup {ChunkSize - 1}))

\* LogOsInterface::push, for either kind of port; the id is the first byte of
\* the buffer.  The transmitter reads no chunk that has none.
Push(t, payload) ==
  /\ read' = IF TaskId(t) = InvalidTaskId THEN read
             ELSE [read EXCEPT ![TaskId(t)] = Receive(@, payload)]
  /\ printed' = [printed EXCEPT ![TaskId(t)] = @ \o ImmediatePush(payload)]

PushIf(full, t, payload) == IF full THEN Push(t, payload) ELSE UNCHANGED <<read, printed>>

\* Mutant: the chunk is full one character too soon.
PushCharEarly(t) ==
  /\ open[t] # NoBuffer /\ left[t] > 0
  /\ LET c == Char(t, Len(text[t]) + 1)
         payload == [buffers[open[t]] EXCEPT ![index[t]] = c]
         full == index[t] + 2 >= ChunkSize
     IN  /\ buffers' = [buffers EXCEPT ![open[t]] = payload]
         /\ PushIf(full, t, payload)
         /\ index' = [index EXCEPT ![t] = IF full THEN 1 ELSE @ + 1]
         /\ text' = [text EXCEPT ![t] = Append(@, c)]
  /\ left' = [left EXCEPT ![t] = @ - 1]
  /\ UNCHANGED <<open, calls, said>>

\* Mutant: a full chunk is handed over with the next character only.
PushCharLate(t) ==
  /\ open[t] # NoBuffer /\ left[t] > 0
  /\ LET c == Char(t, Len(text[t]) + 1)
         full == index[t] = ChunkSize
         i == IF full THEN 1 ELSE index[t]
     IN  /\ buffers' = [buffers EXCEPT ![open[t]][i] = c]
         /\ PushIf(full, t, buffers[open[t]])
         /\ index' = [index EXCEPT ![t] = i + 1]
         /\ text' = [text EXCEPT ![t] = Append(@, c)]
  /\ left' = [left EXCEPT ![t] = @ - 1]
  /\ UNCHANGED <<open, calls, said>>

\* Chunk::push of the next character.
PushChar(t) ==
  /\ open[t] # NoBuffer /\ left[t] > 0
  /\ LET c == Char(t, Len(text[t]) + 1)
         payload == [buffers[open[t]] EXCEPT ![index[t]] = c]
         full == index[t] + 1 = ChunkSize
     IN  /\ buffers' = [buffers EXCEPT ![open[t]] = payload]
         /\ PushIf(full, t, payload)
         /\ index' = [index EXCEPT ![t] = IF full THEN 1 ELSE @ + 1]
         /\ text' = [text EXCEPT ![t] = Append(@, c)]
  /\ left' = [left EXCEPT ![t] = @ - 1]
  /\ UNCHANGED <<open, calls, said>>

\* finishSend: Chunk::flush.
Flush(t) ==
  /\ left[t] = 0
  /\ LET payload == [buffers[open[t]] EXCEPT ![index[t]] = EndOfMessage]
     IN  /\ buffers' = [buffers EXCEPT ![open[t]] = payload]
         /\ Push(t, payload)
  /\ index' = [index EXCEPT ![t] = 1]
  /\ UNCHANGED left
  /\ said' = [said EXCEPT ![t] = Append(@, text[t])]
  /\ text' = [text EXCEPT ![t] = <<>>]

\* The end of send.
FinishSend(t) ==
  /\ open[t] = StackBuffer(t)
  /\ Flush(t)
  /\ open' = [open EXCEPT ![t] = NoBuffer]
  /\ UNCHANGED calls

\* << Log::end; the chain stays open for further arguments.
EndChain(t) ==
  /\ Called(t)
  /\ InChain(t)
  /\ Flush(t)
  /\ UNCHANGED open

\* The LogShiftChainHelper is gone; nothing was written since Log::end.
LeaveChain(t) ==
  /\ InChain(t) /\ left[t] = 0 /\ text[t] = <<>>
  /\ open' = [open EXCEPT ![t] = NoBuffer]
  /\ UNCHANGED <<buffers, index, left, read, printed, calls, text, said>>

Topics == {"none", "registered", "unregistered"}

Next ==
  \E t \in Threads :
    \/ \E header \in BOOLEAN, topic \in Topics, n \in ArgChars : Send(t, header, topic, n)
    \/ \E header \in BOOLEAN, topic \in Topics : StartChain(t, header, topic)
    \/ \E topic \in Topics : Discard(t, topic)
    \/ \E n \in ArgChars : AppendArg(t, n)
    \/ PushChar(t)
    \/ FinishSend(t)
    \/ EndChain(t)
    \/ LeaveChain(t)

Spec == Init /\ [][Next]_vars

-----------------------------------------------------------------------------
ReadMessage == [text : Seq(Bytes), chunks : Nat]

TypeOK ==
  /\ buffers \in [Buffers -> [Payload -> Bytes]]
  /\ open \in [Threads -> Buffers \cup {NoBuffer}]
  /\ index \in [Threads -> Payload]
  /\ left \in [Threads -> Nat]
  /\ read \in [Ids -> [messages : Seq(ReadMessage), part : ReadMessage]]
  /\ printed \in [Ids -> Seq(Bytes)]
  /\ calls \in [Threads -> Nat] /\ \A t \in Threads : calls[t] <= MaxCalls[t]
  /\ text \in [Threads -> Seq(Chars)]
  /\ said \in [Threads -> Seq(Seq(Chars))]

\* The tasks that are registered, and an interrupt that no other interrupts.
HasOwnId(t) == TaskId(t) # InvalidTaskId /\ \A u \in Threads : TaskId(u) = TaskId(t) => u = t

Unsent(t) == IF open[t] = NoBuffer THEN <<>> ELSE SubSeq(buffers[open[t]], 1, index[t] - 1)

\* From the chunks of an id that belongs to one thread the transmitter reads
\* just the messages this thread has ended, and what it wrote of the next one
\* as far as that is not in its buffer: no character is lost or repeated where
\* chunks meet, no end mark left behind in a buffer is read again, and nobody
\* else writes into it.
MessagesWhole ==
  \A t \in Threads : HasOwnId(t) =>
    LET r == read[TaskId(t)]
    IN  /\ Len(r.messages) = Len(said[t])
        /\ \A k \in DOMAIN said[t] : r.messages[k].text = said[t][k]
        /\ r.part.text \o Unsent(t) = text[t]

\* n characters need these chunks and fill the last of them at most, where the
\* end mark fills a place as well.
Needs(n, chunks) == (chunks - 1) * (ChunkSize - 1) <= n /\ n < chunks * (ChunkSize - 1)

\* A message takes as many chunks as its characters and the end mark need, and
\* is not cut before a chunk is full.
NoMoreChunks ==
  \A t \in Threads : HasOwnId(t) =>
    LET r == read[TaskId(t)]
    IN  /\ \A k \in DOMAIN r.messages : Needs(Len(r.messages[k].text), r.messages[k].chunks)
        /\ Needs(Len(text[t]), r.part.chunks + 1)

\* "\r signs the end of a message" (Log.h:159): without a transmitter as well
\* the sink gets the messages of an id, each with its end mark, and the full
\* chunks of the next.
ImmediateMessages ==
  \A t \in Threads : HasOwnId(t) =>
    printed[TaskId(t)] =
      FoldLeft(LAMBDA o, m : o \o Append(m, EndOfMessage), <<>>, said[t])
        \o SubSeq(text[t], 1, Len(text[t]) - Len(Unsent(t)))

=============================================================================
