-------------------------- MODULE TransmitBuffers ---------------------------
(***************************************************************************)
(* The double buffer between the transmitter loop and the device           *)
(* (LogUtil.h, class TransmitBuffers): one buffer is filled while the      *)
(* other one may still be under transmission.  A chunk written is numbered *)
(* in the order of writing and takes one cell of a buffer, at the write    *)
(* index (mIndex counts the same chunks in characters).  The steps follow  *)
(* transmitIfNeeded between the points at which the device or the timer    *)
(* can change the two flags it shares with them.                           *)
(***************************************************************************)
EXTENDS Integers, Sequences

CONSTANTS
  TransmitLength,  \* mBufferLength: LogConfig::transmitBufferLength
  MaxChunks        \* bound: chunks written in a behaviour

ASSUME TransmitAssumption ==
  /\ TransmitLength \in Nat \ {0}
  /\ MaxChunks \in Nat

VARIABLES
  buffers,         \* mBuffers: per buffer and cell the chunk stored; 0: nothing yet
  bufferToWrite,   \* mBufferToWrite
  chunkCount,      \* mChunkCount and mIndex of the two buffers
  inProgress,      \* mTransmitInProgress, shared with the device
  refreshNeeded,   \* mRefreshNeeded, shared with the timer
  tpc,             \* where the transmitter thread stands
  written,         \* history: chunks written so far
  wire             \* history: what the device sent, cell by cell

Cells == 1 .. TransmitLength

TransmitInit ==
  /\ buffers = [b \in {0, 1} |-> [i \in Cells |-> 0]]
  /\ bufferToWrite = 0
  /\ chunkCount = [b \in {0, 1} |-> 0]
  /\ inProgress = FALSE
  /\ refreshNeeded = FALSE
  /\ tpc = "loop"
  /\ written = 0
  /\ wire = <<>>

Step(from, to) == tpc = from /\ tpc' = to

Filled == chunkCount[bufferToWrite]

\* operator<<, called at most once in a turn of the loop; it does not check for
\* space: Log.cpp:148 says that there is some.
WriteChunk ==
  /\ Step("loop", "check")
  /\ written < MaxChunks
  /\ written' = written + 1
  /\ buffers' = [buffers EXCEPT ![bufferToWrite][Filled + 1] = written + 1]
  /\ chunkCount' = [chunkCount EXCEPT ![bufferToWrite] = @ + 1]
  /\ UNCHANGED <<bufferToWrite, inProgress, refreshNeeded, wire>>

\* A turn that writes nothing: no chunk came, or it went to the ring.
WriteNothing ==
  /\ Step("loop", "check")
  /\ UNCHANGED <<buffers, bufferToWrite, chunkCount, inProgress, refreshNeeded, written, wire>>

\* transmitIfNeeded returns at once when nothing was written since the switch.
NothingToTransmit ==
  /\ Step("check", "loop")
  /\ Filled = 0
  /\ UNCHANGED <<buffers, bufferToWrite, chunkCount, inProgress, refreshNeeded, written, wire>>

Partial ==
  /\ Step("check", "decide")
  /\ Filled \notin {0, TransmitLength}
  /\ UNCHANGED <<buffers, bufferToWrite, chunkCount, inProgress, refreshNeeded, written, wire>>

\* Mutant: a full buffer does not wait for the device.
AwaitDeviceNot ==
  /\ Step("check", "force")
  /\ Filled = TransmitLength
  /\ UNCHANGED <<buffers, bufferToWrite, chunkCount, inProgress, refreshNeeded, written, wire>>

\* A full buffer waits for the device; in the meantime the loop stands still.
AwaitDevice ==
  /\ Step("check", "force")
  /\ Filled = TransmitLength
  /\ ~inProgress
  /\ UNCHANGED <<buffers, bufferToWrite, chunkCount, inProgress, refreshNeeded, written, wire>>

ForceRefresh ==
  /\ Step("force", "decide")
  /\ refreshNeeded' = TRUE
  /\ UNCHANGED <<buffers, bufferToWrite, chunkCount, inProgress, written, wire>>

NotNow ==
  /\ Step("decide", "loop")
  /\ inProgress \/ ~refreshNeeded
  /\ UNCHANGED <<buffers, bufferToWrite, chunkCount, inProgress, refreshNeeded, written, wire>>

\* Mutant: the buffers are not switched.
StartTransmitSameBuffer(Transmit) ==
  /\ Step("decide", "clear")
  /\ ~inProgress /\ refreshNeeded
  /\ Transmit
  /\ chunkCount' = [chunkCount EXCEPT ![bufferToWrite] = 0]
  /\ UNCHANGED <<buffers, bufferToWrite, refreshNeeded, written>>

\* Mutant: the buffer switched to is written from where it was left.
StartTransmitUnreset(Transmit) ==
  /\ Step("decide", "clear")
  /\ ~inProgress /\ refreshNeeded
  /\ Transmit
  /\ bufferToWrite' = 1 - bufferToWrite
  /\ UNCHANGED <<buffers, chunkCount, refreshNeeded, written>>

\* The decision to transmit: Transmit of the port says what happens with the
\* filled part of the buffer; the other one is then written from its start.
StartTransmit(Transmit) ==
  /\ Step("decide", "clear")
  /\ ~inProgress /\ refreshNeeded
  /\ Transmit
  /\ bufferToWrite' = 1 - bufferToWrite
  /\ chunkCount' = [chunkCount EXCEPT ![1 - bufferToWrite] = 0]
  /\ UNCHANGED <<buffers, refreshNeeded, written>>

ClearRefresh ==
  /\ Step("clear", "arm")
  /\ refreshNeeded' = FALSE
  /\ UNCHANGED <<buffers, bufferToWrite, chunkCount, inProgress, written, wire>>

\* StartTimer of the port arms the timer for the next partly filled buffer.
ArmTimer(StartTimer) ==
  /\ Step("arm", "loop")
  /\ StartTimer
  /\ UNCHANGED <<buffers, bufferToWrite, chunkCount, inProgress, refreshNeeded, written, wire>>

TransmitterSteps ==
  \/ WriteChunk \/ WriteNothing \/ NothingToTransmit \/ Partial
  \/ AwaitDevice \/ ForceRefresh \/ NotNow \/ ClearRefresh

-----------------------------------------------------------------------------
TransmitTypeOK ==
  /\ buffers \in [{0, 1} -> [Cells -> 0 .. MaxChunks]]
  /\ bufferToWrite \in {0, 1}
  /\ chunkCount \in [{0, 1} -> 0 .. TransmitLength]
  /\ inProgress \in BOOLEAN
  /\ refreshNeeded \in BOOLEAN
  /\ tpc \in {"loop", "check", "force", "decide", "clear", "arm"}
  /\ written \in 0 .. MaxChunks
  /\ wire \in Seq(1 .. MaxChunks)

\* Log.cpp:148: at the head of the loop the buffer to write has space for a
\* chunk, so operator<< never writes past its end.
SpaceForChunk == tpc = "loop" => Filled < TransmitLength

\* The device sends the chunks once each and in the order of writing: no cell
\* is overwritten before it was sent, and no buffer is sent twice or skipped.
WireInOrder ==
  /\ Len(wire) <= written
  /\ \A i \in 1 .. Len(wire) : wire[i] = i

\* Every chunk written is sent within the time of the refresh timer or as soon
\* as the buffer is full (Log.h:518).
EverythingSent == \A n \in 1 .. MaxChunks : written >= n ~> Len(wire) >= n

=============================================================================
