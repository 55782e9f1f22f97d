---------------------------- MODULE StdThreadPort ---------------------------
(***************************************************************************)
(* The double buffer over LogStdThreadOstream: the stream is written before*)
(* transmit returns, and the refresh timer is a thread that wakes up after *)
(* each period, looks whether it was armed, and disarms itself only after  *)
(* it has set the flag.                                                    *)
(***************************************************************************)
EXTENDS TransmitBuffers

VARIABLES
  alarmed,  \* mAlarmed of FreeRtosTimer
  timer     \* where its thread stands

stdVars == <<buffers, bufferToWrite, chunkCount, inProgress, refreshNeeded, tpc,
             written, wire, alarmed, timer>>

\* The thread is started before the constructor stores TRUE in mKeepRunning:
\* what it finds there first is not defined, and on FALSE it ends at once.
StdInit ==
  /\ TransmitInit
  /\ alarmed = TRUE
  /\ timer \in {"wait", "ended"}

\* Mutant: the progress flag is set as for a device that works on its own.
TransmitStreamUncleared ==
  /\ wire' = wire \o SubSeq(buffers[bufferToWrite], 1, Filled)
  /\ inProgress' = TRUE
  /\ UNCHANGED <<alarmed, timer>>

\* transmit: write, flush, and clear the progress flag.
TransmitStream ==
  /\ wire' = wire \o SubSeq(buffers[bufferToWrite], 1, Filled)
  /\ inProgress' = FALSE
  /\ UNCHANGED <<alarmed, timer>>

\* FreeRtosTimer::start; the notification at most restarts the wait.
TimerStart == alarmed' = TRUE /\ UNCHANGED timer

StdTransmitter ==
  \/ TransmitterSteps /\ UNCHANGED <<alarmed, timer>>
  \/ StartTransmit(TransmitStream)
  \/ ArmTimer(TimerStart)

\* The wait of the timer thread times out, and it was armed.
TimerTimeout ==
  /\ timer = "wait" /\ alarmed
  /\ timer' = "alarm"
  /\ UNCHANGED <<buffers, bufferToWrite, chunkCount, inProgress, refreshNeeded, tpc,
                 written, wire, alarmed>>

\* mLambda: refreshNeeded of the port.
TimerAlarm ==
  /\ timer = "alarm"
  /\ refreshNeeded' = TRUE
  /\ timer' = "disarm"
  /\ UNCHANGED <<buffers, bufferToWrite, chunkCount, inProgress, tpc, written, wire, alarmed>>

TimerDisarm ==
  /\ timer = "disarm"
  /\ alarmed' = FALSE
  /\ timer' = "wait"
  /\ UNCHANGED <<buffers, bufferToWrite, chunkCount, inProgress, refreshNeeded, tpc,
                 written, wire>>

Timer == TimerTimeout \/ TimerAlarm \/ TimerDisarm

StdNext == StdTransmitter \/ Timer

\* Both threads are scheduled for ever.
StdFairness == WF_stdVars(StdTransmitter) /\ WF_stdVars(Timer)

StdSpec == StdInit /\ [][StdNext]_stdVars

StdFairSpec == StdSpec /\ StdFairness

-----------------------------------------------------------------------------
StdTypeOK ==
  /\ TransmitTypeOK
  /\ alarmed \in BOOLEAN
  /\ timer \in {"wait", "alarm", "disarm", "ended"}

\* Between two turns there is space for a chunk, as Log.cpp:148 says, and the
\* stream has all that was written before what is in that buffer, once and in
\* order: the other buffer never holds a chunk that was not sent.
StreamInOrder ==
  /\ SpaceForChunk
  /\ WireInOrder
  /\ ~inProgress /\ Len(wire) + Filled = written

\* Whatever the timer thread does, a full buffer is sent: a chunk that stays
\* behind is pushed out when the chunks after it have filled the buffer.
FullBufferSent ==
  \A n \in 1 .. MaxChunks : written >= n + TransmitLength - 1 ~> Len(wire) >= n

\* With a running timer thread every chunk is sent in the end (Log.h:518).  The
\* thread may disarm a timer that was armed after it set the flag.
RefreshedInTime == timer # "ended" => EverythingSent

=============================================================================
