---------------------------- MODULE FreeRtosPort ----------------------------
(***************************************************************************)
(* The double buffer over the two FreeRTOS ports, LogFreeRtosStmHal and    *)
(* LogFreeRtosCmsisSwo: the UART sends by DMA while the transmitter goes   *)
(* on, and an interrupt reports the end of it; the SWO pin is written      *)
(* before transmit returns.  A one-shot FreeRTOS timer asks for partly     *)
(* filled buffers.  UART and timer may refuse to start.                    *)
(***************************************************************************)
EXTENDS TransmitBuffers

VARIABLES
  swo,     \* the port: SWO, or UART with DMA
  dma,     \* the running transfer: buffer, next cell, number of cells; busy or not
  armed,   \* the refresh timer is running
  failed   \* history: the device or the timer has refused to start

vars == <<buffers, bufferToWrite, chunkCount, inProgress, refreshNeeded, tpc,
          written, wire, swo, dma, armed, failed>>

\* The constructor of TransmitBuffers starts the timer, which may be refused at once.
Init ==
  /\ TransmitInit
  /\ swo \in BOOLEAN
  /\ dma = [busy |-> FALSE, buffer |-> 0, next |-> 1, length |-> 0]
  /\ \/ armed = TRUE /\ failed = {}
     \/ armed = FALSE /\ failed = {"timer"}

\* Mutant: the progress flag is left to an interrupt that this port has not.
TransmitSwoUncleared ==
  /\ swo
  /\ wire' = wire \o SubSeq(buffers[bufferToWrite], 1, Filled)
  /\ inProgress' = TRUE
  /\ UNCHANGED <<dma, armed, failed>>

\* transmit of the SWO port: each character is sent before the next.
TransmitSwo ==
  /\ swo
  /\ wire' = wire \o SubSeq(buffers[bufferToWrite], 1, Filled)
  /\ inProgress' = FALSE
  /\ UNCHANGED <<dma, armed, failed>>

\* transmit of the UART port: HAL_UART_Transmit_DMA takes the address and the
\* length, and reads the memory later.
TransmitDma ==
  /\ ~swo
  /\ dma' = [busy |-> TRUE, buffer |-> bufferToWrite, next |-> 1, length |-> Filled]
  /\ inProgress' = TRUE
  /\ UNCHANGED <<wire, armed, failed>>

\* HAL_UART_Transmit_DMA returns HAL_BUSY or HAL_ERROR, and nobody looks.
TransmitRefused ==
  /\ ~swo
  /\ inProgress' = TRUE
  /\ failed' = failed \cup {"device"}
  /\ UNCHANGED <<wire, dma, armed>>

\* Mutant: the timer is only started once.
XTimerStartNot == UNCHANGED <<dma, armed, failed>>

\* startRefreshTimer: a running timer starts over.
XTimerStart == armed' = TRUE /\ UNCHANGED <<dma, failed>>

\* xTimerStart cannot reach the timer service, and nobody looks.
XTimerRefused ==
  /\ failed' = failed \cup {"timer"}
  /\ UNCHANGED <<dma, armed>>

\* The end of a turn of the loop, after it has written a chunk or not.
TransmitIfNeeded ==
  /\ \/ /\ \/ NothingToTransmit \/ Partial \/ AwaitDevice
           \/ ForceRefresh \/ NotNow \/ ClearRefresh
        /\ UNCHANGED <<dma, armed, failed>>
     \/ StartTransmit(TransmitSwo \/ TransmitDma \/ TransmitRefused)
     \/ ArmTimer(XTimerStart \/ XTimerRefused)
  /\ UNCHANGED swo

Transmitter ==
  \/ (WriteChunk \/ WriteNothing) /\ UNCHANGED <<swo, dma, armed, failed>>
  \/ TransmitIfNeeded

DmaSend ==
  /\ dma.busy /\ dma.next <= dma.length
  /\ wire' = Append(wire, buffers[dma.buffer][dma.next])
  /\ dma' = [dma EXCEPT !.next = @ + 1]
  /\ UNCHANGED <<buffers, bufferToWrite, chunkCount, inProgress, refreshNeeded, tpc, written,
                 swo, armed, failed>>

\* Mutant: the end of the transfer is reported at its half.
TransmitFinishedEarly ==
  /\ dma.busy
  /\ inProgress' = FALSE
  /\ UNCHANGED <<buffers, bufferToWrite, chunkCount, refreshNeeded, tpc, written, wire,
                 swo, dma, armed, failed>>

\* HAL_UART_TxCpltCallback calls transmitFinished.
TransmitFinished ==
  /\ dma.busy /\ dma.next > dma.length
  /\ dma' = [dma EXCEPT !.busy = FALSE]
  /\ inProgress' = FALSE
  /\ UNCHANGED <<buffers, bufferToWrite, chunkCount, refreshNeeded, tpc, written, wire,
                 swo, armed, failed>>

\* The timer service calls refreshNeeded.
TimerExpires ==
  /\ armed
  /\ armed' = FALSE
  /\ refreshNeeded' = TRUE
  /\ UNCHANGED <<buffers, bufferToWrite, chunkCount, inProgress, tpc, written, wire,
                 swo, dma, failed>>

Next == Transmitter \/ DmaSend \/ TransmitFinished \/ TimerExpires

\* The transmitter task, the UART with its interrupt and the timer service all
\* make progress; nothing says that another chunk ever comes.
Fairness ==
  /\ WF_vars(Transmitter) /\ WF_vars(DmaSend)
  /\ WF_vars(TransmitFinished) /\ WF_vars(TimerExpires)

Spec == Init /\ [][Next]_vars

FairSpec == Spec /\ Fairness

-----------------------------------------------------------------------------
TypeOK ==
  /\ TransmitTypeOK
  /\ swo \in BOOLEAN
  /\ dma \in [busy : BOOLEAN, buffer : {0, 1}, next : 1 .. TransmitLength + 1,
              length : 0 .. TransmitLength]
  /\ armed \in BOOLEAN
  /\ failed \subseteq {"device", "timer"}

\* The buffer that the DMA reads is not the one being written, and holds the
\* next chunks to be sent; what was written after them waits in the other one.
\* Only a refused transfer leaves the transmitter waiting for an end that does
\* not come, and then nothing is sent any more, not even out of order.
BuffersApart ==
  /\ dma.busy => /\ dma.buffer = 1 - bufferToWrite
                 /\ inProgress
  /\ inProgress => dma.busy \/ "device" \in failed
  /\ LET inFlight == IF dma.busy THEN dma.length + 1 - dma.next ELSE 0
     IN  IF "device" \in failed
         THEN ~dma.busy /\ Len(wire) + Filled <= written
         ELSE Len(wire) + inFlight + Filled = written

\* Double buffer and device are a stream in which at most two buffers are waiting:
\* what is on the wire stays, what comes next follows the last, nothing is sent
\* that was not written, and a device that stands still stops the loop.
Stream == INSTANCE ChunkStream WITH Room <- 2 * TransmitLength
Implements == Stream!Spec

\* Every chunk written is sent within the time of the refresh timer or as soon
\* as the buffer is full (Log.h:518), as long as nothing refuses to start.
SentUnlessFailed ==
  \A n \in 1 .. MaxChunks : written >= n ~> Len(wire) >= n \/ failed # {}

=============================================================================
