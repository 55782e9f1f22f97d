----------------------------- MODULE PortProofs ------------------------------
(***************************************************************************)
(* The double buffer, for buffers of any length.  Over the FreeRTOS ports  *)
(* it never overruns and never overwrites what the device still has to     *)
(* read, whatever refuses to start; over the output stream it sends every  *)
(* chunk once and in order, whatever the timer thread does.                *)
(***************************************************************************)
EXTENDS FreeRtosPort, StdThreadPort, SequenceTheorems, TLAPS

USE TransmitAssumption

\* Chunks handed to the device that it has not sent.
InFlight == IF dma.busy THEN dma.length + 1 - dma.next ELSE 0

Stuck == "device" \in failed

\* What was handed over and is not on the wire is with the device, unless it
\* refused.
Counts ==
  /\ Len(wire) + InFlight + Filled <= written
  /\ ~Stuck => Len(wire) + InFlight + Filled = written

\* The transmitter takes the device for busy as long as it is, or for ever.
Progress ==
  /\ dma.busy => inProgress /\ ~Stuck
  /\ Stuck => inProgress
  /\ inProgress => dma.busy \/ Stuck
  /\ swo => ~inProgress

\* The device reads the other buffer, which holds what comes next on the wire.
DmaAhead ==
  /\ dma.busy => /\ dma.buffer = 1 - bufferToWrite
                 /\ dma.next <= dma.length + 1
                 /\ \A i \in Cells : dma.next <= i /\ i <= dma.length =>
                      buffers[dma.buffer][i] = Len(wire) + 1 + i - dma.next

\* The buffer to write holds the youngest chunks.
WrittenLast ==
  \A i \in Cells : i <= Filled => buffers[bufferToWrite][i] = written - Filled + i

\* What the transmitter thread knows at each place.
Knows ==
  /\ tpc = "loop" => Filled < TransmitLength
  /\ tpc = "force" => Filled = TransmitLength /\ ~inProgress
  /\ tpc = "decide" /\ Filled = TransmitLength => ~inProgress /\ refreshNeeded
  /\ tpc \in {"clear", "arm"} => Filled = 0

Inv ==
  /\ TypeOK
  /\ Counts
  /\ Progress
  /\ DmaAhead
  /\ WrittenLast
  /\ Knows
  /\ WireInOrder

\* The types of the parts.
LEMMA Types ==
  ASSUME TypeOK
  PROVE  /\ bufferToWrite \in {0, 1} /\ Filled \in 0 .. TransmitLength
         /\ written \in 0 .. MaxChunks
         /\ wire \in Seq(1 .. MaxChunks) /\ Len(wire) \in Nat
         /\ dma.next \in 1 .. TransmitLength + 1 /\ dma.length \in 0 .. TransmitLength
<1>1. bufferToWrite \in {0, 1} /\ chunkCount \in [{0, 1} -> 0 .. TransmitLength]
  BY DEF TypeOK, TransmitTypeOK
<1>2. Filled \in 0 .. TransmitLength
  BY <1>1 DEF Filled
<1>3. wire \in Seq(1 .. MaxChunks) /\ written \in 0 .. MaxChunks
  BY DEF TypeOK, TransmitTypeOK
<1>4. Len(wire) \in Nat
  BY <1>3
<1>5. dma.next \in 1 .. TransmitLength + 1 /\ dma.length \in 0 .. TransmitLength
  BY DEF TypeOK
<1> QED
  BY <1>1, <1>2, <1>3, <1>4, <1>5

\* Both buffers are empty and the device is idle.
LEMMA InitInv == Init => Inv
<1> SUFFICES ASSUME Init PROVE Inv
  OBVIOUS
<1> USE DEF Init, TransmitInit
<1>1. wire = <<>> /\ Len(wire) = 0 /\ wire \in Seq(1 .. MaxChunks)
  OBVIOUS
<1>2. TypeOK
  <2>1. buffers \in [{0, 1} -> [Cells -> 0 .. MaxChunks]]
    OBVIOUS
  <2>2. chunkCount \in [{0, 1} -> 0 .. TransmitLength]
    OBVIOUS
  <2>3. dma \in [busy : BOOLEAN, buffer : {0, 1}, next : 1 .. TransmitLength + 1,
                 length : 0 .. TransmitLength]
    OBVIOUS
  <2>4. /\ bufferToWrite \in {0, 1} /\ written \in 0 .. MaxChunks
        /\ inProgress \in BOOLEAN /\ refreshNeeded \in BOOLEAN
    <3>1. bufferToWrite \in {0, 1}
      OBVIOUS
    <3>2. written = 0
      OBVIOUS
    <3>3. written \in 0 .. MaxChunks
      BY ONLY <3>2, TransmitAssumption
    <3>4. inProgress \in BOOLEAN
      OBVIOUS
    <3>5. refreshNeeded \in BOOLEAN
      OBVIOUS
    <3> QED
      BY ONLY <3>1, <3>3, <3>4, <3>5
  <2>5. tpc \in {"loop", "check", "force", "decide", "clear", "arm"}
    OBVIOUS
  <2>6. armed \in BOOLEAN /\ swo \in BOOLEAN
    OBVIOUS
  <2>7. failed \subseteq {"device", "timer"}
    OBVIOUS
  <2>8. TransmitTypeOK
    BY ONLY <1>1, <2>1, <2>2, <2>4, <2>5 DEF TransmitTypeOK
  <2> QED
    BY ONLY <2>3, <2>6, <2>7, <2>8 DEF TypeOK
<1>3. Filled = 0 /\ InFlight = 0 /\ ~Stuck /\ written = 0
  BY DEF Filled, InFlight, Stuck
<1>4. Counts /\ Progress /\ DmaAhead /\ WireInOrder
  <2>1. dma.busy = FALSE /\ inProgress = FALSE /\ written = 0
    OBVIOUS
  <2>4. Counts
    BY ONLY <1>1, <1>3 DEF Counts
  <2>5. Progress
    BY ONLY <1>3, <2>1 DEF Progress
  <2>2. DmaAhead
    BY ONLY <2>1 DEF DmaAhead
  <2>3. WireInOrder
    BY ONLY <1>1, <2>1 DEF WireInOrder
  <2> QED
    BY ONLY <2>2, <2>3, <2>4, <2>5
<1>5. WrittenLast /\ Knows
  BY <1>3 DEF WrittenLast, Knows, Cells
<1> QED
  BY <1>1, <1>2, <1>3, <1>4, <1>5 DEF Inv

\* A chunk goes behind the ones in the buffer, which the device does not read.
LEMMA WriteChunkInv ==
  ASSUME Inv, WriteChunk, UNCHANGED <<swo, dma, armed, failed>>
  PROVE  Inv'
<1> DEFINE w == bufferToWrite
           n == Filled
<1>1. /\ tpc = "loop" /\ tpc' = "check" /\ written < MaxChunks /\ written' = written + 1
      /\ buffers' = [buffers EXCEPT ![w][n + 1] = written + 1]
      /\ chunkCount' = [chunkCount EXCEPT ![w] = n + 1]
      /\ UNCHANGED <<bufferToWrite, inProgress, refreshNeeded, wire, swo, dma, armed, failed>>
  BY DEF WriteChunk, Step, Filled
<1>2. /\ w \in {0, 1} /\ n \in 0 .. TransmitLength - 1 /\ n + 1 \in Cells
      /\ written \in 0 .. MaxChunks /\ Len(wire) \in Nat
  <2>1. n < TransmitLength
    BY <1>1 DEF Inv, Knows
  <2> QED
    BY <2>1, Types DEF Inv, Cells
<1>3. /\ Filled' = n + 1
      /\ \A i \in Cells : buffers'[w][i] = IF i = n + 1 THEN written + 1 ELSE buffers[w][i]
      /\ buffers'[1 - w] = buffers[1 - w]
      /\ buffers' \in [{0, 1} -> [Cells -> 0 .. MaxChunks]]
  <2>1. Filled' = n + 1
    BY <1>1, <1>2 DEF Inv, TypeOK, TransmitTypeOK, Filled
  <2>2. buffers \in [{0, 1} -> [Cells -> 0 .. MaxChunks]] /\ written + 1 \in 0 .. MaxChunks
    BY <1>1, <1>2 DEF Inv, TypeOK, TransmitTypeOK
  <2> HIDE DEF n
  <2>3. /\ \A i \in Cells : buffers'[w][i] = IF i = n + 1 THEN written + 1 ELSE buffers[w][i]
        /\ buffers'[1 - w] = buffers[1 - w]
    BY <1>1, <1>2, <2>2
  <2>4. buffers' \in [{0, 1} -> [Cells -> 0 .. MaxChunks]]
    BY <1>1, <1>2, <2>2
  <2> QED
    BY <2>1, <2>3, <2>4
<1>4. TypeOK'
  <2>1. chunkCount' \in [{0, 1} -> 0 .. TransmitLength] /\ written' \in 0 .. MaxChunks
    <3>1. chunkCount \in [{0, 1} -> 0 .. TransmitLength]
      BY DEF Inv, TypeOK, TransmitTypeOK
    <3> HIDE DEF w, n
    <3>2. written' \in 0 .. MaxChunks
      BY ONLY <1>1, <1>2, TransmitAssumption
    <3> QED
      BY ONLY <1>1, <1>2, <3>1, <3>2, TransmitAssumption
  <2>2. bufferToWrite' \in {0, 1} /\ wire' \in Seq(1 .. MaxChunks)
    BY <1>1 DEF Inv, TypeOK, TransmitTypeOK
  <2>3. inProgress' \in BOOLEAN /\ refreshNeeded' \in BOOLEAN
    BY <1>1 DEF Inv, TypeOK, TransmitTypeOK
  <2>4. TransmitTypeOK'
    BY <1>1, <1>3, <2>1, <2>2, <2>3 DEF TransmitTypeOK
  <2> QED
    BY <1>1, <2>4 DEF Inv, TypeOK
<1>5. Counts' /\ Progress'
  <2>1. InFlight' = InFlight /\ InFlight \in Int /\ n \in Int /\ written \in Int
    BY <1>1, Types DEF Inv, InFlight
  <2>2. Len(wire)' = Len(wire) /\ Len(wire) \in Int /\ Filled' = n + 1 /\ written' = written + 1
    BY <1>1, <1>2, <1>3
  <2>3. Stuck' = Stuck
    BY <1>1 DEF Stuck
  <2>4. /\ Len(wire) + InFlight + n <= written
        /\ ~Stuck => Len(wire) + InFlight + n = written
    BY DEF Inv, Counts
  <2> HIDE DEF n
  <2>5. Counts'
    BY ONLY <2>1, <2>2, <2>3, <2>4 DEF Counts
  <2> QED
    BY <1>1, <2>3, <2>5 DEF Inv, Progress
<1>6. DmaAhead'
  <2>1. dma.busy => buffers'[dma.buffer] = buffers[dma.buffer]
    BY <1>3 DEF Inv, DmaAhead
  <2> QED
    BY <1>1, <2>1 DEF Inv, DmaAhead
<1>7. WrittenLast'
  BY <1>1, <1>2, <1>3 DEF Inv, WrittenLast, Cells
<1>8. Knows'
  BY <1>1 DEF Knows
<1>9. WireInOrder'
  BY <1>1, <1>2 DEF Inv, WireInOrder
<1> QED
  BY <1>4, <1>5, <1>6, <1>7, <1>8, <1>9 DEF Inv

\* The other steps of the thread that leave buffers and device alone.
LEMMA ThreadInv ==
  ASSUME Inv, UNCHANGED <<swo, dma, armed, failed>>,
         WriteNothing \/ NothingToTransmit \/ Partial \/ AwaitDevice \/ ForceRefresh \/ NotNow
           \/ ClearRefresh
  PROVE  Inv'
<1>1. UNCHANGED <<buffers, bufferToWrite, chunkCount, inProgress, written, wire, swo, dma,
                  armed, failed>>
  BY DEF WriteNothing, NothingToTransmit, Partial, AwaitDevice, ForceRefresh, NotNow, ClearRefresh
<1>2. Filled' = Filled /\ InFlight' = InFlight
  BY <1>1 DEF Filled, InFlight
<1>3. /\ tpc' \in {"loop", "check", "force", "decide", "clear", "arm"}
      /\ refreshNeeded' \in BOOLEAN
  BY DEF WriteNothing, NothingToTransmit, Partial, AwaitDevice, ForceRefresh, NotNow,
         ClearRefresh, Step, Inv, TypeOK, TransmitTypeOK
<1>4. TypeOK'
  BY <1>1, <1>3 DEF Inv, TypeOK, TransmitTypeOK
<1>5. Counts' /\ Progress' /\ DmaAhead' /\ WrittenLast' /\ WireInOrder'
  <2>1. Counts' /\ Progress'
    BY <1>1, <1>2 DEF Inv, Counts, Progress, Stuck
  <2>2. DmaAhead' /\ WrittenLast' /\ WireInOrder'
    BY <1>1, <1>2 DEF Inv, DmaAhead, WrittenLast, WireInOrder
  <2> QED
    BY ONLY <2>1, <2>2
<1>6. Knows'
  <2>1. Filled \in 0 .. TransmitLength
    BY DEF Inv, TypeOK, TransmitTypeOK, Filled
  <2> QED
    BY <1>1, <1>2, <2>1 DEF Inv, Knows, WriteNothing, NothingToTransmit, Partial, AwaitDevice,
       ForceRefresh, NotNow, ClearRefresh, Step
<1> QED
  BY <1>1, <1>2, <1>4, <1>5, <1>6 DEF Inv

\* What the decision to transmit leaves behind, whatever the device does: the
\* other buffer is written from its start.
LEMMA Switched ==
  ASSUME Inv, tpc = "decide", tpc' = "clear", ~inProgress, refreshNeeded,
         inProgress' \in BOOLEAN, wire' \in Seq(1 .. MaxChunks),
         bufferToWrite' = 1 - bufferToWrite,
         chunkCount' = [chunkCount EXCEPT ![1 - bufferToWrite] = 0],
         UNCHANGED <<buffers, refreshNeeded, written, swo, armed>>
  PROVE  /\ TransmitTypeOK' /\ WrittenLast' /\ Knows' /\ Filled' = 0
         /\ ~dma.busy /\ ~Stuck /\ Len(wire) + Filled = written
<1>1. /\ bufferToWrite \in {0, 1} /\ Filled \in 0 .. TransmitLength /\ written \in 0 .. MaxChunks
      /\ Len(wire) \in Nat /\ chunkCount \in [{0, 1} -> 0 .. TransmitLength]
  BY Types DEF Inv, TypeOK, TransmitTypeOK
<1>2. bufferToWrite' \in {0, 1} /\ chunkCount' \in [{0, 1} -> 0 .. TransmitLength]
      /\ chunkCount'[1 - bufferToWrite] = 0
  BY <1>1
<1>3. Filled' = 0
  BY <1>2 DEF Filled
<1>4. TransmitTypeOK'
  <2>1. refreshNeeded' \in BOOLEAN
    BY DEF Inv, TypeOK, TransmitTypeOK
  <2>2. buffers' \in [{0, 1} -> [Cells -> 0 .. MaxChunks]]
    BY DEF Inv, TypeOK, TransmitTypeOK
  <2>3. tpc' \in {"loop", "check", "force", "decide", "clear", "arm"}
    OBVIOUS
  <2> QED
    BY <1>1, <1>2, <2>1, <2>2, <2>3 DEF TransmitTypeOK
<1>5. WrittenLast'
  BY <1>3 DEF WrittenLast, Cells
<1>6. Knows'
  BY <1>3 DEF Knows
<1>7. ~dma.busy /\ ~Stuck
  BY DEF Inv, Progress
<1>8. Len(wire) + Filled = written
  <2>1. InFlight = 0
    BY <1>7 DEF InFlight
  <2>2. Len(wire) + InFlight + Filled = written
    BY <1>7 DEF Inv, Counts
  <2> QED
    BY ONLY <1>1, <2>1, <2>2
<1> QED
  BY <1>3, <1>4, <1>5, <1>6, <1>7, <1>8

\* The filled buffer goes to the idle device, and the other one is free.
LEMMA StartDmaInv ==
  ASSUME Inv, StartTransmit(TransmitDma), UNCHANGED swo
  PROVE  Inv'
<1> DEFINE w == bufferToWrite
           n == Filled
<1>1. /\ tpc = "decide" /\ tpc' = "clear" /\ ~inProgress /\ refreshNeeded
      /\ dma' = [busy |-> TRUE, buffer |-> w, next |-> 1, length |-> n]
      /\ inProgress' = TRUE /\ ~swo
      /\ bufferToWrite' = 1 - w
      /\ chunkCount' = [chunkCount EXCEPT ![1 - w] = 0]
      /\ UNCHANGED <<buffers, refreshNeeded, written, wire, swo, armed, failed>>
  BY DEF StartTransmit, TransmitDma, Step
<1>2. w \in {0, 1} /\ n \in 0 .. TransmitLength /\ Len(wire) \in Nat /\ written \in Nat
  BY Types DEF Inv
<1>3. /\ TransmitTypeOK' /\ WrittenLast' /\ Knows' /\ Filled' = 0
      /\ ~dma.busy /\ ~Stuck /\ Len(wire) + n = written
  BY <1>1, Switched DEF Inv, TypeOK, TransmitTypeOK
<1> HIDE DEF n
<1>4. TypeOK'
  <2>1. dma' \in [busy : BOOLEAN, buffer : {0, 1}, next : 1 .. TransmitLength + 1,
                  length : 0 .. TransmitLength]
    BY <1>1, <1>2
  <2> QED
    BY <1>1, <1>3, <2>1 DEF Inv, TypeOK
<1>5. Counts' /\ Progress'
  <2>1. InFlight' = n
    BY <1>1, <1>2 DEF InFlight
  <2>2. Counts'
    BY <1>1, <1>2, <1>3, <2>1 DEF Counts
  <2> QED
    BY <1>1, <1>3, <2>2 DEF Progress, Stuck
<1>6. DmaAhead'
  <2>1. dma'.busy /\ dma'.buffer = w /\ dma'.next = 1 /\ dma'.length = n /\ w = 1 - (1 - w)
    BY <1>1, <1>2
  <2>2. ASSUME NEW i \in Cells, 1 <= i, i <= n
        PROVE  buffers[w][i] = Len(wire) + 1 + i - 1
    <3>1. buffers[w][i] = written - n + i
      BY <2>2 DEF Inv, WrittenLast, n
    <3>2. i \in Int
      BY DEF Cells
    <3> QED
      BY <1>2, <1>3, <3>1, <3>2
  <2> QED
    BY <1>1, <1>2, <2>1, <2>2 DEF DmaAhead
<1>7. WireInOrder'
  BY <1>1, <1>2 DEF Inv, WireInOrder
<1> QED
  BY <1>3, <1>4, <1>5, <1>6, <1>7 DEF Inv

\* Nothing of the filled buffer is ever sent when the UART refuses it.
LEMMA StartRefusedInv ==
  ASSUME Inv, StartTransmit(TransmitRefused), UNCHANGED swo
  PROVE  Inv'
<1>1. /\ tpc = "decide" /\ tpc' = "clear" /\ ~inProgress /\ refreshNeeded
      /\ inProgress' = TRUE /\ ~swo
      /\ failed' = failed \cup {"device"}
      /\ bufferToWrite' = 1 - bufferToWrite
      /\ chunkCount' = [chunkCount EXCEPT ![1 - bufferToWrite] = 0]
      /\ UNCHANGED <<buffers, refreshNeeded, written, wire, swo, dma, armed>>
  BY DEF StartTransmit, TransmitRefused, Step
<1>2. Filled \in 0 .. TransmitLength /\ Len(wire) \in Nat /\ written \in Nat
  BY Types DEF Inv
<1>3. /\ TransmitTypeOK' /\ WrittenLast' /\ Knows' /\ Filled' = 0
      /\ ~dma.busy /\ ~Stuck /\ Len(wire) + Filled = written
  BY <1>1, Switched DEF Inv, TypeOK, TransmitTypeOK
<1>4. TypeOK'
  BY <1>1, <1>3 DEF Inv, TypeOK
<1>5. Counts' /\ Progress' /\ DmaAhead'
  <2>1. InFlight' = 0 /\ Stuck'
    BY <1>1, <1>3 DEF InFlight, Stuck
  <2>2. Counts'
    BY <1>1, <1>2, <1>3, <2>1 DEF Counts
  <2> QED
    BY <1>1, <1>3, <2>1, <2>2 DEF Progress, DmaAhead
<1>6. WireInOrder'
  BY <1>1, <1>2 DEF Inv, WireInOrder
<1> QED
  BY <1>3, <1>4, <1>5, <1>6 DEF Inv

\* The filled part of the buffer leaves by the SWO pin at once.
LEMMA StartSwoInv ==
  ASSUME Inv, StartTransmit(TransmitSwo), UNCHANGED swo
  PROVE  Inv'
<1> DEFINE w == bufferToWrite
           n == Filled
           cells == buffers[w]
           sent == SubSeq(cells, 1, n)
<1>1. /\ tpc = "decide" /\ tpc' = "clear" /\ ~inProgress /\ refreshNeeded
      /\ swo /\ wire' = wire \o sent
      /\ inProgress' = FALSE
      /\ bufferToWrite' = 1 - w
      /\ chunkCount' = [chunkCount EXCEPT ![1 - w] = 0]
      /\ UNCHANGED <<buffers, refreshNeeded, written, swo, dma, armed, failed>>
  BY DEF StartTransmit, TransmitSwo, Step
<1>2. /\ w \in {0, 1} /\ n \in 0 .. TransmitLength /\ written \in 0 .. MaxChunks
      /\ wire \in Seq(1 .. MaxChunks) /\ Len(wire) \in Nat
      /\ Len(wire) + n = written
  <2>1. ~dma.busy /\ ~Stuck
    BY <1>1 DEF Inv, Progress
  <2>2. InFlight = 0
    BY <2>1 DEF InFlight
  <2>3. /\ w \in {0, 1} /\ n \in 0 .. TransmitLength /\ written \in 0 .. MaxChunks
        /\ wire \in Seq(1 .. MaxChunks) /\ Len(wire) \in Nat
    BY Types DEF Inv
  <2>4. Len(wire) + InFlight + n = written
    BY <2>1 DEF Inv, Counts
  <2> HIDE DEF w, n
  <2> QED
    BY ONLY <2>2, <2>3, <2>4
<1>4. \A i \in 1 .. n : cells[i] = Len(wire) + i /\ cells[i] \in 1 .. MaxChunks
  <2>1. \A i \in Cells : i <= n => cells[i] = written - n + i
    BY DEF Inv, WrittenLast
  <2> HIDE DEF cells, n
  <2>2. ASSUME NEW i \in 1 .. n
        PROVE  cells[i] = Len(wire) + i /\ cells[i] \in 1 .. MaxChunks
    <3>1. i \in Cells /\ i <= n
      BY <1>2 DEF Cells
    <3>2. written - n + i = Len(wire) + i /\ Len(wire) + i \in 1 .. MaxChunks
      BY ONLY <1>2, TransmitAssumption, i \in 1 .. n
    <3> QED
      BY ONLY <2>1, <3>1, <3>2
  <2> QED
    BY ONLY <2>2
<1>5. /\ sent \in Seq(1 .. MaxChunks) /\ Len(sent) = n
      /\ \A i \in 1 .. n : sent[i] = Len(wire) + i
  <2> HIDE DEF cells, n
  <2>1. n \in Int /\ 1 \in Int /\ n - 1 + 1 = n
    BY <1>2
  <2>2. /\ sent \in Seq(1 .. MaxChunks)
        /\ Len(sent) = IF 1 <= n THEN n - 1 + 1 ELSE 0
        /\ \A i \in 1 .. n - 1 + 1 : sent[i] = cells[1 + i - 1]
    <3>1. \A i \in 1 .. n : cells[i] \in 1 .. MaxChunks
      BY <1>4
    <3> QED
      BY ONLY <2>1, <3>1, SubSeqProperties
  <2>3. \A i \in 1 .. n : 1 + i - 1 = i
    BY <1>2
  <2> HIDE DEF sent
  <2> QED
    BY <1>2, <1>4, <2>1, <2>2, <2>3
<1>6. /\ wire' \in Seq(1 .. MaxChunks) /\ Len(wire') = written
      /\ \A i \in 1 .. written : wire'[i] = i
  <2> HIDE DEF sent, n
  <2>1. /\ wire' \in Seq(1 .. MaxChunks) /\ Len(wire') = Len(wire) + n
        /\ \A i \in 1 .. Len(wire) + n :
             wire'[i] = IF i <= Len(wire) THEN wire[i] ELSE sent[i - Len(wire)]
    BY <1>1, <1>2, <1>5, ConcatProperties
  <2>2. \A i \in 1 .. Len(wire) : wire[i] = i
    BY DEF Inv, WireInOrder
  <2>3. ASSUME NEW i \in 1 .. Len(wire) + n
        PROVE  wire'[i] = i
    <3>1. CASE i <= Len(wire)
      BY ONLY <1>2, <2>1, <2>2, <3>1, i \in 1 .. Len(wire) + n
    <3>2. CASE ~(i <= Len(wire))
      <4>1. i - Len(wire) \in 1 .. n /\ Len(wire) + (i - Len(wire)) = i
        BY ONLY <1>2, <3>2, i \in 1 .. Len(wire) + n
      <4> QED
        BY ONLY <1>5, <2>1, <3>2, <4>1, i \in 1 .. Len(wire) + n
    <3> QED
      BY <3>1, <3>2
  <2> QED
    BY ONLY <1>2, <2>1, <2>3
<1>7. /\ TransmitTypeOK' /\ WrittenLast' /\ Knows' /\ Filled' = 0
      /\ ~dma.busy /\ ~Stuck
  <2> HIDE DEF sent
  <2> QED BY <1>1, <1>6, Switched
<1> HIDE DEF sent, cells, n
<1>8. TypeOK'
  BY <1>1, <1>7 DEF Inv, TypeOK
<1>9. Counts' /\ Progress' /\ DmaAhead'
  <2>1. InFlight' = 0 /\ Stuck' = Stuck
    BY <1>1, <1>7 DEF InFlight, Stuck
  <2>2. Counts'
    BY <1>1, <1>2, <1>6, <1>7, <2>1 DEF Counts
  <2> QED
    BY <1>1, <1>7, <2>1, <2>2 DEF Progress, DmaAhead
<1>10. WireInOrder'
  BY <1>1, <1>2, <1>6 DEF WireInOrder
<1> QED
  BY <1>7, <1>8, <1>9, <1>10 DEF Inv

\* Arming the timer touches nothing else.
LEMMA ArmTimerInv ==
  ASSUME Inv, ArmTimer(XTimerStart \/ XTimerRefused), UNCHANGED swo
  PROVE  Inv'
<1>1. /\ tpc = "arm" /\ tpc' = "loop" /\ armed' \in BOOLEAN
      /\ failed' \subseteq {"device", "timer"} /\ Stuck' = Stuck
      /\ UNCHANGED <<buffers, bufferToWrite, chunkCount, inProgress, refreshNeeded, written,
                     wire, swo, dma>>
  <2>1. /\ tpc = "arm" /\ tpc' = "loop" /\ (armed' = TRUE \/ armed' = armed)
        /\ failed' = failed \/ failed' = failed \cup {"timer"}
        /\ UNCHANGED <<buffers, bufferToWrite, chunkCount, inProgress, refreshNeeded, written,
                       wire, swo, dma>>
    BY DEF ArmTimer, XTimerStart, XTimerRefused, Step
  <2>2. armed \in BOOLEAN /\ failed \subseteq {"device", "timer"}
    BY DEF Inv, TypeOK
  <2>3. armed' \in BOOLEAN
    BY ONLY <2>1, <2>2
  <2>4. failed' \subseteq {"device", "timer"} /\ Stuck' = Stuck
    <3>1. failed' \subseteq {"device", "timer"}
      BY ONLY <2>1, <2>2
    <3>2. "device" \in failed' <=> "device" \in failed
      BY ONLY <2>1
    <3> QED
      BY ONLY <3>1, <3>2 DEF Stuck
  <2> QED
    BY ONLY <2>1, <2>3, <2>4
<1>2. Filled' = Filled /\ InFlight' = InFlight
  BY <1>1 DEF Filled, InFlight
<1>3. TypeOK'
  BY <1>1 DEF Inv, TypeOK, TransmitTypeOK
<1>4. Counts' /\ Progress'
  BY <1>1, <1>2 DEF Inv, Counts, Progress
<1>5. DmaAhead' /\ WrittenLast' /\ WireInOrder' /\ Knows'
  BY <1>1, <1>2 DEF Inv, DmaAhead, WrittenLast, WireInOrder, Knows
<1> QED
  BY <1>3, <1>4, <1>5 DEF Inv

\* The device sends the next chunk of its buffer.
LEMMA DmaSendInv ==
  ASSUME Inv, DmaSend
  PROVE  Inv'
<1> DEFINE c == buffers[dma.buffer][dma.next]
<1>1. /\ dma.busy /\ dma.next <= dma.length
      /\ wire' = Append(wire, c)
      /\ dma' = [dma EXCEPT !.next = @ + 1]
      /\ UNCHANGED <<buffers, bufferToWrite, chunkCount, inProgress, refreshNeeded, tpc,
                     written, swo, armed, failed>>
  BY DEF DmaSend
<1>2. /\ dma.next \in Cells /\ dma.length \in 0 .. TransmitLength /\ Len(wire) \in Nat
      /\ Filled \in Nat /\ written \in 0 .. MaxChunks
      /\ wire \in Seq(1 .. MaxChunks)
  BY <1>1, Types DEF Inv, Cells
<1>3. c = Len(wire) + 1
  <2>1. \A i \in Cells : dma.next <= i /\ i <= dma.length =>
          buffers[dma.buffer][i] = Len(wire) + 1 + i - dma.next
    BY <1>1 DEF Inv, DmaAhead
  <2>2. c = Len(wire) + 1 + dma.next - dma.next
    <3>1. dma.next <= dma.next
      BY <1>2 DEF Cells
    <3> QED
      BY ONLY <1>1, <1>2, <2>1, <3>1
  <2>3. dma.next \in Int
    BY <1>2 DEF Cells
  <2> QED
    BY <1>2, <2>2, <2>3
<1>4. Len(wire) + 1 <= written
  <2>1. Len(wire) + (dma.length + 1 - dma.next) + Filled <= written
    BY <1>1 DEF Inv, Counts, InFlight
  <2> QED
    BY <1>1, <1>2, <2>1 DEF Cells
<1>5. /\ wire' \in Seq(1 .. MaxChunks) /\ Len(wire') = Len(wire) + 1
      /\ \A i \in 1 .. Len(wire) + 1 : wire'[i] = IF i = Len(wire) + 1 THEN c ELSE wire[i]
  BY <1>1, <1>2, <1>3, <1>4
<1>6. /\ dma'.busy = dma.busy /\ dma'.buffer = dma.buffer /\ dma'.length = dma.length
      /\ dma'.next = dma.next + 1
  BY <1>1 DEF Inv, TypeOK
<1>7. Filled' = Filled /\ InFlight' = InFlight - 1 /\ InFlight \in Nat
  <2>1. Filled' = Filled
    BY <1>1 DEF Filled
  <2>2. dma.next \in Int /\ dma.length \in Int
    BY <1>2 DEF Cells
  <2>3. InFlight = dma.length + 1 - dma.next
    BY <1>1 DEF InFlight
  <2>4. InFlight' = dma.length + 1 - (dma.next + 1)
    BY <1>1, <1>6 DEF InFlight
  <2>5. dma.length + 1 - dma.next \in Nat
    BY ONLY <1>1, <2>2
  <2>6. dma.length + 1 - (dma.next + 1) = (dma.length + 1 - dma.next) - 1
    BY ONLY <2>2
  <2> QED
    BY ONLY <2>1, <2>3, <2>4, <2>5, <2>6
<1>8. TypeOK'
  <2>1. dma.next + 1 \in 1 .. TransmitLength + 1
    BY <1>2 DEF Cells
  <2>2. dma' \in [busy : BOOLEAN, buffer : {0, 1}, next : 1 .. TransmitLength + 1,
                  length : 0 .. TransmitLength]
    BY <1>1, <2>1 DEF Inv, TypeOK
  <2> QED
    BY <1>1, <1>5, <2>2 DEF Inv, TypeOK, TransmitTypeOK
<1>9. Counts' /\ Progress'
  <2>1. Stuck' = Stuck
    BY <1>1 DEF Stuck
  <2>2. /\ Len(wire) + InFlight + Filled <= written
        /\ ~Stuck => Len(wire) + InFlight + Filled = written
    BY DEF Inv, Counts
  <2>3. Counts'
    BY ONLY <1>1, <1>2, <1>5, <1>7, <2>1, <2>2 DEF Counts
  <2> QED
    BY <1>1, <1>6, <2>1, <2>3 DEF Inv, Progress
<1>10. DmaAhead'
  <2>1. /\ dma.buffer = 1 - bufferToWrite
        /\ \A i \in Cells : dma.next <= i /\ i <= dma.length =>
             buffers[dma.buffer][i] = Len(wire) + 1 + i - dma.next
    BY <1>1 DEF Inv, DmaAhead
  <2>2. ASSUME NEW i \in Cells, dma.next + 1 <= i, i <= dma.length
        PROVE  buffers[dma.buffer][i] = (Len(wire) + 1) + 1 + i - (dma.next + 1)
    <3>1. dma.next <= i /\ i \in Int /\ dma.next \in Int /\ Len(wire) \in Int
      BY <1>2, <2>2 DEF Cells
    <3>2. buffers[dma.buffer][i] = Len(wire) + 1 + i - dma.next
      BY <2>1, <2>2, <3>1
    <3>3. Len(wire) + 1 + i - dma.next = (Len(wire) + 1) + 1 + i - (dma.next + 1)
      BY ONLY <3>1
    <3> QED
      BY <3>2, <3>3
  <2>3. dma.next + 1 <= dma.length + 1
    BY <1>1, <1>2 DEF Cells
  <2> QED
    BY <1>1, <1>5, <1>6, <2>1, <2>2, <2>3 DEF DmaAhead
<1>11. WrittenLast' /\ Knows'
  BY <1>1, <1>7 DEF Inv, WrittenLast, Knows
<1>12. WireInOrder'
  BY <1>1, <1>2, <1>3, <1>4, <1>5 DEF Inv, WireInOrder
<1> QED
  BY <1>8, <1>9, <1>10, <1>11, <1>12 DEF Inv

\* The end of a transfer is reported when all of it was sent.
LEMMA TransmitFinishedInv ==
  ASSUME Inv, TransmitFinished
  PROVE  Inv'
<1>1. /\ dma.busy /\ dma.next > dma.length
      /\ dma' = [dma EXCEPT !.busy = FALSE] /\ inProgress' = FALSE
      /\ UNCHANGED <<buffers, bufferToWrite, chunkCount, refreshNeeded, tpc, written, wire,
                     swo, armed, failed>>
  BY DEF TransmitFinished
<1>2. dma'.busy = FALSE
  BY <1>1 DEF Inv, TypeOK
<1>3. Filled' = Filled /\ InFlight' = 0 /\ InFlight = 0
  <2>1. dma.next \in Nat /\ dma.length \in Nat /\ dma.next <= dma.length + 1
    BY <1>1 DEF Inv, TypeOK, DmaAhead
  <2> QED
    BY <1>1, <1>2, <2>1 DEF Filled, InFlight
<1>4. TypeOK'
  BY <1>1 DEF Inv, TypeOK, TransmitTypeOK
<1>5. Counts' /\ Progress'
  <2>1. Stuck' = Stuck
    BY <1>1 DEF Stuck
  <2>2. Counts'
    BY <1>1, <1>3, <2>1 DEF Inv, Counts
  <2> QED
    BY <1>1, <1>2, <2>1, <2>2 DEF Inv, Progress
<1>6. DmaAhead' /\ WrittenLast' /\ Knows' /\ WireInOrder'
  BY <1>1, <1>2, <1>3 DEF Inv, DmaAhead, WrittenLast, Knows, WireInOrder
<1> QED
  BY <1>4, <1>5, <1>6 DEF Inv

\* The timer only asks for a transmission.
LEMMA TimerExpiresInv ==
  ASSUME Inv, TimerExpires
  PROVE  Inv'
<1>1. /\ armed' = FALSE /\ refreshNeeded' = TRUE
      /\ UNCHANGED <<buffers, bufferToWrite, chunkCount, inProgress, tpc, written, wire,
                     swo, dma, failed>>
  BY DEF TimerExpires
<1>2. Filled' = Filled /\ InFlight' = InFlight
  BY <1>1 DEF Filled, InFlight
<1>3. TypeOK'
  BY <1>1 DEF Inv, TypeOK, TransmitTypeOK
<1>4. Counts' /\ Progress'
  BY <1>1, <1>2 DEF Inv, Counts, Progress, Stuck
<1>5. DmaAhead' /\ WrittenLast' /\ Knows' /\ WireInOrder'
  BY <1>1, <1>2 DEF Inv, DmaAhead, WrittenLast, Knows, WireInOrder
<1> QED
  BY <1>3, <1>4, <1>5 DEF Inv

\* Every step of the thread, the device and the timer keeps the invariant.
LEMMA StepInv == Inv /\ [Next]_vars => Inv'
<1>1. Inv /\ UNCHANGED vars => Inv'
  <2> SUFFICES ASSUME Inv, UNCHANGED vars PROVE Inv'
    OBVIOUS
  <2>1. TypeOK'
    BY DEF vars, Inv, TypeOK, TransmitTypeOK
  <2>2. InFlight' = InFlight /\ Filled' = Filled
    BY DEF vars, InFlight, Filled
  <2>3. Counts' /\ Progress' /\ DmaAhead'
    BY <2>2 DEF vars, Inv, Counts, Progress, Stuck, DmaAhead
  <2>4. WrittenLast' /\ Knows'
    BY <2>2 DEF vars, Inv, WrittenLast, Knows
  <2>5. WireInOrder'
    BY DEF vars, Inv, WireInOrder
  <2> QED
    BY ONLY <2>1, <2>3, <2>4, <2>5 DEF Inv
<1>2. Inv /\ Transmitter => Inv'
  <2> SUFFICES ASSUME Inv, Transmitter PROVE Inv'
    OBVIOUS
  <2>1. CASE (WriteChunk \/ WriteNothing) /\ UNCHANGED <<swo, dma, armed, failed>>
    BY <2>1, WriteChunkInv, ThreadInv
  <2>2. CASE TransmitIfNeeded
    <3>1. UNCHANGED swo
      BY <2>2 DEF TransmitIfNeeded
    <3>2. CASE StartTransmit(TransmitSwo \/ TransmitDma \/ TransmitRefused)
      <4>1. StartTransmit(TransmitSwo) \/ StartTransmit(TransmitDma) \/ StartTransmit(TransmitRefused)
        BY <3>2 DEF StartTransmit
      <4> QED
        BY <3>1, <4>1, StartSwoInv, StartDmaInv, StartRefusedInv
    <3> QED
      BY <2>2, <3>1, <3>2, ThreadInv, ArmTimerInv DEF TransmitIfNeeded
  <2> QED
    BY <2>1, <2>2 DEF Transmitter
<1> QED
  BY <1>1, <1>2, DmaSendInv, TransmitFinishedInv, TimerExpiresInv DEF Next

\* The invariant of the double buffer over the UART or the SWO pin.
THEOREM InvHolds == Spec => []Inv
BY InitInv, StepInv, PTL DEF Spec

\* No index of the double buffer leaves its range.
THEOREM TypeCorrect == Spec => []TypeOK
<1>1. Inv => TypeOK
  BY DEF Inv
<1> QED
  BY <1>1, InvHolds, PTL

\* At the head of the transmitter loop there is space for a chunk (Log.cpp:148).
THEOREM AlwaysSpace == Spec => []SpaceForChunk
<1>1. Inv => SpaceForChunk
  BY DEF Inv, Knows, SpaceForChunk
<1> QED
  BY <1>1, InvHolds, PTL

\* UART and SWO pin send each chunk once, and in the order of writing.
THEOREM SentInOrder == Spec => []WireInOrder
<1>1. Inv => WireInOrder
  BY DEF Inv
<1> QED
  BY <1>1, InvHolds, PTL

\* The thread and the DMA never use one buffer at the same time, and no chunk
\* is outside of the two.
THEOREM BuffersStayApart == Spec => []BuffersApart
<1>1. Inv => BuffersApart
  BY DEF Inv, Counts, Progress, Stuck, DmaAhead, InFlight, BuffersApart
<1> QED
  BY <1>1, InvHolds, PTL

-----------------------------------------------------------------------------
(* How far the transmitter may be ahead, and what wakes it up. *)

\* What is neither on the wire nor in the buffer to write is in one buffer, which
\* the device sends or has refused.
Behind == written - Filled - Len(wire) <= TransmitLength

\* Between two transmissions the timer runs, or the flag that it sets is set.
Awaited == "timer" \notin failed /\ tpc # "arm" => armed \/ refreshNeeded

\* Nothing is written or sent by most steps of the thread.
LEMMA ThreadKeeps ==
  ASSUME Inv,
         WriteNothing \/ NothingToTransmit \/ Partial \/ AwaitDevice \/ ForceRefresh \/ NotNow
           \/ ClearRefresh \/ ArmTimer(XTimerStart \/ XTimerRefused)
  PROVE  Filled' = Filled /\ UNCHANGED <<written, wire>>
BY DEF WriteNothing, NothingToTransmit, Partial, AwaitDevice, ForceRefresh, NotNow,
       ClearRefresh, ArmTimer, Filled

\* A transmission hands over all that is not on the wire, or sends it.
LEMMA Transmission ==
  ASSUME Inv, StartTransmit(TransmitSwo \/ TransmitDma \/ TransmitRefused)
  PROVE  /\ Filled' = 0 /\ written' = written
         /\ written - Len(wire) = Filled
         /\ wire' = wire \/ wire' = wire \o SubSeq(buffers[bufferToWrite], 1, Filled)
<1>1. /\ ~inProgress /\ written' = written
      /\ bufferToWrite' = 1 - bufferToWrite
      /\ chunkCount' = [chunkCount EXCEPT ![1 - bufferToWrite] = 0]
      /\ wire' = wire \/ wire' = wire \o SubSeq(buffers[bufferToWrite], 1, Filled)
  BY DEF StartTransmit, TransmitSwo, TransmitDma, TransmitRefused
<1>2. /\ bufferToWrite \in {0, 1} /\ chunkCount \in [{0, 1} -> 0 .. TransmitLength]
      /\ Len(wire) \in Nat /\ Filled \in Nat /\ written \in Nat
  BY Types DEF Inv, TypeOK, TransmitTypeOK
<1>3. Filled' = 0
  <2>1. 1 - bufferToWrite \in {0, 1}
    BY <1>2
  <2> QED
    BY <1>1, <1>2, <2>1 DEF Filled
<1>4. InFlight = 0 /\ ~Stuck
  BY <1>1 DEF Inv, Progress, InFlight
<1>5. Len(wire) + InFlight + Filled = written
  BY <1>4 DEF Inv, Counts
<1>6. written - Len(wire) = Filled
  BY ONLY <1>2, <1>4, <1>5
<1> QED
  BY <1>1, <1>3, <1>6

\* Every step of the thread, the device and the timer keeps the distance.
LEMMA BehindKept ==
  ASSUME Inv, Inv', Behind, [Next]_vars
  PROVE  Behind'
<1>1. /\ Filled \in 0 .. TransmitLength /\ written \in Nat /\ Len(wire) \in Nat
      /\ Len(wire') \in Nat
  <2>1. Len(wire') \in Nat
    BY DEF Inv, TypeOK, TransmitTypeOK
  <2> QED
    BY <2>1, Types DEF Inv
<1>2. CASE Filled' = Filled /\ UNCHANGED <<written, wire>>
  BY <1>2 DEF Behind
<1>3. CASE WriteChunk
  <2>1. written' = written + 1 /\ wire' = wire /\ Filled' = Filled + 1
    <3>1. /\ chunkCount' = [chunkCount EXCEPT ![bufferToWrite] = Filled + 1]
          /\ bufferToWrite' = bufferToWrite /\ written' = written + 1 /\ wire' = wire
      BY <1>3 DEF WriteChunk, Filled
    <3>2. bufferToWrite \in {0, 1} /\ chunkCount \in [{0, 1} -> 0 .. TransmitLength]
      BY DEF Inv, TypeOK, TransmitTypeOK
    <3> QED
      BY <3>1, <3>2 DEF Filled
  <2>2. (written + 1) - (Filled + 1) - Len(wire) = written - Filled - Len(wire)
    BY ONLY <1>1
  <2> QED
    BY <2>1, <2>2 DEF Behind
<1>4. CASE StartTransmit(TransmitSwo \/ TransmitDma \/ TransmitRefused)
  <2>1. Filled' = 0 /\ written' = written /\ written - Len(wire) = Filled
    BY <1>4, Transmission
  <2>2. Len(wire) <= Len(wire')
    <3>1. CASE wire' = wire
      BY <1>1, <3>1
    <3>2. CASE wire' = wire \o SubSeq(buffers[bufferToWrite], 1, Filled)
      <4>1. /\ wire \in Seq(1 .. MaxChunks) /\ bufferToWrite \in {0, 1}
            /\ buffers \in [{0, 1} -> [Cells -> 0 .. MaxChunks]]
        BY DEF Inv, TypeOK, TransmitTypeOK
      <4>2. \A i \in 1 .. Filled : buffers[bufferToWrite][i] \in 0 .. MaxChunks
        BY <1>1, <4>1 DEF Cells
      <4>3. SubSeq(buffers[bufferToWrite], 1, Filled) \in Seq(0 .. MaxChunks)
        BY ONLY <1>1, <4>2, SubSeqProperties, 1 \in Int, Filled \in Int
      <4> QED
        BY <1>1, <3>2, <4>1, <4>3, ConcatProperties, LenProperties
    <3> QED
      BY <1>4, <3>1, <3>2, Transmission
  <2>3. written - 0 - Len(wire') <= TransmitLength
    BY ONLY <1>1, <2>1, <2>2, TransmitAssumption
  <2> QED
    BY <2>1, <2>3 DEF Behind
<1>5. CASE DmaSend
  <2>1. written' = written /\ Filled' = Filled /\ Len(wire') = Len(wire) + 1
    BY <1>5 DEF DmaSend, Filled, Inv, TypeOK, TransmitTypeOK
  <2>2. written - Filled - Len(wire) <= TransmitLength
    BY DEF Behind
  <2>3. written - Filled - (Len(wire) + 1) <= TransmitLength
    BY ONLY <1>1, <2>2, TransmitAssumption
  <2> QED
    BY <2>1, <2>3 DEF Behind
<1>6. CASE TransmitFinished \/ TimerExpires \/ UNCHANGED vars
  BY <1>2, <1>6 DEF TransmitFinished, TimerExpires, vars, Filled
<1>7. CASE Transmitter
  BY <1>2, <1>3, <1>4, <1>7, ThreadKeeps DEF Transmitter, TransmitIfNeeded
<1> QED
  BY <1>5, <1>6, <1>7 DEF Next

\* The timer is armed after each transmission, and sets the flag when it expires.
LEMMA AwaitedKept ==
  ASSUME Inv, Awaited, [Next]_vars
  PROVE  Awaited'
<1>1. CASE UNCHANGED <<failed, armed, refreshNeeded>> /\ tpc # "arm"
  BY <1>1 DEF Awaited
<1>2. CASE WriteChunk /\ UNCHANGED <<swo, dma, armed, failed>>
  BY <1>1, <1>2 DEF WriteChunk, Step
<1>3. CASE /\ WriteNothing \/ NothingToTransmit \/ Partial \/ AwaitDevice \/ NotNow
           /\ UNCHANGED <<dma, armed, failed>>
  BY <1>1, <1>3 DEF WriteNothing, NothingToTransmit, Partial, AwaitDevice, NotNow, Step
<1>4. CASE ForceRefresh \/ TimerExpires
  <2>1. refreshNeeded' = TRUE
    BY <1>4 DEF ForceRefresh, TimerExpires
  <2> QED
    BY <2>1 DEF Awaited
<1>5. CASE ClearRefresh
  <2>1. tpc' = "arm"
    BY <1>5 DEF ClearRefresh, Step
  <2> QED
    BY <2>1 DEF Awaited
<1>6. CASE StartTransmit(TransmitSwo \/ TransmitDma \/ TransmitRefused)
  <2>1. refreshNeeded /\ refreshNeeded' = refreshNeeded
    BY <1>6 DEF StartTransmit
  <2> QED
    BY <2>1 DEF Awaited
<1>7. CASE ArmTimer(XTimerStart \/ XTimerRefused)
  <2>1. armed' = TRUE \/ "timer" \in failed'
    BY <1>7 DEF ArmTimer, XTimerStart, XTimerRefused
  <2> QED
    BY <2>1 DEF Awaited
<1>8. CASE DmaSend \/ TransmitFinished \/ UNCHANGED vars
  BY <1>8 DEF DmaSend, TransmitFinished, vars, Awaited
<1> QED
  BY <1>2, <1>3, <1>4, <1>5, <1>6, <1>7, <1>8 DEF Next, Transmitter, TransmitIfNeeded

\* Both hold at the start, where the timer runs unless it was refused.
LEMMA InitAhead == Init => Behind /\ Awaited
<1> SUFFICES ASSUME Init PROVE Behind /\ Awaited
  OBVIOUS
<1>1. written = 0 /\ Filled = 0 /\ Len(wire) = 0
  BY DEF Init, TransmitInit, Filled
<1>2. armed \/ "timer" \in failed
  BY DEF Init
<1> QED
  BY ONLY <1>1, <1>2, TransmitAssumption DEF Behind, Awaited

\* The distance between loop and device, and what wakes the loop up, in all states.
THEOREM AheadHolds == Spec => [](Inv /\ Behind /\ Awaited)
<1>1. Inv /\ (Behind /\ Awaited) /\ Inv' /\ [Next]_vars => (Behind /\ Awaited)'
  BY BehindKept, AwaitedKept
<1> QED
  BY <1>1, InitAhead, InvHolds, PTL DEF Spec

\* Device and timer have nothing to do, and the next turn of the loop sends nothing.
AtRest ==
  /\ ~dma.busy /\ ~armed
  /\ tpc = "loop" /\ (Filled = 0 \/ inProgress \/ ~refreshNeeded)

\* When all are at rest and nothing has refused to start, all that was written is
\* on the wire, full buffer or not (Log.h:518); without the timer less than a buffer
\* stays behind.
NothingLeft ==
  AtRest /\ "device" \notin failed =>
    /\ written - Len(wire) < TransmitLength
    /\ failed = {} => Len(wire) = written

\* No chunk is forgotten in a buffer that nobody will look at: the clearing of the
\* refresh flag and the arming of the timer (LogUtil.cpp:116-117) leave no gap in
\* which an alarm is lost, however they meet the timer and the interrupt.
THEOREM NothingForgotten == Spec => []NothingLeft
<1>1. Inv /\ Awaited => NothingLeft
  <2> SUFFICES ASSUME Inv, Awaited, AtRest, ~Stuck
               PROVE  /\ written - Len(wire) < TransmitLength
                      /\ failed = {} => Len(wire) = written
    BY DEF NothingLeft, Stuck
  <2>1. Filled \in Nat /\ written \in Nat /\ Len(wire) \in Nat
    BY Types DEF Inv
  <2>2. ~dma.busy /\ ~armed /\ tpc = "loop" /\ (Filled = 0 \/ inProgress \/ ~refreshNeeded)
    BY DEF AtRest
  <2>3. InFlight = 0 /\ ~inProgress
    BY <2>2 DEF InFlight, Inv, Progress
  <2>4. Len(wire) + InFlight + Filled = written
    BY DEF Inv, Counts
  <2>5. Filled < TransmitLength
    BY <2>2 DEF Inv, Knows
  <2>6. failed = {} => Filled = 0
    BY <2>2, <2>3 DEF Awaited
  <2>7. Len(wire) + Filled = written
    BY ONLY <2>1, <2>3, <2>4
  <2> QED
    BY ONLY <2>1, <2>5, <2>6, <2>7, TransmitAssumption
<1> QED
  BY <1>1, AheadHolds, PTL

\* What the loop writes is a step of the stream, and so is each cell the DMA sends, or
\* all of a buffer that goes to the SWO pin.
LEMMA StreamSteps ==
  ASSUME Inv, Inv', Behind, [Next]_vars
  PROVE  [Stream!Next]_(Stream!vars)
<1>1. /\ Filled \in 0 .. TransmitLength /\ written \in 0 .. MaxChunks /\ Len(wire) \in Nat
      /\ wire \in Seq(1 .. MaxChunks)
  BY Types DEF Inv
<1>2. CASE WriteChunk
  <2>1. Filled < TransmitLength
    BY <1>2 DEF Inv, Knows, WriteChunk, Step
  <2>2. written - Filled - Len(wire) <= TransmitLength
    BY DEF Behind
  <2>3. written - Len(wire) < 2 * TransmitLength
    BY ONLY <1>1, <2>1, <2>2, TransmitAssumption
  <2> QED
    BY <1>2, <2>3 DEF WriteChunk, Stream!Next, Stream!Write
<1>3. ASSUME written' = written, Len(wire') \in Nat, Len(wire) < Len(wire')
      PROVE  Stream!Send
  <2>1. wire' \in Seq(1 .. MaxChunks) /\ Len(wire') <= written'
        /\ \A i \in 1 .. Len(wire') : wire'[i] = i
    BY DEF Inv, TypeOK, TransmitTypeOK, WireInOrder
  <2>2. wire' = [i \in 1 .. Len(wire') |-> i]
    BY <2>1, LenProperties
  <2>3. Len(wire') \in Len(wire) + 1 .. written
    BY ONLY <1>1, <1>3, <2>1
  <2> QED
    BY <1>3, <2>2, <2>3 DEF Stream!Send
<1>4. CASE UNCHANGED <<written, wire>>
  BY <1>4 DEF Stream!vars
<1>5. CASE StartTransmit(TransmitSwo \/ TransmitDma \/ TransmitRefused)
  <2>1. written' = written
    BY <1>5, Transmission
  <2>2. CASE wire' = wire
    BY <1>4, <2>1, <2>2
  <2>3. CASE wire' = wire \o SubSeq(buffers[bufferToWrite], 1, Filled)
    <3>1. SubSeq(buffers[bufferToWrite], 1, Filled) \in Seq(0 .. MaxChunks)
          /\ Len(SubSeq(buffers[bufferToWrite], 1, Filled)) \in Nat
      <4>1. bufferToWrite \in {0, 1} /\ buffers \in [{0, 1} -> [Cells -> 0 .. MaxChunks]]
        BY DEF Inv, TypeOK, TransmitTypeOK
      <4>2. \A i \in 1 .. Filled : buffers[bufferToWrite][i] \in 0 .. MaxChunks
        BY <1>1, <4>1 DEF Cells
      <4>3. SubSeq(buffers[bufferToWrite], 1, Filled) \in Seq(0 .. MaxChunks)
        BY ONLY <1>1, <4>2, SubSeqProperties, 1 \in Int, Filled \in Int
      <4> QED
        BY <4>3, LenProperties
    <3>2. wire \in Seq(0 .. MaxChunks)
      BY <1>1
    <3> DEFINE s == SubSeq(buffers[bufferToWrite], 1, Filled)
    <3> HIDE DEF s
    <3>3. Len(wire') = Len(wire) + Len(s)
      BY <2>3, <3>1, <3>2, ConcatProperties DEF s
    <3>4. CASE Len(s) = 0
      <4>1. s = <<>>
        BY <3>1, <3>4, EmptySeq DEF s
      <4>2. wire' = wire
        BY <1>1, <2>3, <4>1, ConcatEmptySeq DEF s
      <4> QED
        BY <1>4, <2>1, <4>2
    <3>5. CASE Len(s) # 0
      <4>1. Len(s) \in Nat
        BY <3>1 DEF s
      <4>2. Len(wire') \in Nat /\ Len(wire) < Len(wire')
        BY ONLY <1>1, <3>3, <3>5, <4>1
      <4> QED
        BY <1>3, <2>1, <4>2 DEF Stream!Next
    <3> QED
      BY <3>4, <3>5
  <2> QED
    BY <1>5, <2>2, <2>3, Transmission
<1>6. CASE DmaSend
  <2>1. written' = written /\ Len(wire') = Len(wire) + 1
    BY <1>1, <1>6 DEF DmaSend
  <2>2. Len(wire') \in Nat /\ Len(wire) < Len(wire')
    BY ONLY <1>1, <2>1
  <2> QED
    BY <1>3, <2>1, <2>2 DEF Stream!Next
<1>7. CASE TransmitFinished \/ TimerExpires \/ UNCHANGED vars
  BY <1>4, <1>7 DEF TransmitFinished, TimerExpires, vars
<1>8. CASE Transmitter
  BY <1>2, <1>4, <1>5, <1>8, ThreadKeeps DEF Transmitter, TransmitIfNeeded
<1> QED
  BY <1>6, <1>7, <1>8 DEF Next

\* Double buffer and device are a stream with room for two buffers, whatever
\* refuses to start.
THEOREM ImplementsStream == Spec => Implements
<1>1. Init => Stream!Init
  BY DEF Init, TransmitInit, Stream!Init
<1>2. Inv /\ Behind /\ Inv' /\ [Next]_vars => [Stream!Next]_(Stream!vars)
  BY StreamSteps
<1> QED
  BY <1>1, <1>2, AheadHolds, PTL DEF Spec, Implements, Stream!Spec

-----------------------------------------------------------------------------
\* The same double buffer over LogStdThreadOstream: no device reads later, and a timer
\* thread may raise the flag between any two steps.

\* What the transmitter thread knows at each place over the stream: a full buffer never goes
\* back to the head of the loop, and the one switched to is empty.
StdKnows ==
  /\ tpc = "loop" => Filled < TransmitLength
  /\ tpc = "force" => Filled = TransmitLength
  /\ tpc = "decide" /\ Filled = TransmitLength => refreshNeeded
  /\ tpc \in {"clear", "arm"} => Filled = 0

StdInv ==
  /\ StdTypeOK
  /\ ~inProgress
  /\ Len(wire) + Filled = written
  /\ WrittenLast
  /\ StdKnows
  /\ WireInOrder

\* The types of the parts.
LEMMA StdTypes ==
  ASSUME StdTypeOK
  PROVE  /\ bufferToWrite \in {0, 1} /\ Filled \in 0 .. TransmitLength
         /\ written \in 0 .. MaxChunks
         /\ wire \in Seq(1 .. MaxChunks) /\ Len(wire) \in Nat
<1>1. bufferToWrite \in {0, 1} /\ chunkCount \in [{0, 1} -> 0 .. TransmitLength]
  BY DEF StdTypeOK, TransmitTypeOK
<1>2. Filled \in 0 .. TransmitLength
  BY <1>1 DEF Filled
<1>3. wire \in Seq(1 .. MaxChunks) /\ written \in 0 .. MaxChunks
  BY DEF StdTypeOK, TransmitTypeOK
<1> QED
  BY <1>1, <1>2, <1>3

\* Both buffers are empty and nothing was sent.
LEMMA StdInitInv == StdInit => StdInv
<1> SUFFICES ASSUME StdInit PROVE StdInv
  OBVIOUS
<1> USE DEF StdInit, TransmitInit
<1>1. wire = <<>> /\ Len(wire) = 0 /\ wire \in Seq(1 .. MaxChunks)
  OBVIOUS
<1>2. StdTypeOK
  <2>1. buffers \in [{0, 1} -> [Cells -> 0 .. MaxChunks]]
    OBVIOUS
  <2>2. chunkCount \in [{0, 1} -> 0 .. TransmitLength]
    OBVIOUS
  <2>3. /\ bufferToWrite \in {0, 1} /\ written \in 0 .. MaxChunks
        /\ inProgress \in BOOLEAN /\ refreshNeeded \in BOOLEAN
    <3>1. bufferToWrite \in {0, 1}
      OBVIOUS
    <3>2. written = 0
      OBVIOUS
    <3>3. written \in 0 .. MaxChunks
      BY ONLY <3>2, TransmitAssumption
    <3>4. inProgress \in BOOLEAN
      OBVIOUS
    <3>5. refreshNeeded \in BOOLEAN
      OBVIOUS
    <3> QED
      BY ONLY <3>1, <3>3, <3>4, <3>5
  <2>4. tpc \in {"loop", "check", "force", "decide", "clear", "arm"}
    OBVIOUS
  <2>5. alarmed \in BOOLEAN /\ timer \in {"wait", "alarm", "disarm", "ended"}
    OBVIOUS
  <2>6. TransmitTypeOK
    BY ONLY <1>1, <2>1, <2>2, <2>3, <2>4 DEF TransmitTypeOK
  <2> QED
    BY ONLY <2>5, <2>6 DEF StdTypeOK
<1>3. Filled = 0
  BY DEF Filled
<1>4. WireInOrder
  <2>1. written = 0
    OBVIOUS
  <2> QED
    BY ONLY <1>1, <2>1 DEF WireInOrder
<1>5. WrittenLast /\ StdKnows
  BY <1>3 DEF WrittenLast, StdKnows, Cells
<1> QED
  BY <1>1, <1>2, <1>3, <1>4, <1>5 DEF StdInv

\* A chunk goes behind the ones in the buffer.
LEMMA StdWriteChunkInv ==
  ASSUME StdInv, WriteChunk, UNCHANGED <<alarmed, timer>>
  PROVE  StdInv'
<1> DEFINE w == bufferToWrite
           n == Filled
<1>1. /\ tpc = "loop" /\ tpc' = "check" /\ written < MaxChunks /\ written' = written + 1
      /\ buffers' = [buffers EXCEPT ![w][n + 1] = written + 1]
      /\ chunkCount' = [chunkCount EXCEPT ![w] = n + 1]
      /\ UNCHANGED <<bufferToWrite, inProgress, refreshNeeded, wire, alarmed, timer>>
  BY DEF WriteChunk, Step, Filled
<1>2. /\ w \in {0, 1} /\ n \in 0 .. TransmitLength - 1 /\ n + 1 \in Cells
      /\ written \in 0 .. MaxChunks /\ Len(wire) \in Nat
  <2>1. n < TransmitLength
    BY <1>1 DEF StdInv, StdKnows
  <2> QED
    BY <2>1, StdTypes DEF StdInv, Cells
<1>3. /\ Filled' = n + 1
      /\ \A i \in Cells : buffers'[w][i] = IF i = n + 1 THEN written + 1 ELSE buffers[w][i]
      /\ buffers' \in [{0, 1} -> [Cells -> 0 .. MaxChunks]]
  <2>1. Filled' = n + 1
    BY <1>1, <1>2 DEF StdInv, StdTypeOK, TransmitTypeOK, Filled
  <2>2. buffers \in [{0, 1} -> [Cells -> 0 .. MaxChunks]] /\ written + 1 \in 0 .. MaxChunks
    BY <1>1, <1>2 DEF StdInv, StdTypeOK, TransmitTypeOK
  <2> HIDE DEF n
  <2>3. \A i \in Cells : buffers'[w][i] = IF i = n + 1 THEN written + 1 ELSE buffers[w][i]
    BY <1>1, <1>2, <2>2
  <2>4. buffers' \in [{0, 1} -> [Cells -> 0 .. MaxChunks]]
    BY <1>1, <1>2, <2>2
  <2> QED
    BY <2>1, <2>3, <2>4
<1>4. StdTypeOK'
  <2>1. chunkCount' \in [{0, 1} -> 0 .. TransmitLength] /\ written' \in 0 .. MaxChunks
    BY <1>1, <1>2 DEF StdInv, StdTypeOK, TransmitTypeOK
  <2> QED
    BY <1>1, <1>3, <2>1 DEF StdInv, StdTypeOK, TransmitTypeOK
<1>5. ~inProgress' /\ Len(wire)' + Filled' = written'
  <2>1. ~inProgress' /\ Len(wire) + n = written
    BY <1>1 DEF StdInv
  <2> QED
    BY <1>1, <1>2, <1>3, <2>1
<1>6. WrittenLast'
  <2>1. \A i \in Cells : i <= n => buffers[w][i] = written - n + i
    BY DEF StdInv, WrittenLast
  <2>2. bufferToWrite' = w /\ written' - (n + 1) = written - n
    BY <1>1, <1>2
  <2> HIDE DEF n, w
  <2>3. ASSUME NEW i \in Cells, i <= n + 1
        PROVE  buffers'[w][i] = written - n + i
    <3>1. i \in Int /\ n \in Int /\ written \in Int
      BY <1>2 DEF Cells
    <3>2. CASE i = n + 1
      BY ONLY <1>3, <3>1, <3>2, i \in Cells
    <3>3. CASE i # n + 1
      BY ONLY <1>3, <2>1, <2>3, <3>1, <3>3
    <3> QED
      BY <3>2, <3>3
  <2> QED
    BY <1>3, <2>2, <2>3 DEF WrittenLast
<1>7. StdKnows'
  BY <1>1 DEF StdKnows
<1>8. WireInOrder'
  BY <1>1, <1>2 DEF StdInv, WireInOrder
<1> QED
  BY <1>4, <1>5, <1>6, <1>7, <1>8 DEF StdInv

\* The other steps of the thread that leave the buffers alone.
LEMMA StdThreadInv ==
  ASSUME StdInv, UNCHANGED <<alarmed, timer>>,
         WriteNothing \/ NothingToTransmit \/ Partial \/ AwaitDevice \/ ForceRefresh \/ NotNow
           \/ ClearRefresh
  PROVE  StdInv'
<1>1. UNCHANGED <<buffers, bufferToWrite, chunkCount, inProgress, written, wire, alarmed, timer>>
  BY DEF WriteNothing, NothingToTransmit, Partial, AwaitDevice, ForceRefresh, NotNow, ClearRefresh
<1>2. Filled' = Filled
  BY <1>1 DEF Filled
<1>3. /\ tpc' \in {"loop", "check", "force", "decide", "clear", "arm"}
      /\ refreshNeeded' \in BOOLEAN
  BY DEF WriteNothing, NothingToTransmit, Partial, AwaitDevice, ForceRefresh, NotNow,
         ClearRefresh, Step, StdInv, StdTypeOK, TransmitTypeOK
<1>4. StdTypeOK'
  BY <1>1, <1>3 DEF StdInv, StdTypeOK, TransmitTypeOK
<1>5. WrittenLast' /\ WireInOrder'
  BY <1>1, <1>2 DEF StdInv, WrittenLast, WireInOrder
<1>6. StdKnows'
  <2>1. Filled \in 0 .. TransmitLength
    BY DEF StdInv, StdTypeOK, TransmitTypeOK, Filled
  <2> QED
    BY <1>1, <1>2, <2>1 DEF StdInv, StdKnows, WriteNothing, NothingToTransmit, Partial, AwaitDevice,
       ForceRefresh, NotNow, ClearRefresh, Step
<1> QED
  BY <1>1, <1>2, <1>4, <1>5, <1>6 DEF StdInv

\* The filled part of the buffer continues what the stream has, and the other
\* buffer is written next, from its start.
LEMMA StartTransmitInv ==
  ASSUME StdInv, StartTransmit(TransmitStream)
  PROVE  StdInv'
<1> DEFINE w == bufferToWrite
           n == Filled
           cells == buffers[w]
           sent == SubSeq(cells, 1, n)
<1>1. /\ tpc' = "clear"
      /\ wire' = wire \o sent
      /\ inProgress' = FALSE
      /\ bufferToWrite' = 1 - w
      /\ chunkCount' = [chunkCount EXCEPT ![1 - w] = 0]
      /\ UNCHANGED <<buffers, refreshNeeded, written, alarmed, timer>>
  BY DEF StartTransmit, TransmitStream, Step
<1>2. /\ w \in {0, 1} /\ n \in 0 .. TransmitLength /\ written \in 0 .. MaxChunks
      /\ wire \in Seq(1 .. MaxChunks) /\ Len(wire) \in Nat
      /\ Len(wire) + n = written
  BY StdTypes DEF StdInv
<1>3. Filled' = 0
  BY <1>1, <1>2 DEF StdInv, StdTypeOK, TransmitTypeOK, Filled
<1>4. \A i \in 1 .. n : cells[i] = Len(wire) + i /\ cells[i] \in 1 .. MaxChunks
  <2>1. \A i \in Cells : i <= n => cells[i] = written - n + i
    BY DEF StdInv, WrittenLast
  <2> HIDE DEF cells, n
  <2>2. ASSUME NEW i \in 1 .. n
        PROVE  cells[i] = Len(wire) + i /\ cells[i] \in 1 .. MaxChunks
    <3>1. i \in Cells /\ i <= n
      BY <1>2 DEF Cells
    <3>2. written - n + i = Len(wire) + i /\ Len(wire) + i \in 1 .. MaxChunks
      BY ONLY <1>2, TransmitAssumption, i \in 1 .. n
    <3> QED
      BY ONLY <2>1, <3>1, <3>2
  <2> QED
    BY ONLY <2>2
<1>5. /\ sent \in Seq(1 .. MaxChunks) /\ Len(sent) = n
      /\ \A i \in 1 .. n : sent[i] = Len(wire) + i
  <2> HIDE DEF cells, n
  <2>1. n \in Int /\ 1 \in Int /\ n - 1 + 1 = n
    BY <1>2
  <2>2. /\ sent \in Seq(1 .. MaxChunks)
        /\ Len(sent) = IF 1 <= n THEN n - 1 + 1 ELSE 0
        /\ \A i \in 1 .. n - 1 + 1 : sent[i] = cells[1 + i - 1]
    <3>1. \A i \in 1 .. n : cells[i] \in 1 .. MaxChunks
      BY <1>4
    <3> QED
      BY ONLY <2>1, <3>1, SubSeqProperties
  <2>3. \A i \in 1 .. n : 1 + i - 1 = i
    BY <1>2
  <2> HIDE DEF sent
  <2> QED
    BY <1>2, <1>4, <2>1, <2>2, <2>3
<1>6. /\ wire' \in Seq(1 .. MaxChunks) /\ Len(wire') = written
      /\ \A i \in 1 .. written : wire'[i] = i
  <2> HIDE DEF sent, n
  <2>1. /\ wire' \in Seq(1 .. MaxChunks) /\ Len(wire') = Len(wire) + n
        /\ \A i \in 1 .. Len(wire) + n :
             wire'[i] = IF i <= Len(wire) THEN wire[i] ELSE sent[i - Len(wire)]
    BY <1>1, <1>2, <1>5, ConcatProperties
  <2>2. \A i \in 1 .. Len(wire) : wire[i] = i
    BY DEF StdInv, WireInOrder
  <2>3. ASSUME NEW i \in 1 .. Len(wire) + n
        PROVE  wire'[i] = i
    <3>1. CASE i <= Len(wire)
      BY ONLY <1>2, <2>1, <2>2, <3>1, i \in 1 .. Len(wire) + n
    <3>2. CASE ~(i <= Len(wire))
      <4>1. i - Len(wire) \in 1 .. n /\ Len(wire) + (i - Len(wire)) = i
        BY ONLY <1>2, <3>2, i \in 1 .. Len(wire) + n
      <4> QED
        BY ONLY <1>5, <2>1, <3>2, <4>1, i \in 1 .. Len(wire) + n
    <3> QED
      BY <3>1, <3>2
  <2> QED
    BY ONLY <1>2, <2>1, <2>3
<1>7. StdTypeOK'
  <2>1. chunkCount' \in [{0, 1} -> 0 .. TransmitLength] /\ bufferToWrite' \in {0, 1}
    BY <1>1, <1>2 DEF StdInv, StdTypeOK, TransmitTypeOK
  <2> HIDE DEF sent, n, w
  <2> QED
    BY <1>1, <1>6, <2>1 DEF StdInv, StdTypeOK, TransmitTypeOK
<1>8. Len(wire)' + Filled' = written'
  BY <1>1, <1>2, <1>3, <1>6
<1>9. WrittenLast' /\ StdKnows'
  BY <1>1, <1>3 DEF WrittenLast, StdKnows, Cells
<1>10. WireInOrder'
  BY <1>1, <1>2, <1>6 DEF WireInOrder
<1> QED
  BY <1>1, <1>7, <1>8, <1>9, <1>10 DEF StdInv

\* Arming the timer and the steps of its thread touch no buffer; the thread
\* only raises the flag, which never sends a buffer that it should not.
LEMMA TimerInv ==
  ASSUME StdInv, ArmTimer(TimerStart) \/ Timer
  PROVE  StdInv'
<1>1. /\ UNCHANGED <<buffers, bufferToWrite, chunkCount, inProgress, written, wire>>
      /\ refreshNeeded' \in BOOLEAN /\ (refreshNeeded => refreshNeeded')
      /\ \/ tpc' = tpc
         \/ tpc = "arm" /\ tpc' = "loop"
      /\ alarmed' \in BOOLEAN /\ timer' \in {"wait", "alarm", "disarm", "ended"}
  BY DEF ArmTimer, TimerStart, Timer, TimerTimeout, TimerAlarm, TimerDisarm, Step, StdInv, StdTypeOK,
         TransmitTypeOK
<1>2. Filled' = Filled
  BY <1>1 DEF Filled
<1>3. StdTypeOK'
  BY <1>1 DEF StdInv, StdTypeOK, TransmitTypeOK
<1>4. WrittenLast' /\ WireInOrder'
  BY <1>1, <1>2 DEF StdInv, WrittenLast, WireInOrder
<1>5. StdKnows'
  <2>1. 0 < TransmitLength
    OBVIOUS
  <2> QED
    BY <1>1, <1>2, <2>1 DEF StdInv, StdKnows
<1> QED
  BY <1>1, <1>2, <1>3, <1>4, <1>5 DEF StdInv

\* Every step of the two threads keeps the invariant.
LEMMA StdStepInv == StdInv /\ [StdNext]_stdVars => StdInv'
<1>1. StdInv /\ UNCHANGED stdVars => StdInv'
  <2> SUFFICES ASSUME StdInv, UNCHANGED stdVars PROVE StdInv'
    OBVIOUS
  <2>1. StdTypeOK'
    BY DEF stdVars, StdInv, StdTypeOK, TransmitTypeOK
  <2>2. Filled' = Filled
    BY DEF stdVars, Filled
  <2>3. (~inProgress)' /\ (Len(wire) + Filled = written)' /\ WrittenLast'
    BY <2>2 DEF stdVars, StdInv, WrittenLast
  <2>4. StdKnows' /\ WireInOrder'
    BY <2>2 DEF stdVars, StdInv, StdKnows, WireInOrder
  <2> QED
    BY ONLY <2>1, <2>3, <2>4 DEF StdInv
<1>2. StdInv /\ StdTransmitter => StdInv'
  BY StdWriteChunkInv, StdThreadInv, StartTransmitInv, TimerInv DEF StdTransmitter, TransmitterSteps
<1> QED
  BY <1>1, <1>2, TimerInv DEF StdNext

\* The invariant of the double buffer over the stream.
THEOREM StdInvHolds == StdSpec => []StdInv
BY StdInitInv, StdStepInv, PTL DEF StdSpec

\* No index of the double buffer leaves its range over a stream either.
THEOREM StdTypeCorrect == StdSpec => []StdTypeOK
<1>1. StdInv => StdTypeOK
  BY DEF StdInv
<1> QED
  BY <1>1, StdInvHolds, PTL

\* The stream is given each chunk once and in the order of writing; what it
\* lacks is in the one buffer, which has space at the head of the loop.
THEOREM StreamSentInOrder == StdSpec => []StreamInOrder
<1>1. StdInv => StreamInOrder
  BY DEF StdInv, StdKnows, SpaceForChunk, StreamInOrder
<1> QED
  BY <1>1, StdInvHolds, PTL

-----------------------------------------------------------------------------
\* Over the stream the loop is never more than one buffer ahead of the device, where the
\* DMA port has two.
OneBuffer == INSTANCE ChunkStream WITH Room <- TransmitLength

\* A transmission hands all of the one buffer to the stream, which then has everything.
LEMMA StdStreamSteps ==
  ASSUME StdInv, StdInv', [StdNext]_stdVars
  PROVE  [OneBuffer!Next]_(OneBuffer!vars)
<1>1. /\ Filled \in 0 .. TransmitLength /\ written \in 0 .. MaxChunks /\ Len(wire) \in Nat
      /\ Len(wire) + Filled = written
  BY StdTypes DEF StdInv
<1>2. CASE WriteChunk
  <2>1. Filled < TransmitLength
    BY <1>2 DEF StdInv, StdKnows, WriteChunk, Step
  <2>2. written - Len(wire) < TransmitLength
    BY ONLY <1>1, <2>1, TransmitAssumption
  <2> QED
    BY <1>2, <2>2 DEF WriteChunk, OneBuffer!Next, OneBuffer!Write
<1>3. CASE UNCHANGED <<written, wire>>
  BY <1>3 DEF OneBuffer!vars
<1>4. CASE StartTransmit(TransmitStream)
  <2>1. /\ written' = written /\ Len(wire') \in Nat /\ Filled' \in Nat
        /\ Len(wire') + Filled' = written' /\ Filled' = 0
    <3>1. tpc' = "clear" /\ written' = written
      BY <1>4 DEF StartTransmit, Step
    <3>2. Filled' = 0
      BY <3>1 DEF StdInv, StdKnows
    <3> QED
      BY <3>1, <3>2 DEF StdInv, StdTypeOK, TransmitTypeOK
  <2>2. Len(wire') = written
    BY ONLY <2>1
  <2>3. wire' = [i \in 1 .. Len(wire') |-> i]
    <3>1. wire' \in Seq(1 .. MaxChunks) /\ \A i \in 1 .. Len(wire') : wire'[i] = i
      BY DEF StdInv, StdTypeOK, TransmitTypeOK, WireInOrder
    <3> QED
      BY <3>1, LenProperties
  <2>4. CASE Filled = 0
    <3>1. wire' = wire
      <4>1. wire \in Seq(1 .. MaxChunks) /\ \A i \in 1 .. Len(wire) : wire[i] = i
        BY DEF StdInv, StdTypeOK, TransmitTypeOK, WireInOrder
      <4>2. wire = [i \in 1 .. Len(wire) |-> i]
        BY <4>1, LenProperties
      <4>3. Len(wire) = Len(wire')
        BY ONLY <1>1, <2>2, <2>4
      <4> QED
        BY <2>3, <4>2, <4>3
    <3> QED
      BY <1>3, <2>1, <3>1
  <2>5. CASE Filled # 0
    <3>1. Len(wire') \in Len(wire) + 1 .. written
      BY ONLY <1>1, <2>2, <2>5
    <3> QED
      BY <2>1, <2>3, <3>1 DEF OneBuffer!Next, OneBuffer!Send
  <2> QED
    BY <2>4, <2>5
<1>5. CASE ArmTimer(TimerStart) \/ Timer \/ UNCHANGED stdVars
  BY <1>3, <1>5 DEF ArmTimer, Timer, TimerTimeout, TimerAlarm, TimerDisarm, stdVars
<1>6. CASE TransmitterSteps
  BY <1>2, <1>3, <1>6
     DEF TransmitterSteps, WriteNothing, NothingToTransmit, Partial, AwaitDevice, ForceRefresh,
         NotNow, ClearRefresh
<1> QED
  BY <1>4, <1>5, <1>6 DEF StdNext, StdTransmitter

\* The double buffer over the stream is a stream with room for one buffer.
THEOREM StdImplementsStream == StdSpec => OneBuffer!Spec
<1>1. StdInit => OneBuffer!Init
  BY DEF StdInit, TransmitInit, OneBuffer!Init
<1> QED
  BY <1>1, StdStreamSteps, StdInvHolds, PTL DEF StdSpec, OneBuffer!Spec

=============================================================================
