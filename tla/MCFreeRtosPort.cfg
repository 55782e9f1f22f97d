\* Buffers of three chunks, eight chunks written: each buffer is used twice.
\* A device that refused to start stops the transmitter at the next full buffer.
CONSTANTS
  TransmitLength = 3
  MaxChunks = 8
SPECIFICATION FairSpec
CHECK_DEADLOCK FALSE
INVARIANTS
  TypeOK
  SpaceForChunk
  BuffersApart
PROPERTIES
  Implements
  SentUnlessFailed
