\* Buffers of three chunks, eight chunks written: each buffer is used twice.
CONSTANTS
  TransmitLength = 3
  MaxChunks = 8
SPECIFICATION StdFairSpec
PROPERTIES
  RefreshedInTime
