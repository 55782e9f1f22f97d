\* Three tasks, a ring of three chunks, five chunks received.
CONSTANTS
  Tasks = {t1, t2, t3}
  InvalidTaskId = none
  MaxArrivals = 5
  BufferLength = 3
SPECIFICATION FairSpec
INVARIANTS
  TypeOK
  RingOrder
  SearchSound
  CompactionSound
  ExactlyOnce
  TaskOrder
  WholeMessages
  FirstChunkOrder
PROPERTIES
  CutOnlyWhenFull
  Implements
  EverythingPrinted
