CONSTANTS
  task = task
  isr = isr
  Tasks = {task, isr}
  Interrupts = {isr}
  InvalidTaskId = none
  Blocks = TRUE
  QueueLength = 1
  Capacity = 2
  TransmitLength = 2
  MaxSends <- ChunksOfSenders
  MaxChunks = 5
SPECIFICATION Spec
CHECK_DEADLOCK FALSE
INVARIANTS
  EachOnceInOrder
  MessagesContiguous
PROPERTIES
  SendersReturn
  Delivered
