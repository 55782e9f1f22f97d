\* Chunks for two characters, arguments of two, headers and topics of one.
CONSTANTS
  task = task
  isr = isr
  stray = stray
  Threads = {task, isr, stray}
  Interrupts = {isr}
  Unregistered = {stray}
  IsrTaskId = 255
  InvalidTaskId = 0
  EndOfMessage = EndOfMessage
  Unset = Unset
  LogFromIsr = TRUE
  AllowSend = TRUE
  AllowChains = TRUE
  ChunkSize = 3
  HeaderChars = 1
  TopicChars = 1
  ArgChars = {2}
  LineFeeds = {}
  MaxCalls <- CallsOfThreads
SPECIFICATION Spec
INVARIANTS
  TypeOK
  MessagesWhole
  NoMoreChunks
CHECK_DEADLOCK FALSE
