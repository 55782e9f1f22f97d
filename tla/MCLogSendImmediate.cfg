\* One task, as in MCLogSend, and no line feeds in messages (Log.h:720).
CONSTANTS
  task = task
  isr = isr
  stray = stray
  Threads = {task}
  Interrupts = {}
  Unregistered = {}
  IsrTaskId = 255
  InvalidTaskId = 0
  EndOfMessage = EndOfMessage
  Unset = Unset
  LogFromIsr = FALSE
  AllowSend = TRUE
  AllowChains = TRUE
  ChunkSize = 3
  HeaderChars = 1
  TopicChars = 1
  ArgChars = {2}
  LineFeeds = {}
  MaxCalls <- CallsOfThreads
SPECIFICATION Spec
INVARIANTS
  ImmediateMessages
CHECK_DEADLOCK FALSE
