\* The FreeRTOS ports: handles of their own, and a lock that does not wait.
CONSTANTS
  Threads = {t1, t2}
  Nobody = nobody
  IsrTaskId = 4
  LockExcludes = FALSE
  NamesGiveHandles = FALSE
  CallsNamed = {FALSE, TRUE}
  AllowRegistrationLog = TRUE
  MaxCalls = 2
SPECIFICATION Spec
INVARIANTS
  OwnIds
CHECK_DEADLOCK FALSE
