\* The std::thread port, with the call the README tells to make: no name.
CONSTANTS
  Threads = {t1, t2}
  Nobody = nobody
  IsrTaskId = 4
  LockExcludes = TRUE
  NamesGiveHandles = TRUE
  CallsNamed = {FALSE}
  AllowRegistrationLog = TRUE
  MaxCalls = 2
SPECIFICATION Spec
INVARIANTS
  OwnIds
CHECK_DEADLOCK FALSE
