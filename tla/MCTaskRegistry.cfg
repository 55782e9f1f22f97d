\* The std::thread port, with names: four threads and three ids, six calls.
CONSTANTS
  Threads = {t1, t2, t3, t4}
  Nobody = nobody
  IsrTaskId = 4
  LockExcludes = TRUE
  NamesGiveHandles = TRUE
  CallsNamed = {TRUE}
  AllowRegistrationLog = TRUE
  MaxCalls = 6
SPECIFICATION Spec
INVARIANTS
  TypeOK
  OwnIds
  RegisteredUnlessFull
  AnnouncedAsOwn
PROPERTIES
  IdsKept
CHECK_DEADLOCK FALSE
