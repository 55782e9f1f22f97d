------------------------- MODULE TaskRegistryProofs -------------------------
(***************************************************************************)
(* With a lock that excludes, and handles that tell the tasks apart, the   *)
(* registration does what it is for, whatever the number of tasks, ids and *)
(* calls.                                                                  *)
(***************************************************************************)
EXTENDS TaskRegistry, TLAPS

USE RegistryAssumption

Inside(t) == pc[t] \notin {"idle", "lock"}

\* At most one task is between lock and unlock.
Exclusion == \A t \in Threads : Inside(t) => holder = t

\* Numbers are given to one task each, and only such handles are in the map.
HandlesMade ==
  NamesGiveHandles =>
    /\ \A t \in Threads : givenIds[t] < nextGivenId
    /\ \A t, u \in Threads :
         givenIds[t] = givenIds[u] => t = u \/ givenIds[t] = InvalidGivenTaskId
    /\ \A h \in DOMAIN taskIds : h \in 1 .. nextGivenId - 1
    /\ \A t \in Threads :
         /\ pc[t] # "idle" => named[t]
         /\ pc[t] \in {"find", "insert", "announce", "increment"} =>
              givenIds[t] # InvalidGivenTaskId

\* The next id is not in use yet, but for the task that is registering.
IdsMade ==
  /\ \A h, k \in DOMAIN taskIds : taskIds[h] = taskIds[k] => h = k
  /\ \A h \in DOMAIN taskIds :
       \/ taskIds[h] < nextTaskId
       \/ \E t \in Threads : pc[t] \in {"announce", "increment"} /\ Handle(t) = h
  /\ \A t \in Threads :
       /\ pc[t] \in {"name", "find", "insert", "announce", "increment"} =>
            nextTaskId < IsrTaskId
       /\ pc[t] = "insert" => ~Found(t)
       /\ pc[t] \in {"announce", "increment"} => Found(t) /\ TaskId(t) = nextTaskId

Inv ==
  /\ TypeOK
  /\ Exclusion
  /\ HandlesMade
  /\ IdsMade
  /\ RegisteredUnlessFull
  /\ AnnouncedAsOwn

\* The ports for which registration works: the lock excludes, and where names
\* make the handles, every call gives one.
Exclusive == LockExcludes /\ (NamesGiveHandles => CallsNamed \subseteq {TRUE})

\* One step of a registration.
IdsKeptStep == \A t \in Threads : TaskId(t) # InvalidTaskId => TaskId(t)' = TaskId(t)

\* Nothing is registered in the beginning.
LEMMA InitInv == Init => Inv
BY DEF Init, Inv, TypeOK, Exclusion, Inside, HandlesMade, IdsMade, RegisteredUnlessFull,
       AnnouncedAsOwn, InvalidTaskId, InvalidGivenTaskId

\* Ids in the map are valid.
LEMMA ValidIfFound ==
  ASSUME Inv, NEW t \in Threads
  PROVE  Found(t) <=> TaskId(t) # InvalidTaskId
BY DEF Inv, TypeOK, Found, TaskId, InvalidTaskId, Ids

\* Two tasks with one handle that is in the map are one task.
LEMMA HandlesDiffer ==
  ASSUME Inv, NEW t \in Threads, NEW u \in Threads, Found(t), Handle(t) = Handle(u)
  PROVE  t = u
BY DEF Inv, HandlesMade, Found, Handle, InvalidGivenTaskId

\* The invariant says that ids are told apart.
LEMMA InvOwnIds == Inv => OwnIds
<1> SUFFICES ASSUME Inv, NEW t \in Threads, NEW u \in Threads,
                    TaskId(t) = TaskId(u), TaskId(t) # InvalidTaskId
             PROVE  t = u
  BY DEF OwnIds
<1>1. Found(t) /\ Found(u)
  BY ValidIfFound
<1>2. Handle(t) = Handle(u)
  BY <1>1 DEF Inv, IdsMade, Found, TaskId
<1> QED
  BY <1>1, <1>2, HandlesDiffer

\* Steps that touch neither the map nor the handles keep every id.
LEMMA SameIds ==
  ASSUME UNCHANGED <<taskIds, givenIds>>
  PROVE  \A t \in Threads : /\ Handle(t)' = Handle(t)
                            /\ Found(t)' = Found(t)
                            /\ TaskId(t)' = TaskId(t)
BY DEF Handle, Found, TaskId

\* Only the task that holds the lock is inside.
LEMMA Alone ==
  ASSUME Inv, NEW t \in Threads, Inside(t)
  PROVE  holder = t /\ \A u \in Threads : Inside(u) => u = t
BY DEF Inv, Exclusion

\* A call only remembers its argument.
LEMMA CallInv ==
  ASSUME Exclusive, Inv, NEW t \in Threads, Call(t)
  PROVE  Inv'
<1>1. /\ pc[t] = "idle" /\ pc' = [pc EXCEPT ![t] = "lock"]
      /\ calls < MaxCalls /\ calls' = calls + 1
      /\ UNCHANGED <<nextTaskId, taskIds, givenIds, nextGivenId, holder, announced>>
  BY DEF Call, Step
<1>2. PICK n \in CallsNamed : named' = [named EXCEPT ![t] = n]
  BY DEF Call
<1>3. n \in BOOLEAN /\ (NamesGiveHandles => n = TRUE)
  BY DEF Exclusive
<1>4. TypeOK'
  BY <1>1, <1>2, <1>3 DEF Inv, TypeOK
<1>5. Exclusion'
  BY <1>1 DEF Inv, TypeOK, Exclusion, Inside
<1>6. HandlesMade'
  BY <1>1, <1>2, <1>3 DEF Inv, TypeOK, HandlesMade
<1>7. IdsMade'
  BY <1>1, SameIds DEF Inv, TypeOK, IdsMade
<1>8. RegisteredUnlessFull' /\ AnnouncedAsOwn'
  BY <1>1, SameIds DEF Inv, TypeOK, RegisteredUnlessFull, AnnouncedAsOwn, Announcement
<1> QED
  BY <1>4, <1>5, <1>6, <1>7, <1>8 DEF Inv

\* The lock lets one task in.
LEMMA LockInv ==
  ASSUME Exclusive, Inv, NEW t \in Threads, Lock(t)
  PROVE  Inv'
<1>1. /\ pc[t] = "lock" /\ pc' = [pc EXCEPT ![t] = "check"]
      /\ holder = Nobody /\ holder' = t
      /\ UNCHANGED <<nextTaskId, taskIds, givenIds, nextGivenId, named, calls, announced>>
  BY DEF Lock, Step, Exclusive
<1>2. \A u \in Threads : ~Inside(u)
  BY <1>1 DEF Inv, Exclusion
<1>3. TypeOK'
  BY <1>1 DEF Inv, TypeOK
<1>4. Exclusion'
  BY <1>1, <1>2 DEF Inv, TypeOK, Exclusion, Inside
<1>5. HandlesMade'
  BY <1>1 DEF Inv, TypeOK, HandlesMade
<1>6. IdsMade'
  BY <1>1, SameIds DEF Inv, TypeOK, IdsMade
<1>7. RegisteredUnlessFull' /\ AnnouncedAsOwn'
  BY <1>1, SameIds DEF Inv, TypeOK, RegisteredUnlessFull, AnnouncedAsOwn, Announcement
<1> QED
  BY <1>3, <1>4, <1>5, <1>6, <1>7 DEF Inv

\* Past the check there is an id to give.
LEMMA CheckFullInv ==
  ASSUME Inv, NEW t \in Threads, CheckFull(t)
  PROVE  Inv'
<1> DEFINE next == IF nextTaskId = IsrTaskId THEN "unlock"
                   ELSE IF named[t] THEN "name" ELSE "find"
<1>1. /\ pc[t] = "check" /\ pc' = [pc EXCEPT ![t] = next]
      /\ UNCHANGED <<nextTaskId, taskIds, givenIds, nextGivenId, holder, named, calls, announced>>
  BY DEF CheckFull, Step
<1>2. /\ next \in {"unlock", "name", "find"}
      /\ next = "unlock" => nextTaskId = IsrTaskId
      /\ next # "unlock" => nextTaskId < IsrTaskId
      /\ next = "find" => ~named[t]
  BY DEF Inv, TypeOK
<1> HIDE DEF next
<1>3. TypeOK'
  BY <1>1, <1>2 DEF Inv, TypeOK
<1>4. Exclusion'
  BY <1>1 DEF Inv, TypeOK, Exclusion, Inside
<1>5. HandlesMade'
  BY <1>1, <1>2 DEF Inv, TypeOK, HandlesMade
<1>6. IdsMade'
  BY <1>1, <1>2, SameIds DEF Inv, TypeOK, IdsMade
<1>7. RegisteredUnlessFull' /\ AnnouncedAsOwn'
  BY <1>1, <1>2, SameIds DEF Inv, TypeOK, RegisteredUnlessFull, AnnouncedAsOwn, Announcement
<1> QED
  BY <1>3, <1>4, <1>5, <1>6, <1>7 DEF Inv

\* A new handle is not in the map, and an old one stays.
LEMMA RegisterThreadNameKeeps ==
  ASSUME Inv, NEW t \in Threads, RegisterThreadName(t)
  PROVE  \A u \in Threads : Found(u)' = Found(u) /\ TaskId(u)' = TaskId(u)
<1> SUFFICES ASSUME NEW u \in Threads
             PROVE  Found(u)' = Found(u) /\ TaskId(u)' = TaskId(u)
  OBVIOUS
<1>1. taskIds' = taskIds
  BY DEF RegisterThreadName
<1>2. CASE Handle(u)' = Handle(u)
  BY <1>1, <1>2 DEF Found, TaskId
<1>3. CASE Handle(u)' # Handle(u)
  <2>1. /\ NamesGiveHandles /\ givenIds[u] = 0 /\ givenIds[u]' = nextGivenId
    BY <1>3 DEF RegisterThreadName, Handle, Inv, TypeOK, InvalidGivenTaskId
  <2>2. 0 \notin DOMAIN taskIds /\ nextGivenId \notin DOMAIN taskIds
    BY <2>1 DEF Inv, TypeOK, HandlesMade
  <2> QED
    BY <1>1, <2>1, <2>2 DEF Found, TaskId, Handle
<1> QED
  BY <1>2, <1>3

\* A name gives a task that has none a handle of its own.
LEMMA RegisterThreadNameInv ==
  ASSUME Inv, NEW t \in Threads, RegisterThreadName(t)
  PROVE  Inv'
<1>1. /\ pc[t] = "name" /\ pc' = [pc EXCEPT ![t] = "find"]
      /\ UNCHANGED <<nextTaskId, taskIds, holder, named, calls, announced>>
  BY DEF RegisterThreadName, Step
<1>2. /\ NamesGiveHandles =>
           /\ nextGivenId' = nextGivenId + 1
           /\ givenIds' = IF givenIds[t] = 0 THEN [givenIds EXCEPT ![t] = nextGivenId]
                                             ELSE givenIds
      /\ ~NamesGiveHandles => UNCHANGED <<nextGivenId, givenIds>>
  BY DEF RegisterThreadName, InvalidGivenTaskId
<1>3. \A u \in Threads : Found(u)' = Found(u) /\ TaskId(u)' = TaskId(u)
  BY RegisterThreadNameKeeps
<1>4. \A u \in Threads : Inside(u) => u = t
  BY <1>1, Alone DEF Inside
<1>5. TypeOK'
  BY <1>1, <1>2 DEF Inv, TypeOK
<1>6. Exclusion'
  BY <1>1 DEF Inv, TypeOK, Exclusion, Inside
<1>7. HandlesMade'
  BY <1>1, <1>2, <1>4 DEF Inv, TypeOK, HandlesMade, InvalidGivenTaskId, Inside
<1>8. IdsMade'
  <2>1. \A u \in Threads : pc[u] \notin {"announce", "increment"}
    BY <1>1, <1>4 DEF Inside
  <2>2. \A h \in DOMAIN taskIds : taskIds[h] < nextTaskId
    BY <2>1 DEF Inv, IdsMade
  <2> QED
    BY <1>1, <1>3, <2>1, <2>2 DEF Inv, TypeOK, IdsMade
<1>9. RegisteredUnlessFull' /\ AnnouncedAsOwn'
  BY <1>1, <1>3 DEF Inv, TypeOK, RegisteredUnlessFull, AnnouncedAsOwn, Announcement
<1> QED
  BY <1>5, <1>6, <1>7, <1>8, <1>9 DEF Inv

\* A task that is found already has its id.
LEMMA FindInv ==
  ASSUME Inv, NEW t \in Threads, Find(t)
  PROVE  Inv'
<1> DEFINE next == IF Found(t) THEN "unlock" ELSE "insert"
<1>1. /\ pc[t] = "find" /\ pc' = [pc EXCEPT ![t] = next]
      /\ UNCHANGED <<nextTaskId, taskIds, givenIds, nextGivenId, holder, named, calls, announced>>
  BY DEF Find, Step
<1>2. /\ next \in {"unlock", "insert"}
      /\ next = "unlock" => TaskId(t) # InvalidTaskId
      /\ next = "insert" => ~Found(t)
  BY ValidIfFound
<1> HIDE DEF next
<1>3. TypeOK'
  BY <1>1, <1>2 DEF Inv, TypeOK
<1>4. Exclusion'
  BY <1>1 DEF Inv, TypeOK, Exclusion, Inside
<1>5. HandlesMade'
  BY <1>1, <1>2 DEF Inv, TypeOK, HandlesMade
<1>6. IdsMade'
  BY <1>1, <1>2, SameIds DEF Inv, TypeOK, IdsMade
<1>7. RegisteredUnlessFull' /\ AnnouncedAsOwn'
  BY <1>1, <1>2, SameIds DEF Inv, TypeOK, RegisteredUnlessFull, AnnouncedAsOwn, Announcement
<1> QED
  BY <1>3, <1>4, <1>5, <1>6, <1>7 DEF Inv

\* The new entry is the task's own, and other tasks keep what they have.
LEMMA InsertKeeps ==
  ASSUME Inv, NEW t \in Threads, Insert(t)
  PROVE  /\ Found(t)' /\ TaskId(t)' = nextTaskId
         /\ \A u \in Threads : Found(u) => Found(u)' /\ TaskId(u)' = TaskId(u)
<1>1. /\ pc[t] = "insert" /\ givenIds' = givenIds
      /\ taskIds' = [h \in DOMAIN taskIds \cup {Handle(t)} |->
                       IF h = Handle(t) THEN nextTaskId ELSE taskIds[h]]
  BY DEF Insert, Step
<1>2. \A u \in Threads : Handle(u)' = Handle(u)
  BY <1>1 DEF Handle
<1>3. ~Found(t)
  BY <1>1 DEF Inv, IdsMade
<1>4. Found(t)' /\ TaskId(t)' = nextTaskId
  BY <1>1, <1>2 DEF Found, TaskId
<1>5. ASSUME NEW u \in Threads, Found(u)
      PROVE  Found(u)' /\ TaskId(u)' = TaskId(u)
  <2>1. Handle(u) # Handle(t)
    BY <1>3, <1>5 DEF Found
  <2> QED
    BY <1>1, <1>2, <1>5, <2>1 DEF Found, TaskId
<1> QED
  BY <1>4, <1>5

\* The new entry has an id that no other task has.
LEMMA InsertInv ==
  ASSUME Inv, NEW t \in Threads, Insert(t)
  PROVE  Inv'
<1>1. /\ pc[t] = "insert" /\ pc' = [pc EXCEPT ![t] = "announce"]
      /\ taskIds' = [h \in DOMAIN taskIds \cup {Handle(t)} |->
                       IF h = Handle(t) THEN nextTaskId ELSE taskIds[h]]
      /\ UNCHANGED <<nextTaskId, givenIds, nextGivenId, holder, named, calls, announced>>
  BY DEF Insert, Step
<1>2. /\ Found(t)' /\ TaskId(t)' = nextTaskId
      /\ \A u \in Threads : Found(u) => Found(u)' /\ TaskId(u)' = TaskId(u)
  BY InsertKeeps
<1>3. \A u \in Threads : Inside(u) => u = t
  BY <1>1, Alone DEF Inside
<1>4. nextTaskId < IsrTaskId /\ ~Found(t)
  BY <1>1 DEF Inv, IdsMade
<1>5. \A u \in Threads : Handle(u)' = Handle(u)
  BY <1>1 DEF Handle
<1>6. TypeOK'
  BY <1>1, <1>4 DEF Inv, TypeOK, Ids
<1>7. Exclusion'
  BY <1>1 DEF Inv, TypeOK, Exclusion, Inside
<1>8. HandlesMade'
  <2>1. NamesGiveHandles => Handle(t) \in 1 .. nextGivenId - 1
    BY <1>1 DEF Inv, TypeOK, HandlesMade, Handle, InvalidGivenTaskId
  <2> QED
    BY <1>1, <2>1 DEF Inv, TypeOK, HandlesMade
<1>9. IdsMade'
  <2>1. \A u \in Threads : pc[u] \notin {"announce", "increment"}
    BY <1>1, <1>3 DEF Inside
  <2>2. \A h \in DOMAIN taskIds : taskIds[h] < nextTaskId /\ taskIds[h] \in Ids
    BY <2>1 DEF Inv, TypeOK, IdsMade
  <2>3. /\ DOMAIN taskIds' = DOMAIN taskIds \cup {Handle(t)}
        /\ taskIds'[Handle(t)] = nextTaskId
        /\ \A h \in DOMAIN taskIds : taskIds'[h] = taskIds[h]
    BY <1>1, <1>4 DEF Found
  <2>4. \A h, k \in DOMAIN taskIds' : taskIds'[h] = taskIds'[k] => h = k
    BY <2>2, <2>3 DEF Inv, TypeOK, IdsMade, Ids
  <2>5. \A h \in DOMAIN taskIds' :
          \/ taskIds'[h] < nextTaskId'
          \/ \E u \in Threads : pc'[u] \in {"announce", "increment"} /\ Handle(u)' = h
    BY <1>1, <1>5, <2>2, <2>3 DEF Inv, TypeOK
  <2>6. ASSUME NEW u \in Threads
        PROVE /\ pc'[u] \in {"name", "find", "insert", "announce", "increment"} =>
                   nextTaskId' < IsrTaskId
              /\ pc'[u] = "insert" => ~Found(u)'
              /\ pc'[u] \in {"announce", "increment"} => Found(u)' /\ TaskId(u)' = nextTaskId'
    BY <1>1, <1>2, <1>3, <1>4 DEF Inv, TypeOK, Inside
  <2> QED
    BY <2>4, <2>5, <2>6 DEF IdsMade
<1>10. RegisteredUnlessFull'
  BY <1>1, <1>3 DEF Inv, TypeOK, RegisteredUnlessFull, Inside
<1>11. AnnouncedAsOwn'
  <2>1. \A a \in announced : a.thread \in Threads /\ TaskId(a.thread) # InvalidTaskId
    BY DEF Inv, TypeOK, AnnouncedAsOwn, Announcement, Ids, InvalidTaskId
  <2> QED
    BY <1>1, <1>2, <2>1, ValidIfFound DEF Inv, AnnouncedAsOwn
<1> QED
  BY <1>6, <1>7, <1>8, <1>9, <1>10, <1>11 DEF Inv

\* The message prints the id it is sent under.
LEMMA AnnounceInv ==
  ASSUME Inv, NEW t \in Threads, Announce(t)
  PROVE  Inv'
<1>1. /\ pc[t] = "announce" /\ pc' = [pc EXCEPT ![t] = "increment"]
      /\ UNCHANGED <<nextTaskId, taskIds, givenIds, nextGivenId, holder, named, calls>>
      /\ \/ announced' = announced
         \/ announced' = announced \cup {[thread |-> t, from |-> TaskId(t), says |-> nextTaskId]}
  BY DEF Announce, Step
<1>2. TaskId(t) = nextTaskId /\ nextTaskId \in Ids
  BY <1>1 DEF Inv, TypeOK, IdsMade, Ids
<1>3. TypeOK'
  BY <1>1, <1>2 DEF Inv, TypeOK, Announcement
<1>4. Exclusion'
  BY <1>1 DEF Inv, TypeOK, Exclusion, Inside
<1>5. HandlesMade'
  BY <1>1 DEF Inv, TypeOK, HandlesMade
<1>6. IdsMade'
  <2>1. \A u \in Threads : pc'[u] \in {"announce", "increment"}
                             <=> pc[u] \in {"announce", "increment"}
    BY <1>1 DEF Inv, TypeOK
  <2> QED
    BY <1>1, <2>1, SameIds DEF Inv, TypeOK, IdsMade
<1>7. RegisteredUnlessFull'
  BY <1>1, SameIds DEF Inv, TypeOK, RegisteredUnlessFull
<1>8. AnnouncedAsOwn'
  BY <1>1, <1>2, SameIds DEF Inv, TypeOK, AnnouncedAsOwn, Announcement
<1> QED
  BY <1>3, <1>4, <1>5, <1>6, <1>7, <1>8 DEF Inv

\* The id given is in use, and the next one is not.
LEMMA IncrementInv ==
  ASSUME Inv, NEW t \in Threads, Increment(t)
  PROVE  Inv'
<1>1. /\ pc[t] = "increment" /\ pc' = [pc EXCEPT ![t] = "unlock"]
      /\ nextTaskId' = (nextTaskId + 1) % (IsrTaskId + 1)
      /\ UNCHANGED <<taskIds, givenIds, nextGivenId, holder, named, calls, announced>>
  BY DEF Increment, Step
<1>2. nextTaskId' = nextTaskId + 1 /\ nextTaskId < IsrTaskId
  BY <1>1 DEF Inv, TypeOK, IdsMade
<1>3. \A u \in Threads : Inside(u) => u = t
  BY <1>1, Alone DEF Inside
<1>4. Found(t) /\ TaskId(t) = nextTaskId /\ nextTaskId # InvalidTaskId
  BY <1>1 DEF Inv, TypeOK, IdsMade, InvalidTaskId
<1>5. TypeOK'
  BY <1>1, <1>2 DEF Inv, TypeOK
<1>6. Exclusion'
  BY <1>1 DEF Inv, TypeOK, Exclusion, Inside
<1>7. HandlesMade'
  BY <1>1 DEF Inv, TypeOK, HandlesMade
<1>8. IdsMade'
  <2>1. \A h \in DOMAIN taskIds : taskIds[h] < nextTaskId'
    <3> SUFFICES ASSUME NEW h \in DOMAIN taskIds
                 PROVE  taskIds[h] < nextTaskId'
      OBVIOUS
    <3>1. taskIds[h] \in Ids /\ nextTaskId \in Nat
      BY DEF Inv, TypeOK
    <3>2. CASE taskIds[h] < nextTaskId
      BY <1>2, <3>1, <3>2 DEF Ids
    <3>3. CASE \E u \in Threads : pc[u] \in {"announce", "increment"} /\ Handle(u) = h
      <4>1. Handle(t) = h
        BY <1>3, <3>3 DEF Inside
      <4> QED
        BY <1>2, <1>4, <3>1, <4>1 DEF TaskId
    <3> QED
      BY <3>2, <3>3 DEF Inv, IdsMade
  <2> QED
    BY <1>1, <1>2, <1>3, <2>1, SameIds DEF Inv, TypeOK, IdsMade, Inside
<1>9. RegisteredUnlessFull' /\ AnnouncedAsOwn'
  <2>1. \A u \in Threads : pc'[u] = "unlock" => u = t
    BY <1>1, <1>3 DEF Inv, TypeOK, Inside
  <2> QED
    BY <1>1, <1>4, <2>1, SameIds DEF Inv, TypeOK, RegisteredUnlessFull, AnnouncedAsOwn,
       Announcement, InvalidTaskId
<1> QED
  BY <1>5, <1>6, <1>7, <1>8, <1>9 DEF Inv

\* The lock is free when its holder has left.
LEMMA UnlockInv ==
  ASSUME Inv, NEW t \in Threads, Unlock(t)
  PROVE  Inv'
<1>1. /\ pc[t] = "unlock" /\ pc' = [pc EXCEPT ![t] = "idle"]
      /\ holder' = Nobody
      /\ UNCHANGED <<nextTaskId, taskIds, givenIds, nextGivenId, named, calls, announced>>
  BY DEF Unlock, Step
<1>2. \A u \in Threads : Inside(u) => u = t
  BY <1>1, Alone DEF Inside
<1>3. TypeOK'
  BY <1>1 DEF Inv, TypeOK
<1>4. Exclusion'
  BY <1>1, <1>2 DEF Inv, TypeOK, Exclusion, Inside
<1>5. HandlesMade'
  BY <1>1 DEF Inv, TypeOK, HandlesMade
<1>6. IdsMade'
  BY <1>1, SameIds DEF Inv, TypeOK, IdsMade
<1>7. RegisteredUnlessFull' /\ AnnouncedAsOwn'
  BY <1>1, SameIds DEF Inv, TypeOK, RegisteredUnlessFull, AnnouncedAsOwn, Announcement
<1> QED
  BY <1>3, <1>4, <1>5, <1>6, <1>7 DEF Inv

\* Every step of every task keeps the invariant.
LEMMA StepInv ==
  ASSUME Exclusive
  PROVE  Inv /\ [Next]_vars => Inv'
<1>1. Inv /\ UNCHANGED vars => Inv'
  BY DEF vars, Inv, TypeOK, Exclusion, Inside, HandlesMade, IdsMade, RegisteredUnlessFull,
         AnnouncedAsOwn, Handle, Found, TaskId
<1> QED
  BY <1>1, CallInv, LockInv, CheckFullInv, RegisterThreadNameInv, FindInv, InsertInv,
     AnnounceInv, IncrementInv, UnlockInv DEF Next, Registration

\* Everything doRegisterCurrentTask relies on holds while it runs.
THEOREM RegistryInv ==
  ASSUME Exclusive
  PROVE  Spec => []Inv
BY InitInv, StepInv, PTL DEF Spec

\* The registry keeps its types: ids stay below cIsrTaskId.
THEOREM RegistryTypeCorrect ==
  ASSUME Exclusive
  PROVE  Spec => []TypeOK
<1>1. Inv => TypeOK
  BY DEF Inv
<1> QED
  BY <1>1, RegistryInv, PTL

\* Under a lock that excludes, no two tasks send their chunks under one id
\* (Log::doRegisterCurrentTask, Log.cpp:108).
THEOREM TasksHaveOwnIds ==
  ASSUME Exclusive
  PROVE  Spec => []OwnIds
BY InvOwnIds, RegistryInv, PTL

\* A call that returns has registered its task, if an id was left.
THEOREM TasksAreRegistered ==
  ASSUME Exclusive
  PROVE  Spec => []RegisteredUnlessFull
<1>1. Inv => RegisteredUnlessFull
  BY DEF Inv
<1> QED
  BY <1>1, RegistryInv, PTL

\* The registration messages name the ids that the tasks have.
THEOREM TasksAreAnnounced ==
  ASSUME Exclusive
  PROVE  Spec => []AnnouncedAsOwn
<1>1. Inv => AnnouncedAsOwn
  BY DEF Inv
<1> QED
  BY <1>1, RegistryInv, PTL

\* A task keeps its id for good.
THEOREM TasksKeepIds ==
  ASSUME Exclusive
  PROVE  Spec => IdsKept
<1>1. Inv /\ [Next]_vars => [IdsKeptStep]_vars
  <2> SUFFICES ASSUME Inv, Next PROVE IdsKeptStep
    OBVIOUS
  <2>1. PICK t \in Threads : Registration(t)
    BY DEF Next
  <2>2. CASE RegisterThreadName(t)
    BY <2>2, RegisterThreadNameKeeps DEF IdsKeptStep
  <2>3. CASE Insert(t)
    BY <2>3, InsertKeeps, ValidIfFound DEF IdsKeptStep
  <2>4. CASE ~RegisterThreadName(t) /\ ~Insert(t)
    <3>1. UNCHANGED <<taskIds, givenIds>>
      BY <2>1, <2>4 DEF Registration, Call, Lock, CheckFull, Find, Announce, Increment, Unlock
    <3> QED
      BY <3>1, SameIds DEF IdsKeptStep
  <2> QED
    BY <2>2, <2>3, <2>4
<1> QED
  BY <1>1, RegistryInv, PTL DEF Spec, IdsKept, IdsKeptStep

=============================================================================
