---------------------------- MODULE TaskRegistry ----------------------------
(***************************************************************************)
(* The registration of tasks (Log::doRegisterCurrentTask): each task that  *)
(* calls it gets an id of its own, under which its chunks are told apart.  *)
(* The map from handles to ids is shared by all tasks.  What differs from  *)
(* port to port are constants: whether the lock excludes anybody, and      *)
(* whether the handle of a task is its own or comes with its name.  Each   *)
(* access of a shared variable is one step.                                *)
(***************************************************************************)
EXTENDS Integers

CONSTANTS
  Threads,
  Nobody,                \* the lock is free
  IsrTaskId,             \* Chunk::cIsrTaskId: the largest value of an id
  LockExcludes,          \* std::recursive_mutex, or xSemaphoreTakeFromISR
  NamesGiveHandles,      \* the handle is made by registerThreadName
  CallsNamed,            \* whether calls give a name: the arguments in use
  AllowRegistrationLog,  \* LogConfig::allowRegistrationLog
  MaxCalls               \* bound: calls in a behaviour

ASSUME RegistryAssumption ==
  /\ Nobody \notin Threads
  /\ IsrTaskId \in Nat \ {0}
  /\ LockExcludes \in BOOLEAN
  /\ NamesGiveHandles \in BOOLEAN
  /\ CallsNamed \subseteq BOOLEAN
  /\ AllowRegistrationLog \in BOOLEAN
  /\ MaxCalls \in Nat

VARIABLES
  nextTaskId,   \* mNextTaskId
  taskIds,      \* mTaskIds: from the handles registered to ids
  givenIds,     \* ids of mTaskNamesIds; InvalidGivenTaskId: no entry
  nextGivenId,  \* mNextGivenTaskId
  holder,       \* who holds the lock
  pc,           \* where each task stands in the call
  named,        \* the argument of the call
  calls,        \* history: calls so far
  announced     \* history: the registration messages

vars == <<nextTaskId, taskIds, givenIds, nextGivenId, holder, pc, named, calls, announced>>

InvalidTaskId == 0
InvalidGivenTaskId == 0

Init ==
  /\ nextTaskId = 1
  /\ taskIds = [h \in {} |-> InvalidTaskId]
  /\ givenIds = [t \in Threads |-> InvalidGivenTaskId]
  /\ nextGivenId = InvalidGivenTaskId + 1
  /\ holder = Nobody
  /\ pc = [t \in Threads |-> "idle"]
  /\ named = [t \in Threads |-> FALSE]
  /\ calls = 0
  /\ announced = {}

\* getCurrentThreadId
Handle(t) == IF NamesGiveHandles THEN givenIds[t] ELSE t

Found(t) == Handle(t) \in DOMAIN taskIds

\* getCurrentTaskId, for a task: the id its chunks carry.
TaskId(t) == IF Found(t) THEN taskIds[Handle(t)] ELSE InvalidTaskId

Step(t, from, to) == pc[t] = from /\ pc' = [pc EXCEPT ![t] = to]

Call(t) ==
  /\ calls < MaxCalls
  /\ Step(t, "idle", "lock")
  /\ \E n \in CallsNamed : named' = [named EXCEPT ![t] = n]
  /\ calls' = calls + 1
  /\ UNCHANGED <<nextTaskId, taskIds, givenIds, nextGivenId, holder, announced>>

\* Mutant: the lock lets everybody in.
LockNot(t) ==
  /\ Step(t, "lock", "check")
  /\ holder' = t
  /\ UNCHANGED <<nextTaskId, taskIds, givenIds, nextGivenId, named, calls, announced>>

\* lock; a lock that does not exclude returns without being taken.
Lock(t) ==
  /\ Step(t, "lock", "check")
  /\ LockExcludes => holder = Nobody
  /\ holder' = IF holder = Nobody THEN t ELSE holder
  /\ UNCHANGED <<nextTaskId, taskIds, givenIds, nextGivenId, named, calls, announced>>

\* Mutants: ids without end, and an id too few.
CheckFullNot(t) ==
  /\ Step(t, "check", IF named[t] THEN "name" ELSE "find")
  /\ UNCHANGED <<nextTaskId, taskIds, givenIds, nextGivenId, holder, named, calls, announced>>

CheckFullTooSoon(t) ==
  /\ Step(t, "check", IF nextTaskId + 1 = IsrTaskId THEN "unlock"
                      ELSE IF named[t] THEN "name" ELSE "find")
  /\ UNCHANGED <<nextTaskId, taskIds, givenIds, nextGivenId, holder, named, calls, announced>>

\* No ids are left: nothing is registered.
CheckFull(t) ==
  /\ Step(t, "check", IF nextTaskId = IsrTaskId THEN "unlock"
                      ELSE IF named[t] THEN "name" ELSE "find")
  /\ UNCHANGED <<nextTaskId, taskIds, givenIds, nextGivenId, holder, named, calls, announced>>

\* Mutant: the entry of a task that comes again is replaced.
RegisterThreadNameAnew(t) ==
  /\ Step(t, "name", "find")
  /\ nextGivenId' = nextGivenId + 1
  /\ givenIds' = [givenIds EXCEPT ![t] = nextGivenId]
  /\ UNCHANGED <<nextTaskId, taskIds, holder, named, calls, announced>>

\* registerThreadName: the number is used up, but an entry that exists stays.
RegisterThreadName(t) ==
  /\ Step(t, "name", "find")
  /\ IF NamesGiveHandles
       THEN /\ nextGivenId' = nextGivenId + 1
            /\ givenIds' = IF givenIds[t] = InvalidGivenTaskId
                             THEN [givenIds EXCEPT ![t] = nextGivenId]
                             ELSE givenIds
       ELSE UNCHANGED <<nextGivenId, givenIds>>
  /\ UNCHANGED <<nextTaskId, taskIds, holder, named, calls, announced>>

Find(t) ==
  /\ Step(t, "find", IF Found(t) THEN "unlock" ELSE "insert")
  /\ UNCHANGED <<nextTaskId, taskIds, givenIds, nextGivenId, holder, named, calls, announced>>

Insert(t) ==
  /\ Step(t, "insert", "announce")
  /\ taskIds' = [h \in DOMAIN taskIds \cup {Handle(t)} |->
                   IF h = Handle(t) THEN nextTaskId ELSE taskIds[h]]
  /\ UNCHANGED <<nextTaskId, givenIds, nextGivenId, holder, named, calls, announced>>

\* The registration message: it is sent under the new id, and prints it.
Announce(t) ==
  /\ Step(t, "announce", "increment")
  /\ announced' = IF AllowRegistrationLog
                    THEN announced \cup {[thread |-> t, from |-> TaskId(t), says |-> nextTaskId]}
                    ELSE announced
  /\ UNCHANGED <<nextTaskId, taskIds, givenIds, nextGivenId, holder, named, calls>>

\* Mutant: the next task gets the same id.
IncrementNot(t) ==
  /\ Step(t, "increment", "unlock")
  /\ UNCHANGED <<nextTaskId, taskIds, givenIds, nextGivenId, holder, named, calls, announced>>

\* ++mNextTaskId wraps as the type of an id does.
Increment(t) ==
  /\ Step(t, "increment", "unlock")
  /\ nextTaskId' = (nextTaskId + 1) % (IsrTaskId + 1)
  /\ UNCHANGED <<taskIds, givenIds, nextGivenId, holder, named, calls, announced>>

Unlock(t) ==
  /\ Step(t, "unlock", "idle")
  /\ holder' = Nobody
  /\ UNCHANGED <<nextTaskId, taskIds, givenIds, nextGivenId, named, calls, announced>>

Registration(t) ==
  \/ Call(t) \/ Lock(t) \/ CheckFull(t) \/ RegisterThreadName(t) \/ Find(t)
  \/ Insert(t) \/ Announce(t) \/ Increment(t) \/ Unlock(t)

Next == \E t \in Threads : Registration(t)

Spec == Init /\ [][Next]_vars

-----------------------------------------------------------------------------
Ids == 1 .. IsrTaskId - 1

Announcement == [thread : Threads, from : Ids, says : Ids]

TypeOK ==
  /\ nextTaskId \in 1 .. IsrTaskId
  /\ taskIds \in [DOMAIN taskIds -> Ids]
  /\ givenIds \in [Threads -> Nat]
  /\ nextGivenId \in Nat \ {0}
  /\ holder \in Threads \cup {Nobody}
  /\ pc \in [Threads -> {"idle", "lock", "check", "name", "find", "insert", "announce",
                         "increment", "unlock"}]
  /\ named \in [Threads -> BOOLEAN]
  /\ calls \in 0 .. MaxCalls
  /\ announced \subseteq Announcement

\* A task whose chunks carry a valid id shares it with no other task: this is
\* what the registration is for (README.md:170), and why it locks (Log.h:617).
OwnIds ==
  \A t, u \in Threads :
    TaskId(t) = TaskId(u) => t = u \/ TaskId(t) = InvalidTaskId

\* A call leaves the task with an id, unless all of them were used up.
RegisteredUnlessFull ==
  \A t \in Threads :
    pc[t] = "unlock" => TaskId(t) # InvalidTaskId \/ nextTaskId = IsrTaskId

\* The registration message prints the id that the task's chunks carry from
\* then on, so the reader of the log can tell the tasks by it.
AnnouncedAsOwn ==
  \A a \in announced : a.says = TaskId(a.thread) /\ a.from = a.says

\* No registration, of the task itself or of another one, changes an id that a
\* task has: the rest of a message begun before must carry the same one.
IdsKept ==
  [][\A t \in Threads : TaskId(t) # InvalidTaskId => TaskId(t)' = TaskId(t)]_vars

=============================================================================
