---------------------------- MODULE SessionLocks ----------------------------
(***************************************************************************)
(* The in-process locks of DatabaseSessionService: a registry that creates *)
(* an asyncio.Lock the first time a key is wanted, counts the tasks that   *)
(* refer to it and drops it with the last of them (_with_lock), and the    *)
(* nested use of it by append_event (session, then app, then user) and     *)
(* create_session (app, then user).                                        *)
(*                                                                         *)
(* Steps are finer than one event loop takes them: entering the registry,  *)
(* taking the lock, releasing it and leaving the registry are steps of     *)
(* their own, so any other task may run at each of the awaits between.     *)
(* One app is modelled: every key carries the app's name, so the locks of  *)
(* two apps have nothing in common.                                        *)
(***************************************************************************)
EXTENDS Integers, Sequences, FiniteSets, SequencesExt

CONSTANTS
  Task,        \* the asyncio tasks that call the service
  SessionKey,  \* ("session", app, user, id) for the sessions in play
  UserKey,     \* ("user", app, user)
  AppKey,      \* ("app", app)
  UserOf,      \* the user key of each session key
  Calls,       \* the key sets of the operations in play
  Lock,        \* identities of asyncio.Lock objects, used again once collected
  NoTask, NoLock

Key == SessionKey \cup UserKey \cup {AppKey}

ASSUME TaskAssumption == IsFiniteSet(Task) /\ NoTask \notin Task
ASSUME LockAssumption == NoLock \notin Lock
ASSUME KeyAssumption == /\ UserOf \in [SessionKey -> UserKey]
                        /\ SessionKey \cap UserKey = {}
                        /\ AppKey \notin SessionKey \cup UserKey

(* The keys an operation locks: append_event and create_session.           *)

(* The app- and user-state rows a state delta touches.                     *)
SharedStateKeys(u) == SUBSET {AppKey, u}

AppendKeys == UNION {{{s} \cup shared : shared \in SharedStateKeys(UserOf[s])} :
                      s \in SessionKey}
CreateKeys == UNION {SharedStateKeys(u) : u \in UserKey}

ASSUME CallsAssumption == Calls \subseteq AppendKeys \cup CreateKeys

VARIABLES
  locks,     \* self._locks: the lock object registered for a key, or NoLock
  refCount,  \* self._lock_ref_count: 0 when the key is absent
  owner,     \* the task that holds a lock object (asyncio.Lock._locked)
  waiters,   \* asyncio.Lock._waiters, first come first served
  pc,        \* where each task is
  wants,     \* the keys its operation locks
  frame      \* frame[t][k]: the local `lock` of its _with_lock(k), or NoLock

vars == <<locks, refCount, owner, waiters, pc, wants, frame>>

PC == {"idle", "enter", "acquire", "wait", "unwind"}

TypeOK ==
  /\ locks \in [Key -> Lock \cup {NoLock}]
  /\ refCount \in [Key -> Nat]
  /\ owner \in [Lock -> Task \cup {NoTask}]
  /\ waiters \in [Lock -> Seq(Task)]
  /\ pc \in [Task -> PC]
  /\ wants \in [Task -> SUBSET Key]
  /\ frame \in [Task -> [Key -> Lock \cup {NoLock}]]

Init ==
  /\ locks = [k \in Key |-> NoLock]
  /\ refCount = [k \in Key |-> 0]
  /\ owner = [l \in Lock |-> NoTask]
  /\ waiters = [l \in Lock |-> <<>>]
  /\ pc = [t \in Task |-> "idle"]
  /\ wants = [t \in Task |-> {}]
  /\ frame = [t \in Task |-> [k \in Key |-> NoLock]]

-----------------------------------------------------------------------------
(* The order in which an operation takes its locks.                        *)

(* A mutant: create_session and append_event disagree on the order of the  *)
(* shared rows, as when each takes the user's row in the order it meets it.*)
AnyRank(k) == IF k \in SessionKey THEN 1 ELSE 2

(* The session lock first, then the app's, then the user's.                *)
Rank(k) == IF k \in SessionKey THEN 1 ELSE IF k = AppKey THEN 2 ELSE 3

Entered(t) == {k \in Key : frame[t][k] # NoLock}
Missing(t) == wants[t] \ Entered(t)

(* The next `async with` of the operation and the innermost open one.      *)
IsNext(t, k) == k \in Missing(t) /\ \A j \in Missing(t) : Rank(k) =< Rank(j)
IsInnermost(t, k) == k \in Entered(t) /\ \A j \in Entered(t) : Rank(j) =< Rank(k)

-----------------------------------------------------------------------------
Goto(t, where) == pc' = [pc EXCEPT ![t] = where]

(* A client calls append_event or create_session.                          *)
Call(t) ==
  /\ pc[t] = "idle"
  /\ \E keys \in Calls : wants' = [wants EXCEPT ![t] = keys]
  /\ Goto(t, "enter")
  /\ UNCHANGED <<locks, refCount, owner, waiters, frame>>

(* Lock objects nothing refers to any more: asyncio.Lock() returns one.    *)
Unreferenced == {l \in Lock : /\ \A k \in Key : locks[k] # l
                              /\ \A t \in Task, k \in Key : frame[t][k] # l}

(* A mutant: the lookup is lost and every caller gets a lock of its own.   *)
LockOfOwn(k) == {l \in Unreferenced : l = CHOOSE x \in Unreferenced : TRUE}

(* The lock the registry has for k, created on first use.                  *)
LockFor(k) ==
  IF locks[k] # NoLock THEN {locks[k]}
  ELSE LET free == Unreferenced IN
       IF free = {} THEN {} ELSE {CHOOSE l \in free : TRUE}

(* The first guarded block of _with_lock.                                  *)
Enter(t) ==
  /\ pc[t] = "enter"
  /\ \E k \in Key :
       /\ IsNext(t, k)
       /\ \E l \in LockFor(k) :
            /\ locks' = [locks EXCEPT ![k] = l]
            /\ frame' = [frame EXCEPT ![t][k] = l]
       /\ refCount' = [refCount EXCEPT ![k] = @ + 1]
  /\ Goto(t, "acquire")
  /\ UNCHANGED <<owner, waiters, wants>>

(* `async with lock`: asyncio.Lock.acquire takes a free lock nobody waits  *)
(* for at once, and otherwise queues the task.                             *)
Acquire(t) ==
  /\ pc[t] = "acquire"
  /\ \E k \in Key :
       LET l == frame[t][k] IN
       /\ IsInnermost(t, k)
       /\ IF owner[l] = NoTask /\ waiters[l] = <<>>
          THEN /\ owner' = [owner EXCEPT ![l] = t]
               /\ Goto(t, "enter")
               /\ UNCHANGED waiters
          ELSE /\ waiters' = [waiters EXCEPT ![l] = Append(@, t)]
               /\ Goto(t, "wait")
               /\ UNCHANGED owner
  /\ UNCHANGED <<locks, refCount, wants, frame>>

(* The first waiter of a released lock runs and takes it.                  *)
Granted(t) ==
  /\ pc[t] = "wait"
  /\ \E k \in Key :
       LET l == frame[t][k] IN
       /\ IsInnermost(t, k)
       /\ owner[l] = NoTask
       /\ waiters[l] # <<>> /\ Head(waiters[l]) = t
       /\ owner' = [owner EXCEPT ![l] = t]
       /\ waiters' = [waiters EXCEPT ![l] = Tail(@)]
  /\ Goto(t, "enter")
  /\ UNCHANGED <<locks, refCount, wants, frame>>

(* The task is cancelled while it waits: asyncio.Lock.acquire leaves the   *)
(* queue and CancelledError unwinds the operation.                         *)
Cancel(t) ==
  /\ pc[t] = "wait"
  /\ \E k \in Key :
       LET l == frame[t][k] IN
       /\ IsInnermost(t, k)
       /\ \E i \in DOMAIN waiters[l] :
            /\ waiters[l][i] = t
            /\ waiters' = [waiters EXCEPT ![l] = RemoveAt(@, i)]
  /\ Goto(t, "unwind")
  /\ UNCHANGED <<locks, refCount, owner, wants, frame>>

(* The body ends, by returning or by raising, and the frames unwind.       *)
Finish(t) ==
  /\ pc[t] = "enter"
  /\ Missing(t) = {}
  /\ Goto(t, "unwind")
  /\ UNCHANGED <<locks, refCount, owner, waiters, wants, frame>>

(* The end of `async with lock`.                                           *)
Release(t) ==
  /\ pc[t] = "unwind"
  /\ \E k \in Key :
       /\ IsInnermost(t, k)
       /\ owner[frame[t][k]] = t
       /\ owner' = [owner EXCEPT ![frame[t][k]] = NoTask]
  /\ UNCHANGED <<locks, refCount, waiters, pc, wants, frame>>

(* Mutants: the registry forgets a lock others still wait for, and never   *)
(* forgets one at all.                                                     *)
DropsWhenFree(k, l) == owner[l] = NoTask
DropsNever(k, l) == FALSE

(* The guarded block of the finally clause drops the entry with the last   *)
(* reference, unless the lock object is locked.                            *)
Drops(k, l) == refCount[k] - 1 =< 0 /\ owner[l] = NoTask

Leave(t) ==
  /\ pc[t] = "unwind"
  /\ \E k \in Key :
       LET l == frame[t][k] IN
       /\ IsInnermost(t, k)
       /\ owner[l] # t
       /\ IF Drops(k, l)
          THEN /\ locks' = [locks EXCEPT ![k] = NoLock]
               /\ refCount' = [refCount EXCEPT ![k] = 0]
          ELSE /\ refCount' = [refCount EXCEPT ![k] = @ - 1]
               /\ UNCHANGED locks
       /\ frame' = [frame EXCEPT ![t][k] = NoLock]
  /\ UNCHANGED <<owner, waiters, pc, wants>>

(* Every frame is closed: the operation returns to its caller.             *)
Return(t) ==
  /\ pc[t] = "unwind"
  /\ Entered(t) = {}
  /\ Goto(t, "idle")
  /\ wants' = [wants EXCEPT ![t] = {}]
  /\ UNCHANGED <<locks, refCount, owner, waiters, frame>>

(* What the event loop runs of a task that has been called.                *)
Step(t) == \/ Enter(t) \/ Acquire(t) \/ Granted(t) \/ Finish(t)
           \/ Release(t) \/ Leave(t) \/ Return(t)

Next == \E t \in Task : Call(t) \/ Cancel(t) \/ Step(t)

Spec == Init /\ [][Next]_vars

(* The event loop runs every ready task sooner or later, and the body of   *)
(* the critical section ends.                                              *)
Fairness == \A t \in Task : WF_vars(Step(t))

FairSpec == Spec /\ Fairness

-----------------------------------------------------------------------------
(* t is inside `async with lock` of its _with_lock(k).                     *)
Inside(t, k) == k \in Entered(t) /\ owner[frame[t][k]] = t

(* Two tasks are never inside the section of one key, even though the lock *)
(* object of the key comes and goes: _with_lock.                           *)
MutualExclusion ==
  \A k \in Key : \A t, u \in Task : Inside(t, k) /\ Inside(u, k) => t = u

(* The registry holds a lock exactly while some task refers to the key and *)
(* counts those tasks, so nothing leaks and nothing goes early: _with_lock.*)
RegistryExact ==
  \A k \in Key :
    /\ refCount[k] = Cardinality({t \in Task : k \in Entered(t)})
    /\ locks[k] # NoLock <=> refCount[k] # 0

(* Every append_event and create_session that starts gets all its locks    *)
(* and ends: the app lock before the user lock leaves no cycle, and the    *)
(* queue of a lock is first come, first served.                            *)
EveryCallReturns == \A t \in Task : pc[t] # "idle" ~> pc[t] = "idle"

(* The registry implements one mutex per key: KeyedMutex.                  *)
Holder(k) == IF \E t \in Task : Inside(t, k)
             THEN CHOOSE t \in Task : Inside(t, k) ELSE NoTask
Mutex == INSTANCE KeyedMutex WITH holder <- [k \in Key |-> Holder(k)]
ImplementsMutex == Mutex!Spec
=============================================================================
