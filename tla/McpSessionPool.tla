--------------------------- MODULE McpSessionPool ---------------------------
(***************************************************************************)
(* The pool of MCP client sessions of one MCPSessionManager, used by tool  *)
(* calls and tool listings of several event loops, each in a thread of its *)
(* own with a lock of its own.  A session is made under the lock, pooled   *)
(* under the key of its headers and used without the lock; it leaves the   *)
(* pool when it is idle, when it is found dead or bound to another loop,   *)
(* when the server says that it has forgotten it, or when the manager is   *)
(* closed.                                                                 *)
(*                                                                         *)
(* Tasks of one loop take turns at their awaits.  Threads do not: what     *)
(* stands between two awaits and reads the pool again is several steps,    *)
(* between which tasks of other loops come.  One step are the pops of one  *)
(* _forget_session, with the order to close the session that goes with     *)
(* them, and the read of an entry with what is asked of its session.       *)
(***************************************************************************)
EXTENDS FiniteSets, Integers

CONSTANTS Caller,       \* tasks that make one MCP call each
          Lister,       \* those that list the tools; the others call a tool
          Closer,       \* tasks that close the manager, each once
          Loop,         \* event loops
          Homes,        \* the ways to spread the tasks over the loops
          Key,          \* session keys: one per set of headers
          KeysOf,       \* those that a caller may use
          Session,      \* identities of SessionContext objects
          MaxMishaps,   \* faults, cancellations (those of a replacement are not
                        \* counted) and idle times to explore
          None

Task == Caller \cup Closer

ASSUME TasksApart == Caller \cap Closer = {} /\ Lister \subseteq Caller
ASSUME CallersFinite == IsFiniteSet(Caller)
ASSUME HomesKnown == Homes \subseteq [Task -> Loop]
ASSUME KeysKnown == KeysOf \in [Caller -> SUBSET Key]
ASSUME NoneApart == None \notin Task \cup Loop \cup Key \cup Session
ASSUME BoundKnown == MaxMishaps \in Nat

VARIABLES home,         \* the loop that a task runs on
          pc,           \* where a task stands
          my,           \* what its frames hold
          runs,         \* how often the server has run a tool call
          todo,         \* keys that a sweep or a closer has still to go through
          st, loop,     \* a session's state, and the loop it is bound to
          pool,         \* _sessions and _session_contexts
          idle,         \* last used longer ago than the time to live
          uses,         \* _session_use_counts
          holder,       \* who holds a loop's _session_lock
          mishaps       \* how many there have been

tasks == <<home, pc, my, todo>>
sessions == <<st, loop>>
pooled == <<pool, idle, uses>>
vars == <<tasks, runs, sessions, pooled, holder, mishaps>>

\* key: that a caller uses, or a closer closes; mine: the session that it makes,
\* uses or waits for; aim, entry: a key that it is about to forget, and what it
\* has read there; again: the call is in its second attempt; tries: one retry on
\* errors is left; ran: the server has run the call of this attempt
Frame == [key : Key \cup {None}, mine : Session \cup {None},
          aim : Key \cup {None}, entry : Session \cup {None}, again : BOOLEAN,
          tries : BOOLEAN, ran : BOOLEAN, cancelled : BOOLEAN]

NoFrame == [key |-> None, mine |-> None, aim |-> None, entry |-> None,
            again |-> FALSE, tries |-> FALSE, ran |-> FALSE, cancelled |-> FALSE]

\* A task stands at an await, or has not begun or has ended
AtAwait == {"idle", "lock", "replace", "create", "call", "wait", "done", "failed"}

\* ... or between two awaits, where its loop runs nothing else
Running == {"sweep", "count", "grip", "evict", "pick", "forget", "use", "drop",
            "close"}

\* "gone": the server has forgotten it, the transport is healthy; "broken":
\* the streams are closed under a task that still waits; "down": it has no task
States == {"starting", "open", "gone", "broken", "closing", "down"}
Alive == {"open", "gone", "broken"}

TypeOK ==
    /\ home \in [Task -> Loop]
    /\ pc \in [Task -> AtAwait \cup Running]
    /\ my \in [Task -> Frame]
    /\ runs \in [Caller \ Lister -> Nat]
    /\ todo \in [Task -> SUBSET Key]
    /\ st \in [Session -> States]
    /\ loop \in [Session -> Loop \cup {None}]
    /\ pool \in [Key -> Session \cup {None}]
    /\ idle \in [Key -> BOOLEAN]
    /\ uses \in [Key -> Nat]
    /\ holder \in [Loop -> Task \cup {None}]
    /\ mishaps \in 0..MaxMishaps

Init ==
    /\ home \in Homes
    /\ pc = [t \in Task |-> "idle"]
    /\ my = [t \in Task |-> NoFrame]
    /\ runs = [c \in Caller \ Lister |-> 0]
    /\ todo = [t \in Task |-> {}]
    /\ st = [s \in Session |-> "down"]
    /\ loop = [s \in Session |-> None]
    /\ pool = [k \in Key |-> None]
    /\ idle = [k \in Key |-> FALSE]
    /\ uses = [k \in Key |-> 0]
    /\ holder = [l \in Loop |-> None]
    /\ mishaps = 0

-----------------------------------------------------------------------------
\* Operators on tasks and on the pool

\* No task of the loop is between two awaits
Quiet(l) == \A t \in Task : home[t] = l => pc[t] \notin Running

\* A task of a loop runs only while the others of that loop are at an await
Turn(t) == \A u \in Task \ {t} : home[u] = home[t] => pc[u] \notin Running

\* A task goes on with the frame f; one that has ended keeps nothing
Goes(t, where, f) ==
    /\ pc' = [pc EXCEPT ![t] = where]
    /\ my' = [my EXCEPT ![t] = IF where \in {"done", "failed"} THEN NoFrame
                                ELSE f]

Mishap == mishaps < MaxMishaps /\ mishaps' = mishaps + 1

Locked(t) == pc[t] = "lock" /\ holder[home[t]] = None

Takes(t) == holder' = [holder EXCEPT ![home[t]] = t]

Release(t) == holder' = [holder EXCEPT ![home[t]] = None]

\* list(self._sessions)
Pooled == {k \in Key : pool[k] # None}

\* Not made yet, or out of the reach of every task: what becomes of it then is
\* left out
Unused(s) ==
    /\ \A k \in Key : pool[k] # s
    /\ \A t \in Task : my[t].mine # s /\ my[t].entry # s

\* Which of them stands for the next object does not matter
NewSession == CHOOSE s \in Session : Unused(s)

\* _close_exit_stack: a session is told to close
Closing(s) == [st EXCEPT ![s] = IF @ \in Alive THEN "closing" ELSE @]

\* _forget_session: the entry goes, and the time of its last use with it
Forget(k) ==
    /\ pool' = [pool EXCEPT ![k] = None]
    /\ idle' = [idle EXCEPT ![k] = FALSE]

\* A mutant: a session of any loop will do.
FromAnyLoop(c, s) == st[s] \in {"open", "gone", "closing"}

\* What a pooled session must be to be handed out again
Reusable(c, s) == loop[s] = home[c] /\ st[s] \in {"open", "gone", "closing"}

\* retry_on_errors: one more attempt, unless the task has been cancelled
Repeated(c) == IF my[c].tries /\ ~ my[c].cancelled THEN "lock" ELSE "done"

-----------------------------------------------------------------------------
\* create_session: the lock, and the sweep of idle sessions

\* A tool call or a listing begins
Start(c, k) ==
    /\ pc[c] = "idle"
    /\ k \in KeysOf[c]
    /\ Goes(c, "lock", [NoFrame EXCEPT !.key = k, !.tries = TRUE])
    /\ UNCHANGED <<home, runs, todo, sessions, pooled, holder, mishaps>>

\* _evict_idle_sessions lists the keys, but for the one that is about to be used
SweepBegins(c) ==
    /\ Locked(c)
    /\ Takes(c)
    /\ todo' = [todo EXCEPT ![c] = Pooled \ {my[c].key}]
    /\ Goes(c, "sweep", my[c])
    /\ UNCHANGED <<home, runs, sessions, pooled, mishaps>>

\* It reads how long a key has been idle ...
Looks(c) ==
    /\ pc[c] = "sweep"
    /\ \E k \in todo[c] :
          /\ todo' = [todo EXCEPT ![c] = @ \ {k}]
          /\ IF pool[k] # None /\ idle[k]
             THEN Goes(c, "count", [my[c] EXCEPT !.aim = k])
             ELSE UNCHANGED <<pc, my>>
    /\ UNCHANGED <<home, runs, sessions, pooled, holder, mishaps>>

\* A mutant: the sweep does not look for calls in flight.
CountsNothing(c) ==
    /\ pc[c] = "count"
    /\ Goes(c, "grip", my[c])
    /\ UNCHANGED <<home, runs, todo, sessions, pooled, holder, mishaps>>

\* ... then how many calls are in flight under it ...
Counts(c) ==
    /\ pc[c] = "count"
    /\ IF uses[my[c].aim] = 0 THEN Goes(c, "grip", my[c])
       ELSE Goes(c, "sweep", [my[c] EXCEPT !.aim = None])
    /\ UNCHANGED <<home, runs, todo, sessions, pooled, holder, mishaps>>

\* ... then the entry, which another loop may have taken ...
Grips(c) ==
    /\ pc[c] = "grip"
    /\ IF pool[my[c].aim] = None
       THEN Goes(c, "sweep", [my[c] EXCEPT !.aim = None])
       ELSE Goes(c, "evict", [my[c] EXCEPT !.entry = pool[my[c].aim]])
    /\ UNCHANGED <<home, runs, todo, sessions, pooled, holder, mishaps>>

\* ... and forgets the key, whatever is pooled under it by now
Evicts(c) ==
    /\ pc[c] = "evict"
    /\ Forget(my[c].aim)
    /\ st' = Closing(my[c].entry)
    /\ Goes(c, "sweep", [my[c] EXCEPT !.aim = None, !.entry = None])
    /\ UNCHANGED <<home, runs, todo, loop, uses, holder, mishaps>>

Swept(c) == pc[c] = "sweep" /\ todo[c] = {}

-----------------------------------------------------------------------------
\* create_session: the pooled session, or a new one

Finds(c) ==
    /\ Swept(c)
    /\ pool[my[c].key] # None
    /\ Goes(c, "pick", my[c])
    /\ UNCHANGED <<home, runs, todo, sessions, pooled, holder, mishaps>>

\* It has left the pool since: KeyError
PickMissing(c) ==
    /\ pc[c] = "pick"
    /\ pool[my[c].key] = None
    /\ Goes(c, Repeated(c), [my[c] EXCEPT !.tries = FALSE])
    /\ Release(c)
    /\ UNCHANGED <<home, runs, todo, sessions, pooled, mishaps>>

\* It is good: its last use is now, and the lock is given back
Reuse(c) ==
    LET k == my[c].key
    IN /\ pc[c] = "pick"
       /\ pool[k] # None
       /\ Reusable(c, pool[k])
       /\ idle' = [idle EXCEPT ![k] = FALSE]
       /\ Release(c)
       /\ Goes(c, "use", [my[c] EXCEPT !.mine = pool[k]])
       /\ UNCHANGED <<home, runs, todo, sessions, pool, uses, mishaps>>

\* It is not: close it.  If it is of this loop the caller waits for that, else
\* the closing is left to the other loop
Replace(c) ==
    LET s == pool[my[c].key]
    IN /\ pc[c] = "pick"
       /\ s # None
       /\ ~ Reusable(c, s)
       /\ st' = Closing(s)
       /\ Goes(c, IF loop[s] = home[c] THEN "replace" ELSE "forget",
               [my[c] EXCEPT !.mine = s])
       /\ UNCHANGED <<home, runs, todo, loop, pooled, holder, mishaps>>

\* A session is begun, its task is started and awaited
Begins(c) ==
    LET s == NewSession
    IN /\ \E u \in Session : Unused(u)
       /\ st' = [st EXCEPT ![s] = "starting"]
       /\ loop' = [loop EXCEPT ![s] = home[c]]
       /\ Goes(c, "create", [my[c] EXCEPT !.mine = s])

Make(c) ==
    /\ Swept(c)
    /\ pool[my[c].key] = None
    /\ Begins(c)
    /\ UNCHANGED <<home, runs, todo, pooled, holder, mishaps>>

\* A task has not to wait for its session to close, or has waited for the end of
\* the session's task (wait_for awaits that when it times out too)
HasClosed(t) ==
    \/ pc[t] = "forget"
    \/ pc[t] \in {"replace", "wait"} /\ st[my[t].mine] = "down"

\* _cleanup_session forgets the key, whatever is pooled under it by now
Replaced(c) ==
    /\ HasClosed(c)
    /\ Forget(my[c].key)
    /\ Begins(c)
    /\ UNCHANGED <<home, runs, todo, uses, holder, mishaps>>

\* The session is ready: it is pooled, and the lock is given back
Created(c) ==
    LET k == my[c].key
    IN /\ pc[c] = "create"
       /\ st[my[c].mine] \in Alive
       /\ pool' = [pool EXCEPT ![k] = my[c].mine]
       /\ idle' = [idle EXCEPT ![k] = FALSE]
       /\ Release(c)
       /\ Goes(c, "use", my[c])
       /\ UNCHANGED <<home, runs, todo, sessions, uses, mishaps>>

\* A mutant: the lock is kept.
KeepsLock(c) ==
    /\ pc[c] = "create"
    /\ st[my[c].mine] \in {"starting", "down"}
    /\ Goes(c, Repeated(c), [my[c] EXCEPT !.tries = FALSE, !.mine = None])
    /\ UNCHANGED <<home, runs, todo, sessions, pooled, holder, mishaps>>

\* The task of the new session has ended, or start() timed out and cancelled it
CreateFails(c) ==
    /\ pc[c] = "create"
    /\ st[my[c].mine] \in {"starting", "down"}
    /\ st' = [st EXCEPT ![my[c].mine] = IF @ = "starting" THEN "closing" ELSE @]
    /\ Goes(c, Repeated(c), [my[c] EXCEPT !.tries = FALSE, !.mine = None])
    /\ Release(c)
    /\ UNCHANGED <<home, runs, todo, loop, pooled, mishaps>>

-----------------------------------------------------------------------------
\* The call on the session (_call_tool_on_session, _execute_with_session)

\* _begin_session_use: before the caller awaits anything, but no longer under
\* the lock
BeginUse(c) ==
    /\ pc[c] = "use"
    /\ uses' = [uses EXCEPT ![my[c].key] = @ + 1]
    /\ Goes(c, "call", [my[c] EXCEPT !.ran = FALSE])
    /\ UNCHANGED <<home, runs, todo, sessions, pool, idle, holder, mishaps>>

\* Every way out of a call: one use less, _end_session_use
Leave(c, where, f) ==
    /\ uses' = [uses EXCEPT ![my[c].key] = @ - 1]
    /\ Goes(c, where, [f EXCEPT !.mine = None, !.aim = None, !.entry = None])

\* ... and the idle clock starts now, for what is pooled
ClockStarts(c) ==
    /\ idle' = [idle EXCEPT ![my[c].key] = @ /\ pool[my[c].key] = None]
    /\ UNCHANGED pool

\* The server runs the request
ServerRuns(c) ==
    /\ pc[c] = "call"
    /\ st[my[c].mine] \in {"open", "closing"}
    /\ ~ my[c].ran
    /\ my' = [my EXCEPT ![c].ran = TRUE]
    /\ runs' = IF c \in Lister THEN runs ELSE [runs EXCEPT ![c] = @ + 1]
    /\ UNCHANGED <<home, pc, todo, sessions, pooled, holder, mishaps>>

Answered(c) ==
    /\ pc[c] = "call"
    /\ my[c].ran
    /\ st[my[c].mine] \in {"open", "closing"}
    /\ Leave(c, "done", my[c]) /\ ClockStarts(c)
    /\ UNCHANGED <<home, runs, todo, sessions, holder, mishaps>>

\* After a call that the server has rejected: it is made once more
AfterRejection(c) == IF c \in Lister THEN Repeated(c)
                     ELSE IF my[c].again THEN "done" ELSE "lock"

\* A mutant: a tool call is retried on errors like a listing.
RetriesCalls(c) == Repeated(c)

\* After one that it may have run: a listing is made once more (retry_on_errors
\* of get_tools), a tool call is not
AfterFailure(c) == IF c \in Lister THEN Repeated(c) ELSE "done"

\* A mutant: whatever is pooled under the key.
DiscardsKey(c) == pool[my[c].key]

\* _discard_session: only the session that the call has failed on
Discarded(c) == IF pool[my[c].key] = my[c].mine THEN my[c].mine ELSE None

\* The server has forgotten the session and rejects the call without running it:
\* the caller reads the entry of the key ...
Terminated(c) ==
    /\ pc[c] = "call"
    /\ st[my[c].mine] = "gone"
    /\ ~ my[c].ran
    /\ Goes(c, "drop", [my[c] EXCEPT !.aim = my[c].key, !.entry = Discarded(c)])
    /\ UNCHANGED <<home, runs, todo, sessions, pooled, holder, mishaps>>

\* ... and pops it: whatever is pooled by now is forgotten, and what was read is
\* closed, unless another task has popped it meanwhile
Drops(c) ==
    /\ pc[c] = "drop"
    /\ Leave(c, AfterRejection(c),
             [my[c] EXCEPT !.again = TRUE, !.tries = c \notin Lister])
    /\ IF my[c].entry = None \/ pool[my[c].key] = None
       THEN ClockStarts(c) /\ UNCHANGED st
       ELSE Forget(my[c].key) /\ st' = Closing(my[c].entry)
    /\ UNCHANGED <<home, runs, todo, loop, holder, mishaps>>

\* Any other failure: the task of the session has ended (_run_guarded sees it),
\* the streams are closed, a timeout, an error of the tool
CallFails(c) ==
    /\ pc[c] = "call"
    /\ Leave(c, AfterFailure(c), [my[c] EXCEPT !.tries = FALSE]) /\ ClockStarts(c)
    /\ UNCHANGED <<home, runs, todo, sessions, holder, mishaps>>

-----------------------------------------------------------------------------
\* A caller is cancelled

\* ... waiting for the lock
CancelWaiting(c) ==
    /\ pc[c] = "lock"
    /\ Goes(c, "done", NoFrame)
    /\ Mishap
    /\ UNCHANGED <<home, runs, todo, sessions, pooled, holder>>

\* ... waiting for a session to close: SessionContext.close() swallows it, and
\* the task that it waits for is cancelled
CancelReplacing(c) ==
    /\ pc[c] = "replace"
    /\ st[my[c].mine] = "closing"
    /\ st' = [st EXCEPT ![my[c].mine] = "down"]
    /\ my' = [my EXCEPT ![c].cancelled = TRUE]
    /\ UNCHANGED <<home, pc, runs, todo, loop, pooled, holder, mishaps>>

\* ... waiting for its session to start: nobody refers to the session any more,
\* and its task goes on
CancelCreating(c) ==
    /\ pc[c] = "create"
    /\ Goes(c, "done", NoFrame)
    /\ Release(c)
    /\ Mishap
    /\ UNCHANGED <<home, runs, todo, sessions, pooled>>

\* ... during the call, which is cancelled and drained
CancelCall(c) ==
    /\ pc[c] = "call"
    /\ Leave(c, "done", my[c]) /\ ClockStarts(c)
    /\ Mishap
    /\ UNCHANGED <<home, runs, todo, sessions, holder>>

-----------------------------------------------------------------------------
\* close

CloseAsked(x) ==
    /\ pc[x] = "idle"
    /\ Goes(x, "lock", NoFrame)
    /\ UNCHANGED <<home, runs, todo, sessions, pooled, holder, mishaps>>

CloseBegins(x) ==
    /\ Locked(x)
    /\ Takes(x)
    /\ todo' = [todo EXCEPT ![x] = Pooled]
    /\ Goes(x, "close", NoFrame)
    /\ UNCHANGED <<home, runs, sessions, pooled, mishaps>>

\* The next key: its session is told to close, which is awaited if the session is
\* of this loop
CloseKey(x) ==
    /\ pc[x] = "close"
    /\ \E k \in todo[x] :
          /\ pool[k] # None
          /\ st' = Closing(pool[k])
          /\ Goes(x, IF loop[pool[k]] = home[x] THEN "wait" ELSE "forget",
                  [NoFrame EXCEPT !.key = k, !.mine = pool[k]])
    /\ UNCHANGED <<home, runs, todo, loop, pooled, holder, mishaps>>

\* It has left the pool since the list was made: KeyError
CloseMissing(x) ==
    /\ pc[x] = "close"
    /\ \E k \in todo[x] : pool[k] = None
    /\ Release(x)
    /\ Goes(x, "failed", NoFrame)
    /\ UNCHANGED <<home, runs, todo, sessions, pooled, mishaps>>

\* _cleanup_session forgets the key
Closed(x) ==
    /\ HasClosed(x)
    /\ Forget(my[x].key)
    /\ todo' = [todo EXCEPT ![x] = @ \ {my[x].key}]
    /\ Goes(x, "close", NoFrame)
    /\ UNCHANGED <<home, runs, sessions, uses, holder, mishaps>>

CloseEnds(x) ==
    /\ pc[x] = "close"
    /\ todo[x] = {}
    /\ Release(x)
    /\ Goes(x, "done", NoFrame)
    /\ UNCHANGED <<home, runs, todo, sessions, pooled, mishaps>>

-----------------------------------------------------------------------------
\* The task of a session, the server, the clock

\* Connected and initialized
Connected(s) ==
    /\ st[s] = "starting"
    /\ st' = [st EXCEPT ![s] = "open"]
    /\ UNCHANGED <<tasks, runs, loop, pooled, holder, mishaps>>

\* The server forgets the session; the streams close, or the task ends
Fault(s) ==
    /\ \/ st[s] = "open" /\ st' = [st EXCEPT ![s] = "gone"]
       \/ /\ Quiet(loop[s])
          /\ \/ st[s] \in {"open", "gone"} /\ st' = [st EXCEPT ![s] = "broken"]
             \/ st[s] \in Alive \cup {"starting"} /\ st' = [st EXCEPT ![s] = "down"]
    /\ Mishap
    /\ UNCHANGED <<tasks, runs, loop, pooled, holder>>

\* The task has left its contexts
Unwound(s) ==
    /\ st[s] = "closing"
    /\ st' = [st EXCEPT ![s] = "down"]
    /\ UNCHANGED <<tasks, runs, loop, pooled, holder, mishaps>>

\* 900 seconds pass without a use being noted, while all loops wait
GrowsIdle(k) ==
    /\ \A l \in Loop : Quiet(l)
    /\ pool[k] # None
    /\ ~ idle[k]
    /\ idle' = [idle EXCEPT ![k] = TRUE]
    /\ Mishap
    /\ UNCHANGED <<tasks, runs, sessions, pool, uses, holder>>

-----------------------------------------------------------------------------
\* What a caller does, but for its waits, under the lock
Sweeping(c) == Looks(c) \/ Counts(c) \/ Grips(c) \/ Evicts(c)
Picking(c) ==
    Finds(c) \/ PickMissing(c) \/ Reuse(c) \/ Replace(c) \/ Make(c) \/ Replaced(c)
Creating(c) == Created(c) \/ CreateFails(c)

Cancelled(c) ==
    CancelWaiting(c) \/ CancelReplacing(c) \/ CancelCreating(c) \/ CancelCall(c)

Calling(c) ==
    \/ \E k \in Key : Start(c, k)
    \/ SweepBegins(c) \/ Sweeping(c) \/ Picking(c) \/ Creating(c)
    \/ BeginUse(c) \/ Answered(c) \/ Terminated(c) \/ Drops(c) \/ CallFails(c)
    \/ Cancelled(c)

Closes(x) == CloseKey(x) \/ CloseMissing(x) \/ Closed(x) \/ CloseEnds(x)

ClosingAll(x) == CloseAsked(x) \/ CloseBegins(x) \/ Closes(x)

SessionTask(s) == ~ Unused(s) /\ Quiet(loop[s]) /\ (Connected(s) \/ Unwound(s))

Environment ==
    \/ \E s \in Session : SessionTask(s) \/ (~ Unused(s) /\ Fault(s))
    \/ \E k \in Key : GrowsIdle(k)
    \/ \E c \in Caller : ServerRuns(c)

Next ==
    \/ \E c \in Caller : Turn(c) /\ Calling(c)
    \/ \E x \in Closer : Turn(x) /\ ClosingAll(x)
    \/ Environment

\* The tasks of a loop get their turns, and the waiters for its lock get it in
\* turn (an asyncio lock is first in, first out); the waits under the lock have
\* timeouts.  Nothing is assumed of the server or of the calls.
GoesOn(c) ==
    \/ SweepBegins(c) \/ Sweeping(c) \/ Picking(c) \/ Creating(c)
    \/ BeginUse(c) \/ Drops(c)

Fairness ==
    /\ \A c \in Caller : SF_vars(Turn(c) /\ GoesOn(c))
    /\ \A x \in Closer : SF_vars(Turn(x) /\ (CloseBegins(x) \/ Closes(x)))
    /\ \A s \in Session : WF_vars(~ Unused(s) /\ Quiet(loop[s]) /\ Unwound(s))

Spec == Init /\ [][Next]_vars /\ Fairness

-----------------------------------------------------------------------------
(***************************************************************************)
(* Properties.                                                             *)
(***************************************************************************)

\* A caller makes its call on a session of its own event loop, though the pool
\* is shared by all of them: the streams of a session work on one loop only.
NeverForeign ==
    \A c \in Caller : pc[c] = "call" => loop[my[c].mine] = home[c]

\* A tool call reaches the server at most once, whatever fails and is tried
\* again: a repeated call would repeat its effects.
AtMostOnce == \A c \in Caller \ Lister : runs[c] <= 1

\* A call that ends, well or badly, never closes a session that the server still
\* knows: of two callers that find their session forgotten, the second leaves
\* the replacement alone that the first has pooled.
DiscardSparesLive ==
    [][\A c \in Caller, s \in Session :
         /\ pc[c] \in {"call", "drop"} /\ pc'[c] # pc[c] /\ st[s] = "open"
         => st'[s] = "open"]_vars

\* The sweep of idle sessions defers to calls in flight: what a caller of one
\* key does, on any loop, never closes the session that a caller of another key
\* calls on.  Left out are the sweeps of other loops, see SweepsSpareAll.
SweepSparesCalls ==
    [][\A c, d \in Caller :
         /\ pc[c] = "call" /\ st[my[c].mine] \in Alive
         /\ pc[d] # pc'[d] /\ my[d].key # my[c].key
         /\ pc[d] = "evict" => home[d] = home[c]
         => st'[my[c].mine] # "closing"]_vars

\* This does NOT hold: another loop can hand the session out, and use it, after
\* the sweep has counted its calls and before it forgets and closes it.
SweepsSpareAll ==
    [][\A c, d \in Caller :
         /\ pc[c] = "call" /\ st[my[c].mine] \in Alive
         /\ pc[d] # pc'[d] /\ my[d].key # my[c].key
         => st'[my[c].mine] # "closing"]_vars

\* Whoever asks for a session gets one, or an error, in the end: no failure,
\* timeout or cancellation of another caller leaves the lock taken.
NeverParked ==
    \A c \in Caller :
        pc[c] \in {"lock", "replace", "create"} \cup Running
            ~> pc[c] \in {"call", "done"}

\* "Closes all sessions and cleans up resources": when close() ends, none of the
\* sessions that it has found is left open in the pool.
ClosesAll ==
    [][\A x \in Closer :
         pc[x] # pc'[x] /\ pc'[x] \in {"done", "failed"}
         => \A k \in todo'[x] :
              pool'[k] = None \/ st'[pool'[k]] \notin Alive]_vars

=============================================================================
