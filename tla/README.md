# TLA+ models of ADK for Python

These modules model the parts of the Agent Development Kit whose correctness
depends on the order in which concurrent or restarted work happens: the locks
and transactions of the database session service, the event queue and exit paths
of an invocation, the graph engine of workflows with its replay, the parallel
worker and the dynamic nodes of a node's body, the step loop of an LLM agent with
its tool calls, pauses and confirmations, and the pool of MCP sessions. TLC checks
them on small instances; TLAPS proves most of their safety for every instance.

Paths below are relative to `src/src/google/adk/`. `PROJECT.json` maps each
definition to the lines it stands for, and lists components, runs, hazards,
findings and theorems in full.

## The system

A caller gives a message to a `Runner`. The runner loads the session from a
session service, builds an `InvocationContext` and starts the root node (an
agent or a `Workflow`) in a task of its own. Nodes produce events; they travel
through a queue to the runner's main loop, which runs plugins, appends each event
to the session and yields it to the caller. What a later invocation knows of an
earlier one is what the session's events say.

| component | state it keeps | operations | what is hard | what makes it correct |
|---|---|---|---|---|
| session locks (`sessions/database_session_service.py`) | registry of `asyncio.Lock`s with reference counts | enter, acquire, release, leave | locks that come and go while tasks wait, nesting, cancellation | one mutex per key, no leak, no deadlock |
| database sessions (same file, `schemas/v1.py`) | rows of sessions, events, app and user state; a marker in every loaded copy | create, get, append, delete | several processes, lost answers, rollbacks, merges of shared rows | no append on top of unseen events, no lost delta |
| runner (`runners.py`, `utils/_runner_utils.py`, `workflow/_node_runner_utils.py`) | event queue, abort state, root task | consume, append, close, cancel, abort, seal | every exit path, with producers parked on the queue | nodes see their events, aborted runs are sealed, every run ends |
| node runner (`workflow/_node_runner.py`) | attempt counter, output and deltas of one node run | run, retry, flush | retries against events still queued | a retry sees what came before it |
| workflow engine (`workflow/_workflow.py`) | triggers, join arrivals, run counters, pending tasks | schedule, handle completion, drain, finalize | loops, joins, concurrency limit, errors, aborts | runs are not lost or repeated, every turn ends |
| workflow replay (`workflow/utils/_replay_*.py`, `_rehydration_utils.py`) | index of events, recorded sequence, barrier | scan, intercept, wait, advance | resuming deterministically from events alone | replayed runs come in the recorded order, with the recorded outcome |
| dynamic node scheduler (`workflow/_dynamic_node_scheduler.py`) | runs by path and run id, counters | run, share, rehydrate, replay, reset for a retry, transfer | re-execution of a body whose children already ran, beside callers that an earlier attempt has left behind | callers get the results of their own calls, what completed is replayed, what was rejected is not |
| parallel worker (`workflow/_parallel_worker.py`) | item tasks | start, collect, drain | one item fails or the worker is cancelled | limit, order of results, nothing left running |
| composite agents (`agents/loop_agent.py`, `sequential_agent.py`, `parallel_agent.py`) | agent state in events | iterate, resume | resuming in the middle | no step twice, none skipped |
| LLM flow (`flows/llm_flows/`) | none beyond the session | model call, batch of calls, pause, replay, confirmed calls | answers that come one by one over several turns, repeated, or after a crash or an abort | the model is called when all is answered, no tool runs twice or without approval, every turn ends |
| MCP sessions (`tools/mcp_tool/`) | sessions by key, use counts, a lock per event loop | create, reuse, replace, evict, discard, close | several event loops, dead or forgotten sessions, cancellation under the lock | no foreign session, no second call, nobody waits for ever |
| live flow (`live/`) | request queue, connection, background tools | send, receive, reconnect | two tasks and a connection that drops | nothing sent twice or lost |
| compaction, rewind (`apps/compaction.py`, `sessions/_rewind_utils.py`) | events | summarise, rewind | a newer turn meanwhile, deltas in order | state equals that of the events kept |
| artifacts, memory, auth, plugins, models, A2A | versions, credentials, caches | see `PROJECT.json` | caches | later, or not modelled |

The rest (command line and servers, evaluation, telemetry, code executors,
integrations, tools that call services) is input and output around this core.

## Modules

| module | models | written |
|---|---|---|
| `KeyedMutex` | the promise of the locks: at most one holder per key | abstract specification |
| `SessionLocks` | `_with_lock`, `_with_session_lock`, `_with_shared_state_locks` and their use | implements `KeyedMutex` |
| `SessionLocks_proofs` | theorems about `SessionLocks` | proved |
| `SessionStore` | `get_session`, `append_event`, `create_session`, `delete_session` over a database | checked and proved |
| `SessionStore_proofs` | theorems about `SessionStore` | proved |
| `Invocation` | `_enqueue_event`, `_consume_event_queue`, `_cleanup_root_task`, sealing, `_run_invocation_lifecycle` | checked and proved |
| `Invocation_proofs` | theorems about `Invocation` | proved |
| `Workflow` | `Workflow._run_impl` over the turns of an invocation, with replay | checked and proved |
| `Workflow_proofs` | theorems about `Workflow` | proved |
| `ParallelWorker` | `_ParallelWorker._run_impl` and its drain; the item runs as dynamic nodes, with replay | checked and proved |
| `ParallelWorker_proofs` | theorems about `ParallelWorker` | proved |
| `DynamicNodes` | `DynamicNodeScheduler` under `NodeRunner.run`: the `ctx.run_node` calls of one node's body over attempts and turns | checked and proved |
| `DynamicNodes_proofs` | theorems about `DynamicNodes` | proved |
| `LlmFlow` | `BaseLlmFlow`'s steps, `decide_step_resume`, batches of calls, confirmations, aborts | checked and proved |
| `LlmFlow_proofs` | theorems about `LlmFlow` | proved |
| `McpSessionPool` | `MCPSessionManager`, `SessionContext`, the retries of `McpTool` and `McpToolset`, `close` | checked and proved |
| `McpSessionPool_proofs` | theorems about `McpSessionPool` | proved |
| `MC...` | constants of the instances that TLC checks | |

### SessionLocks

`locks` and `refCount` are the two dictionaries, `owner` and `waiters` the inside
of the lock objects (asyncio's, so external), `frame[t][k]` the local variable
`lock` of an open `_with_lock(k)` of task `t`. An operation wants a set of keys:
`append_event` its session's key and those of the shared rows its delta touches,
`create_session` only the latter. `Enter` is the first guarded block of
`_with_lock`, `Acquire`/`Granted`/`Release` the `async with lock`, `Leave` the
guarded block of its `finally`. `Cancel` is a cancellation during the wait. Lock
objects are identities of a small pool that may be handed out again once nothing
refers to them, as `asyncio.Lock()` may. The registry's own lock is not a variable:
its blocks contain no other await and are single steps.

### SessionStore

`disk` is what is committed, `view` what a statement sees (the two differ only when
all transactions share one connection), `copy` each client's `Session`, `tx` what
its open transaction has read. A client goes through `Call` (the event gets its
timestamp), `Lock` (the in-process locks, whose own working is `SessionLocks`'
subject), `ReadRow`, `Check` (the marker, and the app row), `Flush`, `Commit`; at
any point it may `Fail`, which rolls back, and a commit may be done without its
caller hearing of it (`CommitUnheard`). `get_session` is two steps, the row and
the events. `dialect` is chosen at the start: `"rows"` has `SELECT ... FOR UPDATE`
(PostgreSQL, MySQL, MariaDB), `"file"` has `BEGIN IMMEDIATE` (a SQLite file),
`"shared"` is SQLite's `:memory:` with `StaticPool`. Timestamps are distinct
numbers in no particular order, since several machines' clocks make them. Only
the app's row stands for shared state; the user's is handled alike.

### Invocation

`queue` is `ic._event_queue` with events, partial events, retry barriers and the
sentinel. A node `parked` waits for the signal of its last item, `acked` has been
signalled but has not run yet. `consumer` follows `_consume_event_queue` (top of
the loop, waiting in `asyncio.wait`, the one extra turn of the event loop after an
abort, holding an item, suspended in `yield`); `phase` follows `run_node_async` and
the lifecycle around it. `ending` is what the lifecycle's handlers see: the normal
end, `GeneratorExit`, `CancelledError` or another exception. `synthesized` is the
flag of `_AbortState`. An append that fails or is cancelled may or may not have been done.

`_drive_root_node` awaits the root node's own run and then puts the sentinel, whatever
happened. A workflow's loop has waited for its nodes by then; a body that gathers children
and fails with one of them has not, and a parallel worker abandons the items that do not
end in time (`_parallel_worker.py:255-291`). So a node of `Detached` may be left behind at
any time (`LeftBehind`): it is `loose` from then on and runs on, `RootEnds` no longer waits
for it, and it may put events behind the sentinel or park on a queue that nobody reads.

### Workflow

`session` holds the outcome events of static node runs: result, interrupt, answer,
error. A run is named by its node and its run id, as in `name@run_id`. Within a turn
the variables are those of `_LoopState`; when a turn is over (interrupted, failed,
aborted, crashed) only `session` is left, and `Resume` starts the loop again with a
fresh state, possibly after adding answers. `sequence` is computed by `_scan_sequence`
and held by the barrier, `finished` is its set of completed keys. `Schedule` is
`_schedule_ready_nodes`: it starts as many buffered nodes as the limit allows; a
run whose outcome the events have (`Settled`: a result, or a recorded route even if the
node is to be run again after an answer) is `held` at the barrier instead of executed.
`limit` is `max_concurrency`, chosen at the start from `Limits`.
`Wake`, `Handle`, `Drain`, `Cleanup` and `Finalize` are the parts of `_run_loop` and
`_run_impl`; `Execute`, `Finish`, `Replay` and `TimeOut` are the node tasks. The
graph is a constant; `Does` says what the k-th run of a node may end in.

What the code keeps in lists is here a set where only the order among its members
matters: `sequence` is a set of places, each with its position `at` among the events, and
`batch` the set of finished tasks the loop is going through, of which `NextDone` picks the
one that comes first (`GoesBefore`: by recorded place in the loop, by start when the loop
drains after an error, which is what `pc` tells apart). `Filter` is written as a
recursive function, so that what it returns can be proved.

### ParallelWorker

`pending`, `index`, `interrupted` and `results` are the local variables of
`_ParallelWorker._run_impl`; `results[i]` holds the item whose execution made what
stands in place i. `Schedule` is the inner loop up to `asyncio.wait`, `Collect` and
`CollectFailure` what follows it, `Drained`, `DrainTimeOut` and `CancelAgain` the ways
out of `_drain_pending_items`; `Cancel` is the cancellation of the worker's own task,
by an abort, a failed sibling or its timeout. An item's task goes through `Start`
(`_execute_step`: run id, rehydration, interception), `Execute` and `Finish`, or waits
at the barrier for `Release`; `Stop` is the end of a cancelled one, which may also go
on and end as if nothing had happened. As in `Workflow`, only `session` outlives a
turn. `sequence` is scanned when the turn begins, since the barrier is made before the
first item records anything. Tasks take their first steps in the order in which they
were created, as asyncio's ready queue is first in, first out, and no await comes
before the run id. `rerun`, the wrapped node's `rerun_on_resume`, is chosen at the start.

### DynamicNodes

One parent node, one child node, and a body that gathers callers, each of which makes
a sequence of calls of that child; a call names its run (`run_id=...`) or is `Unnamed`.
`counter` is the parent's entry of `run_counters`, `snapshot` the `counters_at_start`
of the attempt, `runs` the dictionary of `DynamicNodeRun`s. A frame `<<a, c>>` is caller
c of attempt a: the callers of a failed attempt stay in the background, as those of
`asyncio.gather` do, and go on with their calls. `execs` are the tasks of executions,
each kept at the caller that started it, with those who wait for it; `ready` is the event
loop's queue of callers that have been woken. `Enter` is one call of `_execute_step` up to
its first await: it allocates the run id, rehydrates (`Recovered`), and joins a run that
is under way, waits at the barrier to replay a completed one, or starts an execution.
`Record`, `Return` and `Fail` are the child's task, `Wake` the caller behind its await,
`CancelWaiting` a caller whose time is up. `Retry` is `NodeRunner.run`'s next attempt,
which rewinds the counter after the failure of a child and not after a failure of the
body itself (`Rewound`). It comes when the queue is empty: the callers of the new attempt are
tasks that gather creates, and go behind those that have been woken before. The rewinding,
the wait for queued events and the new snapshot are one step: what the callers of the
failed attempt count in between, which goes into the snapshot, is left out. Only `log`
outlives a turn.

`rejected`, `kept`, `before` and the results in `got` are notes for the properties. Left
out: children that ask the user, transfer or are retried themselves; nesting; the time
between an event and its append, which `Invocation` deals with. What a turn leaves behind
stops when the turn is over, an execution that is cancelled stops at once, and a failure
is recorded in the step in which the child ends.

### LlmFlow

One invocation of one agent. `log` is the list of its events, and everything a step
decides is read off it, as in the code: `Fresh` and `OnlyRepeats` are the confirmation
processor, `MustPause`, `Owed` and `ToReplay` are `decide_step_resume` and its helpers.
A turn is opened by the user (`Open`, `Answer`, `Resume`) and goes through `step` (the
confirmed calls), `decide`, `model` or a batch in `tools`, and `emit`, where the events
of the batch are yielded one by one; `StepEnds` is the loop in `run_async`. A batch ends
with `AllReturned`, or with a call that raises, where `Kept` says what becomes of the
others' results. A `Raise` appends one event, which stands for the kept results, if there are
any, and the error event without content that the node runner records
(`_node_runner.py:204-218`); a later turn sees of it that something stands behind the calls,
which makes `decide_step_resume` pause where it would replay. `Resume` sends no message; as
in the code it is not asked whether the invocation had come to its end. `Crash`
may come at any point, `Abort` too, with the events of `_build_abort_events`. Ordinary,
long-running and gated calls are disjoint sets; a gated call stands for its own request for confirmation, of which there is one.

Left out: sub-branches, transfers and task delegation, auth, output schemas, callbacks,
streaming and live; a second request for the same call; the end-of-agent checkpoint,
which has no content; two turns at a time in one session. Names stand for ids: a call
and an answer match when they are the same call.

### McpSessionPool

Tool calls and listings (`Caller`), and tasks that close the manager (`Closer`), spread
over event loops. `pool` is `_sessions` and `_session_contexts`, `uses` the use counts,
`holder` the lock of each loop, `st` and `loop` a `SessionContext`'s state and loop. A
caller waits in `lock`, takes the lock and sweeps the pool of idle sessions
(`SweepBegins`): for each key it reads the time of its last use (`Looks`), the use count
(`Counts`) and the entry (`Grips`), and then forgets the key and closes what it has read
(`Evicts`). If there is an entry under its own key (`Finds`) it picks it and goes on
with it when it is good (`Reuse`), or has it closed and makes another when it is dead or of
another loop (`Replace`, `Replaced`); else it makes one (`Make`, `Created`). It gives the
lock back, counts its use (`BeginUse`) and calls. `Terminated` and `Drops` discard a session
that the server has forgotten, `CallFails` is any other failure, with the retries of each.
`CloseBegins`, `CloseKey` and `Closed` walk through the keys that `close()` has listed. A
session goes through `Connected`, `Fault` and `Unwound`.

The lock is one per loop, and loops are threads. So the tasks of one loop take turns at
their awaits (`Turn`: while one stands between two awaits, in `Running`, the others of its
loop do nothing), whereas tasks of other loops come in between any two of these steps; that is
how an entry can be gone when it is picked (`PickMissing`), or another than the one that has
been counted. One step are the pops of one `_forget_session` with the order to close
that goes with them, and the read of an entry with the questions put to its session. What
another thread pools between a read and the forgetting drops out of the pool unclosed. Time
passes (`GrowsIdle`) while all loops wait. A session that nobody refers to any more is
`Unused` and may stand for a new one. `KeysOf` says which keys a caller may use.

## Runs

| run | instance | shows |
|---|---|---|
| `session_locks` | 3 tasks, one session, its user and app, 4 lock objects | `MutualExclusion`, `RegistryExact`, every call returns, `KeyedMutex` is implemented |
| `session_store` | 2 clients of one session in two processes, a third client of another session in the first process; row locks and file; 4 stamps | `FreshCopiesAreComplete`, `NoBlindAppend`, `NoDeltaLost` |
| `session_store_shared` | the same with one shared connection | violation of `RollbacksAreOwn` |
| `invocation` | two nodes, with 2 and 1 events to put, the second of which may be left behind | `NodesSeeTheirEvents`, `RetrySeesSiblings`, `SealedAtMostOnce`, `AbortedIsSealed`, `EverythingSaid`, `EveryRunEnds` |
| `workflow` | a loop of two steps and a decision with a join and a setup step that asks the user; 3 turns, limits 1 and 2 | `OneResultPerRun`, `NeverStuck`, `CompletedMeansDrained`, `ReplayInOrder`, `JoinInputsAdvance`, `EveryTurnEnds` |
| `parallel_worker` | three items, two at a time, 3 turns: one may leave no event, one may fail or be cancelled from within, one may ask | `ResultsInPlace`, `OneResultPerItem`, `NothingLeftRunning`, `InterruptSparesSiblings`, `NeverStuck`, `WorkerEnds` |
| `dynamic_nodes` | three bodies: two unnamed calls; a shared run whose one caller goes on; an unnamed call followed by a named one, beside another; 3 attempts, 2 turns, 2 mishaps | `OwnResults`, `RejectedStayRejected`, `RetryReplays`, `TurnsReplay` |
| `dynamic_named` | one named call, 2 attempts | violation of `RejectedRunAgain` |
| `llm_flow` | an ordinary, a long-running and a gated call, 3 turns, two crashes, aborts or failing calls; resumable or not | `ModelSeesAnswers`, `LongRunsOnce`, `RecordedNeverReruns`, `ApprovedRuns`, `SealedNeverRuns`, `TurnEnds` |
| `llm_results` | two gated calls | violation of `ResultsAreKept` |
| `mcp_pool` | a tool call, a listing and a closer, 2 keys (the first caller uses the first), 3 sessions, in the threads of one loop or two, one fault, cancellation or idle time | `NeverForeign`, `AtMostOnce`, `DiscardSparesLive`, `SweepSparesCalls`, `NeverParked` |
| `mcp_close` | three tool calls and a closer on one loop, 3 keys | violation of `ClosesAll` |

Deadlock is checked for the two session modules. It is not for the others, where
an invocation, a workflow, a worker, a body, a turn or a set of calls that has ended
stops; that they do end is `EveryRunEnds`, `EveryTurnEnds`, `WorkerEnds`, `TurnEnds`
and `NeverParked`.

**Bounds.** Three tasks are the least that put a lock's holder, a waiter and a
newcomer on one key, which is what dropping an entry too early takes. Four stamps
let a session be created, deleted and created again under an append, or two
sessions take one event each with a delta. Two nodes are enough for a sibling that
is cancelled while parked; two events let a node depend on its earlier one. Two
runs per node are one trip around the loop, and three turns let a replay be
interrupted by a crash and replayed again. A node has one partial event queued at
a time, and a run that has been answered does not ask again. Three items and a
limit of two let a later item overtake an earlier one, so that the recorded order
differs from the order of the list and the replay has to reproduce it under the limit.
Three attempts and two mishaps let a rejection be followed by the failure of a child,
whose rewinding must stop at the rejected runs; two callers leave one behind that goes
on while the next attempt runs. Three turns let a pause with two open answers come back
answered one by one, or with a repetition or after a crash; four turns with one mishap, and
two gated calls over three turns, were checked once as well (1.0 and 2.1 million states). One
mishap in `mcp_pool` is one reason to replace, discard or sweep a session while the
three tasks meet over it; cancellations of a replacement are not counted. Its safety
properties were checked once with two mishaps as well (1.3 million states).

**Symmetry** is used in `mcp_close` only, which looks for a violation of a safety
property and whose keys are alike. The other runs check liveness, or identities matter.

**Fairness.** `SessionLocks`: the event loop runs every ready task, and the body of
an append ends (weak fairness of what a task does next; calls and cancellations
are not owed). Weak fairness is enough because an asyncio lock wakes its waiters in
order. `Invocation`: ready tasks run, a node's code ends, a cancelled task ends, the
caller either goes on iterating or closes the generator; a node that is left behind owes
nothing once the root task is cancelled. A caller that drops the generator
without closing it is outside what the code can promise. `Workflow`: the
loop and each node's task make progress, and the barrier's timer fires. `ParallelWorker`:
the same, with the drain's timer; nothing is assumed of an item that has been
cancelled, so `WorkerEnds` rests on that timer. `LlmFlow`: an open turn goes on, that is,
models and tools return (`LiveSpec` of `MCLlmFlow` says so without `ENABLED`; that an
open turn can always go on was checked on the same instance as an invariant of its own);
the user's messages, crashes and aborts are not owed. `McpSessionPool`: a task gets its
turns and its lock in the end, since a loop's ready queue and an asyncio lock are first in,
first out (strong fairness of its steps in its turns, as the model has no queues), and the
waits under the lock have timeouts; nothing is assumed of the server or of calls.
`SessionStore` and `DynamicNodes` promise no progress
and have only safety properties.

## What the violations show

* `session_store_shared`: on the shared connection a failing call's rollback takes
  back what another append has flushed. A test of the repository avoids
  `:memory:` for this reason (`tests/unittests/sessions/test_session_service.py:1786`).
* `dynamic_named`: a body that rejects what its child returned and raises is promised
  new results by the guide on retries. A call with a `run_id` of its own is found
  completed and replayed, in every attempt.
* `llm_results`: when one of two approved calls raises, the result of the other, which
  has had its effects, is dropped, since only the postprocessor of a model's batch takes
  the kept results off the error. Approving again runs it a second time.
* `mcp_close`: `close()` walks through a list of keys and awaits in between; a failing
  call that discards its session meanwhile makes it stop with a `KeyError`, which
  the toolset swallows, and the remaining sessions stay open.

More came out of the modules than the runs show. These are properties that do not
hold, kept as definitions with a remark where they are in a module:

* `Workflow.ReplaySameInputs`: events are recorded when a node emits its output, but the
  loop handles tasks when they end. When the two orders differ, a resumed workflow hands
  a recorded result to a run with another input.
* `Workflow.JoinsFired`: a predecessor that runs again when the last predecessor arrives
  makes the join miss its moment, and the workflow completes without it.
* `Workflow.NeverStuck` holds of the run's graph and fails in others; each further resume then
  fails after 15 seconds with a message about divergence. Three things can lead to it.
  A join whose predecessor may run again before it fires: START → (p, x), p → d,
  d → p on a route, p → j, x → j. In the first turn d and x end together, so j fires when p has
  run once, and j's result is recorded before p's second; then the process dies. On resume d is
  handled first and p's second run is held at the barrier when x arrives, so j is not
  fired, and p waits for j, which nothing will start. A task agent: START → (a, c, t),
  a → b, where t ends without its output and a, b, c are recorded in this order before a crash.
  On resume t ends first, `_has_waiting_task_agent` (`_workflow.py:487`) keeps b from starting,
  and c waits for b. A run that leaves no event and, when it is executed again, takes
  another route or leaves one, which then stands behind those of the nodes that follow it.
  `NeverStuckIfJoinsKeepUp` says that there is no fourth.
* `Workflow.DivergenceIsReal`: the barrier's 15 seconds run out while a node that left
  no event executes again, and the turn fails with a message about divergence.
* `Invocation.NobodyLeftBehind`: a comment in the main loop (`runners.py:783-784`) says that
  producers which are parked when the run is over are released by `_cleanup_root_task`. That
  task cancels the root task; a node that was left behind by a body which gathers, or abandoned
  by a parallel worker, is none of its children any more and stays parked on a signal nobody
  sets. What holds is `EverythingSaid`: nothing said by a node that was waited for is missing.
* `Invocation.CancelledIsSealed`: the flag `event_synthesized` is set before the sealing
  events are appended, so a cancellation during that append leaves an aborted run
  without a seal.
* `ParallelWorker`: an item that left no event is executed again by a later turn. If it
  leaves an event then, that event stands behind those of items which had overtaken
  it, and with the limit full of items that wait for each other at the barrier the
  recorded order cannot be reached: each further resume fails after 15 seconds.
  The other way to get stuck is an open question (`QuestionsKeepNobodyOut`): in the
  original turn an item scheduled before the worker had collected the question may be
  recorded before another of its pool; a replay collects the question at once, schedules
  no more, and an item that is in the pool waits for the one that is not. It takes four items
  and a limit of three. `NeverStuck` says that there is no third way.
* `DynamicNodes.OwnResults` is limited to bodies whose callers make one unnamed call each,
  as their first. When they go on to make unnamed calls, one that a failed attempt has
  left behind takes run ids that its successor counts on, and results change places.
* A run of `DynamicNodes` may be executed twice within a turn: by a call made after the
  execution has ended and before its owner has been woken. If that second execution fails,
  or is still going on when the attempt is retried, the retry executes what the failed attempt
  had completed, or joins its execution. `RetryReplays` therefore speaks of the runs that are
  completed and that nobody executes when the retry begins (`Stays`). Without that restriction
  TLC finds a counterexample with two callers that name the same run and three mishaps, and
  with two unnamed calls in four attempts; two mishaps are too few. Two executions of one run may even overlap: an
  owner that is cancelled drops the entry of its key, although the entry may be that of
  a later execution.
* `LlmFlow.PausesForTheUser`: a resumable invocation can be left in a pause that no answer
  ends. After a crash in a batch of an ordinary and a long-running call, or the failure of a
  sibling, the ordinary call's answer is never made up for; and after any call that raises, the
  node runner's error event stands behind it, so a resume pauses (`_resume.py:374-380`)
  although there is nothing to wait for.
* An approved call that runs when the invocation is aborted is run again on a resume, and a
  request that the abort has answered can still be approved. An approval that is cut short by a
  crash is lost when the next message decides another request; when it is sent again,
  the message counts as a repetition for all later resumes. Without resumability, an approval
  sent again together with the answer to another long-running call runs an unanswered
  long-running call once more.
* `McpSessionPool.SweepsSpareAll`: "Sessions with a call in flight are skipped", says
  `_evict_idle_sessions` (`mcp_session_manager.py:1309`). With loops in two threads, one that
  sweeps finds a key idle, counts no call under it and reads its entry; a task of the other
  loop then picks that session, counts its use and calls; the sweep goes on, forgets the key and
  closes the session in use. TLC finds this on the instance of `mcp_pool`. `SweepSparesCalls` is
  the part that holds: sweeps spare the calls of their own loop.
* `McpSessionPool`: a cancellation while a dead session is replaced is swallowed
  (`session_context.py:403-405`) and the call goes on; one during a creation leaves the
  task of the new session running with nobody referring to it; a closer may drop the
  entry of a session another loop has just put under its key.

## Proofs

| module | what is proved |
|---|---|
| `SessionLocks_proofs` | `TypeOK`, `MutualExclusion`, `RegistryExact`, refinement of `KeyedMutex` |
| `SessionStore_proofs` | `TypeOK`, `FreshCopiesAreComplete`, `NoBlindAppend`, `NoDeltaLost` |
| `Invocation_proofs` | `TypeOK`, `NodesSeeTheirEvents`, `RetrySeesSiblings`, `SealedAtMostOnce`, `AbortedIsSealed`, `EverythingSaid` |
| `Workflow_proofs` | `TypeOK`, `OneResultPerRun`, `ReplayInOrder`, `JoinInputsAdvance`, the concurrency limit, what is left when the loop stops; `NeverStuck` and `CompletedMeansDrained` of graphs in which no join is overtaken |
| `ParallelWorker_proofs` | `TypeOK`, `WithinLimit`, `ResultsInPlace`, `OneResultPerItem`, `NothingLeftRunning`, `InterruptSparesSiblings`, `NeverStuck` |
| `DynamicNodes_proofs` | `TypeOK`, `RejectedStayRejected`, `TurnsReplay`; `OwnResults` and `RetryReplays` of bodies whose callers make one unnamed call each, as their first |
| `LlmFlow_proofs` | `TypeOK`, `RecordedNeverReruns`, `SealedNeverRuns`, `ApprovedRuns`, `ModelSeesAnswers`, `LongRunsOnce` |
| `McpSessionPool_proofs` | `TypeOK`, `NeverForeign`, `AtMostOnce`, `DiscardSparesLive`, `SweepSparesCalls` |

The theorems hold for every value of the constants that satisfies the named
assumptions beside their declarations. Each module has an inductive invariant,
`IInv` (`Workflow`, `ParallelWorker` and `DynamicNodes` have others on top of it); one lemma per action, or per group of actions that change the same
variables, shows that it is kept, and the properties follow from it. The invariants of
`Invocation` and `Workflow` were checked by TLC before they were proved, that of
`Workflow` on a second graph as well, with two joins, a task agent and errors.

* **SessionLocks.** `MutualExclusion` alone is not inductive: a task that is about
  to acquire must be known to hold the very lock object that the registry maps its
  key to. The invariant says that every open frame of a key refers to the
  registered lock (`FramesAgree`), that different keys have different locks
  (`LocksDistinct`), that a count is the number of frames (`CountsExact`), so an entry
  is dropped only by its last user (`EntriesInUse`), and that who is inside owns the
  lock (`OwnersInside`). The refinement follows: taking and giving the abstract mutex are
  `Acquire` or `Granted` and `Release`, all other steps stutter.
* **SessionStore.** The theorems are about transactions that are isolated from each
  other (`Isolated`: row locks or a SQLite file); for the shared connection
  `session_store_shared` refutes what they rest on. The invariant says that an open
  append keeps the row as it read it (`RowsHeld`, `AppHeld`) because it has excluded
  other writers (`RowsExclusive`, `AppExclusive`), and that the stamp of an event
  on its way is nowhere else (`EventsNew`, `StampsUsed`): without that a marker could
  match by accident.
* **Invocation.** The invariant follows each item that a node waits for: it is on
  the queue, in the consumer's hand or processed, and only once (`Single`, `OwnOnly`,
  `NothingLost`). A retry's barrier is behind everything put before it (`InOrder`),
  which is what makes `RetrySeesSiblings` inductive. The sealing flag is set before the
  seal is in the session (`SealFlagged`) and after every aborted exit
  (`SealedWhenAborted`). For `EverythingSaid`: the sentinel is there only once the root task
  has ended (`SentinelPut`), what is behind it on the queue comes from nodes left behind
  (`SentinelLast`), and a run that ends by itself ends at the sentinel (`OwnEnd`).
* **Workflow.** The invariant has four groups. Who is in flight is pending, has a run and
  is `RUNNING` (`InFlight`), a replayed task is held, done or raised (`ReplayedTasks`), and
  pending runs that are not replayed keep the limit (`Limited`): of the nodes one pass
  of `Schedule` starts, all but the last are counted ahead of the last. A run with a result
  has nothing after it (`ResultsLast`) and does not execute (`LiveIsNew`), whence
  `OneResultPerRun`. For `ReplayInOrder`: a run has one place (`OnePlace`), the tasks of
  finished runs have ended (`FinishedEnded`), and a replayed run ends only after those placed
  before it (`ReplayedInTurn`); so when the loop wakes, each of these has been handled
  or is in the same batch (`BatchInTurn`), and `GoesBefore` does the rest. For
  `JoinInputsAdvance`: the inputs a join has been given and is going to be given ascend
  (`Ascending`), and a predecessor that has arrived, or is in flight, is in a run later
  than all of them (`Behind`); a join fires only when all that feed it have arrived and
  completed, so each of them has a new run. `OutOfWork` is the provable part of
  `CompletedMeansDrained`: the loop stops with nothing pending, and with a
  trigger left only when a node waits for the user or a task agent for its output.
  The lemmas about `Filter` and the graph go by counting (`Counting`, `LeastIs`):
  of a set of positions there is a least one.

  `NeverStuck` and `CompletedMeansDrained` are about what a turn has in common with the turns
  before it, of which only the events are left. The events before a place make runs
  due: the seeds of START, and run r of a node when runs that are over by then lead to it r
  times (`Due`, `Triggered`); a run is over when it has a result there, or is one that
  leaves no event (`OverBy`). Whatever set of runs takes in what they make due (`Walked`)
  has in it the run of each recorded outcome, for the events before that outcome
  (`Justified`), and all runs the turn has started, for the whole session (`Reached`). In the
  other direction, the triggers a node has been given are as many as the runs that lead to it
  among those the loop has gone through (`Counted`, `JoinsCounted`). So when nothing is left to start,
  the turn has come as far as the events lead that it has gone through (`Rewalked`); the
  first of the runs that a barrier waits for would then have been started, hence it executes,
  and a timeout means that it is slow (`TimeOutIsSlow`). The sets stand for the least one, which
  would have to be defined by recursion. `WalkInv` collects these facts.

  The hypotheses. `Steady`: a run that may leave no event always leaves none and goes on by the
  same route, unless it fails. `TaskAgent = {}`: no task agents. `JoinsKeepUp`: nobody who has arrived at
  a join is in flight again before it fires. `NeverStuckIfJoinsKeepUp` and
  `DrainedIfJoinsKeepUp` take this of the behaviour. The first two were counterexamples
  before they were hypotheses, as was the third (see above). `JoinsKeepUpHolds` gets the third
  from the shape of the graph, `LockStep`: around each join there are nodes that run no more often
  than the join (`behind`), nodes that run at most once more (`ahead`), among which are
  those the join waits for anew each time, and nodes that run once (`once`), among which are the
  others it waits for. A loop whose steps fan out from the join or a decision after it and meet
  there again is in lock-step, and so is every graph without cycles in which only joins
  come after more than one node; the overlapping graph above is not.
  `MCWorkflow` assumes of its graph what the theorems assume (`LoopInLockStep`), and TLC
  evaluates it. As an invariant, `JoinsKeepUp` was checked on
  the run's instance once as well (0.2 million states), and so were `Justified`, `Reached`, the
  counts and `Exhausted`, with the least set computed.
  `NeverStuckHolds` and `CompletedMeansDrainedHolds` put the two together.
* **ParallelWorker.** The invariant says that every task that has not ended is in
  the pool (`InPool`), that the pool keeps the limit, that nobody is cancelled before
  the drain and everybody from then on (`Calm`, `Hunted`), that items start in order
  and so have the run ids of their places (`Numbered`, `OwnRun`), that a run with a result
  has nothing after it (`ResultsLast`), and what the collected items have left
  (`Gathered`). The recorded sequence does not occur in it: the barrier delays a
  replay, but what it hands out depends on the run id only. `NeverStuck` needs a second
  one, `OrderInv`: a place says at which event it was won, an item whose place comes later
  than another's had been scheduled while that one was in the pool, and so an item that
  waits at the barrier waits for one of the pool or for one that is still to be
  scheduled.
* **DynamicNodes.** A caller that waits, waits for exactly one execution, and an owner
  for its own (`WaitInv`); a caller that has not been started has no key (`FreshInv`), and
  one at a call has more calls than results (`BusyInv`). The unnamed runs of an attempt are
  counted on from its snapshot, and what the body has rejected is at or before the
  snapshot (`RejectInv`): the rewinding after the failure of a child goes back to the
  snapshot and no further, hence `RejectedStayRejected`. A run that earlier turns have left
  with a result is recovered as completed, has no owners, and so is neither executed nor
  changed nor logged again in the turn (`ReplayInv`), which is `TurnsReplay`. So far bodies
  may be any; in particular callers may come late and make any number of unnamed calls.

  `OwnResults` and `RetryReplays` hold of bodies whose callers make one unnamed call each, as
  their first (`FirstUnnamed`, the hypothesis of both theorems). Then every attempt counts one run
  id for each such caller (`Autos`), and begins at a multiple of that number, whether the counter
  was rewound or not (`CountFits`). So the n-th of them has run ids m * `Autos` + n only
  (`FirstKey`), and different callers never have the same one (`FitsOne`; names of runs are no
  numbers, `NamesAssumption`). `FitInv` says that what callers are at, what entries, events and
  results are about, fits the run ids in that sense, and a caller waits only for executions of its
  own run. For `RetryReplays`, `KeepInv` says that each caller of the attempt is in the run of its
  call (`MineInv`), that who holds an entry owns an execution of its run or has yet to hear how it
  ended (`OwnersInv`), and that the runs a retry keeps stay completed, with no execution and no
  owner (`KeptInv`). Nobody owns them when the retry begins because the event loop's queue is
  empty then: an owner that has not been woken waits for an execution that is under way
  (`QueueInv`). The invariant was checked by TLC first, with up to three mishaps.
* **LlmFlow.** The invariant is about the order of events in the log: only the user
  decides, a call is made once, answers, requests and decisions are about calls made
  before, and what a gated call returned comes from the agent and after a decision of the
  user (`LogInv`). What a batch runs has been made and, if gated, been decided (`BatchInv`),
  and the events on their way out are about that batch (`OutInv`). Every decision of the
  flow is read off the log, so the properties follow step by step: a confirmed call whose
  result is recorded is `Consumed`, a replay skips what is answered, and the model is
  reached only when `MustPause` and `ToReplay` are out of the way. `LongRunsOnce` needs the
  part of the log behind a long-running call (`LongInv`): as long as the call has no answer, its
  event makes every later step pause before it runs or asks anything, so nothing that
  the agent does follows it, and what is replayed after the answer is not the call itself.
* **McpSessionPool.** A session belongs to one key, in the pool and in all that tasks hold
  of it, what a sweep or a discard has read included (`OneKey`), so whoever closes a session
  that is not its own aims at the key it is used under. The use count of a key is the number
  of calls in flight under it, on whichever session (`Counted`). A call under way is on a
  session of its loop (`AtHome`); what a call is about to drop is the forgotten session it
  failed on, or nothing (`Dropped`), whence `DiscardSparesLive`; and a call that can still be
  made has not been run (`RunOnce`). Between a sweep's count and its forgetting, no task of the
  same loop has a call under the key that the sweep aims at (`Deferred`), since a task
  begins a call only in its turn (`Turn`); that is all `SweepSparesCalls` claims, and for
  other loops it fails. Sets of calls are finite, which is why the callers are assumed to be.

## Only model-checked

* Liveness (`EveryCallReturns`, `EveryRunEnds`, `EveryTurnEnds`, `WorkerEnds`, `TurnEnds`,
  `NeverParked`) and everything else about fairness and `ENABLED`, which the proof system
  does not handle.
* `NeverStuck` and `CompletedMeansDrained` of `Workflow` in graphs that are not in lock-step or
  have task agents: there they may fail, or hold for reasons of their own, as the instance
  tells. What holds in every graph is `StopsOutOfWork`.

## Not modelled

The inputs, outputs and conversions of the system: models and their adapters, tools
that call services, telemetry, evaluation, the command line and its servers, code
executors, planners, examples. Their state is in the services they call, or they
compute a value once. `PROJECT.json` gives the reason for each component.

Within the modelled parts: markers of equal timestamps, the order in which events are
read back, `list_sessions`, schema creation and the v0 schema (`SessionStore`); plugin
callbacks that replace events, `run_live` (`Invocation`); agent transfers, nested
workflows, detached runs, agent-state checkpoints, several questions of one run
(`Workflow`, `DynamicNodes`); retries of an item (`ParallelWorker`); streaming,
callbacks, sub-agents and code execution (`LlmFlow`); connection parameters, headers and auth,
resources and prompts (`McpSessionPool`).

## Plan

1. `SessionLog`: what a session service promises (an append is all or nothing, events
   are kept in order, state is the fold of the deltas), implemented by the in-memory,
   the SQLite and the database service; here the order of events after a reload, and
   equal timestamps.
2. `Workflow`: a graph with a task-mode agent and its wrapper's states; a nested workflow.
   `DynamicNodes`: children that ask the user; agent transfers.
3. `NodeAttempts`: attempts against the retry configuration, timeouts, output claims.
4. `AgentLoop`: loop, sequential and parallel agents and their resumption from
   recorded agent state.
5. `Compaction` and `Rewind`: summaries appended beside a newer turn; state after a rewind.
6. `LiveQueue`: two tasks over a connection that drops.
7. Artifact versions, credentials and the remote-agent adapter, as far as they keep
   state between calls.
