------------------------------ MODULE Workflow ------------------------------
(***************************************************************************)
(* The graph engine of Workflow (_run_impl, _run_loop) over the turns of   *)
(* one resumable invocation.  In a turn the loop starts the nodes whose    *)
(* triggers are buffered, waits for their tasks and buffers the triggers   *)
(* of what comes after them.  Nothing but the session's events outlives a  *)
(* turn: the next one walks the graph again, fast-forwards the runs the    *)
(* events have an outcome for, in the order the events recorded it         *)
(* (ReplaySequenceBarrier), and executes the others.                       *)
(*                                                                         *)
(* Steps end where the loop or a node's task awaits something.  Left out:  *)
(* dynamic nodes, agent transfers (and the holding back of replayed ones), *)
(* local retries, several interrupts of one run.                           *)
(***************************************************************************)
EXTENDS Integers, Sequences, FiniteSets, SequencesExt

CONSTANTS
  Node,           \* the static nodes, by name
  Start,          \* START
  Edges,          \* graph.edges: a sequence of [from, to, route]
  NoRoute,        \* the route of an edge without one, or that a node leaves open
  DefaultRoute,   \* DEFAULT_ROUTE
  Join,           \* nodes with _requires_all_predecessors
  WaitsForOutput, \* nodes with wait_for_output
  TaskAgent,      \* the task-mode agents among them
  RerunOnResume,  \* nodes with rerun_on_resume
  Limits,         \* values of max_concurrency to explore; 0 when there is no limit
  Does,           \* Does[n][k]: the outcomes open to the k-th run of n
  MaxRuns,        \* bound: runs of a node in a turn; Does keeps to it
  MaxTurns        \* bound: turns of the invocation

Routes == {NoRoute} \cup {Edges[i].route : i \in DOMAIN Edges}

Key == [node : Node \cup {Start}, run : 0..MaxRuns]
StartKey == [node |-> Start, run |-> 0]
Kinds == {"result", "nothing", "interrupt", "error"}
Outcome == [kind : Kinds, route : Routes]

(* Of the edges between two nodes each has a route of its own, or there is *)
(* only one (_validate_duplicate_edges).                                   *)
ASSUME GraphAssumption ==
  /\ Start \notin Node /\ Edges \in Seq([from : Node \cup {Start}, to : Node, route : Routes])
  /\ \A i, j \in DOMAIN Edges :
       i # j /\ Edges[i].from = Edges[j].from /\ Edges[i].to = Edges[j].to
       => Edges[i].route # Edges[j].route /\ NoRoute \notin {Edges[i].route, Edges[j].route}
  /\ Join \subseteq Node /\ WaitsForOutput \subseteq Node /\ RerunOnResume \subseteq Node
  /\ TaskAgent \subseteq WaitsForOutput
ASSUME BoundsAssumption ==
  /\ Limits \subseteq Nat /\ MaxRuns \in Nat /\ MaxTurns \in Nat \ {0}
  /\ Does \in [Node -> [1..MaxRuns -> SUBSET Outcome]]

VARIABLES
  session,   \* the invocation's events, as far as resuming reads them
  turn,
  limit,     \* max_concurrency
  sequence,  \* barrier.sequence: [key, pending, at]
  finished,  \* barrier._completed
  order,     \* the keys of trigger_buffer, in the order they were put in
  triggers,  \* trigger_buffer: the inputs queued for each node
  arrivals,  \* join_arrivals
  runs,      \* run_counters: the run id of the latest run of each node
  status,    \* static_runs: the status of that run
  input,     \* and its input: the runs whose outputs it was given
  pending,   \* pending_tasks, in the order they were started
  task,      \* what the task of each node does
  outcome,   \* what it ends with
  replayed,  \* replayed_nodes
  batch,     \* the finished tasks the loop has yet to go through
  error,     \* ctx._error is set, or the loop has raised
  aborted,   \* the invocation's abort signal
  pc,        \* where the workflow is
  diverged   \* how a replay ran into the barrier's timeout (for the properties)

loopVars == <<order, triggers, arrivals, runs, status, input, pending, replayed, batch>>
taskVars == <<task, outcome, finished>>
vars == <<session, turn, limit, sequence, loopVars, taskVars, error, aborted, pc, diverged>>

Over == {"interrupted", "failed", "aborted", "crashed", "completed"}

SessionEvent == [kind : Kinds \cup {"answer"}, key : Key, route : Routes, input : SUBSET Key]

TypeOK ==
  /\ session \in Seq(SessionEvent)
  /\ turn \in 1..MaxTurns
  /\ limit \in Limits
  /\ sequence \subseteq [key : Key, pending : BOOLEAN, at : Nat]
  /\ finished \subseteq Key
  /\ order \in Seq(Node)
  /\ triggers \in [Node -> Seq(SUBSET Key)]
  /\ arrivals \in [Join -> SUBSET Node]
  /\ runs \in [Node -> 0..MaxRuns]
  /\ status \in [Node -> {"NONE", "RUNNING", "COMPLETED", "WAITING", "INTERRUPTED",
                          "FAILED"}]
  /\ input \in [Node -> SUBSET Key]
  /\ pending \in Seq(Node)
  /\ task \in [Node -> {"none", "held", "live", "recorded", "done", "raised"}]
  /\ outcome \in [Node -> Outcome]
  /\ replayed \subseteq Node
  /\ batch \subseteq ToSet(pending)
  /\ error \in BOOLEAN /\ aborted \in BOOLEAN
  /\ pc \in {"handle", "wait", "drain", "cleanup", "leave"} \cup Over
  /\ diverged \in {"no", "stuck", "slow"}

-----------------------------------------------------------------------------
(* What of a sequence is in a set.                                         *)

Filter(s, S) ==
  LET kept[i \in 0..Len(s)] == IF i = 0 THEN <<>>
                               ELSE IF s[i] \in S THEN Append(kept[i - 1], s[i]) ELSE kept[i - 1]
  IN kept[Len(s)]

-----------------------------------------------------------------------------
(* The graph.                                                              *)

From == [n \in Node \cup {Start} |-> Filter(Edges, {e \in ToSet(Edges) : e.from = n})]
Targets(edges) == [i \in DOMAIN edges |-> edges[i].to]
Predecessors(n) == {e.from : e \in {d \in ToSet(Edges) : d.to = n}}

(* Graph.get_next_pending_nodes: the edges without a route and those whose *)
(* route matches; the default ones only when no route matched.             *)
NextNodes ==
  [n \in Node |-> [route \in Routes |->
    LET edges == ToSet(From[n])
        plain == {e \in edges : e.route = NoRoute}
        matched == {e \in edges : e.route \notin {NoRoute, DefaultRoute} /\ e.route = route}
        default == {e \in edges : e.route = DefaultRoute /\ matched = {}}
    IN Targets(Filter(From[n], plain \cup matched) \o Filter(From[n], default))]]

(* What is reached from a node: it is in every set of nodes that takes in  *)
(* the targets of the node and of its own members.                         *)
Descendants ==
  [n \in Node |->
    {m \in Node : \A reached \in SUBSET Node :
       (\A k \in reached \cup {n} : ToSet(Targets(From[k])) \subseteq reached) => m \in reached}]

OnCycle(j) == j \in Descendants[j]
Terminal == {n \in Node : From[n] = <<>>}

-----------------------------------------------------------------------------
(* What the session's events say of a run: _reconstruct_node_states.       *)

EventsOf(k) == {i \in DOMAIN session : session[i].key = k}
Latest(S) == CHOOSE i \in S : \A j \in S : j =< i

(* The last of a run's events decides: an answer clears what came before   *)
(* it, a result the error of an earlier attempt, an error is no result.    *)
LastEvent(k) == IF EventsOf(k) = {} THEN "none" ELSE session[Latest(EventsOf(k))].kind

(* The last route that any of the run's events had stays with it.          *)
RouteOf(k) ==
  LET routed == {i \in EventsOf(k) : session[i].route # NoRoute}
  IN IF routed = {} THEN NoRoute ELSE session[Latest(routed)].route

(* An answered run is settled unless it is to be executed again, which one *)
(* that has a route is not.                                                *)
Settled(k) ==
  LastEvent(k) = "answer" /\ (k.node \notin RerunOnResume \/ RouteOf(k) # NoRoute)

(* A mutant: a result counts only after an answer.                         *)
ReplaysOpen(k) == LastEvent(k) = "interrupt" \/ Settled(k)

(* check_interception: which runs are not executed but fast-forwarded.     *)
Replays(k) == LastEvent(k) \in {"result", "interrupt"} \/ Settled(k)

(* The cached outcome: an answer counts as the run's output.               *)
Recovered(k) ==
  [kind |-> IF LastEvent(k) = "answer" THEN "result" ELSE LastEvent(k), route |-> RouteOf(k)]

(* The event at i gives its run the place it has: a result keeps it, what  *)
(* is not one yet loses it to any later outcome; an answer is none.        *)
Places(events, i) ==
  /\ events[i].kind \in {"result", "interrupt"}
  /\ \A j \in DOMAIN events : events[j].key = events[i].key =>
       /\ j < i => events[j].kind # "result"
       /\ j > i => events[i].kind = "result" \/ events[j].kind = "answer"

(* _scan_sequence: the runs that have a place, each with where its place   *)
(* is among the events.                                                    *)
ScanSequence(events) ==
  {[key |-> events[i].key, pending |-> events[i].kind = "interrupt", at |-> i] :
     i \in {j \in DOMAIN events : Places(events, j)}}

(* ReplaySequenceBarrier: a run is released when all those placed before   *)
(* it have finished; a run without a place is not held.                    *)
Released(k) ==
  \A p \in sequence : p.key = k => \A q \in sequence : q.at < p.at => q.key \in finished

Pending(k) == \E p \in sequence : p.key = k /\ p.pending

-----------------------------------------------------------------------------
(* Triggers.                                                               *)

KeyOf(n) == [node |-> n, run |-> runs[n]]
Outputs(p) == IF p = Start THEN StartKey ELSE KeyOf(p)

(* _buffer_barrier_trigger: a join fires when every predecessor has        *)
(* arrived and its latest run is completed.                                *)
Fires(j, arrived, stat) ==
  \A p \in Predecessors(j) : p = Start \/ (p \in arrived /\ stat[p] = "COMPLETED")

(* A mutant: a join on a cycle keeps its arrivals.                         *)
ConsumedOffCycle(j, arrived) == IF OnCycle(j) THEN arrived ELSE {}

(* A firing uses the arrivals up, but on a cycle those of the predecessors *)
(* outside of it stay.                                                     *)
Consumed(j, arrived) ==
  IF OnCycle(j) THEN arrived \ (Predecessors(j) \cap Descendants[j]) ELSE {}

(* _buffer_downstream_triggers, after a run of n that left by `route`.     *)
Buffer(n, route, stat) ==
  LET targets == NextNodes[n][route]
      arrived == [j \in Join |-> IF j \in ToSet(targets) THEN arrivals[j] \cup {n}
                                                         ELSE arrivals[j]]
      fired == {t \in ToSet(targets) : t \in Join => Fires(t, arrived[t], stat)}
      given(t) == IF t \in Join THEN {Outputs(p) : p \in Predecessors(t)} ELSE {KeyOf(n)}
  IN /\ triggers' = [t \in Node |-> IF t \in fired THEN Append(triggers[t], given(t))
                                                   ELSE triggers[t]]
     /\ order' = order \o Filter(targets, {t \in fired : triggers[t] = <<>>})
     /\ arrivals' = [j \in Join |-> IF j \in fired THEN Consumed(j, arrived[j]) ELSE arrived[j]]

(* _seed_start_triggers: a join waits for its other predecessors.          *)
Seeded ==
  Filter(Targets(From[Start]), {t \in Node : t \in Join => Predecessors(t) = {Start}})

-----------------------------------------------------------------------------
(* A turn begins: _run_impl with a fresh _LoopState.                       *)

Each(value) == [n \in Node |-> value]
Seeds == [n \in Node |-> IF n \in ToSet(Seeded) THEN <<{StartKey}>> ELSE <<>>]
NoOutcome == [kind |-> "nothing", route |-> NoRoute]

Init ==
  /\ limit \in Limits
  /\ session = <<>> /\ turn = 1 /\ sequence = {} /\ pc = "handle"
  /\ order = Seeded /\ triggers = Seeds /\ arrivals = [j \in Join |-> {}]
  /\ runs = Each(0) /\ status = Each("NONE") /\ input = Each({})
  /\ pending = <<>> /\ replayed = {} /\ batch = {}
  /\ task = Each("none") /\ outcome = Each(NoOutcome) /\ finished = {}
  /\ error = FALSE /\ aborted = FALSE /\ diverged = "no"

Fresh ==
  /\ order' = Seeded /\ triggers' = Seeds /\ arrivals' = [j \in Join |-> {}]
  /\ runs' = Each(0) /\ status' = Each("NONE") /\ input' = Each({})
  /\ pending' = <<>> /\ replayed' = {} /\ batch' = {}
  /\ task' = Each("none") /\ outcome' = Each(NoOutcome) /\ finished' = {}
  /\ error' = FALSE /\ aborted' = FALSE /\ diverged' = "no"

(* The questions of the session that nobody has answered.                  *)
Open == {i \in DOMAIN session :
           session[i].kind = "interrupt" /\ i = Latest(EventsOf(session[i].key))}

Answers(questions) ==
  LET at == Filter([i \in DOMAIN session |-> i], questions)
  IN [k \in DOMAIN at |-> [session[at[k]] EXCEPT !.kind = "answer"]]

(* The user comes back: with answers when the turn was interrupted.        *)
Resume ==
  /\ pc \in Over \ {"completed"}
  /\ turn < MaxTurns
  /\ turn' = turn + 1 /\ UNCHANGED limit
  /\ \E answered \in SUBSET Open :
       /\ pc = "interrupted" => answered # {}
       /\ session' = session \o Answers(answered)
  /\ sequence' = ScanSequence(session')
  /\ pc' = "handle"
  /\ Fresh

-----------------------------------------------------------------------------
(* The loop.                                                               *)

(* A node that runs, or waits for the user, does not start again.          *)
Startable(n) == n \notin ToSet(pending) /\ status[n] \notin {"RUNNING", "INTERRUPTED"}

NextKey(n) == [node |-> n, run |-> runs[n] + 1]

(* _at_concurrency_limit counts the pending nodes that are not replayed.   *)
(* A mutant: a replayed node holds a slot like any other.                  *)
ActiveAll == Cardinality(ToSet(pending))

Active == Cardinality(ToSet(pending) \ replayed)

Full(active) == limit # 0 /\ active >= limit

(* _schedule_ready_nodes goes through the buffer in order, up to the limit.*)
ToStart ==
  LET ahead(i) == {j \in 1..(i - 1) : Startable(order[j]) /\ ~Replays(NextKey(order[j]))}
  IN {order[i] : i \in {j \in DOMAIN order :
        /\ Startable(order[j]) /\ ~Full(Active + Cardinality(ahead(j)))
        /\ \A n \in TaskAgent : status[n] \notin {"WAITING", "INTERRUPTED"}}}

(* Starts what can be started (_start_node_task); a run that is executed   *)
(* gives up the place its interrupt had.  With nothing pending it is over. *)
(* The checkpoints awaited between two starts let other tasks go on, which *)
(* the loop would not see before its next wait.  MaxRuns bounds the starts.*)
Schedule ==
  /\ pc = "handle" /\ batch = {} /\ ~error /\ ~aborted
  /\ LET started == ToStart
         replays == {n \in started : Replays(NextKey(n))}
         left == [n \in Node |-> IF n \in started THEN Tail(triggers[n]) ELSE triggers[n]]
     IN /\ \A n \in started : runs[n] < MaxRuns
        /\ triggers' = left
        /\ order' = Filter(order, {n \in Node : left[n] # <<>>})
        /\ runs' = [n \in Node |-> IF n \in started THEN runs[n] + 1 ELSE runs[n]]
        /\ status' = [n \in Node |-> IF n \in started THEN "RUNNING" ELSE status[n]]
        /\ input' = [n \in Node |-> IF n \in started THEN Head(triggers[n]) ELSE input[n]]
        /\ task' = [n \in Node |-> IF n \in replays THEN "held"
                                   ELSE IF n \in started THEN "live" ELSE task[n]]
        /\ outcome' = [n \in Node |-> IF n \in replays THEN Recovered(NextKey(n)) ELSE outcome[n]]
        /\ replayed' = replayed \cup replays
        /\ finished' = finished \cup {k \in {NextKey(n) : n \in started \ replays} : Pending(k)}
        /\ pending' = pending \o Filter(order, started)
        /\ pc' = IF pending' = <<>> THEN "leave" ELSE "wait"
  /\ UNCHANGED <<session, turn, limit, sequence, arrivals, batch, error, aborted, diverged>>

Done == {n \in ToSet(pending) : task[n] \in {"done", "raised"}}

StartedBefore(m, n) == \E i, j \in DOMAIN pending : i < j /\ pending[i] = m /\ pending[j] = n

(* A mutant: the finished tasks in the order they were started.            *)
GoesBeforeUnsorted(m, n) == StartedBefore(m, n)

(* Finished tasks are gone through in the recorded order, those without a  *)
(* place last; those drained after an error in the order of their start.   *)
GoesBefore(m, n) ==
  LET placed(k) == {p \in sequence : p.key = KeyOf(k) /\ pc = "handle"}
  IN \/ \E p \in placed(m) : \A q \in placed(n) : p.at < q.at
     \/ placed(m) = {} /\ placed(n) = {} /\ StartedBefore(m, n)

NextDone == {n \in batch : \A m \in batch : ~GoesBefore(m, n)}

Wake ==
  /\ pc = "wait" /\ Done # {}
  /\ batch' = Done
  /\ pc' = "handle"
  /\ UNCHANGED <<session, turn, limit, sequence, order, triggers, arrivals, runs, status, input,
                 pending, replayed, taskVars, error, aborted, diverged>>

(* A mutant: an interrupt leaves a node completed.                         *)
StatusOfNoInterrupt(n, result) ==
  CASE result.kind = "error" -> "FAILED"
    [] result.kind = "nothing" /\ n \in WaitsForOutput -> "WAITING"
    [] OTHER -> "COMPLETED"

(* DynamicNodeRun.record_outcome.                                          *)
StatusOf(n, result) ==
  CASE result.kind = "error" -> "FAILED"
    [] result.kind = "interrupt" -> "INTERRUPTED"
    [] result.kind = "nothing" /\ n \in WaitsForOutput -> "WAITING"
    [] OTHER -> "COMPLETED"

(* _handle_completion; the output an answer made is put on the stream.     *)
Handle(n) ==
  /\ pc \in {"handle", "drain"} /\ n \in NextDone /\ task[n] = "done"
  /\ LET stat == [status EXCEPT ![n] = StatusOf(n, outcome[n])]
         echoed == n \in replayed /\ LastEvent(KeyOf(n)) = "answer"
     IN /\ pending' = Filter(pending, Node \ {n})
        /\ replayed' = replayed \ {n}
        /\ task' = [task EXCEPT ![n] = "none"]
        /\ status' = stat
        /\ error' = (error \/ stat[n] = "FAILED")
        /\ session' = IF echoed THEN Append(session, [kind |-> "result", key |-> KeyOf(n),
                                                      route |-> NoRoute, input |-> input[n]])
                                ELSE session
        /\ IF stat[n] = "COMPLETED" THEN Buffer(n, outcome[n].route, stat)
           ELSE UNCHANGED <<order, triggers, arrivals>>
  /\ batch' = batch \ {n}
  /\ UNCHANGED <<turn, limit, sequence, runs, input, outcome, finished, aborted, pc, diverged>>

(* task.result() raises, and so does the loop.                             *)
HandleRaised(n) ==
  /\ pc \in {"handle", "drain"} /\ n \in NextDone /\ task[n] = "raised"
  /\ error' = TRUE
  /\ pc' = "cleanup"
  /\ UNCHANGED <<session, turn, limit, sequence, loopVars, taskVars, aborted, diverged>>

(* A mutant: the loop does not stop when no sibling is done.               *)
DrainAll ==
  /\ pc \in {"handle", "drain"} /\ batch = {} /\ error
  /\ batch' = Done
  /\ pc' = IF pending = <<>> THEN "cleanup" ELSE "drain"
  /\ UNCHANGED <<session, turn, limit, sequence, order, triggers, arrivals, runs, status, input,
                 pending, replayed, taskVars, error, aborted, diverged>>

(* After an error the tasks that are done by now are gone through as well. *)
Drain ==
  /\ pc \in {"handle", "drain"} /\ batch = {} /\ error
  /\ batch' = Done
  /\ pc' = IF Done = {} THEN "cleanup" ELSE "drain"
  /\ UNCHANGED <<session, turn, limit, sequence, order, triggers, arrivals, runs, status, input,
                 pending, replayed, taskVars, error, aborted, diverged>>

(* The loop sees the abort, at its top or when the signal wakes it.        *)
SeeAbort ==
  /\ aborted
  /\ pc = "wait" \/ (pc = "handle" /\ batch = {} /\ ~error)
  /\ pc' = "cleanup"
  /\ UNCHANGED <<session, turn, limit, sequence, loopVars, taskVars, error, aborted, diverged>>

(* The turn is over and the state of its loop is gone; the session stays.  *)
Return(how) ==
  /\ pc' = how
  /\ sequence' = {}
  /\ Fresh
  /\ UNCHANGED <<session, turn, limit>>

(* _cleanup_all_tasks: what still runs is cancelled, and awaited.          *)
Cleanup == pc = "cleanup" /\ Return(IF error THEN "failed" ELSE "aborted")

Waiting == {n \in Node : status[n] = "INTERRUPTED"}
TerminalOutputs == {n \in Terminal : status[n] = "COMPLETED" /\ outcome[n].kind = "result"}

(* The loop has run out of work: _finalize, and the end-of-agent marker.   *)
Finalize ==
  /\ pc = "leave"
  /\ IF ~aborted /\ Waiting = {} /\ Cardinality(TerminalOutputs) =< 1
     THEN /\ pc' = "completed"
          /\ UNCHANGED <<session, turn, limit, sequence, loopVars, taskVars, error, aborted,
                         diverged>>
     ELSE Return(IF aborted THEN "aborted" ELSE IF Waiting # {} THEN "interrupted" ELSE "failed")

-----------------------------------------------------------------------------
(* The tasks of the nodes.                                                 *)

Record(k, result, given) ==
  session' = IF result.kind = "nothing" THEN session
             ELSE Append(session, [kind |-> result.kind, key |-> k, route |-> result.route,
                                   input |-> given])

(* A node executes; its outcome is in the session before it goes on.  A    *)
(* run that has been answered does not ask again (bound).                  *)
Execute(n) ==
  /\ task[n] = "live"
  /\ \E result \in Does[n][runs[n]] :
       /\ result.kind = "interrupt" => LastEvent(KeyOf(n)) # "answer"
       /\ outcome' = [outcome EXCEPT ![n] = result]
       /\ Record(KeyOf(n), result, input[n])
  /\ task' = [task EXCEPT ![n] = "recorded"]
  /\ UNCHANGED <<turn, limit, sequence, loopVars, finished, error, aborted, pc, diverged>>

(* Its task ends: advance_sequence.                                        *)
Finish(n) ==
  /\ task[n] = "recorded"
  /\ task' = [task EXCEPT ![n] = "done"]
  /\ finished' = finished \cup {KeyOf(n)}
  /\ UNCHANGED <<session, turn, limit, sequence, loopVars, outcome, error, aborted, pc, diverged>>

(* A replayed run ends as soon as the barrier lets it.                     *)
Replay(n) ==
  /\ task[n] = "held" /\ Released(KeyOf(n))
  /\ task' = [task EXCEPT ![n] = "done"]
  /\ finished' = finished \cup {KeyOf(n)}
  /\ UNCHANGED <<session, turn, limit, sequence, loopVars, outcome, error, aborted, pc, diverged>>

Running == {n \in Node : task[n] = "live"}

(* The barrier's 15 seconds are longer than any step of the loop, but not  *)
(* than a node that executes.                                              *)
TimeOut(n) ==
  /\ task[n] = "held" /\ ~Released(KeyOf(n))
  /\ pc = "wait"
  /\ \A m \in ToSet(pending) : task[m] = "live" \/ (task[m] = "held" /\ ~Released(KeyOf(m)))
  /\ task' = [task EXCEPT ![n] = "raised"]
  /\ diverged' = IF Running = {} THEN "stuck" ELSE "slow"
  /\ UNCHANGED <<session, turn, limit, sequence, loopVars, outcome, finished, error, aborted, pc>>

(* The caller aborts; the process dies and with it all but the session.    *)
Abort ==
  /\ ~aborted /\ pc \notin Over
  /\ aborted' = TRUE
  /\ UNCHANGED <<session, turn, limit, sequence, loopVars, taskVars, error, pc, diverged>>

Crash == pc \notin Over /\ Return("crashed")

-----------------------------------------------------------------------------
Loop == \/ Schedule \/ Wake \/ \E n \in Node : Handle(n) \/ HandleRaised(n)
        \/ Drain \/ SeeAbort \/ Cleanup \/ Finalize
TaskStep(n) == Execute(n) \/ Finish(n) \/ Replay(n) \/ TimeOut(n)

Next == \/ Loop
        \/ \E n \in Node : TaskStep(n)
        \/ Resume \/ Abort \/ Crash

Spec == Init /\ [][Next]_vars

(* Ready tasks run, a node's code ends, and the barrier's timer fires.     *)
Fairness == WF_vars(Loop) /\ \A n \in Node : WF_vars(TaskStep(n))

FairSpec == Spec /\ Fairness

-----------------------------------------------------------------------------
(* Every turn ends: no task of it waits for ever, for a node that is not   *)
(* started or a run that is not replayed.                                  *)
EveryTurnEnds == [](pc \notin Over => <>(pc \in Over))

(* A run's result is recorded once over all the turns: neither a crash     *)
(* before the loop has handled it nor a resume makes it execute again.     *)
OneResultPerRun ==
  \A i, j \in DOMAIN session :
    session[i].kind = "result" /\ session[j].kind = "result" /\ session[i].key = session[j].key
    => i = j

(* A replay never ends up waiting for a run that nothing will start: the   *)
(* graph is walked again the way the events say it was.                    *)
NeverStuck == diverged # "stuck"

(* The barrier reports a divergence only when there is one, and not while  *)
(* a node it would have to wait for still executes.  Does not hold: the    *)
(* barrier gives up after 15 seconds.                                      *)
DivergenceIsReal == diverged # "slow"

HandledBy(k) == runs[k.node] > k.run
                \/ (runs[k.node] = k.run /\ k.node \notin ToSet(pending))

(* Replayed runs are gone through in the order in which the events have    *)
(* their results, whatever order their tasks end in.                       *)
ReplayInOrder ==
  [][\A n \in replayed \ replayed' : \A p, q \in sequence :
       (pc' = "handle" /\ ~error /\ p.at < q.at /\ q.key = KeyOf(n) /\ ~p.pending)
       => HandledBy(p.key)]_vars

(* A run that is fast-forwarded stands where the run that made its result  *)
(* stood: it has been given the same outputs, at least as long as nothing  *)
(* executes that the events have no outcome of.  Does not hold: the order  *)
(* of the events is that of the outputs, the loop goes by the ends.        *)
ReplaySameInputs ==
  (\A m \in Node : runs[m] > 0 => \E p \in sequence : p.key = KeyOf(m))
  => \A n \in replayed : LET e == session[Latest(EventsOf(KeyOf(n)))] IN
       e.kind = "result" => input[n] = e.input

(* A workflow that records its end has no trigger left, and no question of *)
(* its nodes is open in the session.                                       *)
CompletedMeansDrained == pc = "completed" => order = <<>> /\ Open = {}

(* Nor a join that all its predecessors have reached and completed.  Does  *)
(* not hold: one of them may be running again when the last one arrives.   *)
JoinsFired == pc = "completed" => \A j \in Join : ~Fires(j, arrivals[j], status)

(* The predecessors each firing of a join waits for anew.                  *)
Fed(j) == IF OnCycle(j) THEN Predecessors(j) \cap Descendants[j] ELSE Predecessors(j) \ {Start}

RunsOf(p, keys) == {k.run : k \in {q \in keys : q.node = p}}

(* Each firing of a join is given a new run of every predecessor its loop  *)
(* runs again, and of every predecessor when it is in no loop.             *)
JoinInputsAdvance ==
  [][\A j \in Join : turn' = turn /\ runs'[j] > runs[j] /\ runs[j] > 0 =>
       \A p \in Fed(j) :
         \A r \in RunsOf(p, input[j]), s \in RunsOf(p, input'[j]) : s > r]_vars

-----------------------------------------------------------------------------
(* The graphs in which a replay never gets stuck, whatever interrupts it.  *)

(* A run that may leave nothing in the session always does so, and goes on *)
(* by the same route, unless it fails.                                     *)
Steady == \A n \in Node, r \in 1..MaxRuns : \A a, b \in Does[n][r] :
  /\ a.kind = "nothing" /\ b.kind # "error" => a = b
  /\ a.kind \in {"error", "interrupt"} => a.route = NoRoute

(* No predecessor that a join has seen arrive runs again before the join   *)
(* fires.  Not so in every graph.                                          *)
JoinsKeepUp == \A j \in Join : arrivals[j] \cap ToSet(pending) = {}

(* Who triggers t: START, at most once, and the Others.  Where t follows   *)
(* q, each trigger that is not START's takes a run of q.                   *)
Seed(t) == IF t \in ToSet(Seeded) THEN 1 ELSE 0
Others(t) == Predecessors(t) \ {Start}
Follows(t, q) == IF t \in Join THEN q \in Fed(t) ELSE Others(t) = {q}

(* The shape of a graph that makes them keep up: what a join waits for     *)
(* anew is at most one run ahead of it, because it follows nodes that run  *)
(* no more often than the join; what it waits for once runs once.          *)
InStep(j, once, behind, ahead) ==
  /\ \A t \in once : Others(t) = {} \/ (Seed(t) = 0 /\ \E q \in once : Follows(t, q))
  /\ \A t \in behind : t = j \/ (Seed(t) = 0 /\ \E q \in behind : Follows(t, q))
  /\ \A t \in ahead : \/ Others(t) = {}
                      \/ Seed(t) = 0 /\ \E q \in ahead : Follows(t, q)
                      \/ \E q \in behind : Follows(t, q)
  /\ Fed(j) \subseteq ahead /\ Others(j) \ Fed(j) \subseteq once
LockStep ==
  \A j \in Join : \E once, behind, ahead \in SUBSET Node : InStep(j, once, behind, ahead)
=============================================================================
