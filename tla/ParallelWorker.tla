--------------------------- MODULE ParallelWorker ---------------------------
(***************************************************************************)
(* A node that runs a wrapped node once per item of its input              *)
(* (_ParallelWorker), over the turns of a resumable invocation: the pool   *)
(* of item tasks with its limit, the drain of what still runs when an item *)
(* fails or the worker is cancelled, and the item runs themselves, which   *)
(* are dynamic nodes: numbered in the order they start, and fast-forwarded *)
(* in a later turn when the session's events have their outcome.           *)
(*                                                                         *)
(* Steps end where the worker or an item's task awaits something.  An      *)
(* outcome carries the item whose execution made it.  Left out: the retry  *)
(* of an item, several interrupts of one item, transfers, the empty list.  *)
(***************************************************************************)
EXTENDS Integers, Sequences, FiniteSets

CONSTANTS
  N,           \* len(node_input)
  MaxWorkers,  \* max_parallel_workers; 0 when there is no limit
  Does,        \* Does[i]: what an execution of item i may end in
  MaxTurns     \* bound: turns of the invocation

Item == 1..N
Kinds == {"result", "nothing", "interrupt", "error", "cancelled"}
Outcome == [kind : Kinds, from : 0..N]

ASSUME PoolAssumption == N \in Nat \ {0} /\ MaxWorkers \in Nat
ASSUME BoundsAssumption == MaxTurns \in Nat \ {0} /\ Does \in [Item -> SUBSET Kinds]

VARIABLES
  rerun,        \* rerun_on_resume of the wrapped node
  session,      \* the events of the item runs, as far as resuming reads them
  turn,
  sequence,     \* the parent's barrier: sequence, as [run, pending, at]
  finished,     \* and _completed
  counter,      \* run_counters of the worker's path: the last run id given out
  run,          \* the run id of each item; 0 while it has none
  item,         \* what the task of each item does
  outcome,      \* what it ends with
  asked,        \* the tasks that have been cancelled
  index,        \* input_index: the items scheduled so far
  pending,      \* pending_tasks
  interrupted,  \* an item has interrupted
  results,      \* results: where the output in each place comes from, 0 for None
  pc,           \* where the worker is
  ending,       \* how it ends
  lapsed,       \* the drain has given up on an item
  stuck,        \* a replayed item waited in vain for one that nothing starts
  silent        \* items an execution of which has left no event (for the properties)

itemVars == <<finished, counter, run, item, outcome>>
poolVars == <<index, pending, interrupted, results, asked>>
vars == <<rerun, session, turn, sequence, itemVars, poolVars, pc, ending, lapsed, stuck,
          silent>>

SessionEvent == [kind : {"result", "interrupt", "error", "answer"}, run : Item, from : Item]

TypeOK ==
  /\ rerun \in BOOLEAN
  /\ session \in Seq(SessionEvent)
  /\ turn \in 1..MaxTurns
  /\ sequence \subseteq [run : Item, pending : BOOLEAN, at : Nat]
  /\ finished \subseteq Item
  /\ counter \in 0..N /\ run \in [Item -> 0..N]
  /\ item \in [Item -> {"none", "created", "held", "live", "recorded", "done"}]
  /\ outcome \in [Item -> Outcome]
  /\ asked \subseteq Item /\ silent \subseteq Item /\ pending \subseteq Item
  /\ index \in 0..N
  /\ interrupted \in BOOLEAN /\ lapsed \in BOOLEAN /\ stuck \in BOOLEAN
  /\ results \in [Item -> 0..N]
  /\ pc \in {"loop", "wait", "drain", "collected", "over"}
  /\ ending \in {"none", "completed", "interrupted", "failed", "cancelled", "crashed"}

-----------------------------------------------------------------------------
(* What the session's events say of a run.                                 *)

IsLast(a, r) ==
  session[a].run = r /\ \A b \in DOMAIN session : b > a => session[b].run # r

LastIs(r, kinds) == \E a \in DOMAIN session : IsLast(a, r) /\ session[a].kind \in kinds
LastEvent(r) == session[CHOOSE a \in DOMAIN session : IsLast(a, r)]

(* A mutant: only a question is fast-forwarded.                            *)
ReplaysOpen(r) == LastIs(r, {"interrupt"}) \/ (LastIs(r, {"answer"}) /\ ~rerun)

(* check_interception: a run that failed, or asked and has been answered   *)
(* and can be rerun, is executed again.                                    *)
Replays(r) == LastIs(r, {"result", "interrupt"}) \/ (LastIs(r, {"answer"}) /\ ~rerun)

(* The cached outcome; an answer is the output of a node that is not rerun.*)
Recovered(r) ==
  [kind |-> IF LastIs(r, {"interrupt"}) THEN "interrupt" ELSE "result",
   from |-> LastEvent(r).from]

(* The event at a gives its run the place it has: a result keeps it, what  *)
(* is not one yet loses it to any later outcome; an answer is none.        *)
Places(a) ==
  /\ session[a].kind \in {"result", "interrupt"}
  /\ \A b \in DOMAIN session : session[b].run = session[a].run =>
       /\ b < a => session[b].kind # "result"
       /\ b > a => session[a].kind = "result" \/ session[b].kind = "answer"

(* _scan_sequence: the runs that have a place, each with where its place   *)
(* is among the events.                                                    *)
ScanSequence ==
  {[run |-> session[a].run, pending |-> session[a].kind = "interrupt", at |-> a] :
     a \in {b \in DOMAIN session : Places(b)}}

(* The barrier lets a run go when all those placed before it are finished. *)
Released(r) ==
  \A p \in sequence : p.run = r => \A q \in sequence : q.at < p.at => q.run \in finished

(* A mutant: a run does not let the next one go.                           *)
AdvancedNot(r) == finished

(* advance_sequence.                                                       *)
Advanced(r) == finished \cup {r}

-----------------------------------------------------------------------------
Each(value) == [i \in Item |-> value]
NoOutcome == [kind |-> "nothing", from |-> 0]

Init ==
  /\ rerun \in BOOLEAN
  /\ session = <<>> /\ turn = 1 /\ sequence = {} /\ finished = {}
  /\ counter = 0 /\ run = Each(0) /\ item = Each("none") /\ outcome = Each(NoOutcome)
  /\ index = 0 /\ pending = {} /\ interrupted = FALSE /\ results = Each(0) /\ asked = {}
  /\ pc = "loop" /\ ending = "none" /\ lapsed = FALSE /\ stuck = FALSE
  /\ silent = {}

(* The user answers an item's question, before the invocation is resumed.  *)
Answer(r) ==
  /\ pc = "over" /\ ending # "completed" /\ turn < MaxTurns
  /\ LastIs(r, {"interrupt"})
  /\ session' = Append(session, [kind |-> "answer", run |-> r, from |-> LastEvent(r).from])
  /\ UNCHANGED <<rerun, turn, sequence, itemVars, poolVars, pc, ending, lapsed, stuck, silent>>

(* The invocation is resumed, when a question stopped it with an answer:   *)
(* the worker runs again from the start.                                   *)
Resume ==
  /\ pc = "over" /\ ending # "completed" /\ turn < MaxTurns
  /\ ending = "interrupted" =>
       \E a \in DOMAIN session : a = Len(session) /\ session[a].kind = "answer"
  /\ turn' = turn + 1
  /\ sequence' = ScanSequence
  /\ finished' = {} /\ counter' = 0 /\ run' = Each(0) /\ item' = Each("none")
  /\ outcome' = Each(NoOutcome)
  /\ index' = 0 /\ pending' = {} /\ interrupted' = FALSE /\ results' = Each(0) /\ asked' = {}
  /\ pc' = "loop" /\ ending' = "none" /\ lapsed' = FALSE /\ stuck' = FALSE
  /\ UNCHANGED <<rerun, session, silent>>

-----------------------------------------------------------------------------
(* The worker: _run_impl.                                                  *)

Room == IF MaxWorkers = 0 THEN N ELSE MaxWorkers - Cardinality(pending)

(* Items are scheduled in order while there is room, and none after an     *)
(* interrupt.                                                              *)
Scheduled ==
  IF interrupted THEN index ELSE IF index + Room > N THEN N ELSE index + Room

(* A mutant: after an interrupt the worker leaves without waiting.         *)
MustWaitUninterrupted(left) == left # {} /\ ~interrupted

MustWait(left) == left # {}

Schedule ==
  /\ pc = "loop"
  /\ LET new == (index + 1)..Scheduled
     IN /\ pending' = pending \cup new
        /\ item' = [i \in Item |-> IF i \in new THEN "created" ELSE item[i]]
        /\ index' = Scheduled
        /\ IF MustWait(pending') THEN pc' = "wait" /\ UNCHANGED ending
           ELSE IF interrupted THEN pc' = "over" /\ ending' = "interrupted"
           ELSE pc' = "collected" /\ UNCHANGED ending
  /\ UNCHANGED <<rerun, session, turn, sequence, finished, counter, run, outcome, interrupted,
                 results, asked, lapsed, stuck,
                 silent>>

Done == {i \in pending : item[i] = "done"}
With(kind) == {i \in Done : outcome[i].kind = kind}

(* What follows a raise: the items in flight are cancelled and awaited.    *)
Raise(how, left) ==
  /\ pc' = "drain" /\ ending' = how
  /\ pending' = left
  /\ asked' = asked \cup {i \in left : item[i] # "done"}

(* A mutant: only the interrupts of the last wait count.                   *)
SeesInterrupt(asking) == asking # {}

HasInterrupted(asking) == interrupted \/ asking # {}

(* The wait returns: outputs go to their items' places, interrupts are     *)
(* remembered.                                                             *)
Collect ==
  /\ pc = "wait" /\ Done # {} /\ With("cancelled") \cup With("error") = {}
  /\ pending' = pending \ Done
  /\ interrupted' = HasInterrupted(With("interrupt"))
  /\ results' = [i \in Item |-> IF i \in With("result") \cup With("nothing")
                                THEN outcome[i].from ELSE results[i]]
  /\ pc' = "loop"
  /\ UNCHANGED <<rerun, session, turn, sequence, itemVars, index, asked, ending, lapsed, stuck,
                 silent>>

(* One of them has failed, or was itself cancelled: task.exception raises. *)
CollectFailure ==
  /\ pc = "wait" /\ With("cancelled") \cup With("error") # {}
  /\ Raise(IF With("cancelled") # {} THEN "cancelled" ELSE "failed", pending \ Done)
  /\ UNCHANGED <<rerun, session, turn, sequence, itemVars, index, interrupted, results, lapsed,
                 stuck, silent>>

(* The worker's own task is cancelled while it waits, by an abort, a       *)
(* failed sibling or its timeout.                                          *)
Cancel ==
  /\ pc = "wait"
  /\ Raise("cancelled", pending)
  /\ UNCHANGED <<rerun, session, turn, sequence, itemVars, index, interrupted, results, lapsed,
                 stuck, silent>>

(* A mutant: the drain ends with the first item that stops.                *)
DrainedFirst ==
  /\ pc = "drain" /\ (Done # {} \/ pending = {})
  /\ pc' = "over"
  /\ UNCHANGED <<rerun, session, turn, sequence, itemVars, poolVars, ending, lapsed, stuck,
                 silent>>

(* _drain_pending_items: until the items have stopped ...                  *)
Drained ==
  /\ pc = "drain" /\ Done = pending
  /\ pc' = "over"
  /\ UNCHANGED <<rerun, session, turn, sequence, itemVars, poolVars, ending, lapsed, stuck,
                 silent>>

(* A mutant: the drain has no timeout.                                     *)
DrainUntimed ==
  /\ pc = "drain" /\ Done = pending
  /\ pc' = "over" /\ lapsed' = TRUE
  /\ UNCHANGED <<rerun, session, turn, sequence, itemVars, poolVars, ending, stuck, silent>>

(* ... the 5 seconds are over ...                                          *)
DrainTimeOut ==
  /\ pc = "drain" /\ Done # pending
  /\ pc' = "over" /\ lapsed' = TRUE
  /\ UNCHANGED <<rerun, session, turn, sequence, itemVars, poolVars, ending, stuck, silent>>

(* ... or the worker is cancelled again.                                   *)
CancelAgain ==
  /\ pc = "drain" /\ Done # pending
  /\ pc' = "over" /\ ending' = "cancelled" /\ lapsed' = TRUE
  /\ UNCHANGED <<rerun, session, turn, sequence, itemVars, poolVars, stuck, silent>>

(* The results are yielded, and the worker's own result is recorded.       *)
Yield ==
  /\ pc = "collected"
  /\ pc' = "over" /\ ending' = "completed"
  /\ UNCHANGED <<rerun, session, turn, sequence, itemVars, poolVars, lapsed, stuck,
                 silent>>

(* The process dies, or the generator is closed while it yields.           *)
Crash ==
  /\ pc # "over"
  /\ pc' = "over" /\ ending' = "crashed" /\ lapsed' = TRUE
  /\ UNCHANGED <<rerun, session, turn, sequence, itemVars, poolVars, stuck, silent>>

-----------------------------------------------------------------------------
(* The tasks of the items: ctx.run_node, as the scheduler of dynamic nodes *)
(* executes it.                                                            *)

Keep == UNCHANGED <<rerun, turn, sequence, poolVars, pc, ending, lapsed>>

(* release_pending_sequence: a run that is executed again gives up the     *)
(* place its question had.                                                 *)
PlaceGivenUp(r) == {r} \cap {p.run : p \in {q \in sequence : q.pending}}

(* A task's first step, in the order the tasks were created: it takes the  *)
(* next run id and is replayed or executed.                                *)
Start(i) ==
  /\ pc # "over"
  /\ item[i] = "created" /\ i \notin asked
  /\ \A j \in 1..(i - 1) : item[j] # "created"
  /\ LET r == counter + 1
     IN /\ counter' = r
        /\ run' = [run EXCEPT ![i] = r]
        /\ IF Replays(r)
           THEN /\ item' = [item EXCEPT ![i] = "held"]
                /\ outcome' = [outcome EXCEPT ![i] = Recovered(r)]
                /\ UNCHANGED finished
           ELSE /\ item' = [item EXCEPT ![i] = "live"]
                /\ finished' = finished \cup PlaceGivenUp(r)
                /\ UNCHANGED outcome
  /\ UNCHANGED <<session, stuck, silent>> /\ Keep

Record(i, kind) ==
  session' = IF kind \in {"result", "interrupt", "error"}
             THEN Append(session, [kind |-> kind, run |-> run[i], from |-> i]) ELSE session

(* The run executes; its outcome is in the session before it goes on.  It  *)
(* may do so although cancelled.  One that was answered does not ask again *)
(* (bound).                                                                *)
Execute(i) ==
  /\ pc # "over"
  /\ item[i] = "live"
  /\ \E kind \in Does[i] :
       /\ kind = "interrupt" => ~LastIs(run[i], {"answer"})
       /\ outcome' = [outcome EXCEPT ![i] = [kind |-> kind, from |-> i]]
       /\ Record(i, kind)
       /\ silent' = IF kind = "nothing" THEN silent \cup {i} ELSE silent
  /\ item' = [item EXCEPT ![i] = "recorded"]
  /\ UNCHANGED <<finished, counter, run, stuck>> /\ Keep

(* The task ends: advance_sequence, unless by a CancelledError.            *)
Finish(i) ==
  /\ pc # "over"
  /\ item[i] = "recorded" /\ i \notin asked
  /\ item' = [item EXCEPT ![i] = "done"]
  /\ finished' = IF outcome[i].kind = "cancelled" THEN finished ELSE Advanced(run[i])
  /\ UNCHANGED <<session, counter, run, outcome, stuck, silent>> /\ Keep

(* A replayed run goes on when the barrier lets it: wait_sequence.         *)
Release(i) ==
  /\ pc # "over"
  /\ item[i] = "held" /\ i \notin asked /\ Released(run[i])
  /\ item' = [item EXCEPT ![i] = "done"]
  /\ finished' = Advanced(run[i])
  /\ UNCHANGED <<session, counter, run, outcome, stuck, silent>> /\ Keep

(* The barrier's 15 seconds are over before that; they are longer than any *)
(* step but an execution.                                                  *)
HeldTimeOut(i) ==
  /\ pc = "wait"
  /\ item[i] = "held" /\ ~Released(run[i])
  /\ \A j \in pending : item[j] = "live" \/ (item[j] = "held" /\ ~Released(run[j]))
  /\ item' = [item EXCEPT ![i] = "done"]
  /\ outcome' = [outcome EXCEPT ![i] = [kind |-> "error", from |-> i]]
  /\ stuck' = \A j \in pending : item[j] # "live"
  /\ UNCHANGED <<session, finished, counter, run, silent>> /\ Keep

(* A cancelled task ends.                                                  *)
Stop(i) ==
  /\ pc # "over"
  /\ i \in asked /\ item[i] \in {"created", "held", "live", "recorded"}
  /\ item' = [item EXCEPT ![i] = "done"]
  /\ outcome' = [outcome EXCEPT ![i] = [kind |-> "cancelled", from |-> i]]
  /\ UNCHANGED <<session, finished, counter, run, stuck, silent>> /\ Keep

-----------------------------------------------------------------------------
Worker == Schedule \/ Collect \/ CollectFailure \/ Drained \/ DrainTimeOut \/ Yield
ItemStep(i) == Start(i) \/ Execute(i) \/ Finish(i) \/ Release(i) \/ HeldTimeOut(i)

Next == \/ Worker
        \/ \E i \in Item : ItemStep(i) \/ Stop(i)
        \/ Cancel \/ CancelAgain \/ Crash
        \/ Resume \/ \E r \in Item : Answer(r)

Spec == Init /\ [][Next]_vars

(* Ready tasks run, timers fire, and an item that has not been cancelled   *)
(* ends; of one that has nothing is assumed.                               *)
Fairness ==
  WF_vars(Worker) /\ \A i \in Item : WF_vars(i \notin asked /\ ItemStep(i))

FairSpec == Spec /\ Fairness

-----------------------------------------------------------------------------
(* The worker always ends, also when a cancelled item never does.          *)
WorkerEnds == [](pc # "over" => <>(pc = "over"))

(* The results that are yielded stand in the order of the items, whatever  *)
(* order they end in and in whichever turn each was made.                  *)
ResultsInPlace == ending = "completed" => \A i \in Item : results[i] = i

(* An item's result is recorded once over all the turns: what has ended is *)
(* not executed again because a sibling failed or asked, or a crash.       *)
OneResultPerItem ==
  \A a, b \in DOMAIN session :
    session[a].kind = "result" /\ session[b].kind = "result"
    /\ session[a].from = session[b].from => a = b

(* No more items execute at a time than max_parallel_workers.              *)
WithinLimit ==
  MaxWorkers = 0 \/ Cardinality({i \in Item : item[i] \in {"live", "recorded"}}) =< MaxWorkers

(* However the worker ends, no item goes on, unless the drain gave up on it*)
(* or the process has died.                                                *)
NothingLeftRunning == pc = "over" /\ ~lapsed => \A i \in Item : item[i] \in {"none", "done"}

(* An item's question cancels no sibling: those in flight end by themselves*)
(* and their outcomes are there for the turn that answers it.              *)
InterruptSparesSiblings ==
  ending = "interrupted" =>
    \A i \in Item : item[i] # "none" =>
      item[i] = "done" /\ outcome[i].kind \in {"result", "nothing", "interrupt"}

(* No replayed item waits for one that is not going to be started: the     *)
(* limit does not keep out what the recorded order wants first - unless an *)
(* item that left no event, and so was executed again, left one the second *)
(* time, or a question that is still open has stopped the scheduling.      *)
NeverStuck ==
  stuck => \/ \E i \in silent : \E a \in DOMAIN session : session[a].from = i
           \/ interrupted

(* Nor does the stop at a question.  Does not hold: an item scheduled in   *)
(* the original turn before the question was collected may be recorded     *)
(* before another of that pool; a replay collects the question at once.    *)
QuestionsKeepNobodyOut == stuck => ~interrupted
=============================================================================
