----------------------------- MODULE Invocation -----------------------------
(***************************************************************************)
(* One invocation of Runner.run_async on a node (run_node_async): nodes    *)
(* put their events on the invocation's queue and wait until the runner's  *)
(* main loop has appended them to the session (_enqueue_event,             *)
(* _consume_event_queue); the caller pulls events, may close the generator,*)
(* cancel the task or abort the invocation at any time; the runner then    *)
(* cancels and joins the root task (_cleanup_root_task), seals an aborted  *)
(* invocation (_synthesize_abort_events_if_needed) and runs the exit       *)
(* policy of _run_invocation_lifecycle.                                    *)
(*                                                                         *)
(* Every step ends at an await of the task that takes it.                  *)
(***************************************************************************)
EXTENDS Integers, Sequences, FiniteSets, SequencesExt

CONSTANTS
  Node,      \* the nodes that run under the root task
  Detached,  \* those among them that a body may start and not wait for
  Nobody,    \* the node of the items that belong to none
  MaxEvents  \* bound: non-partial events each node puts

ASSUME DetachedAssumption == Detached \subseteq Node
ASSUME NobodyAssumption == Nobody \notin Node
ASSUME MaxEventsAssumption == MaxEvents \in [Node -> Nat]

VARIABLES
  queue,     \* ic._event_queue: events, partial events, barriers, the sentinel
  node,      \* what each node's task does: runs, is parked on a signal, ...
  stage,     \* where in NodeRunner.run it is
  count,     \* how many non-partial events it has put
  before,    \* the events put by anyone before its last barrier (for the properties)
  loose,     \* the nodes whose end nobody waits for any longer
  root,      \* _drive_root_node
  aborted,   \* ic.is_aborted
  consumer,  \* where _consume_event_queue is
  hand,      \* the item it has taken
  log,       \* the session's events of this invocation
  phase,     \* where run_node_async and its lifecycle are
  ending,    \* how the consuming ended: what the lifecycle's handlers see
  synthesized, \* _abort_state.event_synthesized
  broken     \* which sealing was interrupted, if any (for the properties)

nodeVars == <<node, stage, count, before, loose>>
runVars == <<phase, ending, synthesized, broken>>
vars == <<queue, nodeVars, root, aborted, consumer, hand, log, runVars>>

Seal == [kind |-> "seal", node |-> Nobody, seq |-> 0]
Event(n, k) == [kind |-> "event", node |-> n, seq |-> k]
Item(kind, n) == [kind |-> kind, node |-> n, seq |-> 0]
Sentinel == Item("done", Nobody)
NoItem == Item("none", Nobody)

Events == UNION {{Event(n, k) : k \in 1..MaxEvents[n]} : n \in Node}
Items == Events \cup {Item(kind, n) : kind \in {"partial", "barrier"}, n \in Node}
                \cup {Sentinel}

TypeOK ==
  /\ queue \in Seq(Items)
  /\ node \in [Node -> {"run", "parked", "acked", "stopped"}]
  /\ stage \in [Node -> {"loop", "failed", "retry", "final"}]
  /\ count \in [Node -> Nat] /\ \A n \in Node : count[n] =< MaxEvents[n]
  /\ before \in [Node -> SUBSET Events]
  /\ loose \subseteq Detached
  /\ root \in {"run", "cancelled", "returned", "raised"}
  /\ aborted \in BOOLEAN
  /\ consumer \in {"top", "get", "grace", "have", "yielded", "closed"}
  /\ hand \in Items \cup {NoItem}
  /\ log \in Seq(Events \cup {Seal})
  /\ phase \in {"consume", "join", "sealing", "exit", "exit sealing", "after", "end"}
  /\ ending \in {"normal", "closed", "cancelled", "error"}
  /\ synthesized \in BOOLEAN
  /\ broken \in {"no", "first", "last"}

Init ==
  /\ queue = <<>>
  /\ node = [n \in Node |-> "run"]
  /\ stage = [n \in Node |-> "loop"]
  /\ count = [n \in Node |-> 0]
  /\ before = [n \in Node |-> {}]
  /\ loose = {}
  /\ root = "run"
  /\ aborted = FALSE
  /\ consumer = "top"
  /\ hand = NoItem
  /\ log = <<>>
  /\ phase = "consume"
  /\ ending = "normal"
  /\ synthesized = FALSE
  /\ broken = "no"

-----------------------------------------------------------------------------
(* The nodes: NodeRunner and InvocationContext._enqueue_event.             *)

Put(item) == queue' = Append(queue, item)

(* A mutant: the node does not wait.                                       *)
PutAndGoOn(n) ==
  /\ count[n] < MaxEvents[n]
  /\ count' = [count EXCEPT ![n] = @ + 1]
  /\ Put(Event(n, count[n] + 1))
  /\ node' = node

(* Puts a non-partial event and parks until it is in the session.          *)
PutAndPark(n) ==
  /\ count[n] < MaxEvents[n]
  /\ count' = [count EXCEPT ![n] = @ + 1]
  /\ Put(Event(n, count[n] + 1))
  /\ node' = [node EXCEPT ![n] = "parked"]

PutSoFar == {e \in Events : e.seq =< count[e.node]}

At(n, what, where) == node[n] = what /\ stage[n] = where
Enter(n, where) == stage' = [stage EXCEPT ![n] = where]

Yield(n) ==
  /\ At(n, "run", "loop")
  /\ PutAndPark(n)
  /\ UNCHANGED <<stage, before, loose, root, aborted, consumer, hand, log, runVars>>

(* A partial event does not block; the loop stops after it when aborted.   *)
YieldPartial(n) ==
  /\ At(n, "run", "loop")
  /\ \A i \in DOMAIN queue : queue[i] # Item("partial", n)  \* bound: one queued
  /\ Put(Item("partial", n))
  /\ Enter(n, IF aborted THEN "final" ELSE "loop")
  /\ UNCHANGED <<node, count, before, loose, root, aborted, consumer, hand, log, runVars>>

(* The attempt fails: the error event is put first.                        *)
Fail(n) ==
  /\ At(n, "run", "loop")
  /\ PutAndPark(n)
  /\ Enter(n, "failed")
  /\ UNCHANGED <<before, loose, root, aborted, consumer, hand, log, runVars>>

(* A mutant: the retry goes on at once.                                    *)
NoBarrier(n) ==
  /\ At(n, "acked", "failed")
  /\ node' = [node EXCEPT ![n] = "acked"]
  /\ Enter(n, "retry")
  /\ before' = [before EXCEPT ![n] = PutSoFar]
  /\ UNCHANGED <<queue, count, loose, root, aborted, consumer, hand, log, runVars>>

(* The retry waits until all that is queued has reached the session.       *)
Barrier(n) ==
  /\ At(n, "acked", "failed")
  /\ Put(Item("barrier", n))
  /\ node' = [node EXCEPT ![n] = "parked"]
  /\ Enter(n, "retry")
  /\ before' = [before EXCEPT ![n] = PutSoFar]
  /\ UNCHANGED <<count, loose, root, aborted, consumer, hand, log, runVars>>

(* The signal is set and the node goes on.                                 *)
Resume(n) ==
  /\ node[n] = "acked"
  /\ stage[n] # "failed"
  /\ node' = [node EXCEPT ![n] = IF stage[n] = "final" THEN "stopped" ELSE "run"]
  /\ Enter(n, CASE stage[n] = "final" -> "final"
                [] stage[n] = "retry" -> "loop"
                [] OTHER -> IF aborted THEN "final" ELSE "loop")
  /\ UNCHANGED <<queue, count, before, loose, root, aborted, consumer, hand, log, runVars>>

(* The node's generator ends.                                              *)
EndLoop(n) ==
  /\ At(n, "run", "loop")
  /\ Enter(n, "final")
  /\ UNCHANGED <<queue, node, count, before, loose, root, aborted, consumer, hand, log, runVars>>

(* _flush_output_and_deltas: one more event when something is left to say. *)
Flush(n) ==
  /\ At(n, "run", "final")
  /\ PutAndPark(n)
  /\ UNCHANGED <<stage, before, loose, root, aborted, consumer, hand, log, runVars>>

(* Nothing is left to flush, or the failed attempt is the last one.        *)
Stop(n) ==
  /\ At(n, "run", "final") \/ At(n, "acked", "failed")
  /\ node' = [node EXCEPT ![n] = "stopped"]
  /\ UNCHANGED <<queue, stage, count, before, loose, root, aborted, consumer, hand, log, runVars>>

(* The node's task is cancelled: with the root task, by the workflow that  *)
(* sees the abort, or with its siblings when one of them fails.  What it   *)
(* has put stays on the queue.                                             *)
Cancelled(n) ==
  /\ node[n] # "stopped"
  /\ \/ root = "cancelled"
     \/ aborted
     \/ \E m \in Node \ {n} : stage[m] \in {"failed", "retry"}
  /\ node' = [node EXCEPT ![n] = "stopped"]
  /\ UNCHANGED <<queue, stage, count, before, loose, root, aborted, consumer, hand, log, runVars>>

(* From now on nobody waits for the node's task: a body that gathered its  *)
(* children has failed with one of them or never waited for this one, or a *)
(* parallel worker has abandoned it after the drain.  It goes on running.  *)
LeftBehind(n) ==
  /\ n \in Detached \ loose /\ node[n] # "stopped"
  /\ loose' = loose \cup {n}
  /\ UNCHANGED <<queue, node, stage, count, before, root, aborted, consumer, hand, log, runVars>>

(* A mutant: the sentinel does not wait for the nodes.                     *)
RootEndsFirst ==
  /\ root \in {"run", "cancelled"}
  /\ \/ root = "cancelled" /\ root' = "returned"
     \/ root = "run" /\ root' \in {"returned", "raised"}
  /\ Put(Sentinel)
  /\ UNCHANGED <<nodeVars, aborted, consumer, hand, log, runVars>>

(* The root task awaits the root node, which ends when the nodes have that *)
(* are still waited for; then it puts the sentinel, whatever happened.     *)
RootEnds ==
  /\ root \in {"run", "cancelled"}
  /\ \A n \in Node : node[n] = "stopped" \/ n \in loose
  /\ \/ root = "cancelled" /\ root' = "returned"
     \/ root = "run" /\ root' \in {"returned", "raised"}
  /\ Put(Sentinel)
  /\ UNCHANGED <<nodeVars, aborted, consumer, hand, log, runVars>>

-----------------------------------------------------------------------------
(* The main loop: Runner._consume_event_queue.                             *)

Take == /\ queue # <<>>
        /\ hand' = Head(queue)
        /\ queue' = Tail(queue)
        /\ consumer' = "have"

(* A mutant: the root task is joined without being cancelled.              *)
CloseOnly(how) ==
  /\ consumer' = "closed"
  /\ hand' = NoItem
  /\ ending' = how
  /\ phase' = "join"
  /\ UNCHANGED <<root, synthesized, broken>>

(* How the consuming ends, and the root task is cancelled if it still runs.*)
Close(how) ==
  /\ consumer' = "closed"
  /\ hand' = NoItem
  /\ ending' = how
  /\ phase' = "join"
  /\ root' = IF root = "run" THEN "cancelled" ELSE root
  /\ UNCHANGED <<synthesized, broken>>

Top ==
  /\ consumer = "top"
  /\ \/ /\ Take
        /\ UNCHANGED <<root, runVars>>
     \/ /\ queue = <<>> /\ aborted
        /\ Close("normal")
        /\ UNCHANGED queue
     \/ /\ queue = <<>> /\ ~aborted
        /\ consumer' = "get"
        /\ UNCHANGED <<queue, hand, root, runVars>>
  /\ UNCHANGED <<nodeVars, aborted, log>>

(* asyncio.wait on the next item and the abort signal.                     *)
Got ==
  /\ consumer \in {"get", "grace"}
  /\ Take
  /\ UNCHANGED <<nodeVars, root, aborted, log, runVars>>

AbortSeen ==
  /\ consumer = "get" /\ aborted /\ queue = <<>>
  /\ consumer' = "grace"
  /\ UNCHANGED <<queue, nodeVars, root, aborted, hand, log, runVars>>

(* After one more turn of the event loop the getter is still not done: a   *)
(* put that came in that turn may not have reached it.                     *)
GiveUp ==
  /\ consumer = "grace"
  /\ Close("normal")
  /\ UNCHANGED <<queue, nodeVars, aborted, log>>

Acknowledge(n) ==
  node' = IF n \in Node /\ node[n] = "parked"
          THEN [node EXCEPT ![n] = "acked"] ELSE node

EndOfStream ==
  /\ consumer = "have" /\ hand = Sentinel
  /\ Close("normal")
  /\ UNCHANGED <<queue, nodeVars, aborted, log>>

PassBarrier ==
  /\ consumer = "have" /\ hand.kind = "barrier"
  /\ Acknowledge(hand.node)
  /\ consumer' = "top"
  /\ hand' = NoItem
  /\ UNCHANGED <<queue, stage, count, before, loose, root, aborted, log, runVars>>

(* Plugins run, a non-partial event is appended, the caller gets it.       *)
Deliver ==
  /\ consumer = "have" /\ hand.kind \in {"event", "partial"}
  /\ log' = IF hand.kind = "event" THEN Append(log, hand) ELSE log
  /\ consumer' = "yielded"
  /\ UNCHANGED <<queue, nodeVars, root, aborted, hand, runVars>>

(* A plugin or the session service raises.                                 *)
DeliverFails ==
  /\ consumer = "have" /\ hand.kind \in {"event", "partial"}
  /\ Close("error")
  /\ UNCHANGED <<queue, nodeVars, aborted, log>>

(* The caller asks for the next event: now the producer goes on.           *)
NextEvent ==
  /\ consumer = "yielded"
  /\ IF hand.kind = "event" THEN Acknowledge(hand.node) ELSE UNCHANGED node
  /\ consumer' = "top"
  /\ hand' = NoItem
  /\ UNCHANGED <<queue, stage, count, before, loose, root, aborted, log, runVars>>

(* The caller stops iterating (GeneratorExit).                             *)
CallerCloses ==
  /\ consumer = "yielded"
  /\ Close("closed")
  /\ UNCHANGED <<queue, nodeVars, aborted, log>>

(* The task that runs the invocation is cancelled at one of its awaits; an *)
(* append it was waiting for may have been done.  (A cancellation that     *)
(* comes while _cleanup_root_task joins the root task is swallowed there.) *)
CallerCancels ==
  /\ consumer \in {"get", "grace", "have"}
  /\ Close("cancelled")
  /\ \/ log' = log
     \/ hand.kind = "event" /\ log' = Append(log, hand)
  /\ UNCHANGED <<queue, nodeVars, aborted>>

(* InvocationContext.abort, or the caller's abort signal, until the exit   *)
(* policy has looked at it.                                                *)
Abort ==
  /\ ~aborted /\ phase \notin {"after", "end"}
  /\ aborted' = TRUE
  /\ UNCHANGED <<queue, nodeVars, root, consumer, hand, log, runVars>>

-----------------------------------------------------------------------------
(* The end of the run: cleanup, sealing and the lifecycle.                 *)

(* _cleanup_root_task returns, or raises what the root node raised.        *)
Joined ==
  /\ phase = "join" /\ root \in {"returned", "raised"}
  /\ ending' = IF root = "raised" THEN "error" ELSE ending
  /\ phase' = IF aborted /\ ending' = "normal" THEN "sealing" ELSE "exit"
  /\ UNCHANGED <<queue, nodeVars, root, aborted, consumer, hand, log, synthesized, broken>>

(* A mutant: a run that raises is not sealed.                              *)
ExitOnError ==
  /\ phase = "exit"
  /\ aborted' = (aborted \/ ending = "cancelled")
  /\ phase' = IF aborted' /\ ending # "error" THEN "exit sealing" ELSE "after"
  /\ UNCHANGED <<queue, nodeVars, root, consumer, hand, log, ending, synthesized, broken>>

(* The lifecycle's handlers: an external cancellation marks the invocation *)
(* aborted; an aborted one is sealed, whatever ended it.                   *)
Exit ==
  /\ phase = "exit"
  /\ aborted' = (aborted \/ ending = "cancelled")
  /\ phase' = IF aborted' THEN "exit sealing" ELSE "after"
  /\ UNCHANGED <<queue, nodeVars, root, consumer, hand, log, ending, synthesized, broken>>

Sealing == phase \in {"sealing", "exit sealing"}
Sealed == IF phase = "sealing" THEN "exit" ELSE "after"

(* _synthesize_abort_events_if_needed sets its flag before it appends; the *)
(* append is awaited, and may raise or be cancelled.  One seal stands for  *)
(* the events that answer the open calls; that a task agent which already  *)
(* waits for the user needs none is left out.                              *)
SealSkipped ==
  /\ Sealing /\ synthesized
  /\ phase' = Sealed
  /\ UNCHANGED <<queue, nodeVars, root, aborted, consumer, hand, log, ending, synthesized, broken>>

(* A mutant: the flag is never set.                                        *)
SealAgain ==
  /\ Sealing /\ ~synthesized
  /\ log' = Append(log, Seal)
  /\ phase' = Sealed
  /\ UNCHANGED <<queue, nodeVars, root, aborted, consumer, hand, ending, synthesized, broken>>

SealAppended ==
  /\ Sealing /\ ~synthesized
  /\ synthesized' = TRUE
  /\ log' = Append(log, Seal)
  /\ phase' = Sealed
  /\ UNCHANGED <<queue, nodeVars, root, aborted, consumer, hand, ending, broken>>

SealInterrupted ==
  /\ Sealing /\ ~synthesized
  /\ synthesized' = TRUE
  /\ phase' = Sealed
  /\ IF phase = "sealing"
     THEN broken' = "first" /\ ending' \in {"error", "cancelled"}
     ELSE broken' = "last" /\ ending' \in {ending, "cancelled"}
  /\ UNCHANGED <<queue, nodeVars, root, aborted, consumer, hand, log>>

(* after_run callbacks and compaction touch nothing modelled here.         *)
Finish ==
  /\ phase = "after"
  /\ phase' = "end"
  /\ UNCHANGED <<queue, nodeVars, root, aborted, consumer, hand, log, ending, synthesized, broken>>

-----------------------------------------------------------------------------
NodeStep(n) == \/ Yield(n) \/ YieldPartial(n) \/ Fail(n) \/ Barrier(n)
               \/ Resume(n) \/ EndLoop(n) \/ Flush(n) \/ Stop(n)

Consume == \/ Top \/ Got \/ AbortSeen \/ GiveUp
           \/ EndOfStream \/ PassBarrier \/ Deliver \/ DeliverFails

WindDown == Joined \/ Exit \/ SealSkipped \/ SealAppended \/ SealInterrupted \/ Finish

Caller == NextEvent \/ CallerCloses

Next == \/ \E n \in Node : NodeStep(n) \/ Cancelled(n) \/ LeftBehind(n)
        \/ RootEnds \/ Consume \/ Caller \/ CallerCancels \/ Abort \/ WindDown

Spec == Init /\ [][Next]_vars

(* Ready tasks run; a node's code ends; a task that is cancelled with the  *)
(* root task ends, or is left behind; the caller goes on iterating or      *)
(* closes the generator.                                                   *)
Fairness ==
  /\ \A n \in Node : /\ WF_vars(NodeStep(n)) /\ WF_vars(Stop(n)) /\ WF_vars(EndLoop(n))
                     /\ WF_vars(Cancelled(n) /\ root = "cancelled" /\ n \notin loose)
  /\ WF_vars(RootEnds) /\ WF_vars(Consume) /\ WF_vars(Caller) /\ WF_vars(WindDown)

FairSpec == Spec /\ Fairness

-----------------------------------------------------------------------------
InLog(e) == \E i \in DOMAIN log : log[i] = e

(* A node that goes on after a non-partial event finds all its events in   *)
(* the session: InvocationContext._enqueue_event.                          *)
NodesSeeTheirEvents ==
  \A n \in Node : node[n] \in {"run", "acked"} =>
    \A k \in 1..count[n] : InLog(Event(n, k))

(* A retry that goes on past its barrier finds in the session everything   *)
(* any node had put before it, siblings that were cancelled while parked   *)
(* included: NodeRunner._wait_for_enqueued_events.                         *)
RetrySeesSiblings ==
  \A n \in Node : node[n] # "stopped" /\ ~At(n, "parked", "retry") =>
    \A e \in before[n] : InLog(e)

(* An invocation is sealed at most once, though both the run and its       *)
(* lifecycle try: Runner._synthesize_abort_events_if_needed.               *)
SealedAtMostOnce ==
  \A i, j \in DOMAIN log : log[i] = Seal /\ log[j] = Seal => i = j

(* Whatever ended it, an aborted run leaves its seal in the session unless *)
(* the sealing itself was interrupted: _run_invocation_lifecycle.          *)
AbortedIsSealed ==
  phase = "end" /\ aborted /\ broken = "no" => InLog(Seal)

(* A run that ended by itself has in its session every event its nodes     *)
(* put, those of siblings that were cancelled while parked and of a failed *)
(* attempt included; only what a node said that nobody waited for may be   *)
(* missing: _drive_root_node puts the sentinel behind the others' events.  *)
EverythingSaid ==
  phase # "consume" /\ ending = "normal" /\ ~aborted =>
    \A e \in PutSoFar : InLog(e) \/ e.node \in loose

(* What the comment in _consume_event_queue says: a producer that is       *)
(* parked in _enqueue_event is released by _cleanup_root_task.  Does not   *)
(* hold for a node left behind, whose signal nobody sets any more.         *)
NobodyLeftBehind ==
  phase \notin {"consume", "join"} => \A n \in Node : node[n] # "parked"

(* Every run ends, wherever the caller stops, cancels or aborts: no node   *)
(* that is waited for stays parked on a signal nobody sets.                *)
EveryRunEnds == <>(phase = "end")

(* What the exit policy of _run_invocation_lifecycle says of a cancelled   *)
(* run: marked aborted and sealed, here when the lifecycle's own sealing   *)
(* was not interrupted.  Does not hold for a run that is cancelled during  *)
(* its own sealing.                                                        *)
CancelledIsSealed ==
  phase = "end" /\ ending = "cancelled" /\ broken # "last" => InLog(Seal)
=============================================================================
