---------------------------- MODULE DynamicNodes ----------------------------
(***************************************************************************)
(* The dynamic nodes of one parent: a node whose body gathers callers that *)
(* each make a sequence of ctx.run_node() calls of one node.  A call names *)
(* its run or leaves the run id to a counter; runs that are under way are  *)
(* shared, runs that completed are replayed (DynamicNodeScheduler).  The   *)
(* parent is retried after the failure of a child or of its own            *)
(* (NodeRunner.run), and its body starts again in a later turn, when all   *)
(* that is left of the earlier one is the log of the session.              *)
(*                                                                         *)
(* Steps end where a task awaits something.  Callers of an attempt that    *)
(* has failed go on in the background, as those of asyncio.gather do.  The *)
(* owner of an execution is the caller whose call has started it.          *)
(***************************************************************************)
EXTENDS Naturals, Sequences, SequencesExt, FiniteSets

CONSTANTS
  Unnamed,      \* a call that does not name its run
  Bodies,       \* what the body may be: a sequence of callers, each of which is the sequence
                \* of its calls, a call being Unnamed or the name of a run
  MaxAttempts,  \* retry_config.max_attempts
  MaxTurns,     \* bound: turns of the invocation
  MaxMishaps    \* bound: failures, rejections, cancellations and crashes

ASSUME BodiesAssumption ==
  \A b \in Bodies : /\ b # <<>> /\ \A c \in DOMAIN b : b[c] # <<>>
                    /\ b \in Seq(Seq(UNION {ToSet(b[c]) : c \in DOMAIN b}))

\* Names of runs hold a character that is not a digit
ASSUME NamesAssumption ==
  \A b \in Bodies : \A c \in DOMAIN b : \A k \in ToSet(b[c]) \ {Unnamed} : k \notin Nat

ASSUME BoundsAssumption ==
  MaxAttempts \in Nat \ {0} /\ MaxTurns \in Nat \ {0} /\ MaxMishaps \in Nat

VARIABLES
  calls,      \* the body
  turn, attempt,
  parent,     \* "calls" while gather starts its callers, "waits", "over"
  starting,   \* the caller it starts next
  ended,      \* what ended the attempt, or the turn
  counter,    \* run_counters of the parent's path
  snapshot,   \* counters_at_start of the attempt
  runs,       \* DynamicNodeState.runs
  frames,     \* the callers of each attempt, with the calls whose results they got
  execs,      \* the executions, by their owners
  ready,      \* callers that the event loop wakes, in this order
  log,        \* the events of the children in the session
  passed,     \* the runs that have gone past the barrier of the turn
  mishaps,
  before,     \* the number of events that earlier turns have left
  rejected,   \* runs of attempts that failed by themselves
  kept        \* calls of an attempt whose failure is retried, with runs that stay completed

Caller == DOMAIN calls
Call == UNION {{<<c, s>> : s \in DOMAIN calls[c]} : c \in Caller}
UnnamedCalls == {call \in Call : calls[call[1]][call[2]] = Unnamed}
Name == (UNION {ToSet(calls[c]) : c \in Caller}) \ {Unnamed}
Key == Name \cup (Nat \ {0})
Frame == (1..MaxAttempts) \X Caller
None == <<0, 0>>

parentVars == <<calls, turn, attempt, parent, starting, snapshot>>
notes == <<before, rejected, kept>>
memory == <<counter, runs, frames, execs, ready, passed>>
vars == <<parentVars, ended, memory, log, mishaps, notes>>

\* owners: the callers that hold this entry; task: the owner of its latest execution
NewRun == [status |-> "new", task |-> None, result |-> None, owners |-> {}]
NoCall == [pc |-> "none", got |-> <<>>, key |-> 0, own |-> FALSE, result |-> None]
NoExec == [state |-> "none", key |-> 0, waiters |-> <<>>]

Result == Call \cup {None}

Run == [status : {"new", "running", "completed", "failed"},
        task : Frame \cup {None}, result : Result, owners : SUBSET Frame]

CallerState == [pc : {"none", "waits", "doomed", "returned", "failed", "cancelled", "replays",
                      "ended", "raised"},
                got : Seq(Result), key : Key \cup {0}, own : BOOLEAN, result : Result]

Execution == [state : {"none", "running", "recorded"}, key : Key \cup {0}, waiters : Seq(Frame)]

TypeOK ==
  /\ calls \in Bodies
  /\ turn \in 1..MaxTurns /\ attempt \in 1..MaxAttempts /\ mishaps \in 0..MaxMishaps
  /\ parent \in {"calls", "waits", "over"} /\ starting \in Caller
  /\ ended \in {"no", "child", "own", "cancelled", "completed", "crashed"}
  /\ counter \in Nat /\ snapshot \in Nat
  /\ DOMAIN runs \subseteq Key /\ runs \in [DOMAIN runs -> Run]
  /\ frames \in [Frame -> CallerState] /\ execs \in [Frame -> Execution]
  /\ ready \in Seq(Frame)
  /\ log \in Seq([key : Key, call : Call, output : BOOLEAN])
  /\ before \in 0..Len(log) /\ passed \subseteq Key
  /\ rejected \subseteq Key /\ kept \subseteq Call

-----------------------------------------------------------------------------
(* The session and the barrier.                                            *)

\* Where in l the latest event of run k is
LatestIn(l, k) == {i \in DOMAIN l : l[i].key = k /\ \A j \in DOMAIN l : j > i => l[j].key # k}

\* A mutant: the first event decides.
RecoveredByFirst(k) ==
  LET mine == {i \in DOMAIN log : log[i].key = k}
      event == log[CHOOSE i \in mine : \A j \in mine : i <= j]
  IN  IF mine = {} THEN NewRun
      ELSE IF event.output THEN [NewRun EXCEPT !.status = "completed", !.result = event.call]
      ELSE [NewRun EXCEPT !.status = "failed"]

\* _rehydrate_from_events: the latest event of the run decides
Recovered(k) ==
  LET event == log[CHOOSE i \in LatestIn(log, k) : TRUE]
  IN  IF LatestIn(log, k) = {} THEN NewRun
      ELSE IF event.output THEN [NewRun EXCEPT !.status = "completed", !.result = event.call]
      ELSE [NewRun EXCEPT !.status = "failed"]

\* _scan_sequence: a run has the place of the first result that earlier turns have left
PlacesOf(k) ==
  {i \in 1..before : /\ log[i].key = k /\ log[i].output
                     /\ \A j \in 1..(i - 1) : log[j].key = k => ~ log[j].output}

\* ReplaySequenceBarrier: the runs that have their places before that of k are past them
Released(k) ==
  \A i \in PlacesOf(k) : \A j \in 1..(i - 1) : log[j].output => log[j].key \in passed

Passed(k) == IF PlacesOf(k) = {} THEN passed ELSE passed \cup {k}

-----------------------------------------------------------------------------
(* A call of run_node.                                                     *)

CallOf(f) == <<f[2], Len(frames[f].got) + 1>>

\* The runs r with the entry of k, and without it
Put(r, k, run) == [j \in DOMAIN r \cup {k} |-> IF j = k THEN run ELSE r[j]]
Without(r, k) == [j \in DOMAIN r \ {k} |-> r[j]]

UnderWay(f, k) == f # None /\ execs[f].state # "none" /\ execs[f].key = k

\* The entry of k in the runs r, or what the session has of it
Entry(r, k) == IF k \in DOMAIN r THEN r[k] ELSE Recovered(k)

\* Caller f makes its next call, got being the results it has; r: the runs
Enter(f, got, r) ==
  LET auto == calls[f[2]][Len(got) + 1] = Unnamed
      k == IF auto THEN counter + 1 ELSE calls[f[2]][Len(got) + 1]
      run == Entry(r, k)
      At(pc, own, result) ==
        frames' = [frames EXCEPT ![f] = [pc |-> pc, got |-> got, key |-> k, own |-> own,
                                         result |-> result]]
  IN  /\ counter' = IF auto THEN k ELSE counter
      /\ \/ /\ UnderWay(run.task, k)
            /\ At("waits", FALSE, None)
            /\ execs' = [execs EXCEPT ![run.task].waiters = Append(@, f)]
            /\ runs' = r
         \/ /\ ~ UnderWay(run.task, k) /\ run.status = "completed"
            /\ At("replays", FALSE, run.result)
            /\ runs' = Put(r, k, run)
            /\ UNCHANGED execs
         \/ /\ ~ UnderWay(run.task, k) /\ run.status # "completed"
            /\ At("waits", TRUE, None)
            /\ execs' = [execs EXCEPT ![f] = [state |-> "running", key |-> k, waiters |-> <<f>>]]
            /\ runs' = Put(r, k, [run EXCEPT !.status = "running", !.task = f,
                                             !.owners = @ \cup {f}])

\* An exception of a caller ends the attempt, unless it was over
Raise(f, kind) ==
  IF f[1] = attempt /\ ended = "no" THEN ended' = kind ELSE UNCHANGED ended

Mishap == mishaps < MaxMishaps /\ mishaps' = mishaps + 1

\* Caller f stops; nobody asks any more what a caller of an earlier attempt got
Stop(f, pc, got, r) ==
  /\ frames' = [frames EXCEPT ![f] = IF f[1] = attempt THEN [NoCall EXCEPT !.pc = pc, !.got = got]
                                     ELSE NoCall]
  /\ runs' = r
  /\ UNCHANGED <<counter, execs>>

\* Caller f gets a result, and goes on, is through, or raises
Receive(f, r) ==
  LET got == Append(frames[f].got, frames[f].result)
      more == Len(got) < Len(calls[f[2]])
  IN  /\ passed' = Passed(frames[f].key)
      /\ \/ more /\ Enter(f, got, r) /\ UNCHANGED <<ended, mishaps>>
         \/ ~ more /\ Stop(f, "ended", got, r) /\ UNCHANGED <<ended, mishaps>>
         \/ Stop(f, "raised", got, r) /\ Raise(f, "own") /\ Mishap

\* A caller whose time is up: the body goes on without it, or raises
GiveUp(f, r) ==
  \/ Stop(f, "ended", frames[f].got, r) /\ UNCHANGED ended
  \/ Stop(f, "raised", frames[f].got, r) /\ Raise(f, "own")

-----------------------------------------------------------------------------
Init ==
  /\ calls \in Bodies
  /\ turn = 1 /\ attempt = 1 /\ parent = "calls" /\ starting = 1 /\ ended = "no"
  /\ counter = 0 /\ snapshot = 0
  /\ runs = <<>>
  /\ frames = [f \in Frame |-> NoCall] /\ execs = [f \in Frame |-> NoExec] /\ ready = <<>>
  /\ log = <<>> /\ passed = {}
  /\ mishaps = 0 /\ before = 0 /\ rejected = {} /\ kept = {}

(* The parent.  Gather starts its callers in one go.                       *)

StartCaller ==
  /\ parent = "calls"
  /\ Enter(<<attempt, starting>>, <<>>, runs)
  /\ IF starting < Len(calls)
     THEN starting' = starting + 1 /\ UNCHANGED parent
     ELSE starting' = 1 /\ parent' = "waits"
  /\ UNCHANGED <<calls, turn, attempt, ended, snapshot, ready, log, passed, mishaps, notes>>

\* The turn is over, and with it all that is left of its callers and executions
Over(how) ==
  /\ parent' = "over" /\ ended' = how
  /\ attempt' = 1 /\ starting' = 1 /\ counter' = 0 /\ snapshot' = 0
  /\ runs' = <<>>
  /\ frames' = [f \in Frame |-> NoCall] /\ execs' = [f \in Frame |-> NoExec] /\ ready' = <<>>
  /\ passed' = {} /\ rejected' = {} /\ kept' = {}
  /\ before' = Len(log)
  /\ UNCHANGED <<calls, turn, log>>

Mine == {<<attempt, c>> : c \in Caller}

Complete ==
  /\ parent = "waits" /\ ended = "no"
  /\ \A f \in Mine : frames[f].pc = "ended"
  /\ Over("completed") /\ UNCHANGED mishaps

\* The calls whose results the attempt has got
Served == UNION {{<<f[2], s>> : s \in DOMAIN frames[f].got} : f \in Mine}
Rejected == (1..counter) \cup {calls[call[1]][call[2]] : call \in Served \ UnnamedCalls}

\* The run of a call that the attempt has made, if callers make one unnamed call each, as
\* their first
Nth(c) == Cardinality({d \in 1..c : calls[d][1] = Unnamed})
RunOf(call) == IF call \in UnnamedCalls THEN snapshot + Nth(call[1]) ELSE calls[call[1]][call[2]]

\* The run is completed, and nobody executes it once more
Stays(k) == Entry(runs, k).status = "completed" /\ \A f \in Frame : ~ UnderWay(f, k)

\* Mutants: one too few, back to the first attempt, not at all.
RewoundShort == IF ended = "child" THEN snapshot + 1 ELSE counter
RewoundToStart == IF ended = "child" THEN 0 ELSE counter
NotRewound == counter

\* _reset_dynamic_children_for_retry
Rewound == IF ended = "child" THEN snapshot ELSE counter

\* Its callers go behind those that have been woken.  The rewinding, the wait for
\* queued events and the new snapshot are one step: what callers of the failed
\* attempt count in between is left out
Retry ==
  /\ parent = "waits" /\ ended \in {"child", "own"} /\ attempt < MaxAttempts
  /\ ready = <<>>
  /\ attempt' = attempt + 1 /\ parent' = "calls" /\ ended' = "no"
  /\ counter' = Rewound
  /\ snapshot' = counter'
  /\ rejected' = IF ended = "own" THEN rejected \cup Rejected ELSE rejected
  /\ kept' = IF ended = "child" THEN {call \in Served : Stays(RunOf(call))} ELSE {}
  /\ frames' = [f \in Frame |-> IF frames[f].pc \in {"ended", "raised"} THEN NoCall
                                ELSE frames[f]]
  /\ UNCHANGED <<calls, turn, starting, runs, execs, ready, log, passed, mishaps, before>>

GiveOver ==
  /\ parent = "waits" /\ ended # "no"
  /\ ended \in {"child", "own"} => attempt = MaxAttempts
  /\ Over(ended) /\ UNCHANGED mishaps

Crash == parent # "over" /\ Mishap /\ Over("crashed")

NextTurn ==
  /\ parent = "over" /\ ended # "completed" /\ turn < MaxTurns
  /\ turn' = turn + 1 /\ parent' = "calls" /\ ended' = "no"
  /\ UNCHANGED <<calls, attempt, starting, snapshot, memory, log, mishaps, notes>>

-----------------------------------------------------------------------------
(* The executions.                                                         *)

Going == parent = "waits" \/ (parent = "calls" /\ starting = 1)

\* The execution of owner f ends: those who wait for it are woken with its outcome
Ends(f, pc) ==
  /\ frames' = [g \in Frame |-> IF Contains(execs[f].waiters, g)
                                THEN [frames[g] EXCEPT !.pc = pc, !.result = CallOf(f)]
                                ELSE frames[g]]
  /\ ready' = ready \o execs[f].waiters
  /\ execs' = [execs EXCEPT ![f] = NoExec]

Record(f) ==
  /\ Going /\ execs[f].state = "running"
  /\ execs' = [execs EXCEPT ![f].state = "recorded"]
  /\ log' = Append(log, [key |-> execs[f].key, call |-> CallOf(f), output |-> TRUE])
  /\ UNCHANGED <<parentVars, ended, counter, runs, frames, ready, passed, mishaps, notes>>

Return(f) ==
  /\ Going /\ execs[f].state = "recorded"
  /\ Ends(f, "returned")
  /\ UNCHANGED <<parentVars, ended, counter, runs, log, passed, mishaps, notes>>

Fail(f) ==
  /\ Going /\ execs[f].state = "running" /\ Mishap
  /\ Ends(f, "failed")
  /\ log' = Append(log, [key |-> execs[f].key, call |-> CallOf(f), output |-> FALSE])
  /\ UNCHANGED <<parentVars, ended, counter, runs, passed, notes>>

-----------------------------------------------------------------------------
(* The callers.                                                            *)

\* record_outcome and run.task = None, on the entry that owner f refers to
Outcome(f, status) ==
  LET k == frames[f].key
  IN  IF k \in DOMAIN runs /\ f \in runs[k].owners
      THEN [runs EXCEPT ![k] = [status |-> status,
                                result |-> IF status = "completed" THEN CallOf(f) ELSE @.result,
                                task |-> IF @.task = f THEN None ELSE @.task,
                                owners |-> @.owners \ {f}]]
      ELSE runs

\* An owner that is cancelled drops the entry of its key, whoever has made it
Dropped(f) == IF frames[f].own THEN Without(runs, frames[f].key) ELSE runs

Wake ==
  /\ Going /\ ready # <<>>
  /\ ready' = Tail(ready)
  /\ LET f == Head(ready)
         pc == frames[f].pc
     IN  \/ /\ pc = "returned"
            /\ Receive(f, Outcome(f, "completed"))
         \/ /\ pc = "failed"
            /\ Stop(f, "raised", frames[f].got, Outcome(f, "failed"))
            /\ passed' = Passed(frames[f].key)
            /\ Raise(f, "child") /\ UNCHANGED mishaps
         \/ /\ pc = "cancelled"
            /\ Stop(f, "raised", frames[f].got, Dropped(f))
            /\ Raise(f, "cancelled") /\ UNCHANGED <<passed, mishaps>>
         \/ /\ pc = "doomed"
            /\ GiveUp(f, Dropped(f)) /\ UNCHANGED <<passed, mishaps>>
  /\ UNCHANGED <<parentVars, log, notes>>

Replay(f) ==
  /\ Going /\ frames[f].pc = "replays" /\ Released(frames[f].key)
  /\ Receive(f, runs)
  /\ UNCHANGED <<parentVars, ready, log, notes>>

\* WorkflowInvariantError after 15 seconds at the barrier
Diverge(f) ==
  /\ Going /\ frames[f].pc = "replays" /\ ~ Released(frames[f].key)
  /\ Stop(f, "raised", frames[f].got, runs) /\ Raise(f, "own")
  /\ UNCHANGED <<parentVars, ready, log, passed, mishaps, notes>>

\* The body cancels a caller, as asyncio.wait_for does: who awaits a task cancels it
CancelWaiting(f) ==
  /\ Going /\ f[1] = attempt /\ Mishap
  /\ \/ /\ frames[f].pc = "waits"
        /\ \E o \in Frame :
             /\ Contains(execs[o].waiters, f)
             /\ frames' = [g \in Frame |-> IF g = f THEN [frames[g] EXCEPT !.pc = "doomed"]
                                           ELSE IF Contains(execs[o].waiters, g)
                                                THEN [frames[g] EXCEPT !.pc = "cancelled"]
                                           ELSE frames[g]]
             /\ ready' = ready \o execs[o].waiters
             /\ execs' = [execs EXCEPT ![o] = NoExec]
     \/ /\ frames[f].pc \in {"returned", "failed", "cancelled"}
        /\ frames' = [frames EXCEPT ![f].pc = "doomed"]
        /\ UNCHANGED <<execs, ready>>
  /\ UNCHANGED <<parentVars, ended, counter, runs, log, passed, notes>>

CancelReplaying(f) ==
  /\ Going /\ f[1] = attempt /\ Mishap
  /\ frames[f].pc = "replays"
  /\ GiveUp(f, runs)
  /\ UNCHANGED <<parentVars, ready, log, passed, notes>>

-----------------------------------------------------------------------------
Next ==
  \/ StartCaller \/ Complete \/ Retry \/ GiveOver \/ Crash \/ NextTurn
  \/ \E f \in Frame : \/ Record(f) \/ Return(f) \/ Fail(f)
                       \/ Replay(f) \/ Diverge(f)
                       \/ CancelWaiting(f) \/ CancelReplaying(f)
  \/ Wake

Spec == Init /\ [][Next]_vars

-----------------------------------------------------------------------------
(* Properties.                                                             *)

Starts(f) == execs[f].state = "none" /\ execs'[f].state # "none"

\* What a call passes to the node: calls that name the same run pass the same
Input(call) == IF call \in UnnamedCalls THEN call ELSE calls[call[1]][call[2]]

(* Through retries, replays and resumes a caller gets results that were    *)
(* made for its own calls: an unnamed call that is repeated gets the run   *)
(* id it had, if callers make one unnamed call each, as their first.       *)
(* Does not hold when callers go on to make unnamed calls: one that the    *)
(* failed attempt has left behind takes the run ids its successor counts   *)
(* on, and the results change places.                                      *)
OwnResults ==
  \A f \in Frame : \A s \in DOMAIN frames[f].got :
    Input(frames[f].got[s]) = Input(<<f[2], s>>)

(* After a failure of its own the body has rejected what its children gave *)
(* it: no later attempt takes part in one of those unnamed runs, even if   *)
(* it is followed by the failure of a child, which rewinds the counter.    *)
RejectedStayRejected == \A f \in Mine : frames[f].key \notin rejected \ Name

(* The same of named runs: "a node that rejects a child's result gets a    *)
(* new one" (docs/guides/workflow/retry_config/index.md).  Does not hold:  *)
(* the counters keep the attempts apart, and named runs use none.          *)
RejectedRunAgain ==
  \A f \in Mine : frames[f].pc = "replays" => frames[f].key \notin rejected

(* After the failure of a child, the retry does not execute again what the *)
(* failed attempt had completed, whatever the callers that it has left     *)
(* behind do meanwhile; of bodies as those of OwnResults.  Leaves out the  *)
(* runs that another caller is executing once more when the attempt is     *)
(* retried, or has, without success: one that asks between the end of an   *)
(* execution and the moment its owner hears of it executes the run once    *)
(* more, and if that fails, the retry does too.                            *)
RetryReplays ==
  [][\A f \in Mine : Starts(f) => <<f[2], Len(frames'[f].got) + 1>> \notin kept]_vars

(* A run that earlier turns have left with a result is not executed again, *)
(* whichever attempt or caller asks for it.                                *)
TurnsReplay ==
  [][\A f \in Frame : Starts(f) =>
       LET l == SubSeq(log, 1, before)
       IN  \A i \in LatestIn(l, execs'[f].key) : ~ l[i].output]_vars
=============================================================================
