------------------------ MODULE ParallelWorker_proofs ------------------------
(***************************************************************************)
(* Proofs about the safety of ParallelWorker for any number of items, any  *)
(* limit and any number of turns.  The first inductive invariant says which*)
(* item has which run id, that an item's task belongs to the pool as long  *)
(* as it has not ended, and what the items that left the pool have left    *)
(* behind.  The second, over it, is about the order of the events and of   *)
(* the barrier's sequence, and leads to NeverStuck.                        *)
(***************************************************************************)
EXTENDS ParallelWorker, FiniteSetTheorems, WellFoundedInduction, TLAPS

Active == {i \in Item : item[i] \in {"created", "held", "live", "recorded"}}
Going == pc \in {"loop", "wait"}
HasResult(r) == \E a \in DOMAIN session : session[a].kind = "result" /\ session[a].run = r

Types ==
  /\ session \in Seq(SessionEvent)
  /\ counter \in 0..N /\ run \in [Item -> 0..N]
  /\ item \in [Item -> {"none", "created", "held", "live", "recorded", "done"}]
  /\ outcome \in [Item -> Outcome]
  /\ asked \subseteq Item /\ pending \subseteq Item
  /\ index \in 0..N
  /\ interrupted \in BOOLEAN
  /\ results \in [Item -> 0..N]
  /\ pc \in {"loop", "wait", "drain", "collected", "over"}
  /\ ending \in {"none", "completed", "interrupted", "failed", "cancelled", "crashed"}

(* The pool: every task that has not ended is in it, and it keeps the      *)
(* limit.                                                                  *)
InPool == Active \subseteq pending
Limited == MaxWorkers = 0 \/ Cardinality(pending) =< MaxWorkers

(* The worker: nobody is cancelled before the drain, then all are.         *)
Calm == Going => asked = {} /\ ending = "none"
Hunted == pc = "drain" => Active \subseteq asked /\ ending \in {"failed", "cancelled"}
Collecting == pc = "collected" => pending = {} /\ ending = "none"

(* Items are started in order, so that each has the run id of its place.   *)
Numbered == Going => /\ counter =< index
                     /\ \A i \in Item : /\ item[i] = "none" <=> i > index
                                        /\ item[i] = "created" <=> i > counter /\ i =< index
OwnRun == \A i \in Item : item[i] \in {"held", "live", "recorded"} => run[i] = i

(* What the events and the outcomes say is the item's own; a run that has  *)
(* a result has nothing after it and does not execute.                     *)
OwnEvents == \A a \in DOMAIN session : session[a].from = session[a].run
ResultsLast == \A a \in DOMAIN session :
                 session[a].kind = "result" => IsLast(a, session[a].run)
LiveIsNew == \A i \in Item : item[i] = "live" => ~HasResult(i)
OwnOutcome == \A i \in Item : item[i] \in {"held", "recorded", "done"} => outcome[i].from = i

(* What the worker knows of the items it has taken out of the pool.        *)
Gathered == Going => \A i \in 1..index : i \notin pending =>
                       \/ outcome[i].kind \in {"result", "nothing"} /\ results[i] = i
                       \/ outcome[i].kind = "interrupt" /\ interrupted
Complete == pc = "collected" \/ ending = "completed" => \A i \in Item : results[i] = i

IInv == /\ Types
        /\ InPool /\ Limited
        /\ Calm /\ Hunted /\ Collecting
        /\ Numbered /\ OwnRun
        /\ OwnEvents /\ ResultsLast /\ LiveIsNew /\ OwnOutcome
        /\ Gathered /\ Complete
        /\ InterruptSparesSiblings /\ NothingLeftRunning

-----------------------------------------------------------------------------
(* The pool's size, and what Append does to the session.                   *)

LEMMA PoolFinite == ASSUME NEW S \in SUBSET Item PROVE IsFiniteSet(S) /\ Cardinality(S) \in Nat
<1>1. IsFiniteSet(Item)
  BY FS_Interval, PoolAssumption DEF Item
<1> QED BY <1>1, FS_Subset, FS_CardinalityType

LEMMA SmallerPool ==
  ASSUME NEW S \in SUBSET Item, NEW T \in SUBSET S
  PROVE  Cardinality(T) =< Cardinality(S)
BY PoolFinite, FS_Subset

(* Scheduling fills the pool up to the limit.                              *)
LEMMA Filled ==
  ASSUME Types, Limited, NEW m, m = Scheduled
  PROVE  /\ m \in index..N
         /\ (index + 1)..m \subseteq Item
         /\ MaxWorkers = 0 \/ Cardinality(pending \cup (index + 1)..m) =< MaxWorkers
         /\ ~interrupted /\ pending \cup (index + 1)..m = {} => index = N
<1> USE PoolAssumption
<1>1. Cardinality(pending) \in Nat /\ IsFiniteSet(pending)
  BY PoolFinite DEF Types
<1>2. m \in index..N
  BY <1>1 DEF Types, Limited, Scheduled, Room
<1>3. (index + 1)..m \subseteq Item
  BY <1>2 DEF Types, Item
<1>4. ASSUME MaxWorkers # 0
      PROVE  Cardinality(pending \cup (index + 1)..m) =< MaxWorkers
  <2>0. index + 1 \in Int /\ m \in Int /\ index =< m
    BY <1>2 DEF Types
  <2>1. IsFiniteSet((index + 1)..m) /\ Cardinality((index + 1)..m) = m - index
    <3>1. /\ IsFiniteSet((index + 1)..m)
          /\ Cardinality((index + 1)..m) = IF index + 1 > m THEN 0 ELSE m - (index + 1) + 1
      BY <2>0, FS_Interval
    <3>2. index \in Int
      BY DEF Types
    <3> QED BY <2>0, <3>1, <3>2
  <2>2. m - index =< MaxWorkers - Cardinality(pending)
    BY <1>1, <1>4 DEF Types, Limited, Scheduled, Room
  <2>3. /\ Cardinality(pending \cup (index + 1)..m)
            = Cardinality(pending) + Cardinality((index + 1)..m)
              - Cardinality(pending \cap (index + 1)..m)
        /\ Cardinality(pending \cap (index + 1)..m) \in Nat
        /\ Cardinality(pending \cup (index + 1)..m) \in Nat
    BY <1>1, <1>3, <2>1, FS_Union, PoolFinite DEF Types
  <2> QED BY <1>1, <1>2, <2>1, <2>2, <2>3 DEF Types
<1>5. ASSUME ~interrupted, pending \cup (index + 1)..m = {} PROVE index = N
  <2>1. Cardinality(pending) = 0
    BY <1>5, FS_EmptySet
  <2>2. m =< index
    <3>1. m \in Int /\ index \in Int
      BY <1>2 DEF Types
    <3>2. m \notin (index + 1)..m
      BY <1>5
    <3> QED BY <3>1, <3>2
  <2> QED BY <1>5, <2>1, <2>2 DEF Types, Scheduled, Room
<1> QED BY <1>2, <1>3, <1>4, <1>5

LEMMA Appended ==
  ASSUME NEW S, NEW s \in Seq(S), NEW x \in S, NEW t, t = Append(s, x)
  PROVE  /\ t \in Seq(S) /\ Len(s) \in Nat /\ Len(t) = Len(s) + 1
         /\ DOMAIN s = 1..Len(s) /\ DOMAIN t = 1..(Len(s) + 1)
         /\ \A a \in DOMAIN s : a \in DOMAIN t /\ t[a] = s[a]
         /\ t[Len(s) + 1] = x
OBVIOUS

(* The event an answer or a replay refers to.                              *)
LEMMA LastEventIs ==
  ASSUME Types, OwnEvents, NEW r \in Item, NEW kinds, LastIs(r, kinds)
  PROVE  LastEvent(r).from = r
<1>1. \E a \in DOMAIN session : IsLast(a, r)
  BY DEF LastIs
<1>2. PICK b \in DOMAIN session : IsLast(b, r) /\ LastEvent(r) = session[b]
  BY <1>1 DEF LastEvent
<1> QED BY <1>2 DEF IsLast, OwnEvents

(* An event of a run without a result keeps what is said of the events.    *)
LEMMA SessionGrows ==
  ASSUME Types, OwnEvents, ResultsLast, LiveIsNew,
         NEW e \in SessionEvent, e.from = e.run, ~HasResult(e.run),
         session' = Append(session, e)
  PROVE  /\ session' \in Seq(SessionEvent)
         /\ OwnEvents' /\ ResultsLast'
         /\ \A r : HasResult(r)' => HasResult(r) \/ (r = e.run /\ e.kind = "result")
<1> DEFINE n == Len(session) + 1
<1>1. /\ session' \in Seq(SessionEvent) /\ Len(session) \in Nat
      /\ DOMAIN session = 1..Len(session) /\ DOMAIN session' = 1..n
      /\ \A a \in DOMAIN session : a \in DOMAIN session' /\ session'[a] = session[a]
      /\ session'[n] = e
  BY Appended DEF Types
<1>2. \A a \in DOMAIN session' : a \in DOMAIN session \/ a = n
  BY <1>1
<1>3. OwnEvents'
  BY <1>1, <1>2 DEF OwnEvents
<1>4. ResultsLast'
  <2> SUFFICES ASSUME NEW a \in DOMAIN session', session'[a].kind = "result",
                      NEW b \in DOMAIN session', b > a
               PROVE  session'[b].run # session'[a].run
    BY DEF ResultsLast, IsLast
  <2>1. a \in DOMAIN session /\ session'[a] = session[a]
    BY <1>1, <1>2
  <2>2. CASE b = n
    BY <1>1, <2>1, <2>2 DEF HasResult
  <2>3. CASE b \in DOMAIN session
    BY <1>1, <2>1, <2>3 DEF ResultsLast, IsLast
  <2> QED BY <1>2, <2>2, <2>3
<1>5. ASSUME NEW r, HasResult(r)' PROVE HasResult(r) \/ (r = e.run /\ e.kind = "result")
  <2>1. PICK a \in DOMAIN session' : session'[a].kind = "result" /\ session'[a].run = r
    BY <1>5 DEF HasResult
  <2> QED BY <1>1, <1>2, <2>1 DEF HasResult
<1> QED BY <1>1, <1>3, <1>4, <1>5

(* Whether a run has a result is decided by its last event.                *)
LEMMA ResultDecides ==
  ASSUME Types, ResultsLast, NEW r \in Item, HasResult(r)
  PROVE  Replays(r) /\ ~LastIs(r, {"interrupt"})
<1>1. PICK a \in DOMAIN session : session[a].kind = "result" /\ session[a].run = r
  BY DEF HasResult
<1>2. IsLast(a, r)
  BY <1>1 DEF ResultsLast
<1>3. Replays(r)
  BY <1>1, <1>2 DEF Replays, LastIs
<1>4. ASSUME NEW b \in DOMAIN session, IsLast(b, r), session[b].kind = "interrupt" PROVE FALSE
  <2>1. a = b
    BY <1>2, <1>4 DEF IsLast, Types
  <2> QED BY <1>1, <1>4, <2>1
<1> QED BY <1>3, <1>4 DEF LastIs

-----------------------------------------------------------------------------
LEMMA InitIInv == Init => IInv
<1> SUFFICES ASSUME Init PROVE IInv
  OBVIOUS
<1> USE PoolAssumption DEF Init, Each
<1>1. Types
  <2>1. session \in Seq(SessionEvent)
    OBVIOUS
  <2>2. NoOutcome \in Outcome /\ 0 \in 0..N
    BY DEF Outcome, NoOutcome, Kinds
  <2> QED BY <2>1, <2>2 DEF Types
<1>2. InPool /\ Calm /\ Hunted /\ Collecting /\ OwnRun /\ LiveIsNew /\ OwnOutcome /\ Complete
  BY DEF InPool, Active, Calm, Going, Hunted, Collecting, OwnRun, LiveIsNew, OwnOutcome, Complete
<1>3. Limited
  BY FS_EmptySet DEF Limited
<1>4. Numbered /\ Gathered
  BY DEF Numbered, Gathered, Going, Item
<1>5. OwnEvents /\ ResultsLast
  BY DEF OwnEvents, ResultsLast
<1>6. InterruptSparesSiblings /\ NothingLeftRunning
  BY DEF InterruptSparesSiblings, NothingLeftRunning
<1> QED BY <1>1, <1>2, <1>3, <1>4, <1>5, <1>6 DEF IInv

(* What a step that leaves the session and the items' tasks alone keeps.   *)
LEMMA WorkerKeeps ==
  ASSUME IInv, UNCHANGED <<session, itemVars>>
  PROVE  OwnRun' /\ OwnEvents' /\ ResultsLast' /\ LiveIsNew' /\ OwnOutcome'
BY DEF IInv, itemVars, OwnRun, OwnEvents, ResultsLast, IsLast, LiveIsNew, HasResult, OwnOutcome

LEMMA ScheduleStep == IInv /\ Schedule => IInv'
<1> SUFFICES ASSUME IInv, Schedule PROVE IInv'
  OBVIOUS
<1> DEFINE new == (index + 1)..Scheduled
<1>0. /\ Types /\ Limited /\ pc = "loop" /\ Going
      /\ pending' = pending \cup new /\ index' = Scheduled
      /\ item' = [i \in Item |-> IF i \in new THEN "created" ELSE item[i]]
      /\ UNCHANGED <<session, counter, run, outcome, interrupted, results, asked, lapsed>>
  BY DEF IInv, Schedule, Going
<1>1. /\ Scheduled \in index..N /\ new \subseteq Item
      /\ MaxWorkers = 0 \/ Cardinality(pending') =< MaxWorkers
      /\ ~interrupted /\ pending' = {} => index = N
  BY <1>0, Filled
<1>2. \/ pc' = "wait" /\ pending' # {} /\ ending' = ending
      \/ pc' = "over" /\ pending' = {} /\ interrupted /\ ending' = "interrupted"
      \/ pc' = "collected" /\ pending' = {} /\ ~interrupted /\ ending' = ending
  BY DEF Schedule, MustWait
<1>3. Types'
  <2>1. item' \in [Item -> {"none", "created", "held", "live", "recorded", "done"}]
    BY <1>0 DEF Types
  <2>2. pending' \subseteq Item /\ index' \in 0..N
    BY <1>0, <1>1, PoolAssumption DEF Types
  <2>3. /\ pc' \in {"loop", "wait", "drain", "collected", "over"}
        /\ ending' \in {"none", "completed", "interrupted", "failed", "cancelled", "crashed"}
    BY <1>0, <1>2 DEF Types
  <2> QED BY <1>0, <2>1, <2>2, <2>3 DEF Types
<1>4. InPool' /\ Limited'
  BY <1>0, <1>1 DEF IInv, InPool, Active, Limited
<1>5. \A i \in Item : item[i] = "none" <=> i > index
  BY <1>0 DEF IInv, Numbered
<1>6. Calm' /\ Hunted' /\ Collecting'
  BY <1>0, <1>2 DEF IInv, Calm, Hunted, Collecting, Going
<1>7. Numbered'
  <2> SUFFICES ASSUME Going' PROVE Numbered'
    BY DEF Numbered
  <2>1. counter =< index /\ index =< Scheduled /\ counter \in Int /\ index \in Int
        /\ Scheduled \in Int
    BY <1>0, <1>1 DEF IInv, Numbered, Types
  <2>2. \A i \in Item : i \in Int /\ (i \in new <=> i > index /\ i =< Scheduled)
    BY <2>1 DEF Item
  <2>3. \A i \in Item : item[i] = "created" <=> i > counter /\ i =< index
    BY <1>0 DEF IInv, Numbered
  <2> QED BY <1>0, <1>5, <2>1, <2>2, <2>3 DEF Numbered
<1>8. \A i \in Item : item'[i] \in {"held", "live", "recorded", "done"} => item'[i] = item[i]
  BY <1>0
<1>9. OwnRun' /\ OwnOutcome' /\ LiveIsNew'
  BY <1>0, <1>8 DEF IInv, OwnRun, OwnOutcome, LiveIsNew, HasResult
<1>10. OwnEvents' /\ ResultsLast'
  BY <1>0 DEF IInv, OwnEvents, ResultsLast, IsLast
<1>11. Gathered'
  <2> SUFFICES ASSUME NEW i \in 1..index', i \notin pending'
               PROVE  \/ outcome[i].kind \in {"result", "nothing"} /\ results[i] = i
                      \/ outcome[i].kind = "interrupt" /\ interrupted
    BY <1>0 DEF Gathered
  <2>1. i \in 1..index /\ i \notin pending
    BY <1>0, <1>1 DEF Types
  <2> QED BY <1>0, <2>1 DEF IInv, Gathered
<1>12. ASSUME pending' = {}
       PROVE  \A i \in Item : item'[i] # "none" =>
                /\ i \in 1..index /\ i \notin pending /\ item'[i] = "done"
  <2> SUFFICES ASSUME NEW i \in Item, item'[i] # "none"
               PROVE  i \in 1..index /\ i \notin pending /\ item'[i] = "done"
    OBVIOUS
  <2>1. i \notin pending /\ i \notin new /\ item'[i] = item[i]
    BY <1>0, <1>12
  <2>2. item[i] = "done"
    BY <1>0, <2>1 DEF IInv, InPool, Active, Types
  <2> QED BY <1>0, <1>5, <2>1, <2>2 DEF Types, Item
<1>13. Complete'
  <2>1. CASE pc' = "collected"
    <3>1. index = N /\ pending = {} /\ ~interrupted
      BY <1>0, <1>1, <1>2, <2>1
    <3> QED BY <1>0, <3>1 DEF IInv, Gathered, Complete, Item
  <2>2. CASE pc' # "collected"
    BY <1>0, <1>2, <2>2 DEF IInv, Complete, Calm
  <2> QED BY <2>1, <2>2
<1>14. InterruptSparesSiblings'
  <2> SUFFICES ASSUME ending' = "interrupted", NEW i \in Item, item'[i] # "none"
               PROVE  item'[i] = "done" /\ outcome[i].kind \in {"result", "nothing", "interrupt"}
    BY <1>0 DEF InterruptSparesSiblings
  <2>1. pending' = {}
    BY <1>0, <1>2 DEF IInv, Calm
  <2> QED BY <1>0, <1>12, <2>1 DEF IInv, Gathered
<1>15. NothingLeftRunning'
  BY <1>2, <1>12 DEF NothingLeftRunning
<1> QED BY <1>3, <1>4, <1>6, <1>7, <1>9, <1>10, <1>11, <1>13, <1>14, <1>15 DEF IInv

(* A step of the worker that starts no item.  The pool loses only items    *)
(* that have ended.                                                        *)
LEMMA PoolShrinks ==
  ASSUME IInv, item' = item, pending' \subseteq pending, Active \subseteq pending'
  PROVE  InPool' /\ Limited' /\ pending' \subseteq Item
<1>1. Cardinality(pending') \in Nat /\ Cardinality(pending) \in Nat /\ pending' \subseteq Item
  BY PoolFinite DEF IInv, Types
<1>2. Cardinality(pending') =< Cardinality(pending)
  BY SmallerPool DEF IInv, Types
<1> QED BY <1>1, <1>2, PoolAssumption DEF IInv, InPool, Active, Limited

LEMMA DoneIsEnded ==
  ASSUME IInv
  PROVE  /\ Done \subseteq pending /\ Active \subseteq pending \ Done
         /\ \A i \in pending \ Done : item[i] # "done"
         /\ \A i \in Done : item[i] = "done" /\ i \in Item
BY DEF IInv, InPool, Active, Done, Types

LEMMA CollectStep == IInv /\ Collect => IInv'
<1> SUFFICES ASSUME IInv, Collect PROVE IInv'
  OBVIOUS
<1>0. /\ Types /\ pc = "wait" /\ Going /\ pc' = "loop"
      /\ pending' = pending \ Done
      /\ interrupted' = (interrupted \/ With("interrupt") # {})
      /\ UNCHANGED <<session, itemVars, index, asked, ending, lapsed>>
  BY DEF IInv, Collect, Going, HasInterrupted
<1>1. \A i \in Done : /\ i \in Item /\ item[i] = "done" /\ outcome[i].from = i
                      /\ outcome[i].kind \in {"result", "nothing", "interrupt"}
  <2> SUFFICES ASSUME NEW i \in Done
               PROVE  /\ i \in Item /\ item[i] = "done" /\ outcome[i].from = i
                      /\ outcome[i].kind \in {"result", "nothing", "interrupt"}
    OBVIOUS
  <2>1. i \in Item /\ item[i] = "done"
    BY DoneIsEnded
  <2>2. outcome[i].kind \in Kinds /\ outcome[i].from = i
    BY <1>0, <2>1 DEF Types, Outcome, IInv, OwnOutcome
  <2>3. outcome[i].kind # "cancelled" /\ outcome[i].kind # "error"
    BY DEF Collect, With
  <2> QED BY <2>1, <2>2, <2>3 DEF Kinds
<1>2. results' = [i \in Item |-> IF i \in With("result") \cup With("nothing")
                                THEN outcome[i].from ELSE results[i]]
  BY DEF Collect
<1>3. Types'
  <2>1. results' \in [Item -> 0..N]
    BY <1>0, <1>2 DEF Types, Outcome
  <2> QED BY <1>0, <2>1 DEF Types, itemVars
<1>4. InPool' /\ Limited'
  BY <1>0, DoneIsEnded, PoolShrinks DEF itemVars
<1>5. OwnRun' /\ OwnEvents' /\ ResultsLast' /\ LiveIsNew' /\ OwnOutcome'
  BY <1>0, WorkerKeeps
<1>6. Calm' /\ Hunted' /\ Collecting' /\ Numbered'
  BY <1>0 DEF IInv, Calm, Hunted, Collecting, Numbered, Going, itemVars
<1>7. Gathered'
  <2> SUFFICES ASSUME NEW i \in 1..index, i \notin pending'
               PROVE  \/ outcome[i].kind \in {"result", "nothing"} /\ results'[i] = i
                      \/ outcome[i].kind = "interrupt" /\ interrupted'
    BY <1>0 DEF Gathered, itemVars
  <2>0. i \in Item
    BY <1>0, PoolAssumption DEF Types, Item
  <2>1. CASE i \in Done
    BY <1>0, <1>1, <1>2, <2>0, <2>1 DEF With
  <2>2. CASE i \notin Done
    <3>1. i \notin pending /\ i \notin With("result") /\ i \notin With("nothing")
      BY <1>0, <2>2 DEF With
    <3> QED BY <1>0, <1>2, <2>0, <3>1 DEF IInv, Gathered
  <2> QED BY <2>1, <2>2
<1>8. Complete' /\ InterruptSparesSiblings' /\ NothingLeftRunning'
  BY <1>0 DEF IInv, Calm, Complete, InterruptSparesSiblings, NothingLeftRunning
<1> QED BY <1>3, <1>4, <1>5, <1>6, <1>7, <1>8 DEF IInv

(* The worker raises: whatever runs is cancelled.                          *)
LEMMA RaiseStep ==
  ASSUME IInv, pc = "wait", NEW how \in {"failed", "cancelled"},
         NEW left \in SUBSET pending, Active \subseteq left, Raise(how, left),
         UNCHANGED <<session, itemVars, index, interrupted, results, lapsed>>
  PROVE  IInv'
<1>0. /\ Types /\ pc' = "drain" /\ ending' = how /\ pending' = left
      /\ asked' = asked \cup {i \in left : item[i] # "done"}
  BY DEF IInv, Raise
<1>1. Types'
  BY <1>0 DEF Types, itemVars
<1>2. InPool' /\ Limited'
  BY <1>0, PoolShrinks DEF itemVars
<1>3. OwnRun' /\ OwnEvents' /\ ResultsLast' /\ LiveIsNew' /\ OwnOutcome'
  BY WorkerKeeps
<1>4. Hunted'
  BY <1>0 DEF Hunted, Active, itemVars
<1>5. Calm' /\ Collecting' /\ Numbered' /\ Gathered'
  BY <1>0 DEF Calm, Collecting, Numbered, Gathered, Going
<1>6. Complete' /\ InterruptSparesSiblings' /\ NothingLeftRunning'
  BY <1>0 DEF Complete, InterruptSparesSiblings, NothingLeftRunning
<1> QED BY <1>1, <1>2, <1>3, <1>4, <1>5, <1>6 DEF IInv

LEMMA RaiseSteps == IInv /\ (CollectFailure \/ Cancel) => IInv'
<1>1. ASSUME IInv, CollectFailure PROVE IInv'
  <2>1. pending \ Done \in SUBSET pending /\ Active \subseteq pending \ Done
    BY <1>1, DoneIsEnded
  <2>2. \E how \in {"failed", "cancelled"} : Raise(how, pending \ Done)
    BY <1>1 DEF CollectFailure
  <2> QED BY <1>1, <2>1, <2>2, RaiseStep DEF CollectFailure
<1>2. ASSUME IInv, Cancel PROVE IInv'
  BY <1>2, RaiseStep DEF Cancel, IInv, InPool
<1> QED BY <1>1, <1>2

(* The worker ends.                                                        *)
LEMMA OverStep ==
  ASSUME IInv, pc # "over", pc' = "over",
         UNCHANGED <<session, itemVars, poolVars>>,
         ending' \in {"completed", "failed", "cancelled", "crashed"},
         ending' = "completed" => pc = "collected",
         lapsed' \/ Active = {}
  PROVE  IInv'
<1>1. Types'
  BY DEF IInv, Types, itemVars, poolVars
<1>2. InPool' /\ Limited'
  BY DEF IInv, InPool, Limited, Active, itemVars, poolVars
<1>3. OwnRun' /\ OwnEvents' /\ ResultsLast' /\ LiveIsNew' /\ OwnOutcome'
  BY WorkerKeeps
<1>4. Calm' /\ Hunted' /\ Collecting' /\ Numbered' /\ Gathered'
  BY DEF Calm, Hunted, Collecting, Numbered, Gathered, Going
<1>5. Complete' /\ InterruptSparesSiblings'
  BY DEF IInv, Complete, InterruptSparesSiblings, poolVars
<1>6. NothingLeftRunning'
  BY DEF NothingLeftRunning, Active, IInv, Types, itemVars
<1> QED BY <1>1, <1>2, <1>3, <1>4, <1>5, <1>6 DEF IInv

LEMMA OverSteps ==
  IInv /\ (Drained \/ DrainTimeOut \/ CancelAgain \/ Yield \/ Crash) => IInv'
<1> SUFFICES ASSUME IInv PROVE Drained \/ DrainTimeOut \/ CancelAgain \/ Yield \/ Crash => IInv'
  OBVIOUS
<1>1. ASSUME Drained PROVE IInv'
  <2>1. Active = {}
    BY <1>1, DoneIsEnded DEF Drained
  <2> QED BY <1>1, <2>1, OverStep DEF Drained, IInv, Hunted
<1>2. ASSUME DrainTimeOut PROVE IInv'
  BY <1>2, OverStep DEF DrainTimeOut, IInv, Hunted
<1>3. ASSUME CancelAgain PROVE IInv'
  BY <1>3, OverStep DEF CancelAgain
<1>4. ASSUME Yield PROVE IInv'
  <2>1. Active = {}
    BY <1>4 DEF Yield, IInv, Collecting, InPool
  <2> QED BY <1>4, <2>1, OverStep DEF Yield
<1>5. ASSUME Crash PROVE IInv'
  BY <1>5, OverStep DEF Crash
<1> QED BY <1>1, <1>2, <1>3, <1>4, <1>5

-----------------------------------------------------------------------------
(* The items' tasks.                                                       *)

(* A task of the pool moves on; the worker does not notice.                *)
LEMMA TaskKeeps ==
  ASSUME IInv, pc # "over", NEW i \in Item, i \in Active, NEW how,
         item' = [item EXCEPT ![i] = how],
         how \in {"held", "live", "recorded", "done"},
         outcome' = outcome \/ \E o \in Outcome : outcome' = [outcome EXCEPT ![i] = o],
         UNCHANGED <<poolVars, pc, ending, lapsed>>
  PROVE  /\ item' \in [Item -> {"none", "created", "held", "live", "recorded", "done"}]
         /\ outcome' \in [Item -> Outcome]
         /\ InPool' /\ Limited' /\ Calm' /\ Hunted' /\ Collecting' /\ Gathered' /\ Complete'
         /\ InterruptSparesSiblings' /\ NothingLeftRunning'
<1>1. /\ item' \in [Item -> {"none", "created", "held", "live", "recorded", "done"}]
      /\ outcome' \in [Item -> Outcome]
  BY DEF IInv, Types
<1>2. Active' \subseteq Active
  BY DEF IInv, Types, Active
<1>3. \A j \in Item : j # i => item'[j] = item[j] /\ outcome'[j] = outcome[j]
  BY DEF IInv, Types
<1>4. i \in pending
  BY DEF IInv, InPool
<1>5. InPool' /\ Limited' /\ Calm' /\ Hunted' /\ Collecting' /\ Complete'
  BY <1>2 DEF IInv, InPool, Limited, Calm, Hunted, Collecting, Complete, Going, poolVars
<1>6. Gathered'
  <2>1. \A j \in 1..index : j \in Item
    BY PoolAssumption DEF IInv, Types, Item
  <2> QED BY <1>3, <1>4, <2>1 DEF IInv, Gathered, Going, poolVars
<1>7. ending # "interrupted"
  BY DEF IInv, InterruptSparesSiblings, Active
<1>8. InterruptSparesSiblings' /\ NothingLeftRunning'
  BY <1>7 DEF InterruptSparesSiblings, NothingLeftRunning
<1> QED BY <1>1, <1>5, <1>6, <1>8

(* A created task that is not cancelled is the next in order.              *)
LEMMA NextInOrder ==
  ASSUME IInv, NEW i \in Item, Start(i)
  PROVE  Going /\ i = counter + 1 /\ counter + 1 =< index
<1>1. i \in Active /\ i \notin asked /\ pc # "over" /\ item[i] = "created"
  BY DEF Start, Active
<1>2. Going
  BY <1>1 DEF IInv, Types, Going, InPool, Hunted, Collecting
<1>3. i > counter /\ i =< index /\ counter \in 0..N /\ index \in 0..N
  BY <1>1, <1>2 DEF IInv, Numbered, Types
<1>4. ASSUME i # counter + 1 PROVE FALSE
  <2>1. counter + 1 \in 1..(i - 1) /\ counter + 1 \in Item
    BY <1>3, <1>4, PoolAssumption DEF Item
  <2>2. item[counter + 1] = "created"
    BY <1>2, <1>3, <2>1, <1>4 DEF IInv, Numbered, Item
  <2> QED BY <2>1, <2>2 DEF Start
<1> QED BY <1>2, <1>3, <1>4

LEMMA StartStep == ASSUME IInv, NEW i \in Item, Start(i) PROVE IInv'
<1>0. /\ Types /\ Going /\ i = counter + 1 /\ counter + 1 =< index
      /\ pc # "over" /\ item[i] = "created" /\ i \in Active
      /\ counter' = i /\ run' = [run EXCEPT ![i] = i]
      /\ UNCHANGED <<session, poolVars, pc, ending, lapsed>>
  BY NextInOrder DEF IInv, Start, Keep, Active
<1>1. ASSUME NEW how \in {"held", "live"}, item' = [item EXCEPT ![i] = how]
      PROVE  Numbered' /\ OwnRun' /\ OwnEvents' /\ ResultsLast'
  <2>1. \A j \in Item : j # i => item'[j] = item[j] /\ run'[j] = run[j]
    BY <1>0, <1>1 DEF Types
  <2>2. item'[i] = how /\ run'[i] = i
    BY <1>0, <1>1 DEF Types
  <2>3. Numbered'
    <3> SUFFICES ASSUME NEW j \in Item
                 PROVE  /\ item'[j] = "none" <=> j > index
                        /\ item'[j] = "created" <=> j > i /\ j =< index
      BY <1>0 DEF Numbered, poolVars
    <3>1. /\ item[j] = "none" <=> j > index
          /\ item[j] = "created" <=> j > counter /\ j =< index
          /\ j \in Int /\ counter \in Int /\ index \in Int
      BY <1>0 DEF IInv, Numbered, Types, Item
    <3> QED BY <1>0, <2>1, <2>2, <3>1
  <2>4. OwnRun'
    BY <2>1, <2>2 DEF IInv, OwnRun
  <2>5. OwnEvents' /\ ResultsLast'
    BY <1>0 DEF IInv, OwnEvents, ResultsLast, IsLast
  <2> QED BY <2>3, <2>4, <2>5
<1>2. run' \in [Item -> 0..N] /\ counter' \in 0..N
  BY <1>0 DEF Types, Item
<1>3. CASE Replays(i)
  <2>0. /\ item' = [item EXCEPT ![i] = "held"]
        /\ outcome' = [outcome EXCEPT ![i] = Recovered(i)]
    BY <1>0, <1>3 DEF Start
  <2>1. LastEvent(i).from = i
    BY <1>0, <1>3, LastEventIs DEF Replays, IInv
  <2>2. Recovered(i) \in Outcome /\ Recovered(i).from = i
    BY <2>1 DEF Recovered, Outcome, Kinds, Item
  <2>3. LiveIsNew' /\ OwnOutcome'
    BY <1>0, <2>0, <2>2 DEF IInv, Types, LiveIsNew, HasResult, OwnOutcome
  <2>4. /\ item' \in [Item -> {"none", "created", "held", "live", "recorded", "done"}]
        /\ outcome' \in [Item -> Outcome]
        /\ InPool' /\ Limited' /\ Calm' /\ Hunted' /\ Collecting' /\ Gathered' /\ Complete'
        /\ InterruptSparesSiblings' /\ NothingLeftRunning'
    BY <1>0, <2>0, <2>2, TaskKeeps
  <2>5. Types'
    BY <1>0, <1>2, <2>4 DEF Types, poolVars
  <2> QED BY <1>1, <2>0, <2>3, <2>4, <2>5 DEF IInv
<1>4. CASE ~Replays(i)
  <2>0. item' = [item EXCEPT ![i] = "live"] /\ outcome' = outcome
    BY <1>0, <1>4 DEF Start
  <2>1. ~HasResult(i)
    BY <1>0, <1>4, ResultDecides DEF IInv
  <2>2. LiveIsNew' /\ OwnOutcome'
    BY <1>0, <2>0, <2>1 DEF IInv, Types, LiveIsNew, HasResult, OwnOutcome
  <2>3. /\ item' \in [Item -> {"none", "created", "held", "live", "recorded", "done"}]
        /\ outcome' \in [Item -> Outcome]
        /\ InPool' /\ Limited' /\ Calm' /\ Hunted' /\ Collecting' /\ Gathered' /\ Complete'
        /\ InterruptSparesSiblings' /\ NothingLeftRunning'
    BY <1>0, <2>0, TaskKeeps
  <2>4. Types'
    BY <1>0, <1>2, <2>3 DEF Types, poolVars
  <2> QED BY <1>1, <2>0, <2>2, <2>3, <2>4 DEF IInv
<1> QED BY <1>3, <1>4

LEMMA ExecuteStep == ASSUME IInv, NEW i \in Item, Execute(i) PROVE IInv'
<1>1. PICK kind \in Does[i] : /\ outcome' = [outcome EXCEPT ![i] = [kind |-> kind, from |-> i]]
                              /\ Record(i, kind)
  BY DEF Execute
<1>0. /\ Types /\ pc # "over" /\ item[i] = "live" /\ i \in Active /\ run[i] = i
      /\ item' = [item EXCEPT ![i] = "recorded"]
      /\ UNCHANGED <<counter, run, poolVars, pc, ending, lapsed>>
  BY DEF IInv, Execute, Keep, Active, OwnRun
<1>2. kind \in Kinds
  BY BoundsAssumption
<1>3. [kind |-> kind, from |-> i] \in Outcome
  BY <1>2, PoolAssumption DEF Outcome, Item
<1>4. ~HasResult(i)
  BY <1>0 DEF IInv, LiveIsNew
<1>5. session' \in Seq(SessionEvent) /\ OwnEvents' /\ ResultsLast' /\ LiveIsNew'
  <2>1. \A j \in Item : item'[j] = "live" => j # i /\ item[j] = "live"
    BY <1>0 DEF Types
  <2>2. CASE session' = session
    BY <1>0, <2>1, <2>2
    DEF IInv, Types, OwnEvents, ResultsLast, IsLast, LiveIsNew, HasResult
  <2>3. CASE session' # session
    <3> DEFINE e == [kind |-> kind, run |-> i, from |-> i]
    <3>1. e \in SessionEvent /\ session' = Append(session, e)
      BY <1>0, <1>1, <2>3 DEF Record, SessionEvent
    <3>2. /\ session' \in Seq(SessionEvent)
          /\ OwnEvents' /\ ResultsLast'
          /\ \A r : HasResult(r)' => HasResult(r) \/ (r = e.run /\ e.kind = "result")
      BY <1>0, <1>4, <3>1, SessionGrows DEF IInv
    <3> QED BY <2>1, <3>2 DEF IInv, LiveIsNew
  <2> QED BY <2>2, <2>3
<1>6. /\ item' \in [Item -> {"none", "created", "held", "live", "recorded", "done"}]
      /\ outcome' \in [Item -> Outcome]
      /\ InPool' /\ Limited' /\ Calm' /\ Hunted' /\ Collecting' /\ Gathered' /\ Complete'
      /\ InterruptSparesSiblings' /\ NothingLeftRunning'
  BY <1>0, <1>1, <1>3, TaskKeeps
<1>7. Types'
  BY <1>0, <1>5, <1>6 DEF Types, poolVars
<1>8. OwnRun' /\ OwnOutcome'
  BY <1>0, <1>1 DEF IInv, Types, OwnRun, OwnOutcome
<1>9. Numbered'
  BY <1>0 DEF IInv, Types, Numbered, Going, poolVars
<1> QED BY <1>5, <1>6, <1>7, <1>8, <1>9 DEF IInv

(* A task ends, with the outcome it has or another one.                    *)
LEMMA EndStep ==
  ASSUME IInv, NEW i \in Item, i \in Active, pc # "over",
         item' = [item EXCEPT ![i] = "done"],
         item[i] # "created" \/ i \in asked,
         \/ outcome' = outcome /\ outcome[i].from = i
         \/ \E kind \in Kinds : outcome' = [outcome EXCEPT ![i] = [kind |-> kind, from |-> i]],
         UNCHANGED <<session, counter, run, poolVars, pc, ending, lapsed>>
  PROVE  IInv'
<1>0. Types
  BY DEF IInv
<1>1. \A kind \in Kinds : [kind |-> kind, from |-> i] \in Outcome
  BY PoolAssumption DEF Outcome, Item
<1>2. /\ item' \in [Item -> {"none", "created", "held", "live", "recorded", "done"}]
      /\ outcome' \in [Item -> Outcome]
      /\ InPool' /\ Limited' /\ Calm' /\ Hunted' /\ Collecting' /\ Gathered' /\ Complete'
      /\ InterruptSparesSiblings' /\ NothingLeftRunning'
  BY <1>1, TaskKeeps
<1>3. Types'
  BY <1>0, <1>2 DEF Types, poolVars
<1>4. OwnRun' /\ LiveIsNew' /\ OwnEvents' /\ ResultsLast'
  BY <1>0 DEF IInv, Types, OwnRun, LiveIsNew, HasResult, OwnEvents, ResultsLast, IsLast
<1>5. OwnOutcome'
  BY <1>0 DEF IInv, Types, OwnOutcome
<1>6. Numbered'
  <2>1. Going => item[i] # "created" /\ item[i] # "none"
    BY DEF IInv, Calm, Active
  <2> QED BY <1>0, <2>1 DEF IInv, Types, Numbered, Going, poolVars
<1> QED BY <1>2, <1>3, <1>4, <1>5, <1>6 DEF IInv

LEMMA TaskStep == ASSUME IInv, NEW i \in Item, ItemStep(i) \/ Stop(i) PROVE IInv'
<1>1. CASE Start(i)
  BY <1>1, StartStep
<1>2. CASE Execute(i)
  BY <1>2, ExecuteStep
<1>3. CASE Finish(i)
  BY <1>3, EndStep DEF Finish, Keep, Active, IInv, OwnOutcome
<1>4. CASE Release(i)
  BY <1>4, EndStep DEF Release, Keep, Active, IInv, OwnOutcome
<1>5. CASE HeldTimeOut(i)
  BY <1>5, EndStep DEF HeldTimeOut, Keep, Active, Kinds
<1>6. CASE Stop(i)
  BY <1>6, EndStep DEF Stop, Keep, Active, Kinds
<1> QED BY <1>1, <1>2, <1>3, <1>4, <1>5, <1>6 DEF ItemStep

-----------------------------------------------------------------------------
(* Between the turns.                                                      *)

LEMMA AnswerStep == ASSUME IInv, NEW r \in Item, Answer(r) PROVE IInv'
<1> DEFINE e == [kind |-> "answer", run |-> r, from |-> LastEvent(r).from]
<1>0. /\ Types /\ session' = Append(session, e)
      /\ UNCHANGED <<itemVars, poolVars, pc, ending, lapsed>>
  BY DEF IInv, Answer
<1>1. e.from = r /\ e \in SessionEvent
  BY LastEventIs DEF IInv, Answer, SessionEvent
<1>2. ~HasResult(r)
  BY ResultDecides DEF IInv, Answer
<1>3. /\ session' \in Seq(SessionEvent)
      /\ OwnEvents' /\ ResultsLast'
      /\ \A q : HasResult(q)' => HasResult(q) \/ (q = e.run /\ e.kind = "result")
  BY <1>0, <1>1, <1>2, SessionGrows DEF IInv
<1>4. Types'
  BY <1>0, <1>3 DEF Types, itemVars, poolVars
<1>5. InPool' /\ Limited' /\ Calm' /\ Hunted' /\ Collecting' /\ Numbered' /\ OwnRun'
  BY <1>0 DEF IInv, InPool, Active, Limited, Calm, Hunted, Collecting, Numbered, OwnRun, Going,
              itemVars, poolVars
<1>6. OwnOutcome' /\ Gathered' /\ Complete' /\ InterruptSparesSiblings' /\ NothingLeftRunning'
  BY <1>0 DEF IInv, OwnOutcome, Gathered, Complete, InterruptSparesSiblings, NothingLeftRunning,
              Going, itemVars, poolVars
<1>7. LiveIsNew'
  BY <1>0, <1>3 DEF IInv, LiveIsNew, itemVars
<1> QED BY <1>3, <1>4, <1>5, <1>6, <1>7 DEF IInv

LEMMA ResumeStep == ASSUME IInv, Resume PROVE IInv'
<1> USE PoolAssumption
<1>0. /\ Types /\ session' = session
      /\ counter' = 0 /\ index' = 0 /\ pending' = {} /\ asked' = {}
      /\ run' = [i \in Item |-> 0] /\ item' = [i \in Item |-> "none"]
      /\ outcome' = [i \in Item |-> NoOutcome] /\ results' = [i \in Item |-> 0]
      /\ interrupted' = FALSE /\ pc' = "loop" /\ ending' = "none"
  BY DEF IInv, Resume, Each
<1>1. NoOutcome \in Outcome
  BY DEF NoOutcome, Outcome, Kinds
<1>2. Types'
  <2>1. session' \in Seq(SessionEvent) /\ 0 \in 0..N
    BY <1>0 DEF Types
  <2> QED BY <1>0, <1>1, <2>1 DEF Types
<1>3. InPool' /\ Calm' /\ Hunted' /\ Collecting' /\ OwnRun' /\ LiveIsNew' /\ OwnOutcome'
      /\ Complete'
  BY <1>0 DEF InPool, Active, Calm, Going, Hunted, Collecting, OwnRun, LiveIsNew, OwnOutcome,
              Complete
<1>4. Limited'
  BY <1>0, FS_EmptySet DEF Limited
<1>5. Numbered' /\ Gathered'
  BY <1>0 DEF Numbered, Gathered, Going, Item
<1>6. OwnEvents' /\ ResultsLast'
  BY <1>0 DEF IInv, OwnEvents, ResultsLast, IsLast
<1>7. InterruptSparesSiblings' /\ NothingLeftRunning'
  BY <1>0 DEF InterruptSparesSiblings, NothingLeftRunning
<1> QED BY <1>2, <1>3, <1>4, <1>5, <1>6, <1>7 DEF IInv

LEMMA Stutter == ASSUME IInv, UNCHANGED vars PROVE IInv'
<1>1. Types' /\ InPool' /\ Limited' /\ Calm' /\ Hunted' /\ Collecting' /\ Numbered'
  BY DEF IInv, vars, itemVars, poolVars, Types, InPool, Active, Limited, Calm, Hunted, Collecting,
         Numbered, Going
<1>2. OwnRun' /\ OwnEvents' /\ ResultsLast' /\ LiveIsNew' /\ OwnOutcome'
  BY WorkerKeeps DEF vars
<1>3. Gathered' /\ Complete' /\ InterruptSparesSiblings' /\ NothingLeftRunning'
  BY DEF IInv, vars, itemVars, poolVars, Gathered, Going, Complete, InterruptSparesSiblings,
         NothingLeftRunning
<1> QED BY <1>1, <1>2, <1>3 DEF IInv

LEMMA IInvStep == IInv /\ [Next]_vars => IInv'
<1> SUFFICES ASSUME IInv, [Next]_vars PROVE IInv'
  OBVIOUS
<1>1. CASE Schedule
  BY <1>1, ScheduleStep
<1>2. CASE Collect
  BY <1>2, CollectStep
<1>3. CASE CollectFailure \/ Cancel
  BY <1>3, RaiseSteps
<1>4. CASE Drained \/ DrainTimeOut \/ CancelAgain \/ Yield \/ Crash
  BY <1>4, OverSteps
<1>5. CASE \E i \in Item : ItemStep(i) \/ Stop(i)
  BY <1>5, TaskStep
<1>6. CASE Resume \/ \E r \in Item : Answer(r)
  BY <1>6, ResumeStep, AnswerStep
<1>7. CASE UNCHANGED vars
  BY <1>7, Stutter
<1> QED BY <1>1, <1>2, <1>3, <1>4, <1>5, <1>6, <1>7 DEF Next, Worker

-----------------------------------------------------------------------------
(* The recorded order.  A place is permanent when its run will not be      *)
(* executed again.  An item was in the pool with all those before it whose *)
(* places were not permanent by then (Windowed), so that its own place can *)
(* be reached by a pool of that size.                                      *)

Settled(r, b) == /\ session[b].run = r
                 /\ session[b].kind = "result" \/ (session[b].kind = "interrupt" /\ ~rerun)
SettledBefore(r, n) == \E b \in 1..(n - 1) : Settled(r, b)

(* The pool P, that i was in, is all that may come behind it of the items  *)
(* before it.                                                              *)
Window(i, n, P) ==
  /\ P \subseteq Item /\ i \in P
  /\ MaxWorkers # 0 => Cardinality(P) =< MaxWorkers
  /\ \A j \in 1..(i - 1) : j \in P \cup silent \/ SettledBefore(j, n)

Rest == /\ rerun \in BOOLEAN /\ turn \in 1..MaxTurns /\ finished \subseteq Item
        /\ silent \subseteq Item /\ lapsed \in BOOLEAN /\ stuck \in BOOLEAN
        /\ sequence \subseteq [run : Item, pending : BOOLEAN, at : Nat]

(* A question that is not rerun is followed by its answer only, and every  *)
(* answer has a question.                                                  *)
QuestionsLast ==
  \A a, b \in DOMAIN session :
    ~rerun /\ session[a].kind = "interrupt" /\ a < b /\ session[a].run = session[b].run
    => session[b].kind = "answer"
AnswersAsked ==
  \A b \in DOMAIN session : session[b].kind = "answer" =>
    \E a \in DOMAIN session : session[a].kind = "interrupt" /\ session[a].run = session[b].run
LiveUnasked ==
  \A i \in Item : item[i] = "live" /\ ~rerun =>
    \A a \in DOMAIN session : session[a].run = i => session[a].kind # "interrupt"

(* What is known of an item by its outcome.                                *)
OutcomeKnown ==
  \A i \in Item : item[i] \in {"held", "recorded", "done"} =>
    /\ outcome[i].kind = "result" => SettledBefore(i, Len(session) + 1)
    /\ outcome[i].kind = "nothing" => i \in silent
EndedFinished ==
  \A i \in Item :
    item[i] = "done" /\ outcome[i].kind \notin {"error", "cancelled"} => i \in finished

(* The barrier's sequence, over the events that have come since.           *)
SequenceIs ==
  \A p \in sequence :
    /\ p.at \in DOMAIN session /\ session[p.at].run = p.run
    /\ session[p.at].kind \in {"result", "interrupt"}
    /\ \A q \in sequence : q.run = p.run => q = p
    /\ \A b \in DOMAIN session : Settled(p.run, b) => p.at =< b

Windowed ==
  \A a \in DOMAIN session : session[a].kind \in {"result", "interrupt"} =>
    \E P \in SUBSET Item : Window(session[a].run, a, P)
Entered ==
  \A i \in Item : item[i] # "none" => \E P \in SUBSET Item : Window(i, Len(session) + 1, P)

(* The worker waits with a full pool, unless nothing is to be scheduled.   *)
FullWait == pc = "wait" /\ ~interrupted =>
              index = N \/ (MaxWorkers # 0 /\ Cardinality(pending) = MaxWorkers)

Pooled == pending \subseteq 1..index

OrderInv == /\ Rest /\ Pooled
            /\ QuestionsLast /\ AnswersAsked /\ LiveUnasked
            /\ OutcomeKnown /\ EndedFinished
            /\ SequenceIs /\ Windowed /\ Entered /\ FullWait
            /\ NeverStuck

(* Of some positions there is a first and a last.                          *)
LEMMA LeastIs ==
  ASSUME NEW n \in Nat, NEW S, S \subseteq 1..n, S # {}
  PROVE  \E k \in S : \A j \in S : k =< j
<1> DEFINE Below(k) == {j \in S : j < k}
           T == {Below(k) : k \in S}
<1>1. IsWellFoundedOn(StrictSubsetOrdering(1..n), FiniteSubsetsOf(1..n))
  BY FS_StrictSubsetOrderingWellFounded
<1>2. FiniteSubsetsOf(1..n) = SUBSET (1..n)
  <2>1. IsFiniteSet(1..n)
    BY FS_Interval
  <2> QED BY <2>1, FS_FiniteSubsetsOfFinite
<1>3. T \subseteq SUBSET (1..n) /\ T # {}
  OBVIOUS
<1>4. PICK x \in T : \A y \in T : <<y, x>> \notin StrictSubsetOrdering(1..n)
  <2> HIDE DEF T
  <2>1. T \subseteq FiniteSubsetsOf(1..n) /\ T # {}
    BY <1>2, <1>3
  <2>2. \E x \in T : \A y \in T : ~ (<<y, x>> \in StrictSubsetOrdering(1..n))
    BY ONLY <1>1, <2>1, WFMin
  <2> QED BY <2>2
<1>5. PICK k \in S : x = Below(k)
  BY <1>4
<1>6. \A j \in S : k =< j
  <2> SUFFICES ASSUME NEW j \in S, j < k PROVE FALSE
    OBVIOUS
  <2>1. Below(j) \subseteq Below(k) /\ j \in Below(k) /\ j \notin Below(j)
    <3>1. k \in Nat /\ j \in Nat /\ \A i \in S : i \in Nat
      OBVIOUS
    <3>2. \A i \in S : i < j => i < k
      BY <3>1
    <3>3. ~ (j < j)
      BY <3>1
    <3> QED BY <3>2, <3>3
  <2>2. Below(j) \in T /\ Below(j) \subseteq 1..n /\ Below(k) \subseteq 1..n
    OBVIOUS
  <2>3. <<Below(j), Below(k)>> \in StrictSubsetOrdering(1..n)
    <3> HIDE DEF Below
    <3> QED BY <2>1, <2>2 DEF StrictSubsetOrdering
  <2> QED BY <1>4, <1>5, <2>2, <2>3
<1> QED BY <1>6

LEMMA LastExists ==
  ASSUME Types, NEW c \in DOMAIN session
  PROVE  \E a \in DOMAIN session : c =< a /\ IsLast(a, session[c].run)
<1> DEFINE n == Len(session)
           S == {n + 1 - b : b \in {b \in 1..n : session[b].run = session[c].run}}
<1>1. n \in Nat /\ DOMAIN session = 1..n
  BY DEF Types
<1>2. S \subseteq 1..n /\ S # {}
  <2>1. n + 1 - c \in S
    BY <1>1
  <2>2. \A b \in 1..n : n + 1 - b \in 1..n
    BY <1>1
  <2> QED BY <2>1, <2>2
<1>3. PICK k \in S : \A j \in S : k =< j
  <2> HIDE DEF S, n
  <2> QED BY <1>1, <1>2, LeastIs
<1>4. PICK a \in 1..n : session[a].run = session[c].run /\ k = n + 1 - a
  BY <1>3
<1>5. \A b \in 1..n : session[b].run = session[c].run => b =< a
  <2> SUFFICES ASSUME NEW b \in 1..n, session[b].run = session[c].run PROVE b =< a
    OBVIOUS
  <2>1. n + 1 - b \in S
    OBVIOUS
  <2>2. n + 1 - a =< n + 1 - b
    BY <1>3, <1>4, <2>1
  <2> QED BY <1>1, <2>2
<1>6. IsLast(a, session[c].run)
  <2> SUFFICES ASSUME NEW b \in 1..n, b > a, session[b].run = session[c].run PROVE FALSE
    BY <1>1, <1>4 DEF IsLast
  <2> QED BY <1>1, <1>5
<1> QED BY <1>1, <1>5, <1>6

(* What an event more, or none, keeps.                                     *)
LEMMA Grown ==
  ASSUME Types, session' \in Seq(SessionEvent), rerun' = rerun, silent \subseteq silent',
         \A a \in DOMAIN session : a \in DOMAIN session' /\ session'[a] = session[a]
  PROVE  /\ Len(session) \in Nat /\ Len(session') \in Nat /\ Len(session) =< Len(session')
         /\ \A r : \A n, m \in Nat :
              n =< Len(session) + 1 /\ n =< m => (SettledBefore(r, n) => SettledBefore(r, m)')
         /\ \A i, P : \A n, m \in Nat :
              n =< Len(session) + 1 /\ n =< m => (Window(i, n, P) => Window(i, m, P)')
<1>1. /\ Len(session) \in Nat /\ Len(session') \in Nat
      /\ DOMAIN session = 1..Len(session) /\ DOMAIN session' = 1..Len(session')
  BY DEF Types
<1>2. Len(session) =< Len(session')
  <2>1. CASE Len(session) = 0
    BY <1>1, <2>1
  <2>2. CASE Len(session) # 0
    <3>1. Len(session) \in DOMAIN session'
      BY <1>1, <2>2
    <3> QED BY <1>1, <3>1
  <2> QED BY <2>1, <2>2
<1>3. ASSUME NEW r, NEW n \in Nat, NEW m \in Nat, n =< Len(session) + 1, n =< m,
             SettledBefore(r, n)
      PROVE  SettledBefore(r, m)'
  <2>1. PICK b \in 1..(n - 1) : Settled(r, b)
    BY <1>3 DEF SettledBefore
  <2>2. b \in DOMAIN session /\ session'[b] = session[b] /\ b \in 1..(m - 1)
    BY <1>1, <1>3, <2>1
  <2>3. Settled(r, b)'
    BY <2>1, <2>2 DEF Settled
  <2> QED BY <2>2, <2>3 DEF SettledBefore
<1>4. ASSUME NEW i, NEW P, NEW n \in Nat, NEW m \in Nat, n =< Len(session) + 1, n =< m,
             Window(i, n, P)
      PROVE  Window(i, m, P)'
  <2>1. \A r : SettledBefore(r, n) => SettledBefore(r, m)'
    BY <1>3, <1>4
  <2> QED BY <1>4, <2>1 DEF Window
<1> QED BY <1>1, <1>2, <1>3, <1>4

(* Steps that leave the session alone, and those that leave the tasks of   *)
(* the items alone.                                                        *)
Logged == QuestionsLast /\ AnswersAsked /\ Windowed
Tasks == LiveUnasked /\ OutcomeKnown /\ EndedFinished /\ Entered

LEMMA LogKept ==
  ASSUME OrderInv, UNCHANGED <<rerun, session, silent>>
  PROVE  Logged'
<1>1. QuestionsLast' /\ AnswersAsked'
  BY DEF OrderInv, QuestionsLast, AnswersAsked
<1>2. \A i, n, P : Window(i, n, P)' <=> Window(i, n, P)
  BY DEF Window, SettledBefore, Settled
<1>3. Windowed'
  BY <1>2 DEF OrderInv, Windowed
<1> QED BY <1>1, <1>3 DEF Logged

LEMMA TasksKept ==
  ASSUME OrderInv, UNCHANGED <<rerun, session, silent, itemVars>>
  PROVE  Tasks'
<1>1. \A i, n, P : Window(i, n, P)' <=> Window(i, n, P)
  BY DEF Window, SettledBefore, Settled
<1>2. \A r, n : SettledBefore(r, n)' <=> SettledBefore(r, n)
  BY DEF SettledBefore, Settled
<1>3. Entered'
  BY <1>1 DEF OrderInv, Entered, itemVars
<1>4. OutcomeKnown'
  BY <1>2 DEF OrderInv, OutcomeKnown, itemVars
<1>5. LiveUnasked' /\ EndedFinished'
  BY DEF OrderInv, LiveUnasked, EndedFinished, itemVars
<1> QED BY <1>3, <1>4, <1>5 DEF Tasks

LEMMA SequenceKept ==
  ASSUME OrderInv, UNCHANGED <<rerun, session, sequence>>
  PROVE  SequenceIs'
BY DEF OrderInv, SequenceIs, Settled

LEMMA OrderInvIs ==
  ASSUME Rest', Pooled', Logged', Tasks', SequenceIs', FullWait', NeverStuck'
  PROVE  OrderInv'
BY DEF OrderInv, Logged, Tasks

LEMMA OrderInit == Init => OrderInv
<1> SUFFICES ASSUME Init PROVE OrderInv
  OBVIOUS
<1> USE DEF Init, Each
<1>1. Rest
  <2>1. 1 \in 1..MaxTurns
    BY BoundsAssumption
  <2> QED BY <2>1 DEF Rest
<1>2. QuestionsLast /\ AnswersAsked /\ Windowed
  BY DEF QuestionsLast, AnswersAsked, Windowed
<1>3. LiveUnasked /\ OutcomeKnown /\ EndedFinished /\ Entered
  BY DEF LiveUnasked, OutcomeKnown, EndedFinished, Entered
<1>4. SequenceIs /\ FullWait /\ Pooled /\ NeverStuck
  BY DEF SequenceIs, FullWait, Pooled, NeverStuck
<1> QED BY <1>1, <1>2, <1>3, <1>4 DEF OrderInv

(* The worker's own steps.                                                 *)
LEMMA OrderWorker ==
  ASSUME IInv, OrderInv,
         \/ Collect \/ CollectFailure \/ Cancel
         \/ Drained \/ DrainTimeOut \/ CancelAgain \/ Yield \/ Crash
  PROVE  OrderInv'
<1>1. UNCHANGED <<rerun, session, silent, itemVars, turn, sequence, stuck, index>>
  BY DEF Collect, CollectFailure, Cancel, Drained, DrainTimeOut, CancelAgain, Yield, Crash,
         poolVars
<1>2. lapsed' = TRUE \/ lapsed' = lapsed
  BY DEF Collect, CollectFailure, Cancel, Drained, DrainTimeOut, CancelAgain, Yield, Crash
<1>3. pc' # "wait"
  BY DEF Collect, CollectFailure, Cancel, Drained, DrainTimeOut, CancelAgain, Yield, Crash,
         Raise
<1>4. interrupted => interrupted'
  BY DEF Collect, CollectFailure, Cancel, Drained, DrainTimeOut, CancelAgain, Yield, Crash,
         poolVars, HasInterrupted
<1>5. pending' \subseteq pending
  BY DEF Collect, CollectFailure, Cancel, Drained, DrainTimeOut, CancelAgain, Yield, Crash,
         poolVars, Raise
<1>6. Rest'
  BY <1>1, <1>2 DEF OrderInv, Rest, itemVars
<1>7. Logged' /\ Tasks' /\ SequenceIs'
  BY <1>1, LogKept, TasksKept, SequenceKept
<1>8. FullWait' /\ Pooled' /\ NeverStuck'
  BY <1>1, <1>3, <1>4, <1>5 DEF OrderInv, FullWait, Pooled, NeverStuck
<1> QED BY <1>6, <1>7, <1>8, OrderInvIs

(* Who has left the pool has ended, with a result, silently or with a      *)
(* question.                                                               *)
LEMMA LeftPool ==
  ASSUME IInv, OrderInv, Going, NEW j \in 1..index, j \notin pending
  PROVE  /\ j \in finished
         /\ ~interrupted => j \in silent \/ SettledBefore(j, Len(session) + 1)
<1>1. j \in Item
  BY PoolAssumption DEF IInv, Types, Item
<1>2. item[j] = "done"
  BY <1>1 DEF IInv, Numbered, InPool, Active, Types, Item
<1>3. \/ outcome[j].kind \in {"result", "nothing"}
      \/ outcome[j].kind = "interrupt" /\ interrupted
  BY DEF IInv, Gathered
<1>4. j \in finished
  BY <1>1, <1>2, <1>3 DEF OrderInv, EndedFinished
<1>5. ~interrupted => j \in silent \/ SettledBefore(j, Len(session) + 1)
  BY <1>1, <1>2, <1>3 DEF OrderInv, OutcomeKnown
<1> QED BY <1>4, <1>5

LEMMA OrderSchedule == ASSUME IInv, IInv', OrderInv, Schedule PROVE OrderInv'
<1> DEFINE new == (index + 1)..Scheduled
<1>0. /\ Types /\ Limited /\ pc = "loop" /\ Going
      /\ pending' = pending \cup new /\ index' = Scheduled
      /\ item' = [i \in Item |-> IF i \in new THEN "created" ELSE item[i]]
      /\ UNCHANGED <<rerun, session, silent, turn, sequence, finished, outcome, interrupted, lapsed,
                     stuck>>
  BY DEF IInv, Schedule, Going
<1>1. /\ Scheduled \in index..N /\ new \subseteq Item
      /\ MaxWorkers = 0 \/ Cardinality(pending') =< MaxWorkers
  BY <1>0, Filled
<1>2. Rest' /\ Logged' /\ SequenceIs' /\ NeverStuck'
  <2>1. Rest' /\ NeverStuck'
    BY <1>0 DEF OrderInv, Rest, NeverStuck
  <2> QED BY <1>0, <2>1, LogKept, SequenceKept
<1>3. Pooled'
  <2> SUFFICES ASSUME NEW i \in pending' PROVE i \in 1..Scheduled
    BY <1>0 DEF Pooled
  <2>1. index \in Nat /\ Scheduled \in Nat /\ index =< Scheduled
    BY <1>0, <1>1 DEF Types
  <2>2. CASE i \in new
    BY <2>1, <2>2
  <2>3. CASE i \in pending
    <3>1. i \in 1..index
      BY <2>3 DEF OrderInv, Pooled
    <3> QED BY <2>1, <3>1
  <2> QED BY <1>0, <2>2, <2>3
<1>4. \A i \in Item : item'[i] \notin {"none", "created"} => item'[i] = item[i]
  BY <1>0
<1>5. \A r, n : SettledBefore(r, n)' <=> SettledBefore(r, n)
  BY <1>0 DEF SettledBefore, Settled
<1>6. LiveUnasked' /\ EndedFinished' /\ OutcomeKnown'
  <2>1. LiveUnasked' /\ EndedFinished'
    BY <1>0, <1>4 DEF OrderInv, LiveUnasked, EndedFinished
  <2>2. OutcomeKnown'
    BY <1>0, <1>4, <1>5 DEF OrderInv, OutcomeKnown
  <2> QED BY <2>1, <2>2
<1>7. Entered'
  <2> SUFFICES ASSUME NEW i \in Item, item'[i] # "none"
               PROVE  \E P \in SUBSET Item : Window(i, Len(session) + 1, P)'
    BY <1>0 DEF Entered
  <2>1. CASE i \in new
    <3>1. pending' \subseteq Item /\ i \in pending'
      BY <1>0, <1>1, <2>1 DEF Types
    <3>2. ASSUME NEW j \in 1..(i - 1), j \notin pending'
          PROVE  j \in silent \/ SettledBefore(j, Len(session) + 1)
      <4>1. j \in 1..index /\ j \notin pending
        <5>1. index \in Nat /\ Scheduled \in Nat /\ j \in Nat /\ i \in Nat
          BY <1>0, <1>1, <2>1 DEF Types
        <5>2. j < i /\ i =< Scheduled /\ j \notin new /\ j \notin pending
          BY <1>0, <2>1, <3>2, <5>1
        <5> QED BY <5>1, <5>2
      <4>2. ~interrupted
        <5>1. ASSUME interrupted PROVE new = {}
          <6>1. Scheduled = index /\ index \in Nat
            BY <1>0, <5>1 DEF Scheduled, Types
          <6> QED BY <6>1
        <5> QED BY <2>1, <5>1
      <4> QED BY <1>0, <4>1, <4>2, LeftPool
    <3>3. PICK P \in SUBSET Item : P = pending'
      BY <3>1
    <3>4. \A j \in 1..(i - 1) : j \in P \cup silent' \/ SettledBefore(j, Len(session) + 1)'
      BY <1>0, <1>5, <3>2, <3>3
    <3>5. Window(i, Len(session) + 1, P)'
      BY <1>1, <3>1, <3>3, <3>4 DEF Window
    <3> QED BY <3>5
  <2>2. CASE i \notin new
    <3>1. PICK P \in SUBSET Item : Window(i, Len(session) + 1, P)
      BY <1>0, <2>2 DEF OrderInv, Entered
    <3>2. Window(i, Len(session) + 1, P)'
      BY <1>0, <1>5, <3>1 DEF Window
    <3> QED BY <3>1, <3>2
  <2> QED BY <2>1, <2>2
<1>8. FullWait'
  <2> SUFFICES ASSUME ~interrupted, Scheduled # N
               PROVE  MaxWorkers # 0 /\ Cardinality(pending') = MaxWorkers
    BY <1>0 DEF FullWait
  <2>0. index \in 0..N /\ Scheduled \in index..N /\ N \in Nat /\ MaxWorkers \in Nat
        /\ Cardinality(pending) \in Nat /\ IsFiniteSet(pending)
    BY <1>0, <1>1, PoolAssumption, PoolFinite DEF Types
  <2>1. MaxWorkers # 0
    BY <2>0 DEF Scheduled, Room
  <2>2. Scheduled = index + (MaxWorkers - Cardinality(pending))
    BY <2>0, <2>1 DEF Scheduled, Room
  <2>3. IsFiniteSet(new) /\ Cardinality(new) = Scheduled - index
    <3>1. index + 1 \in Int /\ Scheduled \in Int /\ index =< Scheduled
      BY <2>0
    <3>2. /\ IsFiniteSet(new)
          /\ Cardinality(new) = IF index + 1 > Scheduled THEN 0 ELSE Scheduled - (index + 1) + 1
      BY <3>1, FS_Interval
    <3> QED BY <2>0, <3>1, <3>2
  <2>4. pending \cap new = {}
    BY <2>0 DEF OrderInv, Pooled
  <2>5. Cardinality(pending') = Cardinality(pending) + Cardinality(new) - Cardinality({})
    <3> HIDE DEF new
    <3> QED BY <1>0, <2>0, <2>3, <2>4, FS_Union
  <2>6. Cardinality({}) = 0
    BY FS_EmptySet
  <2> QED BY <2>0, <2>1, <2>2, <2>3, <2>5, <2>6
<1> QED BY <1>2, <1>3, <1>6, <1>7, <1>8, OrderInvIs DEF Tasks

-----------------------------------------------------------------------------
(* A step of an item's task that records nothing.                          *)
LEMMA OrderTask ==
  ASSUME IInv, OrderInv, NEW i \in Item, item[i] # "none", Keep,
         UNCHANGED <<session, silent>>, stuck' \in BOOLEAN,
         \A j \in Item : j # i => item'[j] = item[j] /\ outcome'[j] = outcome[j],
         finished \subseteq finished', finished' \subseteq Item,
         item'[i] = "live" /\ ~rerun =>
           \A a \in DOMAIN session : session[a].run = i => session[a].kind # "interrupt",
         item'[i] \in {"held", "recorded", "done"} =>
           /\ outcome'[i].kind = "result" => SettledBefore(i, Len(session) + 1)
           /\ outcome'[i].kind = "nothing" => i \in silent,
         item'[i] = "done" /\ outcome'[i].kind \notin {"error", "cancelled"} => i \in finished',
         NeverStuck'
  PROVE  OrderInv'
<1>1. UNCHANGED <<rerun, session, silent, turn, sequence, pending, index, interrupted, pc, lapsed>>
  BY DEF Keep, poolVars
<1>2. Rest' /\ Pooled' /\ FullWait' /\ Logged' /\ SequenceIs'
  <2>1. Rest' /\ Pooled' /\ FullWait'
    BY <1>1 DEF OrderInv, Rest, Pooled, FullWait
  <2> QED BY <1>1, <2>1, LogKept, SequenceKept
<1>3. \A r, n : SettledBefore(r, n)' <=> SettledBefore(r, n)
  BY <1>1 DEF SettledBefore, Settled
<1>4. \A j, n, P : Window(j, n, P)' <=> Window(j, n, P)
  BY <1>1 DEF Window, SettledBefore, Settled
<1>5. LiveUnasked' /\ EndedFinished'
  BY <1>1 DEF OrderInv, LiveUnasked, EndedFinished
<1>6. OutcomeKnown'
  BY <1>1, <1>3 DEF OrderInv, OutcomeKnown
<1>7. Entered'
  <2> SUFFICES ASSUME NEW j \in Item, item'[j] # "none"
               PROVE  \E P \in SUBSET Item : Window(j, Len(session) + 1, P)
    BY <1>1, <1>4 DEF Entered
  <2>1. item[j] # "none"
    OBVIOUS
  <2> QED BY <2>1 DEF OrderInv, Entered
<1> QED BY <1>2, <1>5, <1>6, <1>7, OrderInvIs DEF Tasks

(* A run that is executed again and is not rerun has not asked before.     *)
LEMMA OrderStart == ASSUME IInv, OrderInv, NEW i \in Item, Start(i) PROVE OrderInv'
<1>0. /\ Types /\ i = counter + 1 /\ item[i] = "created" /\ Keep
      /\ UNCHANGED <<session, silent, stuck>>
  BY NextInOrder DEF IInv, Start
<1>1. stuck' \in BOOLEAN /\ NeverStuck'
  BY <1>0 DEF OrderInv, Rest, NeverStuck, Keep, poolVars
<1>2. CASE Replays(i)
  <2>0. /\ item' = [item EXCEPT ![i] = "held"]
        /\ outcome' = [outcome EXCEPT ![i] = Recovered(i)]
        /\ finished' = finished
    BY <1>0, <1>2 DEF Start
  <2>1. ASSUME Recovered(i).kind = "result" PROVE SettledBefore(i, Len(session) + 1)
    <3>1. LastIs(i, {"result"}) \/ (LastIs(i, {"answer"}) /\ ~rerun)
      BY <1>2, <2>1 DEF Recovered, Replays, LastIs
    <3>2. \E b \in DOMAIN session : Settled(i, b)
      <4>1. CASE LastIs(i, {"result"})
        BY <4>1 DEF LastIs, IsLast, Settled
      <4>2. CASE LastIs(i, {"answer"}) /\ ~rerun
        <5>1. PICK a \in DOMAIN session : session[a].run = i /\ session[a].kind = "answer"
          BY <4>2 DEF LastIs, IsLast
        <5>2. PICK b \in DOMAIN session : session[b].kind = "interrupt" /\ session[b].run = i
          BY <5>1 DEF OrderInv, AnswersAsked
        <5> QED BY <4>2, <5>2 DEF Settled
      <4> QED BY <3>1, <4>1, <4>2
    <3>3. DOMAIN session = 1..(Len(session) + 1 - 1)
      BY <1>0 DEF Types
    <3> QED BY <3>2, <3>3 DEF SettledBefore
  <2>2. Recovered(i).kind \in {"result", "interrupt"}
    BY DEF Recovered
  <2>3. /\ item'[i] = "held" /\ outcome'[i] = Recovered(i)
        /\ \A j \in Item : j # i => item'[j] = item[j] /\ outcome'[j] = outcome[j]
    BY <1>0, <2>0 DEF Types
  <2> QED BY <1>0, <1>1, <2>0, <2>1, <2>2, <2>3, OrderTask DEF OrderInv, Rest
<1>3. CASE ~Replays(i)
  <2>0. /\ item' = [item EXCEPT ![i] = "live"] /\ outcome' = outcome
        /\ finished' = finished \cup PlaceGivenUp(i)
    BY <1>0, <1>3 DEF Start
  <2>1. ASSUME ~rerun, NEW a \in DOMAIN session, session[a].run = i, session[a].kind = "interrupt"
        PROVE  FALSE
    <3>1. PICK b \in DOMAIN session : a =< b /\ IsLast(b, i)
      BY <1>0, <2>1, LastExists
    <3>2. a \in Int /\ b \in Int
      BY <1>0 DEF Types
    <3>3. session[b].kind \in {"interrupt", "answer"}
      <4>1. CASE a = b
        BY <2>1, <4>1
      <4>2. CASE a < b
        BY <2>1, <3>1, <4>2 DEF OrderInv, QuestionsLast, IsLast
      <4> QED BY <3>1, <3>2, <4>1, <4>2
    <3> QED BY <1>3, <2>1, <3>1, <3>3 DEF Replays, LastIs
  <2>2. PlaceGivenUp(i) \subseteq Item
    BY DEF PlaceGivenUp
  <2>3. /\ item'[i] = "live"
        /\ \A j \in Item : j # i => item'[j] = item[j] /\ outcome'[j] = outcome[j]
    BY <1>0, <2>0 DEF Types
  <2>4. finished \subseteq finished' /\ finished' \subseteq Item
    BY <2>0, <2>2 DEF OrderInv, Rest
  <2> QED BY <1>0, <1>1, <2>1, <2>3, <2>4, OrderTask
<1> QED BY <1>2, <1>3

(* The task ends, by itself or cancelled.                                  *)
LEMMA OrderEnd ==
  ASSUME IInv, OrderInv, NEW i \in Item, Finish(i) \/ Release(i) \/ Stop(i) PROVE OrderInv'
<1>0. /\ Types /\ item[i] # "none" /\ Keep /\ item' = [item EXCEPT ![i] = "done"]
      /\ UNCHANGED <<session, silent, stuck>>
  BY DEF IInv, Finish, Release, Stop
<1>1. stuck' \in BOOLEAN /\ NeverStuck'
  BY <1>0 DEF OrderInv, Rest, NeverStuck, Keep, poolVars
<1>2. item'[i] = "done" /\ \A j \in Item : j # i => item'[j] = item[j]
  BY <1>0 DEF Types
<1>3. CASE Finish(i) \/ Release(i)
  <2>1. item[i] \in {"recorded", "held"} /\ outcome' = outcome /\ run[i] = i
    BY <1>3 DEF Finish, Release, IInv, OwnRun
  <2>2. /\ finished \subseteq finished' /\ finished' \subseteq Item
        /\ outcome[i].kind # "cancelled" => i \in finished'
    BY <1>3, <2>1 DEF Finish, Release, Advanced, OrderInv, Rest
  <2>3. /\ outcome[i].kind = "result" => SettledBefore(i, Len(session) + 1)
        /\ outcome[i].kind = "nothing" => i \in silent
    BY <2>1 DEF OrderInv, OutcomeKnown
  <2> QED BY <1>0, <1>1, <1>2, <2>1, <2>2, <2>3, OrderTask
<1>4. CASE Stop(i)
  <2>1. /\ outcome' = [outcome EXCEPT ![i] = [kind |-> "cancelled", from |-> i]]
        /\ finished' = finished
    BY <1>4 DEF Stop
  <2>2. /\ outcome'[i].kind = "cancelled" /\ \A j \in Item : j # i => outcome'[j] = outcome[j]
    BY <1>0, <2>1 DEF Types
  <2>3. finished \subseteq finished' /\ finished' \subseteq Item
    BY <2>1 DEF OrderInv, Rest
  <2> QED BY <1>0, <1>1, <1>2, <2>2, <2>3, OrderTask
<1> QED BY <1>3, <1>4

(* The run executes and leaves an event, or none.                          *)
LEMMA OrderExecute == ASSUME IInv, IInv', OrderInv, NEW i \in Item, Execute(i) PROVE OrderInv'
<1> PICK n : n = Len(session) + 1
  OBVIOUS
<1>0. /\ Types /\ item[i] = "live" /\ run[i] = i /\ Keep /\ n \in Nat
      /\ item' = [item EXCEPT ![i] = "recorded"] /\ UNCHANGED <<finished, stuck>>
      /\ DOMAIN session = 1..Len(session)
  BY DEF IInv, Execute, OwnRun, Types
<1>1. PICK kind \in Does[i] :
        /\ outcome' = [outcome EXCEPT ![i] = [kind |-> kind, from |-> i]]
        /\ session' = IF kind \in {"result", "interrupt", "error"}
                      THEN Append(session, [kind |-> kind, run |-> i, from |-> i]) ELSE session
        /\ silent' = IF kind = "nothing" THEN silent \cup {i} ELSE silent
  BY <1>0 DEF Execute, Record
<1>2. /\ UNCHANGED <<rerun, turn, sequence, pending, index, interrupted, pc, lapsed, finished,
                     stuck>>
      /\ silent \subseteq silent' /\ silent' \subseteq silent \cup {i}
  BY <1>0, <1>1 DEF Keep, poolVars
<1>3. /\ \A j \in Item : j # i => item'[j] = item[j] /\ outcome'[j] = outcome[j]
      /\ item'[i] = "recorded" /\ outcome'[i].kind = kind
  BY <1>0, <1>1 DEF Types
<1>4. /\ session' \in Seq(SessionEvent)
      /\ \A a \in DOMAIN session : a \in DOMAIN session' /\ session'[a] = session[a]
      /\ \A a \in DOMAIN session' : a \notin DOMAIN session =>
           /\ a = n /\ kind \in {"result", "interrupt", "error"}
           /\ session'[a].kind = kind /\ session'[a].run = i
      /\ kind = "result" => n \in DOMAIN session' /\ Len(session') = n
  <2>1. CASE kind \in {"result", "interrupt", "error"}
    <3>1. [kind |-> kind, run |-> i, from |-> i] \in SessionEvent
      BY <2>1 DEF SessionEvent
    <3> QED BY <1>0, <1>1, <2>1, <3>1, Appended DEF Types
  <2>2. CASE kind \notin {"result", "interrupt", "error"}
    BY <1>0, <1>1, <2>2 DEF Types
  <2> QED BY <2>1, <2>2
<1>5. /\ Len(session') \in Nat /\ Len(session) =< Len(session')
      /\ \A j \in Item : SettledBefore(j, n) => SettledBefore(j, Len(session) + 1)'
      /\ \A j \in Item, P \in SUBSET Item :
           \A m \in DOMAIN session : Window(j, m, P) => Window(j, m, P)'
      /\ \A j \in Item, P \in SUBSET Item : Window(j, n, P) => Window(j, n, P)'
      /\ \A j \in Item, P \in SUBSET Item : Window(j, n, P) => Window(j, Len(session) + 1, P)'
  <2>1. /\ Len(session) \in Nat /\ Len(session') \in Nat /\ Len(session) =< Len(session')
        /\ \A r : \A k, m \in Nat :
             k =< Len(session) + 1 /\ k =< m => (SettledBefore(r, k) => SettledBefore(r, m)')
        /\ \A j, P : \A k, m \in Nat :
             k =< Len(session) + 1 /\ k =< m => (Window(j, k, P) => Window(j, m, P)')
    BY <1>0, <1>2, <1>4, Grown
  <2>2. PICK l \in Nat : l = Len(session') + 1
    BY <2>1
  <2>3. n \in Nat /\ n =< l /\ n =< Len(session) + 1
    BY <1>0, <2>1, <2>2
  <2>4. \A m \in DOMAIN session : m \in Nat /\ m =< Len(session) + 1
    BY <1>0, <2>1
  <2> QED BY <2>1, <2>2, <2>3, <2>4
<1>6. Rest' /\ Pooled' /\ FullWait'
  <2>1. silent' \subseteq Item
    BY <1>2 DEF OrderInv, Rest
  <2> QED BY <1>2, <2>1 DEF OrderInv, Rest, Pooled, FullWait
<1>7. QuestionsLast'
  <2> SUFFICES ASSUME NEW a \in DOMAIN session', NEW b \in DOMAIN session', ~rerun,
                      session'[a].kind = "interrupt", a < b, session'[a].run = session'[b].run
               PROVE  session'[b].kind = "answer"
    BY <1>2 DEF QuestionsLast
  <2>1. a \in DOMAIN session
    BY <1>0, <1>4
  <2>2. CASE b \in DOMAIN session
    BY <1>4, <2>1, <2>2 DEF OrderInv, QuestionsLast
  <2>3. CASE b \notin DOMAIN session
    BY <1>0, <1>4, <2>1, <2>3 DEF OrderInv, LiveUnasked
  <2> QED BY <2>2, <2>3
<1>8. AnswersAsked'
  BY <1>4 DEF OrderInv, AnswersAsked
<1>9. Windowed'
  <2> SUFFICES ASSUME NEW a \in DOMAIN session', session'[a].kind \in {"result", "interrupt"}
               PROVE  \E P \in SUBSET Item : Window(session[a].run, a, P)'
    BY DEF Windowed
  <2>1. CASE a \in DOMAIN session
    <3>0. session[a] \in SessionEvent
      BY <1>0, <2>1 DEF Types
    <3>1. session'[a] = session[a] /\ session[a].run \in Item
      BY <1>4, <2>1, <3>0 DEF SessionEvent
    <3>2. PICK P \in SUBSET Item : Window(session[a].run, a, P)
      BY <2>1, <3>1 DEF OrderInv, Windowed
    <3>3. PICK r \in Item : r = session[a].run
      BY <3>1
    <3>4. Window(r, a, P)'
      BY <1>5, <2>1, <3>2, <3>3
    <3> QED BY <3>1, <3>3, <3>4
  <2>2. CASE a \notin DOMAIN session
    <3>1. a = n /\ session'[a].run = i
      BY <1>4, <2>2
    <3>2. PICK P \in SUBSET Item : Window(i, n, P)
      BY <1>0 DEF OrderInv, Entered
    <3>3. Window(i, a, P)'
      BY <1>5, <3>1, <3>2
    <3> QED BY <3>1, <3>3
  <2> QED BY <2>1, <2>2
<1>10. LiveUnasked' /\ EndedFinished'
  <2>1. EndedFinished'
    BY <1>2, <1>3 DEF OrderInv, EndedFinished
  <2>2. LiveUnasked'
    <3> SUFFICES ASSUME NEW j \in Item, item'[j] = "live", ~rerun,
                        NEW a \in DOMAIN session', session'[a].run = j
                 PROVE  session'[a].kind # "interrupt"
      BY <1>2 DEF LiveUnasked
    <3>1. j # i /\ item[j] = "live"
      BY <1>3
    <3> QED BY <1>4, <3>1 DEF OrderInv, LiveUnasked
  <2> QED BY <2>1, <2>2
<1>11. OutcomeKnown'
  <2> SUFFICES ASSUME NEW j \in Item, item'[j] \in {"held", "recorded", "done"}
               PROVE  /\ outcome'[j].kind = "result" => SettledBefore(j, Len(session) + 1)'
                      /\ outcome'[j].kind = "nothing" => j \in silent'
    BY DEF OutcomeKnown
  <2>1. CASE j = i
    <3>1. kind = "nothing" => j \in silent'
      BY <1>1, <2>1
    <3>2. kind = "result" => SettledBefore(j, Len(session) + 1)'
      <4> SUFFICES ASSUME kind = "result" PROVE SettledBefore(j, Len(session) + 1)'
        OBVIOUS
      <4>1. n \in DOMAIN session' /\ Len(session') = n /\ n \in 1..(Len(session') + 1 - 1)
        BY <1>0, <1>4
      <4>2. session'[n].kind = "result" /\ session'[n].run = j
        BY <1>0, <1>4, <2>1, <4>1
      <4>3. Settled(j, n)'
        BY <4>2 DEF Settled
      <4> QED BY <4>1, <4>3 DEF SettledBefore
    <3> QED BY <1>3, <2>1, <3>1, <3>2
  <2>2. CASE j # i
    BY <1>2, <1>3, <1>5, <2>2 DEF OrderInv, OutcomeKnown
  <2> QED BY <2>1, <2>2
<1>12. Entered'
  <2> SUFFICES ASSUME NEW j \in Item, item'[j] # "none"
               PROVE  \E P \in SUBSET Item : Window(j, Len(session) + 1, P)'
    BY DEF Entered
  <2>1. item[j] # "none"
    BY <1>0, <1>3
  <2>2. PICK P \in SUBSET Item : Window(j, n, P)
    BY <2>1 DEF OrderInv, Entered
  <2>3. Window(j, Len(session) + 1, P)'
    BY <1>5, <2>2
  <2> QED BY <2>3
<1>13. SequenceIs'
  <2> SUFFICES ASSUME NEW p \in sequence
               PROVE  /\ p.at \in DOMAIN session' /\ session'[p.at].run = p.run
                      /\ session'[p.at].kind \in {"result", "interrupt"}
                      /\ \A q \in sequence : q.run = p.run => q = p
                      /\ \A b \in DOMAIN session' : Settled(p.run, b)' => p.at =< b
    BY <1>2 DEF SequenceIs
  <2>1. /\ p.at \in DOMAIN session /\ session[p.at].run = p.run
        /\ session[p.at].kind \in {"result", "interrupt"}
        /\ \A q \in sequence : q.run = p.run => q = p
        /\ \A b \in DOMAIN session : Settled(p.run, b) => p.at =< b
    BY DEF OrderInv, SequenceIs
  <2>2. ASSUME NEW b \in DOMAIN session', Settled(p.run, b)' PROVE p.at =< b
    <3>1. CASE b \in DOMAIN session
      BY <1>2, <1>4, <2>1, <2>2, <3>1 DEF Settled
    <3>2. CASE b \notin DOMAIN session
      BY <1>0, <1>4, <2>1, <3>2
    <3> QED BY <3>1, <3>2
  <2> QED BY <1>4, <2>1, <2>2
<1>14. NeverStuck'
  <2> SUFFICES ASSUME stuck, ~interrupted
               PROVE  \E j \in silent' : \E a \in DOMAIN session' : session'[a].from = j
    BY <1>2 DEF NeverStuck
  <2>1. PICK j \in silent : \E a \in DOMAIN session : session[a].from = j
    BY DEF OrderInv, NeverStuck
  <2> QED BY <1>2, <1>4, <2>1
<1> QED BY <1>6, <1>7, <1>8, <1>9, <1>10, <1>11, <1>12, <1>13, <1>14, OrderInvIs DEF Logged, Tasks

(* A replayed run gives up: with nothing executing, the run it waits for   *)
(* is one that the worker was to have scheduled by now, or had no place.   *)
LEMMA WaitInVain ==
  ASSUME IInv, OrderInv, NEW i \in Item, HeldTimeOut(i), stuck', ~interrupted
  PROVE  \E k \in silent : \E a \in DOMAIN session : session[a].from = k
<1>0. /\ Types /\ pc = "wait" /\ Going /\ MaxWorkers \in Nat
      /\ DOMAIN session = 1..Len(session) /\ Len(session) \in Nat
  BY PoolAssumption DEF IInv, Types, HeldTimeOut, Going
<1>1. \A j \in pending : j \in Item /\ item[j] = "held" /\ run[j] = j /\ ~Released(j)
  <2> SUFFICES ASSUME NEW j \in pending
               PROVE  j \in Item /\ item[j] = "held" /\ run[j] = j /\ ~Released(j)
    OBVIOUS
  <2>1. j \in Item /\ item[j] = "held" /\ ~Released(run[j])
    BY <1>0 DEF HeldTimeOut, Types
  <2> QED BY <2>1 DEF IInv, OwnRun
<1>2. \A p \in sequence : /\ p.at \in DOMAIN session /\ session[p.at].run = p.run
                          /\ session[p.at].kind \in {"result", "interrupt"}
                          /\ \A q \in sequence : q.run = p.run => q = p
                          /\ \A b \in DOMAIN session : Settled(p.run, b) => p.at =< b
                          /\ p.run \in Item
  BY DEF OrderInv, SequenceIs, Rest
<1> DEFINE Due == {p.at : p \in {q \in sequence : q.run \notin finished}}
<1>3. \A j \in pending : \E p \in sequence : p.run = j /\ \E m \in Due : m < p.at
  BY <1>1 DEF Released
<1>4. i \in pending
  BY DEF HeldTimeOut, IInv, InPool, Active
<1>5. PICK m \in Due : \A k \in Due : m =< k
  <2>1. Due \subseteq 1..Len(session) /\ Due # {}
    BY <1>0, <1>2, <1>3, <1>4
  <2> HIDE DEF Due
  <2> QED BY <1>0, <2>1, LeastIs
<1>6. PICK q \in sequence : q.at = m /\ q.run \notin finished
  BY <1>5
<1>7. m \in DOMAIN session /\ session[m].run = q.run /\ session[m].kind \in {"result", "interrupt"}
      /\ q.run \in Item
  BY <1>2, <1>6
<1>8. q.run \notin pending
  <2> SUFFICES ASSUME q.run \in pending PROVE FALSE
    OBVIOUS
  <2>1. PICK p \in sequence : p.run = q.run /\ \E k \in Due : k < p.at
    BY <1>3
  <2>2. p = q
    BY <1>2, <2>1
  <2>3. PICK k \in Due : k < m
    BY <1>6, <2>1, <2>2
  <2>4. m =< k /\ k \in 1..Len(session) /\ m \in 1..Len(session)
    BY <1>0, <1>2, <1>5, <2>3
  <2> HIDE DEF Due
  <2> QED BY <1>0, <2>3, <2>4
<1>9. q.run > index /\ index \in 0..N /\ q.run \in 1..N
  <2>1. q.run \notin 1..index
    BY <1>0, <1>6, <1>8, LeftPool
  <2> QED BY <1>0, <1>7, <2>1 DEF Types, Item
<1>10. MaxWorkers # 0 /\ Cardinality(pending) = MaxWorkers
  BY <1>0, <1>9, PoolAssumption DEF OrderInv, FullWait
<1>11. PICK P \in SUBSET Item : Window(q.run, m, P)
  BY <1>7 DEF OrderInv, Windowed
<1>12. PICK k \in pending : k \notin P
  <2> SUFFICES ASSUME pending \subseteq P PROVE FALSE
    OBVIOUS
  <2>1. q.run \in P /\ Cardinality(P) =< MaxWorkers
    BY <1>10, <1>11 DEF Window
  <2>2. IsFiniteSet(P) /\ Cardinality(P) \in Nat /\ Cardinality(P \ {q.run}) = Cardinality(P) - 1
    <3>1. IsFiniteSet(P) /\ Cardinality(P) \in Nat
      BY PoolFinite
    <3> QED BY <2>1, <3>1, FS_RemoveElement
  <2>3. Cardinality(pending) =< Cardinality(P \ {q.run})
    <3>1. P \ {q.run} \in SUBSET Item /\ pending \in SUBSET (P \ {q.run})
      BY <1>8
    <3> QED BY <3>1, SmallerPool
  <2> QED BY <1>0, <1>10, <2>1, <2>2, <2>3
<1>13. k \in silent \/ SettledBefore(k, m)
  <2>1. k \in 1..index
    BY DEF OrderInv, Pooled
  <2>2. k \in 1..(q.run - 1)
    BY <1>9, <2>1
  <2> QED BY <1>11, <1>12, <2>2 DEF Window
<1>14. PICK p \in sequence : p.run = k /\ \E d \in Due : d < p.at
  BY <1>3
<1>15. CASE k \in silent
  <2>1. p.at \in DOMAIN session /\ session[p.at].run = k
    BY <1>2, <1>14
  <2> QED BY <1>15, <2>1 DEF IInv, OwnEvents
<1>16. CASE SettledBefore(k, m)
  <2>1. PICK b \in 1..(m - 1) : Settled(k, b)
    BY <1>16 DEF SettledBefore
  <2>2. b \in DOMAIN session /\ b < m
    BY <1>0, <1>7
  <2>3. p.at =< b /\ p.at \in DOMAIN session
    BY <1>2, <1>14, <2>1, <2>2
  <2>4. PICK d \in Due : d < p.at
    BY <1>14
  <2>5. m =< d /\ d \in DOMAIN session
    BY <1>2, <1>5, <2>4
  <2> HIDE DEF Due
  <2> QED BY <1>0, <1>7, <2>2, <2>3, <2>4, <2>5
<1> QED BY <1>13, <1>15, <1>16

LEMMA OrderTimeOut == ASSUME IInv, OrderInv, NEW i \in Item, HeldTimeOut(i) PROVE OrderInv'
<1>0. /\ Types /\ item[i] = "held" /\ Keep /\ UNCHANGED <<session, silent, finished>>
      /\ item' = [item EXCEPT ![i] = "done"]
      /\ outcome' = [outcome EXCEPT ![i] = [kind |-> "error", from |-> i]]
      /\ stuck' \in BOOLEAN
  BY DEF IInv, HeldTimeOut
<1>1. /\ item'[i] = "done" /\ outcome'[i].kind = "error"
      /\ \A j \in Item : j # i => item'[j] = item[j] /\ outcome'[j] = outcome[j]
  BY <1>0 DEF Types
<1>2. NeverStuck'
  BY <1>0, WaitInVain DEF NeverStuck, Keep, poolVars
<1> QED BY <1>0, <1>1, <1>2, OrderTask DEF OrderInv, Rest

-----------------------------------------------------------------------------
(* Between the turns.                                                      *)
LEMMA OrderAnswer == ASSUME IInv, IInv', OrderInv, NEW r \in Item, Answer(r) PROVE OrderInv'
<1> PICK n : n = Len(session) + 1
  OBVIOUS
<1>0. /\ Types /\ n \in Nat /\ pc' = "over" /\ DOMAIN session = 1..Len(session)
      /\ UNCHANGED <<rerun, turn, sequence, itemVars, poolVars, pc, lapsed, stuck, silent>>
      /\ \E a \in DOMAIN session : session[a].kind = "interrupt" /\ session[a].run = r
  BY DEF IInv, Answer, LastIs, IsLast, Types
<1>1. /\ session' \in Seq(SessionEvent)
      /\ \A a \in DOMAIN session : a \in DOMAIN session' /\ session'[a] = session[a]
      /\ \A a \in DOMAIN session' : a \notin DOMAIN session =>
           a = n /\ session'[a].kind = "answer" /\ session'[a].run = r
  <2>1. session' = Append(session, [kind |-> "answer", run |-> r, from |-> LastEvent(r).from])
    BY DEF Answer
  <2>2. LastEvent(r).from = r
    BY LastEventIs DEF Answer, IInv
  <2>3. [kind |-> "answer", run |-> r, from |-> LastEvent(r).from] \in SessionEvent
    BY <2>2 DEF SessionEvent
  <2> QED BY <1>0, <2>1, <2>3, Appended DEF Types
<1>2. /\ Len(session') \in Nat /\ Len(session) =< Len(session')
      /\ \A j \in Item : SettledBefore(j, n) => SettledBefore(j, Len(session) + 1)'
      /\ \A j \in Item, P \in SUBSET Item :
           \A m \in DOMAIN session : Window(j, m, P) => Window(j, m, P)'
      /\ \A j \in Item, P \in SUBSET Item : Window(j, n, P) => Window(j, Len(session) + 1, P)'
  <2>1. /\ Len(session) \in Nat /\ Len(session') \in Nat /\ Len(session) =< Len(session')
        /\ \A q : \A k, m \in Nat :
             k =< Len(session) + 1 /\ k =< m => (SettledBefore(q, k) => SettledBefore(q, m)')
        /\ \A j, P : \A k, m \in Nat :
             k =< Len(session) + 1 /\ k =< m => (Window(j, k, P) => Window(j, m, P)')
    BY <1>0, <1>1, Grown
  <2>2. PICK l \in Nat : l = Len(session') + 1
    BY <2>1
  <2>3. n \in Nat /\ n =< l /\ n =< Len(session) + 1
    BY <1>0, <2>1, <2>2
  <2>4. \A m \in DOMAIN session : m \in Nat /\ m =< Len(session) + 1
    BY <1>0, <2>1
  <2> QED BY <2>1, <2>2, <2>3, <2>4
<1>3. Rest' /\ Pooled' /\ FullWait' /\ NeverStuck'
  <2>1. Rest' /\ Pooled' /\ FullWait'
    BY <1>0 DEF OrderInv, Rest, Pooled, FullWait, itemVars, poolVars
  <2>2. NeverStuck'
    BY <1>0, <1>1 DEF OrderInv, NeverStuck, poolVars
  <2> QED BY <2>1, <2>2
<1>4. QuestionsLast' /\ AnswersAsked'
  <2>1. QuestionsLast'
    <3> SUFFICES ASSUME NEW a \in DOMAIN session', NEW b \in DOMAIN session', ~rerun,
                        session'[a].kind = "interrupt", a < b, session'[a].run = session'[b].run
                 PROVE  session'[b].kind = "answer"
      BY <1>0 DEF QuestionsLast
    <3>1. a \in DOMAIN session
      BY <1>1
    <3> QED BY <1>1, <3>1 DEF OrderInv, QuestionsLast
  <2>2. AnswersAsked'
    <3> SUFFICES ASSUME NEW b \in DOMAIN session', session'[b].kind = "answer"
                 PROVE  \E a \in DOMAIN session' :
                          session'[a].kind = "interrupt" /\ session'[a].run = session'[b].run
      BY DEF AnswersAsked
    <3>1. CASE b \in DOMAIN session
      BY <1>1, <3>1 DEF OrderInv, AnswersAsked
    <3>2. CASE b \notin DOMAIN session
      BY <1>0, <1>1, <3>2
    <3> QED BY <3>1, <3>2
  <2> QED BY <2>1, <2>2
<1>5. Windowed'
  <2> SUFFICES ASSUME NEW a \in DOMAIN session', session'[a].kind \in {"result", "interrupt"}
               PROVE  \E P \in SUBSET Item : Window(session[a].run, a, P)'
    BY DEF Windowed
  <2>1. a \in DOMAIN session /\ session'[a] = session[a]
    BY <1>1
  <2>2. session[a] \in SessionEvent
    BY <1>0, <2>1 DEF Types
  <2>3. PICK c \in Item : c = session[a].run
    BY <2>2 DEF SessionEvent
  <2>4. PICK P \in SUBSET Item : Window(c, a, P)
    BY <2>1, <2>3 DEF OrderInv, Windowed
  <2>5. Window(c, a, P)'
    BY <1>2, <2>1, <2>4
  <2> QED BY <2>1, <2>3, <2>5
<1>6. LiveUnasked' /\ EndedFinished'
  <2>1. EndedFinished'
    BY <1>0 DEF OrderInv, EndedFinished, itemVars
  <2>2. LiveUnasked'
    <3> SUFFICES ASSUME NEW j \in Item, item[j] = "live", ~rerun,
                        NEW a \in DOMAIN session', session'[a].run = j
                 PROVE  session'[a].kind # "interrupt"
      BY <1>0 DEF LiveUnasked, itemVars
    <3> QED BY <1>1 DEF OrderInv, LiveUnasked
  <2> QED BY <2>1, <2>2
<1>7. OutcomeKnown'
  BY <1>0, <1>2 DEF OrderInv, OutcomeKnown, itemVars
<1>8. Entered'
  <2> SUFFICES ASSUME NEW j \in Item, item[j] # "none"
               PROVE  \E P \in SUBSET Item : Window(j, Len(session) + 1, P)'
    BY <1>0 DEF Entered, itemVars
  <2>1. PICK P \in SUBSET Item : Window(j, n, P)
    BY DEF OrderInv, Entered
  <2>2. Window(j, Len(session) + 1, P)'
    BY <1>2, <2>1
  <2> QED BY <2>2
<1>9. SequenceIs'
  <2> SUFFICES ASSUME NEW p \in sequence
               PROVE  /\ p.at \in DOMAIN session' /\ session'[p.at].run = p.run
                      /\ session'[p.at].kind \in {"result", "interrupt"}
                      /\ \A q \in sequence : q.run = p.run => q = p
                      /\ \A b \in DOMAIN session' : Settled(p.run, b)' => p.at =< b
    BY <1>0 DEF SequenceIs
  <2>1. /\ p.at \in DOMAIN session /\ session[p.at].run = p.run
        /\ session[p.at].kind \in {"result", "interrupt"}
        /\ \A q \in sequence : q.run = p.run => q = p
        /\ \A b \in DOMAIN session : Settled(p.run, b) => p.at =< b
    BY DEF OrderInv, SequenceIs
  <2>2. ASSUME NEW b \in DOMAIN session', Settled(p.run, b)' PROVE p.at =< b
    <3>1. b \in DOMAIN session
      BY <1>1, <2>2 DEF Settled
    <3> QED BY <1>0, <1>1, <2>1, <2>2, <3>1 DEF Settled
  <2> QED BY <1>1, <2>1, <2>2
<1> QED BY <1>3, <1>4, <1>5, <1>6, <1>7, <1>8, <1>9, OrderInvIs DEF Logged, Tasks

(* The worker starts again: what its barrier has to keep is what the       *)
(* events say.                                                             *)
LEMMA OrderResume == ASSUME IInv, OrderInv, Resume PROVE OrderInv'
<1>0. /\ Types /\ UNCHANGED <<rerun, session, silent>> /\ turn' = turn + 1 /\ turn < MaxTurns
      /\ sequence' = ScanSequence /\ finished' = {} /\ item' = [i \in Item |-> "none"]
      /\ index' = 0 /\ pending' = {} /\ pc' = "loop" /\ lapsed' = FALSE /\ stuck' = FALSE
  BY DEF IInv, Resume, Each
<1>1. Logged'
  BY <1>0, LogKept
<1>2. Pooled' /\ FullWait' /\ NeverStuck'
  BY <1>0 DEF Pooled, FullWait, NeverStuck
<1>3. Tasks'
  BY <1>0 DEF Tasks, LiveUnasked, OutcomeKnown, EndedFinished, Entered
<1>4. /\ DOMAIN session = 1..Len(session) /\ Len(session) \in Nat
      /\ \A a \in DOMAIN session : session[a] \in SessionEvent
  BY <1>0 DEF Types
<1>5. \A p \in ScanSequence : /\ p.at \in DOMAIN session /\ Places(p.at)
                              /\ p.run = session[p.at].run
                              /\ p = [run |-> session[p.at].run,
                                      pending |-> session[p.at].kind = "interrupt", at |-> p.at]
                              /\ p \in [run : Item, pending : BOOLEAN, at : Nat]
  <2> SUFFICES ASSUME NEW a \in DOMAIN session, Places(a), NEW p,
                      p = [run |-> session[a].run, pending |-> session[a].kind = "interrupt",
                           at |-> a]
               PROVE  /\ p.at = a /\ p.run = session[a].run
                      /\ p \in [run : Item, pending : BOOLEAN, at : Nat]
    BY DEF ScanSequence
  <2> QED BY <1>4 DEF SessionEvent
<1>6. SequenceIs'
  <2> SUFFICES ASSUME NEW p \in ScanSequence
               PROVE  /\ p.at \in DOMAIN session /\ session[p.at].run = p.run
                      /\ session[p.at].kind \in {"result", "interrupt"}
                      /\ \A q \in ScanSequence : q.run = p.run => q = p
                      /\ \A b \in DOMAIN session : Settled(p.run, b) => p.at =< b
    BY <1>0 DEF SequenceIs, Settled
  <2>1. p.at \in DOMAIN session /\ Places(p.at) /\ p.run = session[p.at].run
    BY <1>5
  <2>2. ASSUME NEW q \in ScanSequence, q.run = p.run PROVE q = p
    <3>1. q.at \in DOMAIN session /\ Places(q.at) /\ q.run = session[q.at].run
      BY <1>5
    <3>2. session[q.at].run = session[p.at].run
      BY <2>1, <2>2, <3>1
    <3>3. ~(q.at < p.at)
      BY <2>1, <3>1, <3>2 DEF Places
    <3>4. ~(p.at < q.at)
      BY <2>1, <3>1, <3>2 DEF Places
    <3>5. q.at = p.at
      BY <1>4, <2>1, <3>1, <3>3, <3>4
    <3> QED BY <1>5, <3>5
  <2>3. ASSUME NEW b \in DOMAIN session, Settled(p.run, b), b < p.at PROVE FALSE
    <3>1. session[b].run = session[p.at].run
      BY <2>1, <2>3 DEF Settled
    <3>2. session[b].kind # "result"
      BY <2>1, <2>3, <3>1 DEF Places
    <3>3. session[p.at].kind = "answer"
      BY <2>1, <2>3, <3>1, <3>2 DEF Settled, OrderInv, QuestionsLast
    <3> QED BY <2>1, <3>3 DEF Places
  <2> QED BY <1>4, <2>1, <2>2, <2>3 DEF Places
<1>7. Rest'
  <2>1. turn' \in 1..MaxTurns
    BY <1>0, BoundsAssumption DEF OrderInv, Rest
  <2>2. sequence' \subseteq [run : Item, pending : BOOLEAN, at : Nat]
    BY <1>0, <1>5
  <2> QED BY <1>0, <2>1, <2>2 DEF OrderInv, Rest
<1> QED BY <1>1, <1>2, <1>3, <1>6, <1>7, OrderInvIs

LEMMA OrderStutter == ASSUME OrderInv, UNCHANGED vars PROVE OrderInv'
<1>1. UNCHANGED <<rerun, session, silent, itemVars, sequence, turn, stuck, index, pending,
                  interrupted, pc, lapsed>>
  BY DEF vars, poolVars
<1>2. Logged' /\ Tasks' /\ SequenceIs'
  BY <1>1, LogKept, TasksKept, SequenceKept
<1>3. Rest' /\ Pooled' /\ FullWait' /\ NeverStuck'
  BY <1>1 DEF OrderInv, Rest, Pooled, FullWait, NeverStuck, itemVars
<1> QED BY <1>2, <1>3, OrderInvIs

LEMMA OrderStep == IInv /\ IInv' /\ OrderInv /\ [Next]_vars => OrderInv'
<1> SUFFICES ASSUME IInv, IInv', OrderInv, [Next]_vars PROVE OrderInv'
  OBVIOUS
<1>1. CASE Schedule
  BY <1>1, OrderSchedule
<1>2. CASE Collect \/ CollectFailure \/ Cancel \/ Drained \/ DrainTimeOut \/ CancelAgain \/ Yield
           \/ Crash
  BY <1>2, OrderWorker
<1>3. ASSUME NEW i \in Item, ItemStep(i) \/ Stop(i) PROVE OrderInv'
  BY <1>3, OrderStart, OrderExecute, OrderEnd, OrderTimeOut DEF ItemStep
<1>4. CASE Resume \/ \E r \in Item : Answer(r)
  BY <1>4, OrderResume, OrderAnswer
<1>5. CASE UNCHANGED vars
  BY <1>5, OrderStutter
<1> QED BY <1>1, <1>2, <1>3, <1>4, <1>5 DEF Next, Worker


-----------------------------------------------------------------------------
(* The inductive invariant: which item has which run id, which tasks the   *)
(* pool has, and what the others have left.                                *)
THEOREM InductiveInvariant == Spec => []IInv
<1> QED BY InitIInv, IInvStep, PTL DEF Spec

(* No more items execute at a time than max_parallel_workers, whatever the *)
(* number of items (_run_impl).                                            *)
THEOREM WithinLimitHolds == Spec => []WithinLimit
<1>1. IInv => WithinLimit
  <2> SUFFICES ASSUME IInv, MaxWorkers # 0
               PROVE  Cardinality({i \in Item : item[i] \in {"live", "recorded"}}) =< MaxWorkers
    BY DEF WithinLimit
  <2> DEFINE busy == {i \in Item : item[i] \in {"live", "recorded"}}
  <2>1. pending \in SUBSET Item /\ busy \in SUBSET pending
    BY DEF IInv, Types, InPool, Active
  <2>2. Cardinality(busy) =< Cardinality(pending) /\ Cardinality(pending) =< MaxWorkers
    BY <2>1, SmallerPool DEF IInv, Limited
  <2>3. Cardinality(busy) \in Nat /\ Cardinality(pending) \in Nat
    BY <2>1, PoolFinite
  <2> QED BY <2>2, <2>3, PoolAssumption
<1> QED BY <1>1, InductiveInvariant, PTL

(* What the worker yields stands in the order of the items, whatever order *)
(* and turns they end in (_run_impl, the numbering of dynamic runs).       *)
THEOREM ResultsInPlaceHolds == Spec => []ResultsInPlace
<1>1. IInv => ResultsInPlace
  BY DEF IInv, Complete, ResultsInPlace
<1> QED BY <1>1, InductiveInvariant, PTL

(* An item with a recorded result is never executed again                  *)
(* (check_interception, over any number of turns).                         *)
THEOREM OneResultPerItemHolds == Spec => []OneResultPerItem
<1>1. IInv => OneResultPerItem
  <2> SUFFICES ASSUME IInv, NEW a \in DOMAIN session, NEW b \in DOMAIN session,
                      session[a].kind = "result", session[b].kind = "result",
                      session[a].from = session[b].from
               PROVE  a = b
    BY DEF OneResultPerItem
  <2>1. session[a].run = session[b].run
    BY DEF IInv, OwnEvents
  <2>2. IsLast(a, session[a].run) /\ IsLast(b, session[b].run)
    BY DEF IInv, ResultsLast
  <2>3. a \in Int /\ b \in Int
    BY DEF IInv, Types
  <2> QED BY <2>1, <2>2, <2>3 DEF IsLast
<1> QED BY <1>1, InductiveInvariant, PTL

(* However the worker ends, no item goes on unless the drain gave up on it *)
(* (_drain_pending_items).                                                 *)
THEOREM NothingLeftRunningHolds == Spec => []NothingLeftRunning
<1>1. IInv => NothingLeftRunning
  BY DEF IInv
<1> QED BY <1>1, InductiveInvariant, PTL

(* A question of one item lets the others in flight end (_run_impl).       *)
THEOREM InterruptSparesSiblingsHolds == Spec => []InterruptSparesSiblings
<1>1. IInv => InterruptSparesSiblings
  BY DEF IInv
<1> QED BY <1>1, InductiveInvariant, PTL

(* The inductive invariant of the recorded order, over the first one.      *)
THEOREM OrderIsKept == Spec => []OrderInv
<1> QED BY InductiveInvariant, OrderInit, OrderStep, PTL DEF Spec

(* Every variable has its type, the events and the barrier's sequence      *)
(* included.                                                               *)
THEOREM TypeCorrect == Spec => []TypeOK
<1>1. IInv /\ OrderInv => TypeOK
  BY DEF IInv, Types, OrderInv, Rest, TypeOK
<1> QED BY <1>1, InductiveInvariant, OrderIsKept, PTL

(* A replayed item that waits in vain does so for an item that left no     *)
(* event in an earlier turn and one in a later, or with a question open:   *)
(* the recorded order fits the pool (_scan_sequence, wait_sequence,        *)
(* _schedule_items).                                                       *)
THEOREM NeverStuckHolds == Spec => []NeverStuck
<1>1. OrderInv => NeverStuck
  BY DEF OrderInv
<1> QED BY <1>1, OrderIsKept, PTL
=============================================================================
