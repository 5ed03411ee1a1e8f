------------------------ MODULE DynamicNodes_proofs -------------------------
(***************************************************************************)
(* Proofs about the dynamic nodes, for every body, any number of attempts  *)
(* and turns, with callers that come late or go on behind a failed         *)
(* attempt: an attempt takes no part in unnamed runs that the body has     *)
(* rejected, and what an earlier turn has completed is not executed again. *)
(* For bodies whose callers make one unnamed call each, as their first:    *)
(* callers get the results of their own calls, and the retry after the     *)
(* failure of a child replays what has been completed.                     *)
(*                                                                         *)
(* IInv says who waits for whom, which run ids are taken, and that nothing *)
(* happens to the runs that earlier turns have settled.  FitInv says that  *)
(* runs, events and results are about calls that have the run ids they     *)
(* name, and KeepInv that nobody holds the runs a retry keeps.             *)
(***************************************************************************)
EXTENDS DynamicNodes, FiniteSetTheorems, TLAPS

Busy == {"waits", "doomed", "returned", "failed", "cancelled", "replays"}

\* A caller has no more results than calls, and is at one of its calls
BusyInv == \A f \in Frame :
  /\ Len(frames[f].got) <= Len(calls[f[2]])
  /\ frames[f].pc \in Busy => Len(frames[f].got) < Len(calls[f[2]]) /\ frames[f].key \in Key

\* An owner waits for its execution, and a caller waits for one execution
WaitInv == \A f \in Frame :
  /\ execs[f].state = "none" => execs[f] = NoExec
  /\ execs[f].state # "none" => execs[f].key \in Key /\ Contains(execs[f].waiters, f)
  /\ \A g \in Frame : Contains(execs[f].waiters, g) =>
       /\ frames[g].pc = "waits"
       /\ \A h \in Frame \ {f} : ~ Contains(execs[h].waiters, g)

\* Callers that have not been started yet
FreshInv ==
  /\ parent # "calls" => starting = 1
  /\ parent = "over" => attempt = 1
  /\ \A f \in Frame :
       f[1] > attempt \/ (f[1] = attempt /\ parent # "waits" /\ f[2] >= starting)
         => frames[f] = NoCall

\* The attempt counts on from its snapshot, behind what has been rejected
RejectInv ==
  /\ snapshot <= counter
  /\ rejected \subseteq (1..snapshot) \cup Name
  /\ \A f \in Frame : f[1] = attempt =>
       frames[f].key \in {0} \cup Name \cup {n \in Nat : n > snapshot}

\* Runs that earlier turns have left with a result
Settled(k) ==
  \E i \in 1..before : /\ log[i].key = k /\ log[i].output
                       /\ \A j \in 1..before : j > i => log[j].key # k

RunsReplay(r) == \A k \in Key : Settled(k) /\ k \in DOMAIN r =>
                   r[k].status = "completed" /\ r[k].owners = {}

ReplayInv ==
  /\ RunsReplay(runs)
  /\ \A k \in Key : Settled(k) =>
       /\ \A f \in Frame : execs[f].state # "none" => execs[f].key # k
       /\ \A i \in DOMAIN log : i > before => log[i].key # k

RunsOK(r) == DOMAIN r \subseteq Key /\ r \in [DOMAIN r -> Run]

IInv == TypeOK /\ BusyInv /\ WaitInv /\ FreshInv /\ RejectInv /\ ReplayInv

-----------------------------------------------------------------------------
(* Calls and runs.                                                         *)

LEMMA BodyType ==
  ASSUME TypeOK
  PROVE  \E S : /\ calls \in Seq(Seq(S)) /\ calls # <<>>
                /\ \A c \in DOMAIN calls : calls[c] # <<>>
BY BodiesAssumption DEF TypeOK

LEMMA CallsType ==
  ASSUME TypeOK
  PROVE  /\ Len(calls) \in Nat \ {0} /\ Caller = 1..Len(calls)
         /\ \A c \in Caller : Len(calls[c]) \in Nat \ {0} /\ DOMAIN calls[c] = 1..Len(calls[c])
<1>1. PICK S : /\ calls \in Seq(Seq(S)) /\ calls # <<>>
               /\ \A c \in DOMAIN calls : calls[c] # <<>>
  BY BodyType
<1>2. Len(calls) \in Nat \ {0} /\ Caller = 1..Len(calls)
  BY <1>1 DEF Caller
<1>3. ASSUME NEW c \in Caller
      PROVE  Len(calls[c]) \in Nat \ {0} /\ DOMAIN calls[c] = 1..Len(calls[c])
  <2>1. calls[c] \in Seq(S) /\ calls[c] # <<>>
    BY <1>1, <1>2, <1>3 DEF Caller
  <2> QED BY <2>1
<1> QED BY <1>2, <1>3

LEMMA CallIs ==
  ASSUME TypeOK, NEW c \in Caller, NEW s \in 1..Len(calls[c])
  PROVE  /\ <<c, s>> \in Call
         /\ calls[c][s] # Unnamed => calls[c][s] \in Name
         /\ calls[c][s] # Unnamed => calls[c][s] \in Key
         /\ <<c, s>> \notin UnnamedCalls => calls[c][s] \in Name
<1>1. s \in DOMAIN calls[c]
  BY CallsType
<1>2. <<c, s>> \in Call
  BY <1>1 DEF Call
<1>3. calls[c][s] \in ToSet(calls[c])
  BY <1>1 DEF ToSet
<1>4. calls[c][s] \in UNION {ToSet(calls[d]) : d \in Caller}
  BY <1>3
<1>5. calls[c][s] # Unnamed => calls[c][s] \in Name
  BY <1>4 DEF Name
<1> QED BY <1>2, <1>5 DEF Key, UnnamedCalls

LEMMA FrameIs ==
  ASSUME NEW f \in Frame
  PROVE  f[1] \in 1..MaxAttempts /\ f[2] \in Caller /\ f = <<f[1], f[2]>>
BY DEF Frame

LEMMA CallOfIs ==
  ASSUME TypeOK, NEW f \in Frame, Len(frames[f].got) < Len(calls[f[2]])
  PROVE  CallOf(f) \in Call
<1>1. f[2] \in Caller
  BY FrameIs
<1>2. frames[f].got \in Seq(Result)
  BY DEF TypeOK, CallerState
<1>3. Len(frames[f].got) + 1 \in 1..Len(calls[f[2]])
  BY <1>1, <1>2, CallsType
<1> QED BY <1>1, <1>3, CallIs DEF CallOf

LEMMA EventType ==
  ASSUME TypeOK, NEW i \in DOMAIN log
  PROVE  log[i].key \in Key /\ log[i].call \in Call /\ log[i].output \in BOOLEAN
<1> DEFINE Event == [key : Key, call : Call, output : BOOLEAN]
<1>1. log \in Seq(Event)
  BY DEF TypeOK
<1> HIDE DEF Event
<1>2. log[i] \in Event
  BY <1>1
<1> QED BY <1>2 DEF Event

LEMMA RecoveredType ==
  ASSUME TypeOK, NEW k
  PROVE  Recovered(k) \in Run
<1>1. NewRun \in Run
  BY DEF NewRun, Run, Result
<1>2. CASE LatestIn(log, k) # {}
  <2> DEFINE i == CHOOSE i \in LatestIn(log, k) : TRUE
  <2>1. i \in DOMAIN log
    BY <1>2 DEF LatestIn
  <2>2. log[i].call \in Result
    BY <2>1, EventType DEF Result
  <2> QED BY <1>2, <1>1, <2>2 DEF Recovered, Run, NewRun
<1>3. CASE LatestIn(log, k) = {}
  BY <1>1, <1>3 DEF Recovered
<1> QED BY <1>2, <1>3

LEMMA RecoveredSettled ==
  ASSUME IInv, NEW k \in Key, Settled(k)
  PROVE  Recovered(k).status = "completed" /\ Recovered(k).owners = {}
<1>1. PICK i \in 1..before : /\ log[i].key = k /\ log[i].output
                             /\ \A j \in 1..before : j > i => log[j].key # k
  BY DEF Settled
<1>2. DOMAIN log = 1..Len(log) /\ Len(log) \in Nat /\ before \in 0..Len(log)
  BY DEF IInv, TypeOK
<1>3. \A j \in DOMAIN log : j > before => log[j].key # k
  BY DEF IInv, ReplayInv
<1>4. LatestIn(log, k) = {i}
  BY <1>1, <1>2, <1>3 DEF LatestIn
<1>5. (CHOOSE j \in LatestIn(log, k) : TRUE) = i
  BY <1>4
<1> QED BY <1>1, <1>4, <1>5 DEF Recovered, NewRun

-----------------------------------------------------------------------------
(* A caller makes its next call.                                           *)

\* The three outcomes of a call of caller f in run k: it joins, replays or begins an execution
Joins(f, got, r, k, run) ==
  /\ run.task \in Frame /\ execs[run.task].state # "none" /\ execs[run.task].key = k
  /\ frames' = [frames EXCEPT ![f] = [pc |-> "waits", got |-> got, key |-> k,
                                      own |-> FALSE, result |-> None]]
  /\ execs' = [execs EXCEPT ![run.task].waiters = Append(@, f)]
  /\ runs' = r

Repeats(f, got, r, k, run) ==
  /\ run.status = "completed"
  /\ frames' = [frames EXCEPT ![f] = [pc |-> "replays", got |-> got, key |-> k,
                                      own |-> FALSE, result |-> run.result]]
  /\ execs' = execs
  /\ runs' = Put(r, k, run)

Begins(f, got, r, k, run) ==
  /\ run.status # "completed"
  /\ frames' = [frames EXCEPT ![f] = [pc |-> "waits", got |-> got, key |-> k,
                                      own |-> TRUE, result |-> None]]
  /\ execs' = [execs EXCEPT ![f] = [state |-> "running", key |-> k, waiters |-> <<f>>]]
  /\ runs' = Put(r, k, [run EXCEPT !.status = "running", !.task = f, !.owners = @ \cup {f}])

Enters(f, got, r, k, run) ==
  /\ run = Entry(r, k)
  /\ k = IF calls[f[2]][Len(got) + 1] = Unnamed THEN counter + 1 ELSE calls[f[2]][Len(got) + 1]
  /\ (k = counter + 1 /\ counter' = k) \/ (k \in Name /\ counter' = counter)
  /\ Joins(f, got, r, k, run) \/ Repeats(f, got, r, k, run) \/ Begins(f, got, r, k, run)

LEMMA EnterTypes ==
  ASSUME TypeOK, NEW f \in Frame, NEW got \in Seq(Result), Len(got) < Len(calls[f[2]]),
         NEW r, RunsOK(r), calls' = calls, Enter(f, got, r)
  PROVE  \E k \in Key, run \in Run : Enters(f, got, r, k, run)
<1> DEFINE auto == calls[f[2]][Len(got) + 1] = Unnamed
           k == IF auto THEN counter + 1 ELSE calls[f[2]][Len(got) + 1]
           run == Entry(r, k)
<1>1. f[2] \in Caller /\ Len(got) + 1 \in 1..Len(calls[f[2]])
  BY FrameIs, CallsType
<1>2. calls[f[2]][Len(got) + 1] # Unnamed => calls[f[2]][Len(got) + 1] \in Name
  BY <1>1, CallIs
<1>3. k \in Key /\ (auto \/ k \in Name)
  <2>1. counter + 1 \in Nat \ {0}
    BY DEF TypeOK
  <2>2. CASE auto
    BY <2>1, <2>2 DEF Key
  <2>3. CASE ~ auto
    BY <1>2, <2>3 DEF Key
  <2> QED BY <2>2, <2>3
<1>4. run \in Run
  BY RecoveredType DEF RunsOK, Entry
<1>5. UnderWay(run.task, k) => /\ run.task \in Frame /\ execs[run.task].state # "none"
                               /\ execs[run.task].key = k
  BY <1>4 DEF UnderWay, Run
<1>6. (auto => counter' = k) /\ (~ auto => counter' = counter)
  BY Zenon DEF Enter
<1>7. \/ /\ UnderWay(run.task, k)
         /\ /\ run.task \in Frame /\ execs[run.task].state # "none"
            /\ execs[run.task].key = k
            => Joins(f, got, r, k, run)
      \/ Repeats(f, got, r, k, run) \/ Begins(f, got, r, k, run)
  BY Zenon DEF Enter, Joins, Repeats, Begins
<1>8. (auto => k = counter + 1) /\ (~ auto => k \in Name)
  BY <1>2, Zenon
<1>9. /\ run = Entry(r, k)
      /\ k = IF calls[f[2]][Len(got) + 1] = Unnamed THEN counter + 1
             ELSE calls[f[2]][Len(got) + 1]
  OBVIOUS
<1> HIDE DEF auto, k, run
<1>10. (k = counter + 1 /\ counter' = k) \/ (k \in Name /\ counter' = counter)
  BY <1>6, <1>8
<1> USE <1>3, <1>4
<1> WITNESS k \in Key, run \in Run
<1> QED BY <1>5, <1>7, <1>9, <1>10 DEF Enters

LEMMA Same ==
  ASSUME calls' = calls
  PROVE  /\ Caller' = Caller /\ Frame' = Frame /\ Call' = Call /\ Name' = Name /\ Key' = Key
         /\ Result' = Result /\ Run' = Run /\ CallerState' = CallerState
         /\ Execution' = Execution /\ UnnamedCalls' = UnnamedCalls
<1>1. Caller' = Caller
  BY DEF Caller
<1>2. Frame' = Frame /\ Call' = Call /\ Name' = Name
  BY <1>1 DEF Frame, Call, Name
<1>3. Key' = Key /\ Result' = Result
  BY <1>2 DEF Key, Result
<1>4. UnnamedCalls' = UnnamedCalls
  BY <1>2 DEF UnnamedCalls
<1>5. Run' = Run /\ CallerState' = CallerState /\ Execution' = Execution
  BY <1>2, <1>3 DEF Run, CallerState, Execution
<1> QED BY <1>1, <1>2, <1>3, <1>4, <1>5

\* The runs that have been settled, and what is recorded of them, stay as they are
LEMMA SettledSame ==
  ASSUME log' = log, before' = before
  PROVE  \A k : Settled(k)' <=> Settled(k)
BY DEF Settled

LEMMA ContainsAppend ==
  ASSUME NEW w \in Seq(Frame), NEW f \in Frame, NEW g \in Frame
  PROVE  /\ Contains(Append(w, f), g) <=> Contains(w, g) \/ g = f
         /\ Contains(<<f>>, g) <=> g = f
         /\ ~ Contains(<<>>, g)
<1>1. /\ Len(Append(w, f)) = Len(w) + 1 /\ Len(w) \in Nat
      /\ \A i \in 1..Len(w) : Append(w, f)[i] = w[i]
      /\ Append(w, f)[Len(w) + 1] = f
  OBVIOUS
<1>2. Contains(Append(w, f), g) <=> Contains(w, g) \/ g = f
  <2>1. 1..(Len(w) + 1) = 1..Len(w) \cup {Len(w) + 1}
    BY <1>1
  <2> QED BY <1>1, <2>1 DEF Contains
<1>3. Len(<<f>>) = 1 /\ <<f>>[1] = f /\ 1..1 = {1}
  OBVIOUS
<1>4. Contains(<<f>>, g) <=> g = f
  BY <1>3 DEF Contains
<1>5. ~ Contains(<<>>, g)
  BY DEF Contains
<1> QED BY <1>2, <1>4, <1>5

LEMMA ExecutionIs ==
  ASSUME execs \in [Frame -> Execution], NEW t \in Frame
  PROVE  /\ execs[t].waiters \in Seq(Frame) /\ execs[t].key \in Key \cup {0}
         /\ execs[t].state \in {"none", "running", "recorded"}
         /\ execs[t] = [state |-> execs[t].state, key |-> execs[t].key,
                        waiters |-> execs[t].waiters]
BY DEF Execution

LEMMA PutIs ==
  ASSUME NEW r, RunsOK(r), NEW k \in Key, NEW run \in Run
  PROVE  /\ RunsOK(Put(r, k, run)) /\ DOMAIN Put(r, k, run) = DOMAIN r \cup {k}
         /\ Put(r, k, run)[k] = run
         /\ \A j \in DOMAIN r \ {k} : Put(r, k, run)[j] = r[j]
BY DEF RunsOK, Put

LEMMA EnterKeeps ==
  ASSUME IInv, NEW f \in Frame, NEW got \in Seq(Result), Len(got) < Len(calls[f[2]]),
         frames[f].pc # "waits",
         NEW r, RunsOK(r), RunsReplay(r), calls' = calls, log' = log, before' = before,
         Enter(f, got, r)
  PROVE  /\ counter' \in Nat /\ counter <= counter' /\ RunsOK(runs)'
         /\ frames' \in [Frame -> CallerState] /\ execs' \in [Frame -> Execution]
         /\ BusyInv' /\ WaitInv' /\ ReplayInv'
         /\ frames'[f].key \in Name \cup {n \in Nat : n > counter}
         /\ \A g \in Frame \ {f} : frames'[g] = frames[g]
<1> USE Same
<1>0. TypeOK
  BY DEF IInv
<1>1. PICK k \in Key, run \in Run : Enters(f, got, r, k, run)
  BY <1>0, EnterTypes
<1>2. frames \in [Frame -> CallerState] /\ execs \in [Frame -> Execution] /\ counter \in Nat
  BY <1>0 DEF TypeOK
<1>3. \A g \in Frame : ~ Contains(execs[g].waiters, f)
  BY DEF IInv, WaitInv
<1>4. execs[f] = NoExec
  BY <1>3 DEF IInv, WaitInv
<1>5. counter' \in Nat /\ counter <= counter'
  BY <1>1, <1>2 DEF Enters
<1>6. None \in Result
  BY DEF Result
<1>7. [run EXCEPT !.status = "running", !.task = f, !.owners = @ \cup {f}] \in Run
  BY DEF Run
<1>8. RunsOK(runs)'
  <2>1. RunsOK(Put(r, k, run))
    BY PutIs
  <2>2. RunsOK(Put(r, k, [run EXCEPT !.status = "running", !.task = f, !.owners = @ \cup {f}]))
    BY <1>7, PutIs
  <2>3. runs' = r \/ runs' = Put(r, k, run)
        \/ runs' = Put(r, k, [run EXCEPT !.status = "running", !.task = f, !.owners = @ \cup {f}])
    BY <1>1 DEF Enters, Joins, Repeats, Begins
  <2>4. RunsOK(runs')
    BY <2>1, <2>2, <2>3
  <2> QED BY <2>4 DEF RunsOK
<1>9. PICK pc \in {"waits", "replays"}, own \in BOOLEAN, result \in Result :
        frames' = [frames EXCEPT ![f] = [pc |-> pc, got |-> got, key |-> k, own |-> own,
                                         result |-> result]]
  BY <1>1, <1>6 DEF Enters, Joins, Repeats, Begins, Run
<1>10. frames' \in [Frame -> CallerState]
  <2>1. [pc |-> pc, got |-> got, key |-> k, own |-> own, result |-> result] \in CallerState
    BY DEF CallerState
  <2> QED BY <1>2, <1>9, <2>1
<1>11. /\ frames'[f].key = k /\ frames'[f].got = got
       /\ \A g \in Frame \ {f} : frames'[g] = frames[g]
  BY <1>2, <1>9
<1>12. BusyInv'
  BY <1>11 DEF BusyInv, IInv
<1>13. frames'[f].key \in Name \cup {n \in Nat : n > counter}
  <2>1. (k = counter + 1) \/ k \in Name
    BY <1>1 DEF Enters
  <2> QED BY <1>2, <1>11, <2>1
<1>14. CASE Joins(f, got, r, k, run)
  <2> DEFINE t == run.task
  <2>1. /\ t \in Frame /\ execs[t].state # "none" /\ execs[t].key = k
        /\ frames'[f].pc = "waits" /\ execs' = [execs EXCEPT ![t].waiters = Append(@, f)]
        /\ runs' = r
    BY <1>2, <1>14 DEF Joins
  <2> HIDE DEF t
  <2>2. execs[t].waiters \in Seq(Frame) /\ execs[t] \in Execution
    BY <1>2, <2>1, ExecutionIs
  <2>3. [execs[t] EXCEPT !.waiters = Append(@, f)] \in Execution
    <3>1. Append(execs[t].waiters, f) \in Seq(Frame)
      BY <2>2
    <3> QED BY <2>2, <3>1 DEF Execution
  <2>4. execs'[t] = [execs[t] EXCEPT !.waiters = Append(@, f)]
        /\ \A g \in Frame \ {t} : execs'[g] = execs[g]
    BY <1>2, <2>1
  <2>5. execs' \in [Frame -> Execution]
    BY <1>2, <2>1, <2>3
  <2>6. /\ execs'[t].state = execs[t].state /\ execs'[t].key = execs[t].key
        /\ execs'[t].waiters = Append(execs[t].waiters, f)
    BY <2>2, <2>4 DEF Execution
  <2>7. ASSUME NEW h \in Frame
        PROVE  Contains(execs'[t].waiters, h) <=> Contains(execs[t].waiters, h) \/ h = f
    <3>1. Contains(Append(execs[t].waiters, f), h) <=> Contains(execs[t].waiters, h) \/ h = f
      BY <2>2, ContainsAppend
    <3> QED BY <2>6, <3>1
  <2>8. WaitInv'
    BY <1>3, <1>11, <2>1, <2>4, <2>6, <2>7 DEF WaitInv, IInv
  <2>9. ReplayInv'
    BY <2>1, <2>4, <2>6, SettledSame DEF ReplayInv, RunsReplay, IInv
  <2> QED BY <1>2, <1>5, <1>8, <1>10, <1>11, <1>12, <1>13, <2>5, <2>8, <2>9
<1>15. ASSUME Settled(k) PROVE run.status = "completed" /\ run.owners = {}
  BY <1>1, <1>15, RecoveredSettled DEF RunsReplay, Enters, Entry
<1>18. ASSUME NEW put \in Run, runs' = Put(r, k, put),
              Settled(k) => put.status = "completed" /\ put.owners = {}
       PROVE  RunsReplay(runs)'
  <2>1. \A j \in Key : Settled(j)' <=> Settled(j)
    BY SettledSame
  <2> SUFFICES ASSUME NEW j \in Key, Settled(j), j \in DOMAIN runs'
               PROVE  runs'[j].status = "completed" /\ runs'[j].owners = {}
    BY <2>1 DEF RunsReplay
  <2>4. /\ DOMAIN runs' = DOMAIN r \cup {k} /\ runs'[k] = put
        /\ \A i \in DOMAIN r \ {k} : runs'[i] = r[i]
    <3>1. /\ DOMAIN Put(r, k, put) = DOMAIN r \cup {k} /\ Put(r, k, put)[k] = put
          /\ \A i \in DOMAIN r \ {k} : Put(r, k, put)[i] = r[i]
      BY DEF Put
    <3> QED BY <1>18, <3>1
  <2>2. CASE j = k
    BY <1>18, <2>2, <2>4
  <2>3. CASE j # k
    BY <2>3, <2>4 DEF RunsReplay
  <2> QED BY <2>2, <2>3
<1>16. CASE Repeats(f, got, r, k, run)
  <2>1. execs' = execs /\ runs' = Put(r, k, run)
    BY <1>16 DEF Repeats
  <2>2. WaitInv'
    BY <1>3, <1>11, <2>1 DEF WaitInv, IInv
  <2>3. RunsReplay(runs)'
    BY <1>15, <1>18, <2>1
  <2>4. ReplayInv'
    BY <2>1, <2>3, SettledSame DEF ReplayInv, IInv
  <2> QED BY <1>2, <1>5, <1>8, <1>10, <1>11, <1>12, <1>13, <2>1, <2>2, <2>4
<1>17. CASE Begins(f, got, r, k, run)
  <2> DEFINE begun == [run EXCEPT !.status = "running", !.task = f, !.owners = @ \cup {f}]
  <2>1. /\ ~ Settled(k) /\ frames'[f].pc = "waits" /\ runs' = Put(r, k, begun)
        /\ execs' = [execs EXCEPT ![f] = [state |-> "running", key |-> k, waiters |-> <<f>>]]
    BY <1>2, <1>15, <1>17 DEF Begins
  <2>2. /\ execs'[f].state = "running" /\ execs'[f].key = k /\ execs'[f].waiters = <<f>>
        /\ \A g \in Frame \ {f} : execs'[g] = execs[g]
    BY <1>2, <2>1
  <2>3. execs' \in [Frame -> Execution]
    <3>1. [state |-> "running", key |-> k, waiters |-> <<f>>] \in Execution
      BY DEF Execution
    <3> QED BY <1>2, <2>1, <3>1
  <2>4. \A h \in Frame : Contains(execs'[f].waiters, h) <=> h = f
    <3> SUFFICES ASSUME NEW h \in Frame PROVE Contains(<<f>>, h) <=> h = f
      BY <2>2
    <3>1. <<>> \in Seq(Frame)
      OBVIOUS
    <3> QED BY <3>1, ContainsAppend
  <2>5. WaitInv'
    BY <1>3, <1>11, <2>1, <2>2, <2>4 DEF WaitInv, IInv
  <2>6. begun \in Run
    BY <1>7
  <2> HIDE DEF begun
  <2>7. RunsReplay(runs)'
    BY <1>18, <2>1, <2>6
  <2>8. ReplayInv'
    BY <2>1, <2>2, <2>7, SettledSame DEF ReplayInv, IInv
  <2> QED BY <1>2, <1>5, <1>8, <1>10, <1>11, <1>12, <1>13, <2>3, <2>5, <2>8
<1> QED BY <1>1, <1>14, <1>16, <1>17 DEF Enters

-----------------------------------------------------------------------------
(* A caller stops, or receives a result.                                   *)

\* What a step of caller f leaves in order
Went(f) ==
  /\ counter' \in Nat /\ counter <= counter' /\ RunsOK(runs)'
  /\ frames' \in [Frame -> CallerState] /\ execs' \in [Frame -> Execution]
  /\ BusyInv' /\ WaitInv' /\ ReplayInv'
  /\ frames'[f].key \in {0} \cup Name \cup {n \in Nat : n > counter}
  /\ \A g \in Frame \ {f} : frames'[g] = frames[g]

LEMMA StopKeeps ==
  ASSUME IInv, NEW f \in Frame, NEW pc \in {"ended", "raised"}, NEW got \in Seq(Result),
         Len(got) <= Len(calls[f[2]]), frames[f].pc # "waits",
         NEW r, RunsOK(r), RunsReplay(r), calls' = calls, log' = log, before' = before,
         Stop(f, pc, got, r)
  PROVE  Went(f)
<1> USE Same
<1>1. /\ frames \in [Frame -> CallerState] /\ execs \in [Frame -> Execution]
      /\ counter \in Nat
  BY DEF IInv, TypeOK
<1>2. runs' = r /\ counter' = counter /\ execs' = execs
  BY DEF Stop
<1>3. PICK n \in {NoCall, [NoCall EXCEPT !.pc = pc, !.got = got]} :
        frames' = [frames EXCEPT ![f] = n]
  BY DEF Stop
<1>4. n \in CallerState /\ n.key = 0 /\ n.pc \notin Busy /\ Len(n.got) <= Len(calls[f[2]])
  <2>1. <<>> \in Seq(Result) /\ Len(<<>>) = 0 /\ None \in Result
    BY DEF Result
  <2>2. f[2] \in Caller
    BY FrameIs
  <2>3. Len(calls[f[2]]) \in Nat
    BY <2>2, CallsType DEF IInv
  <2>4. CASE n = NoCall
    BY <2>1, <2>3, <2>4 DEF NoCall, CallerState, Busy
  <2>5. CASE n = [NoCall EXCEPT !.pc = pc, !.got = got]
    <3>1. n = [pc |-> pc, got |-> got, key |-> 0, own |-> FALSE, result |-> None]
      BY <2>5 DEF NoCall
    <3> QED BY <2>1, <3>1 DEF CallerState, Busy
  <2> QED BY <1>3, <2>4, <2>5
<1>5. frames'[f] = n /\ \A g \in Frame \ {f} : frames'[g] = frames[g]
  BY <1>1, <1>3
<1>6. frames' \in [Frame -> CallerState]
  BY <1>1, <1>3, <1>4
<1>7. BusyInv'
  BY <1>4, <1>5 DEF BusyInv, IInv
<1>8. WaitInv'
  BY <1>2, <1>5 DEF WaitInv, IInv
<1>9. ReplayInv'
  <2>1. \A k : Settled(k)' <=> Settled(k)
    BY SettledSame
  <2>2. RunsReplay(runs)'
    BY <1>2, <2>1 DEF RunsReplay
  <2> QED BY <1>2, <2>1, <2>2 DEF ReplayInv, IInv
<1>10. RunsOK(runs)'
  BY <1>2 DEF RunsOK
<1> QED BY <1>1, <1>2, <1>4, <1>5, <1>6, <1>7, <1>8, <1>9, <1>10 DEF Went

LEMMA AtCall ==
  ASSUME IInv, NEW f \in Frame, frames[f].pc \in Busy
  PROVE  /\ Len(frames[f].got) < Len(calls[f[2]]) /\ frames[f].key \in Key
         /\ CallOf(f) \in Call
BY CallOfIs DEF IInv, BusyInv

LEMMA OutcomeFine ==
  ASSUME IInv, NEW f \in Frame, frames[f].pc \in Busy, NEW status \in {"completed", "failed"}
  PROVE  RunsOK(Outcome(f, status)) /\ RunsReplay(Outcome(f, status))
<1> DEFINE k == frames[f].key
           set == [status |-> status,
                   result |-> IF status = "completed" THEN CallOf(f) ELSE runs[k].result,
                   task |-> IF runs[k].task = f THEN None ELSE runs[k].task,
                   owners |-> runs[k].owners \ {f}]
<1>1. RunsOK(runs) /\ RunsReplay(runs)
  BY DEF IInv, TypeOK, RunsOK, ReplayInv
<1>2. k \in Key /\ CallOf(f) \in Call
  BY AtCall
<1>3. CASE k \in DOMAIN runs /\ f \in runs[k].owners
  <2>1. Outcome(f, status) = [runs EXCEPT ![k] = set]
    BY <1>3 DEF Outcome
  <2>2. runs[k] \in Run
    BY <1>1, <1>3 DEF RunsOK
  <2>3. set \in Run
    BY <1>2, <2>2 DEF Run, Result
  <2>4. ~ Settled(k)
    BY <1>1, <1>2, <1>3 DEF RunsReplay
  <2> HIDE DEF set, k
  <2>5. RunsOK([runs EXCEPT ![k] = set])
    BY <1>1, <2>3 DEF RunsOK
  <2>6. RunsReplay([runs EXCEPT ![k] = set])
    BY <1>1, <2>4 DEF RunsReplay
  <2> QED BY <2>1, <2>5, <2>6
<1>4. CASE ~ (k \in DOMAIN runs /\ f \in runs[k].owners)
  <2>1. Outcome(f, status) = runs
    BY <1>4 DEF Outcome
  <2> QED BY <1>1, <2>1
<1> QED BY <1>3, <1>4

LEMMA DroppedFine ==
  ASSUME IInv, NEW f \in Frame
  PROVE  RunsOK(Dropped(f)) /\ RunsReplay(Dropped(f))
<1>1. RunsOK(runs) /\ RunsReplay(runs)
  BY DEF IInv, TypeOK, RunsOK, ReplayInv
<1>2. /\ DOMAIN Without(runs, frames[f].key) = DOMAIN runs \ {frames[f].key}
      /\ \A j \in DOMAIN runs \ {frames[f].key} : Without(runs, frames[f].key)[j] = runs[j]
  BY DEF Without
<1>3. RunsOK(Without(runs, frames[f].key))
  BY <1>1 DEF RunsOK, Without
<1>4. RunsReplay(Without(runs, frames[f].key))
  BY <1>1, <1>2 DEF RunsReplay
<1> QED BY <1>1, <1>3, <1>4 DEF Dropped

\* The ways for an attempt to end
Endings == {"no", "child", "own", "cancelled", "completed", "crashed"}

LEMMA ReceiveKeeps ==
  ASSUME IInv, NEW f \in Frame, frames[f].pc \in Busy \ {"waits"},
         NEW r, RunsOK(r), RunsReplay(r), calls' = calls, log' = log, before' = before,
         Receive(f, r)
  PROVE  /\ Went(f) /\ passed' \subseteq Key /\ ended' \in Endings
         /\ mishaps' \in 0..MaxMishaps
<1> DEFINE got == Append(frames[f].got, frames[f].result)
<1>1. Len(frames[f].got) < Len(calls[f[2]]) /\ frames[f].key \in Key
  BY AtCall
<1>2. frames[f].got \in Seq(Result) /\ frames[f].result \in Result
  BY DEF IInv, TypeOK, CallerState
<1>3. got \in Seq(Result) /\ Len(got) = Len(frames[f].got) + 1
  BY <1>2
<1>4. Len(calls[f[2]]) \in Nat
  BY FrameIs, CallsType DEF IInv
<1>5. Len(got) <= Len(calls[f[2]])
  BY <1>1, <1>2, <1>3, <1>4
<1>6. /\ passed' = Passed(frames[f].key)
      /\ \/ Len(got) < Len(calls[f[2]]) /\ Enter(f, got, r) /\ UNCHANGED <<ended, mishaps>>
         \/ Stop(f, "ended", got, r) /\ UNCHANGED <<ended, mishaps>>
         \/ Stop(f, "raised", got, r) /\ Raise(f, "own") /\ Mishap
  BY DEF Receive
<1> HIDE DEF got
<1>7. Went(f)
  <2>1. CASE Len(got) < Len(calls[f[2]]) /\ Enter(f, got, r)
    BY <1>3, <2>1, EnterKeeps DEF Went
  <2>2. CASE Stop(f, "ended", got, r)
    BY <1>3, <1>5, <2>2, StopKeeps
  <2>3. CASE Stop(f, "raised", got, r)
    BY <1>3, <1>5, <2>3, StopKeeps
  <2> QED BY <1>6, <2>1, <2>2, <2>3
<1>8. passed' \subseteq Key
  BY <1>1, <1>6 DEF Passed, IInv, TypeOK
<1>9. ended' \in Endings /\ mishaps' \in 0..MaxMishaps
  BY <1>6, BoundsAssumption DEF Raise, Mishap, IInv, TypeOK, Endings
<1> QED BY <1>7, <1>8, <1>9

LEMMA CallerStep ==
  ASSUME IInv, NEW f \in Frame, frames[f].pc \in Busy, Went(f),
         UNCHANGED <<parentVars, log, notes>>, ready' \in Seq(Frame), passed' \subseteq Key,
         ended' \in Endings, mishaps' \in 0..MaxMishaps
  PROVE  IInv'
<1> USE Same
<1>1. calls' = calls /\ UNCHANGED <<turn, attempt, parent, starting, snapshot, log>>
      /\ UNCHANGED <<before, rejected, kept>>
  BY DEF parentVars, notes
<1>2. TypeOK'
  BY <1>1 DEF IInv, TypeOK, Went, RunsOK, Endings
<1>3. FreshInv'
  <2>1. frames[f] # NoCall
    BY DEF NoCall, Busy
  <2> QED BY <1>1, <2>1 DEF FreshInv, IInv, Went
<1>4. RejectInv'
  <2>1. snapshot \in Nat /\ counter \in Nat /\ counter' \in Nat /\ snapshot <= counter'
    BY DEF IInv, TypeOK, RejectInv, Went
  <2>2. rejected' \subseteq (1..snapshot') \cup Name'
    BY <1>1 DEF IInv, RejectInv
  <2>3. ASSUME NEW g \in Frame, g[1] = attempt
        PROVE  frames'[g].key \in {0} \cup Name \cup {n \in Nat : n > snapshot}
    <3>1. CASE g = f
      BY <2>1, <3>1 DEF Went, RejectInv, IInv
    <3>2. CASE g # f
      BY <2>3, <3>2 DEF Went, RejectInv, IInv
    <3> QED BY <3>1, <3>2
  <2> QED BY <1>1, <2>1, <2>2, <2>3 DEF RejectInv
<1> QED BY <1>2, <1>3, <1>4 DEF IInv, Went

-----------------------------------------------------------------------------
(* The callers.                                                            *)

LEMMA WakeKeeps ==
  ASSUME IInv, Wake
  PROVE  IInv'
<1> DEFINE f == Head(ready)
<1>1. f \in Frame /\ ready' \in Seq(Frame)
  BY DEF Wake, IInv, TypeOK
<1>2. UNCHANGED <<parentVars, log, notes>> /\ calls' = calls /\ log' = log /\ before' = before
  BY DEF Wake, parentVars, notes
<1>3. \/ /\ frames[f].pc = "returned"
         /\ Receive(f, Outcome(f, "completed"))
      \/ /\ frames[f].pc = "failed"
         /\ Stop(f, "raised", frames[f].got, Outcome(f, "failed"))
         /\ passed' = Passed(frames[f].key)
         /\ Raise(f, "child") /\ UNCHANGED mishaps
      \/ /\ frames[f].pc = "cancelled"
         /\ Stop(f, "raised", frames[f].got, Dropped(f))
         /\ Raise(f, "cancelled") /\ UNCHANGED <<passed, mishaps>>
      \/ /\ frames[f].pc = "doomed"
         /\ GiveUp(f, Dropped(f)) /\ UNCHANGED <<passed, mishaps>>
  BY DEF Wake
<1> HIDE DEF f
<1>4. frames[f].pc \in Busy \ {"waits"}
  BY <1>3 DEF Busy
<1>5. /\ frames[f].got \in Seq(Result) /\ Len(frames[f].got) <= Len(calls[f[2]])
      /\ frames[f].key \in Key
  BY <1>1, <1>4, AtCall DEF IInv, TypeOK, CallerState, BusyInv
<1>6. /\ Went(f) /\ passed' \subseteq Key /\ ended' \in Endings
      /\ mishaps' \in 0..MaxMishaps
  <2>1. CASE frames[f].pc = "returned" /\ Receive(f, Outcome(f, "completed"))
    <3>1. RunsOK(Outcome(f, "completed")) /\ RunsReplay(Outcome(f, "completed"))
      BY <1>1, <1>4, OutcomeFine
    <3> QED BY <1>1, <1>2, <1>4, <2>1, <3>1, ReceiveKeeps
  <2>2. CASE /\ Stop(f, "raised", frames[f].got, Outcome(f, "failed"))
             /\ passed' = Passed(frames[f].key)
             /\ Raise(f, "child") /\ UNCHANGED mishaps
    <3>1. RunsOK(Outcome(f, "failed")) /\ RunsReplay(Outcome(f, "failed"))
      BY <1>1, <1>4, OutcomeFine
    <3>2. Went(f)
      BY <1>1, <1>2, <1>4, <1>5, <2>2, <3>1, StopKeeps
    <3> QED BY <1>5, <2>2, <3>2 DEF Passed, Raise, IInv, TypeOK, Endings
  <2>3. CASE /\ Stop(f, "raised", frames[f].got, Dropped(f))
             /\ Raise(f, "cancelled") /\ UNCHANGED <<passed, mishaps>>
    <3>1. Went(f)
      BY <1>1, <1>2, <1>4, <1>5, <2>3, DroppedFine, StopKeeps
    <3> QED BY <2>3, <3>1 DEF Raise, IInv, TypeOK, Endings
  <2>4. CASE GiveUp(f, Dropped(f)) /\ UNCHANGED <<passed, mishaps>>
    <3>1. PICK pc \in {"ended", "raised"} : Stop(f, pc, frames[f].got, Dropped(f))
      BY <2>4 DEF GiveUp
    <3>2. Went(f)
      BY <1>1, <1>2, <1>4, <1>5, <3>1, DroppedFine, StopKeeps
    <3> QED BY <2>4, <3>2 DEF GiveUp, Raise, IInv, TypeOK, Endings
  <2> QED BY <1>3, <2>1, <2>2, <2>3, <2>4
<1> QED BY <1>1, <1>2, <1>4, <1>6, CallerStep

LEMMA ReplayingKeeps ==
  ASSUME IInv, NEW f \in Frame, Replay(f) \/ Diverge(f) \/ CancelReplaying(f)
  PROVE  IInv'
<1>1. RunsOK(runs) /\ RunsReplay(runs)
  BY DEF IInv, TypeOK, RunsOK, ReplayInv
<1>2. /\ UNCHANGED <<parentVars, ready, log, notes>> /\ calls' = calls /\ log' = log
      /\ before' = before
  BY DEF Replay, Diverge, CancelReplaying, parentVars, notes
<1>3. frames[f].pc \in Busy \ {"waits"}
  BY DEF Replay, Diverge, CancelReplaying, Busy
<1>4. frames[f].got \in Seq(Result) /\ Len(frames[f].got) <= Len(calls[f[2]])
  BY DEF IInv, TypeOK, CallerState, BusyInv
<1>5. /\ Went(f) /\ passed' \subseteq Key /\ ended' \in Endings
      /\ mishaps' \in 0..MaxMishaps
  <2>1. CASE Replay(f)
    BY <1>1, <1>2, <1>3, <2>1, ReceiveKeeps DEF Replay
  <2>2. CASE Diverge(f)
    <3>1. Stop(f, "raised", frames[f].got, runs) /\ Raise(f, "own")
          /\ UNCHANGED <<passed, mishaps>>
      BY <2>2 DEF Diverge
    <3>2. Went(f)
      BY <1>1, <1>2, <1>3, <1>4, <3>1, StopKeeps
    <3> QED BY <3>1, <3>2 DEF Raise, IInv, TypeOK, Endings
  <2>3. CASE CancelReplaying(f)
    <3>1. PICK pc \in {"ended", "raised"} : Stop(f, pc, frames[f].got, runs)
      BY <2>3 DEF CancelReplaying, GiveUp
    <3>2. Went(f)
      BY <1>1, <1>2, <1>3, <1>4, <3>1, StopKeeps
    <3> QED BY <2>3, <3>2, BoundsAssumption
            DEF CancelReplaying, GiveUp, Raise, Mishap, IInv, TypeOK, Endings
  <2> QED BY <2>1, <2>2, <2>3
<1> QED BY <1>2, <1>3, <1>5, CallerStep DEF IInv, TypeOK

-----------------------------------------------------------------------------
(* The parent.                                                             *)

LEMMA StartCallerKeeps ==
  ASSUME IInv, StartCaller
  PROVE  IInv'
<1> USE Same
<1> DEFINE f == <<attempt, starting>>
<1>1. f \in Frame /\ f[1] = attempt /\ f[2] = starting
  BY DEF IInv, TypeOK, Frame
<1>12. /\ parent = "calls" /\ starting \in Nat
       /\ \A g \in Frame : g[1] > attempt \/ (g[1] = attempt /\ g[2] >= starting)
                           => frames[g] = NoCall
  <2>1. Caller \subseteq Nat
    BY CallsType DEF IInv
  <2> QED BY <2>1 DEF IInv, TypeOK, FreshInv, StartCaller
<1>2. frames[f] = NoCall
  <2>1. f[2] >= starting
    BY <1>1, <1>12
  <2> QED BY <1>1, <1>12, <2>1
<1>3. Len(calls) \in Nat \ {0} /\ Caller = 1..Len(calls) /\ Len(calls[starting]) \in Nat \ {0}
  BY CallsType DEF IInv, TypeOK
<1>4. RunsOK(runs) /\ RunsReplay(runs)
  BY DEF IInv, TypeOK, RunsOK, ReplayInv
<1>5. <<>> \in Seq(Result) /\ Len(<<>>) < Len(calls[f[2]])
  BY <1>1, <1>3
<1>6. /\ calls' = calls /\ log' = log /\ before' = before /\ Enter(f, <<>>, runs)
      /\ UNCHANGED <<turn, attempt, ended, snapshot, ready, passed, mishaps, rejected, kept>>
  BY DEF StartCaller, notes
<1> HIDE DEF f
<1>7. Went(f)
  <2> DEFINE got == <<>>
  <2>1. got \in Seq(Result) /\ Len(got) < Len(calls[f[2]]) /\ Enter(f, got, runs)
    BY <1>5, <1>6
  <2>2. frames[f].pc # "waits"
    BY <1>2 DEF NoCall
  <2> HIDE DEF got
  <2> QED BY <1>1, <1>4, <1>6, <2>1, <2>2, EnterKeeps DEF Went
<1>8. /\ starting' \in Caller /\ parent' \in {"calls", "waits"}
      /\ parent' # "waits" => starting' = starting + 1
      /\ parent' = "waits" => starting' = 1
  <2>1. starting \in Caller /\ parent = "calls"
    BY <1>12 DEF IInv, TypeOK
  <2>2. IF starting < Len(calls)
        THEN parent' = parent /\ starting' = starting + 1
        ELSE parent' = "waits" /\ starting' = 1
    BY DEF StartCaller
  <2> QED BY <1>3, <2>1, <2>2
<1>9. TypeOK'
  BY <1>6, <1>7, <1>8 DEF IInv, TypeOK, Went, RunsOK
<1>10. FreshInv'
  <2>1. ASSUME NEW g \in Frame,
               g[1] > attempt \/ (g[1] = attempt /\ parent' # "waits" /\ g[2] >= starting')
        PROVE  frames'[g] = NoCall
    <3>1. g # f /\ (g[1] > attempt \/ (g[1] = attempt /\ g[2] >= starting))
      BY <1>1, <1>3, <1>8, <2>1, FrameIs DEF IInv, TypeOK
    <3> QED BY <1>7, <1>12, <3>1 DEF Went
  <2> QED BY <1>6, <1>8, <2>1 DEF FreshInv
<1>11. RejectInv'
  <2>1. snapshot \in Nat /\ counter \in Nat /\ counter' \in Nat /\ snapshot <= counter'
    BY <1>7 DEF IInv, TypeOK, RejectInv, Went
  <2>2. rejected' \subseteq (1..snapshot') \cup Name'
    BY <1>6 DEF IInv, RejectInv
  <2>3. ASSUME NEW g \in Frame, g[1] = attempt
        PROVE  frames'[g].key \in {0} \cup Name \cup {n \in Nat : n > snapshot}
    <3>1. CASE g = f
      BY <1>7, <2>1, <3>1 DEF Went, RejectInv, IInv
    <3>2. CASE g # f
      BY <1>7, <2>3, <3>2 DEF Went, RejectInv, IInv
    <3> QED BY <3>1, <3>2
  <2> QED BY <1>6, <2>1, <2>2, <2>3 DEF RejectInv
<1> QED BY <1>7, <1>9, <1>10, <1>11 DEF IInv, Went

LEMMA OverKeeps ==
  ASSUME IInv, NEW how \in Endings, Over(how), mishaps' \in 0..MaxMishaps
  PROVE  IInv'
<1> USE Same
<1>1. /\ parent' = "over" /\ ended' = how /\ attempt' = 1 /\ starting' = 1 /\ counter' = 0
      /\ snapshot' = 0 /\ runs' = <<>> /\ ready' = <<>>
      /\ frames' = [f \in Frame |-> NoCall] /\ execs' = [f \in Frame |-> NoExec]
      /\ passed' = {} /\ rejected' = {} /\ kept' = {} /\ before' = Len(log)
      /\ calls' = calls /\ turn' = turn /\ log' = log
  BY DEF Over
<1>2. <<>> \in Seq(Result) /\ Len(<<>>) = 0 /\ None \in Result /\ <<>> \in Seq(Frame)
  BY DEF Result
<1>3. NoCall \in CallerState /\ NoExec \in Execution
  BY <1>2 DEF NoCall, NoExec, CallerState, Execution
<1>4. Len(calls) \in Nat \ {0} /\ Caller = 1..Len(calls)
      /\ \A c \in Caller : Len(calls[c]) \in Nat
  BY CallsType DEF IInv
<1>5. RunsOK(runs)'
  <2>1. DOMAIN runs' = {}
    BY <1>1
  <2>2. runs' = [k \in {} |-> NewRun]
    BY <1>1
  <2> QED BY <2>1, <2>2 DEF RunsOK
<1>6. TypeOK'
  <2>1. Len(log) \in 0..Len(log)
    BY DEF IInv, TypeOK
  <2>2. 1 \in Caller /\ 1 \in 1..MaxAttempts
    BY <1>4, BoundsAssumption
  <2> QED BY <1>1, <1>2, <1>3, <1>5, <2>1, <2>2 DEF IInv, TypeOK, RunsOK, Endings
<1>7. BusyInv'
  <2>1. ASSUME NEW f \in Frame
        PROVE  Len(frames'[f].got) <= Len(calls[f[2]]) /\ frames'[f].pc \notin Busy
    <3>1. f[2] \in Caller /\ frames'[f] = NoCall
      BY <1>1, FrameIs
    <3> QED BY <1>2, <1>4, <3>1 DEF NoCall, Busy
  <2> QED BY <1>1, <2>1 DEF BusyInv
<1>8. WaitInv'
  <2>1. ASSUME NEW f \in Frame, NEW g \in Frame
        PROVE  execs'[f] = NoExec /\ ~ Contains(execs'[f].waiters, g)
    BY <1>1, <1>2, ContainsAppend DEF NoExec
  <2> QED BY <1>1, <2>1 DEF WaitInv, NoExec
<1>9. FreshInv' /\ RejectInv'
  <2>1. ASSUME NEW f \in Frame
        PROVE  frames'[f] = NoCall /\ frames'[f].key = 0
    BY <1>1 DEF NoCall
  <2> QED BY <1>1, <2>1 DEF FreshInv, RejectInv
<1>10. ReplayInv'
  <2>1. DOMAIN log = 1..Len(log) /\ Len(log) \in Nat
    BY DEF IInv, TypeOK
  <2>2. \A k : k \notin DOMAIN runs'
    BY <1>1
  <2>3. \A f \in Frame : execs'[f].state = "none"
    BY <1>1 DEF NoExec
  <2> QED BY <1>1, <2>1, <2>2, <2>3 DEF ReplayInv, RunsReplay
<1> QED BY <1>6, <1>7, <1>8, <1>9, <1>10 DEF IInv

LEMMA EndingKeeps ==
  ASSUME IInv, Complete \/ GiveOver \/ Crash
  PROVE  IInv'
<1>1. CASE Complete
  BY <1>1, OverKeeps DEF Complete, Endings, IInv, TypeOK
<1>2. CASE GiveOver
  BY <1>2, OverKeeps DEF GiveOver, Endings, IInv, TypeOK
<1>3. CASE Crash
  <2>1. mishaps' \in 0..MaxMishaps
    BY <1>3, BoundsAssumption DEF Crash, Mishap, IInv, TypeOK
  <2>2. "crashed" \in Endings /\ Over("crashed")
    BY <1>3 DEF Crash, Endings
  <2> QED BY <2>1, <2>2, OverKeeps
<1> QED BY <1>1, <1>2, <1>3

LEMMA NextTurnKeeps ==
  ASSUME IInv, NextTurn
  PROVE  IInv'
<1> USE Same
<1>1. /\ parent = "over" /\ turn' = turn + 1 /\ parent' = "calls" /\ ended' = "no"
      /\ calls' = calls /\ attempt' = attempt /\ starting' = starting /\ snapshot' = snapshot
      /\ counter' = counter /\ runs' = runs /\ frames' = frames /\ execs' = execs
      /\ ready' = ready /\ passed' = passed /\ log' = log /\ mishaps' = mishaps
      /\ before' = before /\ rejected' = rejected /\ kept' = kept
  BY DEF NextTurn, memory, notes
<1>2. TypeOK'
  <2>1. turn + 1 \in 1..MaxTurns
    BY BoundsAssumption DEF NextTurn, IInv, TypeOK
  <2> QED BY <1>1, <2>1 DEF IInv, TypeOK
<1>3. BusyInv' /\ WaitInv' /\ RejectInv'
  BY <1>1 DEF IInv, BusyInv, WaitInv, RejectInv
<1>4. FreshInv'
  BY <1>1 DEF IInv, FreshInv
<1>5. ReplayInv'
  <2>1. \A k : Settled(k)' <=> Settled(k)
    BY <1>1, SettledSame
  <2> QED BY <1>1, <2>1 DEF IInv, ReplayInv, RunsReplay
<1> QED BY <1>2, <1>3, <1>4, <1>5 DEF IInv

LEMMA ServedIs ==
  ASSUME IInv, NEW call \in Served
  PROVE  call \in Call /\ (call \notin UnnamedCalls => calls[call[1]][call[2]] \in Name)
<1>1. PICK f \in Mine : call \in {<<f[2], s>> : s \in DOMAIN frames[f].got}
  BY DEF Served
<1>2. PICK s \in DOMAIN frames[f].got : call = <<f[2], s>>
  BY <1>1
<1>3. f \in Frame /\ f[2] \in Caller
  BY <1>1 DEF Mine, Frame, IInv, TypeOK
<1>4. frames[f].got \in Seq(Result) /\ Len(frames[f].got) <= Len(calls[f[2]])
  BY <1>3 DEF IInv, TypeOK, CallerState, BusyInv
<1>5. s \in 1..Len(calls[f[2]])
  BY <1>2, <1>3, <1>4, CallsType DEF IInv
<1> QED BY <1>2, <1>3, <1>5, CallIs DEF IInv

LEMMA RetryKeeps ==
  ASSUME IInv, Retry
  PROVE  IInv'
<1> USE Same
<1>1. /\ parent = "waits" /\ attempt < MaxAttempts /\ attempt' = attempt + 1
      /\ parent' = "calls" /\ ended' = "no" /\ snapshot' = counter'
      /\ frames' = [f \in Frame |-> IF frames[f].pc \in {"ended", "raised"} THEN NoCall
                                    ELSE frames[f]]
      /\ calls' = calls /\ turn' = turn /\ starting' = starting /\ runs' = runs
      /\ execs' = execs /\ ready' = ready /\ log' = log /\ passed' = passed
      /\ mishaps' = mishaps /\ before' = before
  BY DEF Retry
<1>2. /\ snapshot \in Nat /\ counter \in Nat /\ snapshot <= counter /\ attempt \in Nat
      /\ rejected \subseteq (1..snapshot) \cup Name
  BY DEF IInv, TypeOK, RejectInv
<1>3. /\ counter' \in Nat /\ rejected' \subseteq (1..counter') \cup Name
  <2>1. CASE ended = "child"
    BY <1>2, <2>1 DEF Retry, Rewound
  <2>2. CASE ended = "own"
    <3>1. counter' = counter /\ rejected' = rejected \cup Rejected
      BY <2>2 DEF Retry, Rewound
    <3>2. Rejected \subseteq (1..counter) \cup Name
      BY ServedIs DEF Rejected
    <3> QED BY <1>2, <3>1, <3>2
  <2> QED BY <2>1, <2>2 DEF Retry
<1>4. kept' \subseteq Call
  BY ServedIs DEF Retry
<1>5. rejected' \subseteq Key
  BY <1>3 DEF Key
<1>6. <<>> \in Seq(Result) /\ Len(<<>>) = 0 /\ None \in Result
  BY DEF Result
<1>7. ASSUME NEW f \in Frame
      PROVE  /\ frames'[f] \in {NoCall, frames[f]}
             /\ frames[f].pc \notin {"ended", "raised"} => frames'[f] = frames[f]
  BY <1>1
<1>8. TypeOK'
  <2>1. NoCall \in CallerState
    BY <1>6 DEF NoCall, CallerState
  <2>2. frames' \in [Frame -> CallerState]
    BY <1>1, <2>1 DEF IInv, TypeOK
  <2>3. attempt + 1 \in 1..MaxAttempts
    BY <1>1, <1>2, BoundsAssumption
  <2> QED BY <1>1, <1>3, <1>4, <1>5, <2>2, <2>3 DEF IInv, TypeOK
<1>9. BusyInv'
  <2>1. ASSUME NEW f \in Frame
        PROVE  /\ Len(frames'[f].got) <= Len(calls[f[2]])
               /\ frames'[f].pc \in Busy => /\ Len(frames'[f].got) < Len(calls[f[2]])
                                            /\ frames'[f].key \in Key
    <3>1. Len(calls[f[2]]) \in Nat
      BY FrameIs, CallsType DEF IInv
    <3> QED BY <1>6, <1>7, <3>1 DEF NoCall, Busy, BusyInv, IInv
  <2> QED BY <1>1, <2>1 DEF BusyInv
<1>10. WaitInv'
  BY <1>1, <1>7 DEF WaitInv, IInv
<1>11. FreshInv'
  <2>1. ASSUME NEW f \in Frame, f[1] > attempt + 1 \/ f[1] = attempt + 1
        PROVE  frames'[f] = NoCall
    <3>1. f[1] > attempt
      BY <1>2, <2>1, FrameIs
    <3> QED BY <1>7, <3>1 DEF IInv, FreshInv
  <2> QED BY <1>1, <2>1 DEF FreshInv
<1>12. RejectInv'
  <2>1. ASSUME NEW f \in Frame, f[1] = attempt + 1
        PROVE  frames'[f].key = 0
    <3>1. f[1] > attempt
      BY <1>2, <2>1, FrameIs
    <3> QED BY <1>7, <3>1 DEF IInv, FreshInv, NoCall
  <2> QED BY <1>1, <1>3, <2>1 DEF RejectInv
<1>13. ReplayInv'
  <2>1. \A k : Settled(k)' <=> Settled(k)
    BY <1>1, SettledSame
  <2> QED BY <1>1, <2>1 DEF IInv, ReplayInv, RunsReplay
<1> QED BY <1>8, <1>9, <1>10, <1>11, <1>12, <1>13 DEF IInv

-----------------------------------------------------------------------------
(* The executions.                                                         *)

Event == [key : Key, call : Call, output : BOOLEAN]

\* The log may only have grown, by events of the execution of o
Logged(o) ==
  /\ log' \in Seq(Event) /\ Len(log) <= Len(log')
  /\ \A i \in 1..Len(log) : log'[i] = log[i]
  /\ \A i \in DOMAIN log' : i > Len(log) =>
       execs[o].state # "none" /\ log'[i].key = execs[o].key

LEMMA LogSame ==
  ASSUME IInv, NEW o \in Frame, log' = log
  PROVE  Logged(o)
<1>1. log \in Seq(Event)
  BY DEF IInv, TypeOK, Event
<1> HIDE DEF Event
<1>2. DOMAIN log = 1..Len(log) /\ Len(log) \in Nat
  BY <1>1
<1> QED BY <1>1, <1>2 DEF Logged

LEMMA LogAppended ==
  ASSUME IInv, NEW o \in Frame, execs[o].state # "none", NEW output \in BOOLEAN,
         log' = Append(log, [key |-> execs[o].key, call |-> CallOf(o), output |-> output])
  PROVE  Logged(o)
<1>1. frames[o].pc = "waits" /\ execs[o].key \in Key
  BY DEF IInv, WaitInv
<1>2. CallOf(o) \in Call
  BY <1>1, AtCall DEF Busy
<1> DEFINE e == [key |-> execs[o].key, call |-> CallOf(o), output |-> output]
<1>3. e \in Event /\ e.key = execs[o].key
  BY <1>1, <1>2 DEF Event
<1>4. log \in Seq(Event) /\ log' = Append(log, e)
  BY DEF IInv, TypeOK, Event
<1> HIDE DEF e, Event
<1>5. /\ log' \in Seq(Event) /\ Len(log') = Len(log) + 1 /\ Len(log) \in Nat
      /\ \A i \in 1..Len(log) : log'[i] = log[i]
      /\ log'[Len(log) + 1] = e /\ DOMAIN log' = 1..(Len(log) + 1)
  BY <1>3, <1>4
<1>6. \A i \in DOMAIN log' : i > Len(log) => i = Len(log) + 1
  BY <1>5
<1> QED BY <1>3, <1>5, <1>6 DEF Logged

\* Nothing that earlier turns have settled is logged again
LEMMA LogKeeps ==
  ASSUME IInv, NEW o \in Frame, Logged(o), before' = before
  PROVE  /\ \A k : Settled(k)' <=> Settled(k)
         /\ \A k \in Key : Settled(k) => \A i \in DOMAIN log' : i > before => log'[i].key # k
         /\ before \in 0..Len(log')
<1>1. before \in 0..Len(log) /\ Len(log) \in Nat /\ DOMAIN log = 1..Len(log)
  BY DEF IInv, TypeOK
<1>2. Len(log') \in Nat /\ DOMAIN log' = 1..Len(log')
  BY DEF Logged
<1>3. \A i \in 1..before : log'[i] = log[i]
  BY <1>1 DEF Logged
<1>4. \A k : Settled(k)' <=> Settled(k)
  BY <1>3 DEF Settled
<1>5. ASSUME NEW k \in Key, Settled(k), NEW i \in DOMAIN log', i > before
      PROVE  log'[i].key # k
  <2>1. CASE i <= Len(log)
    <3>1. i \in 1..Len(log)
      BY <1>1, <1>2, <1>5, <2>1
    <3> QED BY <1>1, <1>5, <3>1 DEF Logged, IInv, ReplayInv
  <2>2. CASE i > Len(log)
    BY <1>5, <2>2 DEF Logged, IInv, ReplayInv
  <2> QED BY <1>1, <1>2, <2>1, <2>2
<1> QED BY <1>1, <1>2, <1>4, <1>5 DEF Logged

LEMMA RecordKeeps ==
  ASSUME IInv, NEW f \in Frame, Record(f)
  PROVE  IInv'
<1> USE Same
<1>1. /\ execs' = [execs EXCEPT ![f].state = "recorded"]
      /\ calls' = calls /\ UNCHANGED <<turn, attempt, parent, starting, snapshot>>
      /\ UNCHANGED <<ended, counter, runs, frames, ready, passed, mishaps>>
      /\ UNCHANGED <<before, rejected, kept>>
  BY DEF Record, parentVars, notes
<1>2. Logged(f)
  BY LogAppended DEF Record
<1>3. execs \in [Frame -> Execution] /\ execs[f].state = "running"
  BY DEF IInv, TypeOK, Record
<1>4. /\ execs'[f].state = "recorded" /\ execs'[f].key = execs[f].key
      /\ execs'[f].waiters = execs[f].waiters /\ execs'[f] \in Execution
      /\ \A g \in Frame \ {f} : execs'[g] = execs[g]
  <2>1. execs'[f] = [execs[f] EXCEPT !.state = "recorded"]
    BY <1>1, <1>3
  <2> QED BY <1>1, <1>3, <2>1 DEF Execution
<1>5. execs' \in [Frame -> Execution]
  BY <1>1, <1>3, <1>4
<1>6. TypeOK'
  BY <1>1, <1>2, <1>5, LogKeeps DEF IInv, TypeOK, Logged, Event
<1>7. WaitInv'
  BY <1>1, <1>3, <1>4 DEF IInv, WaitInv
<1>8. BusyInv' /\ FreshInv' /\ RejectInv'
  BY <1>1 DEF IInv, BusyInv, FreshInv, RejectInv
<1>9. ReplayInv'
  <2>1. RunsReplay(runs)'
    BY <1>1, <1>2, LogKeeps DEF IInv, ReplayInv, RunsReplay
  <2>2. \A k \in Key : Settled(k) => \A g \in Frame : execs'[g].state # "none" => execs'[g].key # k
    BY <1>3, <1>4 DEF IInv, ReplayInv
  <2> QED BY <1>1, <1>2, <2>1, <2>2, LogKeeps DEF ReplayInv
<1> QED BY <1>6, <1>7, <1>8, <1>9 DEF IInv

\* The execution of o is over, and those who wait for it are woken
Woken(o) ==
  /\ execs' = [execs EXCEPT ![o] = NoExec] /\ ready' = ready \o execs[o].waiters
  /\ frames' \in [Frame -> CallerState]
  /\ \A g \in Frame : IF Contains(execs[o].waiters, g)
                      THEN /\ frames'[g].pc \in Busy /\ frames'[g].got = frames[g].got
                           /\ frames'[g].key = frames[g].key /\ frames'[g].own = frames[g].own
                      ELSE frames'[g] = frames[g]

LEMMA WokenKeeps ==
  ASSUME IInv, NEW o \in Frame, Woken(o), Logged(o), mishaps' \in 0..MaxMishaps,
         UNCHANGED <<parentVars, ended, counter, runs, passed, notes>>
  PROVE  IInv'
<1>1. calls' = calls /\ UNCHANGED <<turn, attempt, parent, starting, snapshot>>
      /\ UNCHANGED <<ended, counter, runs, passed>> /\ UNCHANGED <<before, rejected, kept>>
  BY DEF parentVars, notes
<1> USE Same
<1>2. execs \in [Frame -> Execution] /\ frames \in [Frame -> CallerState] /\ ready \in Seq(Frame)
  BY DEF IInv, TypeOK
<1>3. NoExec \in Execution
  <2>1. <<>> \in Seq(Frame)
    OBVIOUS
  <2> QED BY <2>1 DEF NoExec, Execution
<1>4. /\ execs' \in [Frame -> Execution] /\ execs'[o] = NoExec
      /\ \A g \in Frame \ {o} : execs'[g] = execs[g]
  BY <1>2, <1>3 DEF Woken
<1>5. ready' \in Seq(Frame)
  <2>1. execs[o].waiters \in Seq(Frame)
    BY <1>2, ExecutionIs
  <2> QED BY <1>2, <2>1 DEF Woken
<1>6. TypeOK'
  BY <1>1, <1>4, <1>5, LogKeeps DEF IInv, TypeOK, Logged, Event, Woken
<1>7. \A g \in Frame : Contains(execs[o].waiters, g) => frames[g].pc = "waits"
  BY DEF IInv, WaitInv
<1>8. \A g \in Frame : frames'[g].got = frames[g].got /\ frames'[g].key = frames[g].key
  BY DEF Woken
<1>9. BusyInv'
  <2>1. \A g \in Frame : frames'[g].pc \in Busy => frames[g].pc \in Busy
    BY <1>7 DEF Woken, Busy
  <2> QED BY <1>1, <1>8, <2>1 DEF IInv, BusyInv
<1>10. WaitInv'
  <2>1. \A g \in Frame : ~ Contains(execs'[o].waiters, g)
    <3>1. <<>> \in Seq(Frame) /\ execs'[o].waiters = <<>>
      BY <1>4 DEF NoExec
    <3> QED BY <3>1, ContainsAppend
  <2>2. execs'[o].state = "none"
    BY <1>4 DEF NoExec
  <2>3. ASSUME NEW h \in Frame \ {o}, NEW g \in Frame, Contains(execs[h].waiters, g)
        PROVE  ~ Contains(execs[o].waiters, g)
    BY <2>3 DEF IInv, WaitInv
  <2>4. \A h \in Frame \ {o} : \A g \in Frame : Contains(execs[h].waiters, g) =>
          frames'[g].pc = "waits"
    BY <2>3 DEF IInv, WaitInv, Woken
  <2>5. ASSUME NEW h \in Frame \ {o}
        PROVE  /\ execs'[h].state = "none" => execs'[h] = NoExec
               /\ execs'[h].state # "none" => execs'[h].key \in Key
                                              /\ Contains(execs'[h].waiters, h)
               /\ \A g \in Frame : Contains(execs'[h].waiters, g) =>
                    /\ frames'[g].pc = "waits"
                    /\ \A i \in Frame \ {h} : ~ Contains(execs'[i].waiters, g)
    BY <1>4, <2>1, <2>4 DEF IInv, WaitInv
  <2>6. ASSUME NEW h \in Frame
        PROVE  /\ execs'[h].state = "none" => execs'[h] = NoExec
               /\ execs'[h].state # "none" => execs'[h].key \in Key
                                              /\ Contains(execs'[h].waiters, h)
               /\ \A g \in Frame : Contains(execs'[h].waiters, g) =>
                    /\ frames'[g].pc = "waits"
                    /\ \A i \in Frame \ {h} : ~ Contains(execs'[i].waiters, g)
    <3>1. CASE h = o
      BY <1>4, <2>1, <2>2, <3>1
    <3>2. CASE h # o
      BY <2>5, <3>2
    <3> QED BY <3>1, <3>2
  <2> QED BY <1>1, <2>6 DEF WaitInv
<1>11. FreshInv'
  <2>1. \A g \in Frame : frames[g] = NoCall => frames'[g] = frames[g]
    BY <1>7 DEF Woken, NoCall
  <2> QED BY <1>1, <2>1 DEF IInv, FreshInv
<1>12. RejectInv'
  BY <1>1, <1>8 DEF IInv, RejectInv
<1>13. ReplayInv'
  <2>1. RunsReplay(runs)'
    BY <1>1, LogKeeps DEF IInv, ReplayInv, RunsReplay
  <2>2. \A k \in Key : Settled(k) => \A g \in Frame : execs'[g].state # "none" => execs'[g].key # k
    BY <1>4 DEF IInv, ReplayInv, NoExec
  <2> QED BY <1>1, <2>1, <2>2, LogKeeps DEF ReplayInv
<1> QED BY <1>6, <1>9, <1>10, <1>11, <1>12, <1>13 DEF IInv

\* The execution of f ends, and its waiters get a call that f is at as the result
LEMMA EndsWakes ==
  ASSUME IInv, NEW f \in Frame, execs[f].state # "none", NEW pc \in {"returned", "failed"},
         Ends(f, pc)
  PROVE  Woken(f)
<1>1. frames[f].pc = "waits" /\ frames \in [Frame -> CallerState]
  BY DEF IInv, WaitInv, TypeOK
<1>2. CallOf(f) \in Result
  BY <1>1, AtCall DEF Busy, Result
<1>3. frames' = [g \in Frame |-> IF Contains(execs[f].waiters, g)
                                 THEN [frames[g] EXCEPT !.pc = pc, !.result = CallOf(f)]
                                 ELSE frames[g]]
  BY DEF Ends
<1>4. ASSUME NEW g \in Frame
      PROVE  LET n == [frames[g] EXCEPT !.pc = pc, !.result = CallOf(f)]
             IN  /\ n \in CallerState /\ n.pc \in Busy /\ n.got = frames[g].got
                 /\ n.key = frames[g].key /\ n.own = frames[g].own
  BY <1>1, <1>2 DEF CallerState, Busy
<1> QED BY <1>1, <1>3, <1>4 DEF Woken, Ends

LEMMA ExecutionEnds ==
  ASSUME IInv, NEW f \in Frame, Return(f) \/ Fail(f)
  PROVE  IInv'
<1>1. CASE Return(f)
  <2>1. Woken(f)
    BY <1>1, EndsWakes DEF Return
  <2>2. Logged(f)
    BY <1>1, LogSame DEF Return
  <2>3. /\ UNCHANGED <<parentVars, ended, counter, runs, passed, notes>>
        /\ mishaps' \in 0..MaxMishaps
    BY <1>1 DEF Return, IInv, TypeOK
  <2> QED BY <2>1, <2>2, <2>3, WokenKeeps
<1>2. CASE Fail(f)
  <2>1. Woken(f)
    BY <1>2, EndsWakes DEF Fail
  <2>2. Logged(f)
    BY <1>2, LogAppended DEF Fail
  <2>3. /\ UNCHANGED <<parentVars, ended, counter, runs, passed, notes>>
        /\ mishaps' \in 0..MaxMishaps
    BY <1>2, BoundsAssumption DEF Fail, Mishap, IInv, TypeOK
  <2> QED BY <2>1, <2>2, <2>3, WokenKeeps
<1> QED BY <1>1, <1>2

LEMMA CancelWakes ==
  ASSUME IInv, NEW f \in Frame, NEW o \in Frame, Contains(execs[o].waiters, f),
         frames' = [g \in Frame |-> IF g = f THEN [frames[g] EXCEPT !.pc = "doomed"]
                                    ELSE IF Contains(execs[o].waiters, g)
                                         THEN [frames[g] EXCEPT !.pc = "cancelled"]
                                    ELSE frames[g]],
         ready' = ready \o execs[o].waiters, execs' = [execs EXCEPT ![o] = NoExec]
  PROVE  /\ Woken(o)
         /\ \A g \in Frame : Contains(execs[o].waiters, g) =>
              frames'[g].pc \in {"doomed", "cancelled"} /\ frames'[g].own = frames[g].own
<1>1. frames \in [Frame -> CallerState]
  BY DEF IInv, TypeOK
<1>2. ASSUME NEW g \in Frame, NEW pc \in {"doomed", "cancelled"}
      PROVE  LET n == [frames[g] EXCEPT !.pc = pc]
             IN  /\ n \in CallerState /\ n.pc = pc /\ n.got = frames[g].got
                 /\ n.key = frames[g].key /\ n.own = frames[g].own
  BY <1>1 DEF CallerState
<1>3. frames' \in [Frame -> CallerState]
  BY <1>1, <1>2
<1>4. ASSUME NEW g \in Frame, Contains(execs[o].waiters, g)
      PROVE  /\ frames'[g].pc \in {"doomed", "cancelled"} /\ frames'[g].got = frames[g].got
             /\ frames'[g].key = frames[g].key /\ frames'[g].own = frames[g].own
  BY <1>2, <1>4
<1>5. ASSUME NEW g \in Frame, ~ Contains(execs[o].waiters, g)
      PROVE  frames'[g] = frames[g]
  BY <1>5
<1> QED BY <1>3, <1>4, <1>5 DEF Woken, Busy

LEMMA CancelWaitingKeeps ==
  ASSUME IInv, NEW f \in Frame, CancelWaiting(f)
  PROVE  IInv'
<1>1. /\ UNCHANGED <<parentVars, ended, counter, runs, passed, notes>> /\ log' = log
      /\ mishaps' \in 0..MaxMishaps
  BY BoundsAssumption DEF CancelWaiting, Mishap, IInv, TypeOK
<1>2. frames \in [Frame -> CallerState] /\ ready \in Seq(Frame)
  BY DEF IInv, TypeOK
<1>3. ASSUME NEW g \in Frame, NEW pc \in {"doomed", "cancelled"}
      PROVE  LET n == [frames[g] EXCEPT !.pc = pc]
             IN  /\ n \in CallerState /\ n.pc = pc /\ n.got = frames[g].got
                 /\ n.key = frames[g].key
  BY <1>2 DEF CallerState
<1>4. ASSUME NEW o \in Frame, Contains(execs[o].waiters, f),
             frames' = [g \in Frame |-> IF g = f THEN [frames[g] EXCEPT !.pc = "doomed"]
                                        ELSE IF Contains(execs[o].waiters, g)
                                             THEN [frames[g] EXCEPT !.pc = "cancelled"]
                                        ELSE frames[g]],
             ready' = ready \o execs[o].waiters, execs' = [execs EXCEPT ![o] = NoExec]
      PROVE  IInv'
  <2>1. Woken(o)
    BY <1>4, CancelWakes
  <2> QED BY <1>1, <2>1, LogSame, WokenKeeps
<1>5. CASE /\ frames[f].pc \in {"returned", "failed", "cancelled"}
           /\ frames' = [frames EXCEPT ![f].pc = "doomed"]
           /\ UNCHANGED <<execs, ready>>
  <2> USE Same
  <2>1. calls' = calls /\ before' = before
    BY <1>1 DEF parentVars, notes
  <2>2. /\ frames'[f] = [frames[f] EXCEPT !.pc = "doomed"]
        /\ \A g \in Frame \ {f} : frames'[g] = frames[g]
    BY <1>2, <1>5
  <2>3. /\ frames'[f] \in CallerState /\ frames'[f].pc = "doomed"
        /\ frames'[f].got = frames[f].got /\ frames'[f].key = frames[f].key
    BY <1>3, <2>2
  <2>4. /\ counter' \in Nat /\ counter <= counter' /\ RunsOK(runs)'
        /\ execs' \in [Frame -> Execution]
    BY <1>1, <1>5, <2>1 DEF IInv, TypeOK, RunsOK
  <2>5. frames' \in [Frame -> CallerState]
    BY <1>2, <1>5, <2>2, <2>3
  <2>6. frames[f].pc \in Busy
    BY <1>5 DEF Busy
  <2>7. BusyInv'
    BY <2>1, <2>2, <2>3, <2>6 DEF IInv, BusyInv
  <2>8. WaitInv'
    BY <1>5, <2>1, <2>2 DEF IInv, WaitInv
  <2>9. ReplayInv'
    <3>1. \A k : Settled(k)' <=> Settled(k)
      BY <1>1, <2>1, SettledSame
    <3> QED BY <1>1, <1>5, <2>1, <3>1 DEF IInv, ReplayInv, RunsReplay
  <2>10. TypeOK'
    BY <1>1, <1>5, <2>1, <2>5 DEF IInv, TypeOK, parentVars, notes
  <2>11. FreshInv'
    <3>1. frames[f] # NoCall
      BY <1>5 DEF NoCall
    <3> QED BY <1>1, <2>1, <2>2, <3>1 DEF IInv, FreshInv, parentVars
  <2>12. RejectInv'
    BY <1>1, <2>1, <2>2, <2>3 DEF IInv, RejectInv, parentVars, notes
  <2> QED BY <2>7, <2>8, <2>9, <2>10, <2>11, <2>12 DEF IInv
<1>6. QED
  BY <1>4, <1>5 DEF CancelWaiting

-----------------------------------------------------------------------------
(* The invariant.                                                          *)

LEMMA InitHolds ==
  ASSUME Init
  PROVE  IInv
<1>1. <<>> \in Seq(Result) /\ Len(<<>>) = 0 /\ None \in Result /\ <<>> \in Seq(Frame)
  BY DEF Result
<1>2. \A f \in Frame : frames[f] = NoCall /\ execs[f] = NoExec
  BY DEF Init
<1>3. PICK S : /\ calls \in Seq(Seq(S)) /\ calls # <<>>
               /\ \A c \in DOMAIN calls : calls[c] # <<>>
  BY BodiesAssumption DEF Init
<1>4. Len(calls) \in Nat \ {0} /\ Caller = 1..Len(calls)
  BY <1>3 DEF Caller
<1>5. \A c \in Caller : Len(calls[c]) \in Nat
  <2>1. \A c \in Caller : calls[c] \in Seq(S)
    BY <1>3 DEF Caller
  <2> QED BY <2>1
<1>6. TypeOK
  <2>1. NoCall \in CallerState /\ NoExec \in Execution
    BY <1>1 DEF NoCall, NoExec, CallerState, Execution
  <2>2. DOMAIN runs = {} /\ runs = [k \in {} |-> NewRun]
    BY DEF Init
  <2>3. 1 \in Caller /\ 1 \in 1..MaxAttempts /\ 1 \in 1..MaxTurns /\ 0 \in 0..MaxMishaps
    BY <1>4, BoundsAssumption
  <2>4. log \in Seq([key : Key, call : Call, output : BOOLEAN]) /\ before \in 0..Len(log)
    BY DEF Init
  <2> QED BY <1>1, <2>1, <2>2, <2>3, <2>4 DEF Init, TypeOK
<1>7. BusyInv
  <2>1. \A f \in Frame : f[2] \in Caller
    BY FrameIs
  <2> QED BY <1>1, <1>2, <1>5, <2>1 DEF BusyInv, Busy, NoCall
<1>8. WaitInv
  <2>1. \A f, g \in Frame : ~ Contains(execs[f].waiters, g)
    <3>1. \A f \in Frame : execs[f].waiters = <<>>
      BY <1>2 DEF NoExec
    <3> QED BY <1>1, <3>1, ContainsAppend
  <2> QED BY <1>2, <2>1 DEF WaitInv, NoExec
<1>9. FreshInv /\ RejectInv
  BY <1>2 DEF Init, FreshInv, RejectInv, NoCall
<1>10. ReplayInv
  <2>1. 1..before = {}
    BY DEF Init
  <2> QED BY <2>1 DEF ReplayInv, RunsReplay, Settled
<1> QED BY <1>6, <1>7, <1>8, <1>9, <1>10 DEF IInv

LEMMA NextKeeps ==
  ASSUME IInv, [Next]_vars
  PROVE  IInv'
<1>1. CASE UNCHANGED vars
  <2>1. /\ calls' = calls /\ turn' = turn /\ attempt' = attempt /\ parent' = parent
        /\ starting' = starting /\ snapshot' = snapshot /\ ended' = ended
        /\ counter' = counter /\ runs' = runs /\ frames' = frames /\ execs' = execs
        /\ ready' = ready /\ passed' = passed /\ log' = log /\ mishaps' = mishaps
        /\ before' = before /\ rejected' = rejected /\ kept' = kept
    BY <1>1 DEF vars, parentVars, memory, notes
  <2> USE Same
  <2>2. TypeOK'
    BY <2>1 DEF IInv, TypeOK
  <2>3. BusyInv' /\ WaitInv' /\ FreshInv' /\ RejectInv'
    BY <2>1 DEF IInv, BusyInv, WaitInv, FreshInv, RejectInv
  <2>4. ReplayInv'
    <3>1. \A k : Settled(k)' <=> Settled(k)
      BY <2>1, SettledSame
    <3> QED BY <2>1, <3>1 DEF IInv, ReplayInv, RunsReplay
  <2> QED BY <2>2, <2>3, <2>4 DEF IInv
<1>2. CASE StartCaller
  BY <1>2, StartCallerKeeps
<1>3. CASE Complete \/ GiveOver \/ Crash
  BY <1>3, EndingKeeps
<1>4. CASE Retry
  BY <1>4, RetryKeeps
<1>5. CASE NextTurn
  BY <1>5, NextTurnKeeps
<1>6. ASSUME NEW f \in Frame, Record(f)
      PROVE  IInv'
  BY <1>6, RecordKeeps
<1>7. ASSUME NEW f \in Frame, Return(f) \/ Fail(f)
      PROVE  IInv'
  BY <1>7, ExecutionEnds
<1>8. ASSUME NEW f \in Frame, Replay(f) \/ Diverge(f) \/ CancelReplaying(f)
      PROVE  IInv'
  BY <1>8, ReplayingKeeps
<1>9. ASSUME NEW f \in Frame, CancelWaiting(f)
      PROVE  IInv'
  BY <1>9, CancelWaitingKeeps
<1>10. CASE Wake
  BY <1>10, WakeKeeps
<1> QED BY <1>1, <1>2, <1>3, <1>4, <1>5, <1>6, <1>7, <1>8, <1>9, <1>10 DEF Next

\* What is settled stays so within the turn, and nothing is executed when it is over
LEMMA StepSettles ==
  ASSUME IInv, [Next]_vars
  PROVE  /\ calls' = calls
         /\ \/ \A f \in Frame : execs'[f] = NoExec
            \/ \A k : Settled(k)' <=> Settled(k)
<1>1. CASE Complete \/ GiveOver \/ Crash
  <2>1. PICK how : Over(how)
    BY <1>1 DEF Complete, GiveOver, Crash
  <2> QED BY <2>1 DEF Over
<1>2. ASSUME NEW f \in Frame, Record(f) \/ Fail(f)
      PROVE  calls' = calls /\ \A k : Settled(k)' <=> Settled(k)
  <2>1. calls' = calls /\ before' = before
    BY <1>2 DEF Record, Fail, parentVars, notes
  <2>2. Logged(f)
    BY <1>2, LogAppended DEF Record, Fail
  <2> QED BY <2>1, <2>2, LogKeeps
<1>3. ASSUME calls' = calls /\ log' = log /\ before' = before
      PROVE  calls' = calls /\ \A k : Settled(k)' <=> Settled(k)
  BY <1>3, SettledSame
<1>4. CASE StartCaller \/ Retry \/ NextTurn \/ Wake \/ UNCHANGED vars
  <2>1. calls' = calls /\ log' = log /\ before' = before
    BY <1>4 DEF StartCaller, Retry, NextTurn, Wake, vars, parentVars, notes
  <2> QED BY <1>3, <2>1
<1>5. ASSUME NEW f \in Frame, \/ Return(f) \/ Replay(f) \/ Diverge(f)
                              \/ CancelWaiting(f) \/ CancelReplaying(f)
      PROVE  calls' = calls /\ \A k : Settled(k)' <=> Settled(k)
  <2>1. calls' = calls /\ log' = log /\ before' = before
    BY <1>5 DEF Return, Replay, Diverge, CancelWaiting, CancelReplaying, parentVars, notes
  <2> QED BY <1>3, <2>1
<1> QED BY <1>1, <1>2, <1>4, <1>5 DEF Next

\* The calls, runs and executions of every body stay in order, in every turn.
THEOREM InductiveInvariant == Spec => []IInv
<1>1. Init => IInv
  BY InitHolds
<1>2. IInv /\ [Next]_vars => IInv'
  BY NextKeeps
<1> QED BY <1>1, <1>2, PTL DEF Spec

\* Runs, callers and executions have the types of _DynamicRun and its tasks.
THEOREM TypeCorrect == Spec => []TypeOK
<1>1. IInv => TypeOK
  BY DEF IInv
<1> QED BY <1>1, InductiveInvariant, PTL

\* An unnamed run of an attempt that failed by itself is not taken up by any
\* later attempt, whatever fails after it (_reset_dynamic_children_for_retry).
THEOREM RejectedStayRejectedHolds == Spec => []RejectedStayRejected
<1>1. IInv => RejectedStayRejected
  <2> SUFFICES ASSUME IInv, NEW f \in Mine, frames[f].key \in rejected
               PROVE  frames[f].key \in Name
    BY DEF RejectedStayRejected
  <2>1. f \in Frame /\ f[1] = attempt
    BY DEF Mine, Frame, IInv, TypeOK
  <2>2. frames[f].key \in {0} \cup Name \cup {n \in Nat : n > snapshot}
    BY <2>1 DEF IInv, RejectInv
  <2>3. frames[f].key \in (1..snapshot) \cup Name /\ snapshot \in Nat
    BY DEF IInv, RejectInv, TypeOK
  <2> QED BY <2>2, <2>3
<1> QED BY <1>1, InductiveInvariant, PTL

\* What an earlier turn has left with a result is replayed, never executed
\* again, by any caller of any attempt (_rehydrate_from_events, run_node).
THEOREM TurnsReplayHolds == Spec => TurnsReplay
<1> DEFINE Replayed(f) == LET l == SubSeq(log, 1, before)
                          IN  \A i \in LatestIn(l, execs'[f].key) : ~ l[i].output
<1>1. ASSUME IInv, IInv', [Next]_vars, NEW f \in Frame, Starts(f)
      PROVE  Replayed(f)
  <2> SUFFICES ASSUME NEW i \in LatestIn(SubSeq(log, 1, before), execs'[f].key),
                      SubSeq(log, 1, before)[i].output
               PROVE  FALSE
    BY <1>1
  <2> DEFINE l == SubSeq(log, 1, before)
  <2>0. PICK k : k = execs'[f].key
    OBVIOUS
  <2>8. log \in Seq(Event) /\ before \in 0..Len(log)
    BY <1>1 DEF IInv, TypeOK, Event
  <2>1. DOMAIN l = 1..before /\ \A j \in 1..before : l[j] = log[j]
    <3> HIDE DEF Event
    <3> QED BY <2>8
  <2>2. /\ i \in 1..before /\ log[i].key = k /\ log[i].output
        /\ \A j \in 1..before : j > i => log[j].key # k
    BY <2>0, <2>1 DEF LatestIn
  <2>3. Settled(k) /\ k \in Key
    <3>1. i \in DOMAIN log
      <4> HIDE DEF Event
      <4>1. i \in 1..before
        BY <2>2
      <4> QED BY <2>8, <4>1
    <3>2. log[i].key \in Key
      BY <1>1, <3>1, EventType DEF IInv
    <3> QED BY <2>2, <3>2 DEF Settled
  <2>4. Frame' = Frame /\ Key' = Key
    BY <1>1, StepSettles, Same
  <2>5. execs'[f] # NoExec
    BY <1>1 DEF Starts, NoExec
  <2>6. Settled(k)'
    BY <1>1, <2>3, <2>5, StepSettles
  <2>7. execs'[f].key # k
    BY <1>1, <2>3, <2>4, <2>6 DEF IInv, ReplayInv, Starts
  <2> QED BY <2>0, <2>7
<1>2. IInv /\ IInv' /\ [Next]_vars =>
        [\A f \in Frame : Starts(f) =>
           LET l == SubSeq(log, 1, before)
           IN  \A i \in LatestIn(l, execs'[f].key) : ~ l[i].output]_vars
  BY <1>1
<1> QED BY <1>2, InductiveInvariant, PTL DEF Spec, TurnsReplay

-----------------------------------------------------------------------------
(* The run ids of unnamed calls, when a caller makes one as its first call. *)

\* Callers make one unnamed call each, as their first
FirstUnnamed ==
  \A b \in Bodies : \A c \in DOMAIN b : \A s \in DOMAIN b[c] : s > 1 => b[c][s] # Unnamed

\* How many callers make one
Autos == Nth(Len(calls))

\* A run id that the unnamed call of caller c has in some attempt
FirstKey(k, c) == \E m \in Nat : k = m * Autos + Nth(c)

\* k is a run of the call
Fits(k, call) ==
  /\ call \in Call
  /\ IF call \in UnnamedCalls THEN FirstKey(k, call[1]) ELSE k = calls[call[1]][call[2]]

LEMMA NthCounts ==
  ASSUME NEW c \in Nat, NEW d \in Nat, c <= d
  PROVE  /\ Nth(c) \in Nat /\ Nth(d) \in Nat /\ Nth(c) <= Nth(d)
         /\ c < d /\ calls[d][1] = Unnamed => Nth(c) < Nth(d)
<1> DEFINE Upto(n) == {i \in 1..n : calls[i][1] = Unnamed}
<1>1. /\ IsFiniteSet(Upto(c)) /\ IsFiniteSet(Upto(d))
      /\ Cardinality(Upto(c)) \in Nat /\ Cardinality(Upto(d)) \in Nat
  <2>1. IsFiniteSet(1..c) /\ IsFiniteSet(1..d)
    BY FS_Interval
  <2> QED BY <2>1, FS_Subset, FS_CardinalityType
<1>2. Upto(c) \subseteq Upto(d)
  OBVIOUS
<1>3. Cardinality(Upto(c)) <= Cardinality(Upto(d))
  BY <1>1, <1>2, FS_Subset
<1>4. ASSUME c < d, calls[d][1] = Unnamed
      PROVE  Cardinality(Upto(c)) < Cardinality(Upto(d))
  <2>1. d \in Upto(d) /\ d \notin Upto(c)
    BY <1>4
  <2> QED BY <1>1, <1>2, <2>1, FS_Subset
<1> QED BY <1>1, <1>3, <1>4 DEF Nth

LEMMA NthNext ==
  ASSUME NEW c \in Nat
  PROVE  /\ Nth(0) = 0
         /\ Nth(c + 1) = IF calls[c + 1][1] = Unnamed THEN Nth(c) + 1 ELSE Nth(c)
<1> DEFINE Upto(n) == {i \in 1..n : calls[i][1] = Unnamed}
<1>1. IsFiniteSet(Upto(c))
  <2>1. IsFiniteSet(1..c)
    BY FS_Interval
  <2> QED BY <2>1, FS_Subset
<1>2. Upto(0) = {}
  OBVIOUS
<1>3. Cardinality(Upto(0)) = 0
  BY <1>2, FS_EmptySet
<1>4. 1..(c + 1) = (1..c) \cup {c + 1} /\ c + 1 \notin 1..c
  OBVIOUS
<1>5. CASE calls[c + 1][1] = Unnamed
  <2>1. Upto(c + 1) = Upto(c) \cup {c + 1} /\ c + 1 \notin Upto(c)
    BY <1>4, <1>5
  <2> QED BY <1>1, <1>3, <1>5, <2>1, FS_AddElement DEF Nth
<1>6. CASE calls[c + 1][1] # Unnamed
  <2>1. Upto(c + 1) = Upto(c)
    BY <1>4, <1>6
  <2> QED BY <1>3, <1>6, <2>1 DEF Nth
<1> QED BY <1>5, <1>6

LEMMA Multiples ==
  ASSUME NEW u \in Nat, NEW m \in Nat, NEW n \in Nat, NEW i \in 1..u, NEW j \in 1..u,
         m * u + i = n * u + j
  PROVE  i = j
<1>1. ASSUME NEW a \in Nat, NEW b \in Nat, a < b, NEW x \in 1..u, NEW y \in 1..u
      PROVE  a * u + x < b * u + y
  <2>1. PICK p \in Nat : b = a + 1 + p
    <3>1. b - a - 1 \in Nat /\ b = a + 1 + (b - a - 1)
      BY <1>1
    <3> QED BY <3>1
  <2>2. b * u = a * u + u + p * u
    BY <2>1
  <2>3. p * u \in Nat /\ a * u \in Nat
    OBVIOUS
  <2> QED BY <2>2, <2>3
<1>2. ~ (m < n) /\ ~ (n < m)
  <2>1. m * u \in Nat /\ n * u \in Nat
    OBVIOUS
  <2>2. m < n => m * u + i < n * u + j
    BY <1>1
  <2>3. n < m => n * u + j < m * u + i
    BY <1>1
  <2> QED BY <2>1, <2>2, <2>3
<1>3. m = n
  BY <1>2
<1>4. m * u \in Nat
  OBVIOUS
<1> QED BY <1>3, <1>4

LEMMA CallIn ==
  ASSUME TypeOK, FirstUnnamed, NEW call \in Call
  PROVE  /\ call[1] \in Caller /\ call[2] \in 1..Len(calls[call[1]])
         /\ call = <<call[1], call[2]>>
         /\ call \in UnnamedCalls => call[2] = 1 /\ calls[call[1]][1] = Unnamed
         /\ call \notin UnnamedCalls => calls[call[1]][call[2]] \in Name
<1>0. PICK c \in Caller : call \in {<<c, s>> : s \in DOMAIN calls[c]}
  BY DEF Call
<1>1. PICK s \in DOMAIN calls[c] : call = <<c, s>>
  BY <1>0
<1>2. c \in Caller /\ s \in 1..Len(calls[c]) /\ Len(calls[c]) \in Nat
  BY <1>1, CallsType
<1>3. call \notin UnnamedCalls => calls[c][s] \in Name
  BY <1>1, <1>2, CallIs
<1>4. call \in UnnamedCalls => s = 1 /\ calls[c][1] = Unnamed
  <2>1. s > 1 => calls[c][s] # Unnamed
    BY <1>1 DEF FirstUnnamed, TypeOK, Caller
  <2>2. call \in UnnamedCalls => calls[c][s] = Unnamed
    BY <1>1 DEF UnnamedCalls
  <2> QED BY <1>2, <2>1, <2>2
<1> QED BY <1>1, <1>2, <1>3, <1>4

LEMMA NoNumbers ==
  ASSUME TypeOK, NEW k \in Name
  PROVE  k \notin Nat
<1>1. PICK c \in Caller : k \in ToSet(calls[c]) \ {Unnamed}
  BY DEF Name
<1> QED BY <1>1, NamesAssumption DEF TypeOK, Caller

LEMMA AutosCount ==
  ASSUME TypeOK
  PROVE  /\ Autos \in Nat
         /\ \A c \in Caller : Nth(c) \in Nat /\ Nth(c) <= Autos
                              /\ (calls[c][1] = Unnamed => Nth(c) >= 1)
<1>1. Len(calls) \in Nat /\ Caller = 1..Len(calls)
  BY CallsType
<1>2. Autos \in Nat
  BY <1>1, NthCounts DEF Autos
<1>3. ASSUME NEW c \in Caller
      PROVE  Nth(c) \in Nat /\ Nth(c) <= Autos /\ (calls[c][1] = Unnamed => Nth(c) >= 1)
  <2>1. c \in Nat /\ c <= Len(calls) /\ 0 < c
    BY <1>1
  <2>2. Nth(c) \in Nat /\ Nth(c) <= Autos
    BY <1>1, <2>1, NthCounts DEF Autos
  <2>3. 0 \in Nat /\ 0 <= c
    BY <2>1
  <2>4. calls[c][1] = Unnamed => Nth(0) < Nth(c)
    BY <2>1, <2>3, NthCounts
  <2>5. Nth(0) = 0
    BY NthNext, <2>3
  <2> QED BY <2>2, <2>4, <2>5
<1> QED BY <1>2, <1>3

\* Calls that have the same run have the same input
LEMMA FitsOne ==
  ASSUME TypeOK, FirstUnnamed, NEW k, NEW a, NEW b, Fits(k, a), Fits(k, b)
  PROVE  Input(a) = Input(b)
<1>0. a \in Call /\ b \in Call
  BY DEF Fits
<1>1. ASSUME NEW x, Fits(k, x), x \in UnnamedCalls
      PROVE  k \in Nat /\ x = <<x[1], 1>> /\ x[1] \in Caller /\ calls[x[1]][1] = Unnamed
  <2>1. x \in Call /\ FirstKey(k, x[1])
    BY <1>1 DEF Fits
  <2>2. x = <<x[1], 1>> /\ x[1] \in Caller /\ calls[x[1]][1] = Unnamed
    BY <1>1, <2>1, CallIn
  <2>3. PICK m \in Nat : k = m * Autos + Nth(x[1])
    BY <2>1 DEF FirstKey
  <2>4. Autos \in Nat /\ Nth(x[1]) \in Nat
    BY <2>2, AutosCount
  <2> QED BY <2>2, <2>3, <2>4
<1>2. ASSUME NEW x, Fits(k, x), x \notin UnnamedCalls
      PROVE  k \notin Nat /\ Input(x) = k
  BY <1>2, CallIn, NoNumbers DEF Fits, Input
<1>3. CASE a \in UnnamedCalls /\ b \in UnnamedCalls
  <2>1. PICK m \in Nat : k = m * Autos + Nth(a[1])
    BY <1>3 DEF Fits, FirstKey
  <2>2. PICK n \in Nat : k = n * Autos + Nth(b[1])
    BY <1>3 DEF Fits, FirstKey
  <2>3. /\ a = <<a[1], 1>> /\ a[1] \in Caller /\ calls[a[1]][1] = Unnamed
        /\ b = <<b[1], 1>> /\ b[1] \in Caller /\ calls[b[1]][1] = Unnamed
    BY <1>1, <1>3
  <2>4. Autos \in Nat /\ Nth(a[1]) \in 1..Autos /\ Nth(b[1]) \in 1..Autos
    BY <2>3, AutosCount
  <2>5. Nth(a[1]) = Nth(b[1])
    <3>1. m * Autos + Nth(a[1]) = n * Autos + Nth(b[1])
      BY <2>1, <2>2
    <3> QED BY <2>4, <3>1, Multiples
  <2>6. a[1] \in Nat /\ b[1] \in Nat
    BY <2>3, CallsType
  <2>7. a[1] = b[1]
    <3>1. a[1] < b[1] => Nth(a[1]) < Nth(b[1])
      BY <2>3, <2>6, NthCounts
    <3>2. b[1] < a[1] => Nth(b[1]) < Nth(a[1])
      BY <2>3, <2>6, NthCounts
    <3> QED BY <2>4, <2>5, <2>6, <3>1, <3>2
  <2> QED BY <2>3, <2>7
<1>4. CASE a \notin UnnamedCalls /\ b \notin UnnamedCalls
  BY <1>2, <1>4
<1>5. ~ (a \in UnnamedCalls /\ b \notin UnnamedCalls)
  BY <1>1, <1>2
<1>6. ~ (a \notin UnnamedCalls /\ b \in UnnamedCalls)
  BY <1>1, <1>2
<1> QED BY <1>3, <1>4, <1>5, <1>6
-----------------------------------------------------------------------------
(* Callers, executions, entries and events are about calls that have the   *)
(* runs they name.                                                         *)

\* What caller f is at, waits for, is given and has
FrameFits(f) ==
  /\ frames[f].pc \in Busy => Fits(frames[f].key, CallOf(f))
  /\ frames[f].pc \in {"returned", "replays"} => Fits(frames[f].key, frames[f].result)
  /\ \A s \in DOMAIN frames[f].got : Input(frames[f].got[s]) = Input(<<f[2], s>>)
  /\ \A o \in Frame : Contains(execs[o].waiters, f) => execs[o].key = frames[f].key

RunsFit(r) == \A k \in DOMAIN r : r[k].status = "completed" => Fits(k, r[k].result)

LogFits == \A i \in DOMAIN log : log[i].output => Fits(log[i].key, log[i].call)

\* The attempt counts its callers on from the end of an attempt
CountFits ==
  /\ \E m \in Nat : snapshot = m * Autos
  /\ parent = "calls" => counter = snapshot + Nth(starting - 1)
  /\ parent = "waits" => counter = snapshot + Autos
  /\ parent = "over" => counter = 0 /\ snapshot = 0

FitInv == (\A f \in Frame : FrameFits(f)) /\ RunsFit(runs) /\ LogFits /\ CountFits

LEMMA SameFits ==
  ASSUME calls' = calls
  PROVE  /\ \A k, call : Fits(k, call)' <=> Fits(k, call)
         /\ \A k, c : FirstKey(k, c)' <=> FirstKey(k, c)
         /\ \A call : Input(call)' = Input(call)
         /\ \A c : Nth(c)' = Nth(c)
         /\ Autos' = Autos
<1>1. \A c : Nth(c)' = Nth(c)
  BY DEF Nth
<1>2. Autos' = Autos
  BY <1>1 DEF Autos
<1>3. \A k, c : FirstKey(k, c)' <=> FirstKey(k, c)
  BY <1>1, <1>2 DEF FirstKey
<1> QED BY <1>1, <1>2, <1>3, Same DEF Fits, Input

LEMMA RecoveredFits ==
  ASSUME TypeOK, LogFits, NEW k, Recovered(k).status = "completed"
  PROVE  Fits(k, Recovered(k).result)
<1> DEFINE i == CHOOSE i \in LatestIn(log, k) : TRUE
<1>1. LatestIn(log, k) # {}
  BY DEF Recovered, NewRun
<1>2. i \in DOMAIN log /\ log[i].key = k
  BY <1>1 DEF LatestIn
<1> HIDE DEF i
<1>3. Recovered(k) = IF log[i].output
                     THEN [NewRun EXCEPT !.status = "completed", !.result = log[i].call]
                     ELSE [NewRun EXCEPT !.status = "failed"]
  BY <1>1 DEF Recovered, i
<1>4. log[i].output /\ Recovered(k).result = log[i].call
  BY <1>3 DEF NewRun
<1> QED BY <1>2, <1>4 DEF LogFits

LEMMA PutFits ==
  ASSUME NEW r, RunsOK(r), RunsFit(r), NEW k \in Key, NEW run \in Run,
         run.status = "completed" => Fits(k, run.result)
  PROVE  RunsFit(Put(r, k, run))
<1>1. /\ DOMAIN Put(r, k, run) = DOMAIN r \cup {k} /\ Put(r, k, run)[k] = run
      /\ \A j \in DOMAIN r \ {k} : Put(r, k, run)[j] = r[j]
  BY DEF Put
<1> QED BY <1>1 DEF RunsFit

LEMMA EnterFits ==
  ASSUME IInv, FitInv, NEW f \in Frame, NEW got \in Seq(Result), Len(got) < Len(calls[f[2]]),
         frames[f].pc # "waits", NEW r, RunsOK(r), RunsFit(r), calls' = calls, log' = log,
         Enter(f, got, r), \A s \in DOMAIN got : Input(got[s]) = Input(<<f[2], s>>),
         calls[f[2]][Len(got) + 1] = Unnamed => FirstKey(counter + 1, f[2])
  PROVE  (\A g \in Frame : FrameFits(g)') /\ RunsFit(runs)'
<1> USE Same, SameFits
<1>0. TypeOK /\ LogFits
  BY DEF IInv, FitInv
<1>1. PICK k \in Key, run \in Run : Enters(f, got, r, k, run)
  BY <1>0, EnterTypes
<1>2. frames \in [Frame -> CallerState] /\ execs \in [Frame -> Execution]
  BY <1>0 DEF TypeOK
<1>3. \A g \in Frame : ~ Contains(execs[g].waiters, f)
  BY DEF IInv, WaitInv
<1>4. Fits(k, <<f[2], Len(got) + 1>>)
  <2>1. f[2] \in Caller /\ Len(got) + 1 \in 1..Len(calls[f[2]])
    BY <1>0, FrameIs, CallsType
  <2>2. <<f[2], Len(got) + 1>> \in Call
    BY <1>0, <2>1, CallIs
  <2>3. k = IF calls[f[2]][Len(got) + 1] = Unnamed THEN counter + 1
            ELSE calls[f[2]][Len(got) + 1]
    BY <1>1 DEF Enters
  <2> QED BY <2>2, <2>3 DEF Fits, UnnamedCalls
<1>5. run.status = "completed" => Fits(k, run.result)
  BY <1>0, <1>1, RecoveredFits DEF Enters, Entry, RunsFit
<1>6. PICK pc \in {"waits", "replays"}, own \in BOOLEAN, result \in Result :
        /\ frames' = [frames EXCEPT ![f] = [pc |-> pc, got |-> got, key |-> k, own |-> own,
                                            result |-> result]]
        /\ pc = "replays" => Fits(k, result)
  <2> None \in Result /\ run.result \in Result
    BY DEF Result, Run
  <2>1. CASE Joins(f, got, r, k, run)
    BY <2>1 DEF Joins
  <2>2. CASE Repeats(f, got, r, k, run)
    BY <1>5, <2>2 DEF Repeats
  <2>3. CASE Begins(f, got, r, k, run)
    BY <2>3 DEF Begins
  <2> QED BY <1>1, <2>1, <2>2, <2>3 DEF Enters
<1>7. /\ frames'[f] = [pc |-> pc, got |-> got, key |-> k, own |-> own, result |-> result]
      /\ \A g \in Frame \ {f} : frames'[g] = frames[g]
  BY <1>2, <1>6
<1>8. ASSUME NEW g \in Frame, NEW o \in Frame, Contains(execs'[o].waiters, g)
      PROVE  \/ g # f /\ execs[o].key = execs'[o].key /\ Contains(execs[o].waiters, g)
             \/ g = f /\ execs'[o].key = k
  <2>1. CASE Joins(f, got, r, k, run)
    <3>1. /\ run.task \in Frame /\ execs[run.task].key = k
          /\ execs' = [execs EXCEPT ![run.task].waiters = Append(@, f)]
      BY <2>1 DEF Joins
    <3>2. execs[run.task].waiters \in Seq(Frame) /\ execs[run.task] \in Execution
      BY <1>2, <3>1, ExecutionIs
    <3>3. /\ execs'[run.task].waiters = Append(execs[run.task].waiters, f)
          /\ execs'[run.task].key = k
          /\ \A h \in Frame \ {run.task} : execs'[h] = execs[h]
      BY <1>2, <3>1, <3>2 DEF Execution
    <3>4. Contains(Append(execs[run.task].waiters, f), g) <=>
            Contains(execs[run.task].waiters, g) \/ g = f
      BY <3>2, ContainsAppend
    <3> QED BY <1>3, <1>8, <3>1, <3>3, <3>4
  <2>2. CASE Repeats(f, got, r, k, run)
    BY <1>3, <1>8, <2>2 DEF Repeats
  <2>3. CASE Begins(f, got, r, k, run)
    <3>1. /\ execs'[f].key = k /\ execs'[f].waiters = <<f>>
          /\ \A h \in Frame \ {f} : execs'[h] = execs[h]
      BY <1>2, <2>3 DEF Begins
    <3>2. <<>> \in Seq(Frame)
      OBVIOUS
    <3>3. Contains(<<f>>, g) <=> g = f
      BY <3>2, ContainsAppend
    <3> QED BY <1>3, <1>8, <3>1, <3>3
  <2> QED BY <1>1, <2>1, <2>2, <2>3 DEF Enters
<1>9. ASSUME NEW g \in Frame
      PROVE  FrameFits(g)'
  <2>1. CASE g = f
    <3>1. CallOf(f)' = <<f[2], Len(got) + 1>>
      BY <1>7 DEF CallOf
    <3> QED BY <1>4, <1>6, <1>7, <1>8, <2>1, <3>1 DEF FrameFits
  <2>2. CASE g # f
    <3>1. frames'[g] = frames[g] /\ CallOf(g)' = CallOf(g)
      BY <1>7, <2>2 DEF CallOf
    <3> QED BY <1>8, <2>2, <3>1 DEF FrameFits, FitInv
  <2> QED BY <2>1, <2>2
<1>10. RunsFit(runs)'
  <2>1. RunsFit(Put(r, k, run))
    BY <1>5, PutFits
  <2>2. DEFINE begun == [run EXCEPT !.status = "running", !.task = f, !.owners = @ \cup {f}]
  <2>3. begun \in Run /\ begun.status # "completed"
    BY DEF Run
  <2> HIDE DEF begun
  <2>4. RunsFit(Put(r, k, begun))
    BY <2>3, PutFits
  <2>5. runs' = r \/ runs' = Put(r, k, run) \/ runs' = Put(r, k, begun)
    BY <1>1 DEF Enters, Joins, Repeats, Begins, begun
  <2>6. RunsFit(runs')
    BY <2>1, <2>4, <2>5
  <2> QED BY <2>6 DEF RunsFit
<1> QED BY <1>9, <1>10

LEMMA StopFits ==
  ASSUME IInv, FitInv, NEW f \in Frame, NEW pc \in {"ended", "raised"}, NEW got,
         frames[f].pc # "waits", NEW r, RunsFit(r), calls' = calls, Stop(f, pc, got, r),
         \A s \in DOMAIN got : Input(got[s]) = Input(<<f[2], s>>)
  PROVE  (\A g \in Frame : FrameFits(g)') /\ RunsFit(runs)'
<1> USE Same, SameFits
<1>1. PICK n \in {NoCall, [NoCall EXCEPT !.pc = pc, !.got = got]} :
        frames' = [frames EXCEPT ![f] = n]
  BY DEF Stop
<1>2. frames \in [Frame -> CallerState]
  BY DEF IInv, TypeOK
<1>3. frames'[f] = n /\ \A g \in Frame \ {f} : frames'[g] = frames[g]
  BY <1>1, <1>2
<1>4. n.pc \notin Busy /\ n.pc \notin {"returned", "replays"} /\ n.got \in {<<>>, got}
  <2>1. CASE n = NoCall
    BY <2>1 DEF NoCall, Busy
  <2>2. CASE n = [NoCall EXCEPT !.pc = pc, !.got = got]
    <3>1. n.pc = pc /\ n.got = got
      BY <2>2 DEF NoCall
    <3> QED BY <3>1 DEF Busy
  <2> QED BY <1>1, <2>1, <2>2
<1>5. execs' = execs /\ runs' = r
  BY DEF Stop
<1>6. ASSUME NEW g \in Frame
      PROVE  FrameFits(g)'
  <2>1. CASE g = f
    <3>1. \A o \in Frame : ~ Contains(execs[o].waiters, f)
      BY DEF IInv, WaitInv
    <3>2. DOMAIN <<>> = {}
      OBVIOUS
    <3> QED BY <1>3, <1>4, <1>5, <2>1, <3>1, <3>2 DEF FrameFits
  <2>2. CASE g # f
    <3>1. frames'[g] = frames[g] /\ CallOf(g)' = CallOf(g)
      BY <1>3, <2>2 DEF CallOf
    <3> QED BY <1>5, <3>1 DEF FrameFits, FitInv
  <2> QED BY <2>1, <2>2
<1> QED BY <1>5, <1>6 DEF RunsFit

LEMMA OutcomeFits ==
  ASSUME IInv, FitInv, NEW f \in Frame, frames[f].pc \in Busy,
         NEW status \in {"completed", "failed"}
  PROVE  RunsFit(Outcome(f, status)) /\ RunsFit(Dropped(f)) /\ RunsFit(runs)
<1> DEFINE k == frames[f].key
           set == [status |-> status,
                   result |-> IF status = "completed" THEN CallOf(f) ELSE runs[k].result,
                   task |-> IF runs[k].task = f THEN None ELSE runs[k].task,
                   owners |-> runs[k].owners \ {f}]
<1>1. RunsFit(runs) /\ Fits(k, CallOf(f))
  BY DEF FitInv, FrameFits
<1>2. RunsFit(Outcome(f, status))
  <2>1. CASE k \in DOMAIN runs /\ f \in runs[k].owners
    <3>1. Outcome(f, status) = [runs EXCEPT ![k] = set]
      BY <2>1 DEF Outcome
    <3>2. set.status = status /\ (status = "completed" => set.result = CallOf(f))
      OBVIOUS
    <3> HIDE DEF set, k
    <3> QED BY <1>1, <3>1, <3>2 DEF RunsFit
  <2>2. CASE ~ (k \in DOMAIN runs /\ f \in runs[k].owners)
    BY <1>1, <2>2 DEF Outcome
  <2> QED BY <2>1, <2>2
<1>3. RunsFit(Dropped(f))
  BY <1>1 DEF RunsFit, Dropped, Without
<1> QED BY <1>1, <1>2, <1>3

LEMMA ReceiveFits ==
  ASSUME IInv, FirstUnnamed, FitInv, NEW f \in Frame, frames[f].pc \in {"returned", "replays"},
         NEW r, RunsOK(r), RunsFit(r), calls' = calls, log' = log, Receive(f, r)
  PROVE  (\A g \in Frame : FrameFits(g)') /\ RunsFit(runs)' /\ counter' = counter
<1> DEFINE old == frames[f].got
           got == Append(old, frames[f].result)
<1>0. TypeOK /\ frames[f].pc # "waits" /\ frames[f].pc \in Busy
  BY DEF IInv, Busy
<1>1. Len(old) < Len(calls[f[2]]) /\ CallOf(f) = <<f[2], Len(old) + 1>>
  BY <1>0, AtCall DEF CallOf
<1>2. old \in Seq(Result) /\ frames[f].result \in Result
  BY <1>0 DEF TypeOK, CallerState
<1>3. /\ got \in Seq(Result) /\ Len(got) = Len(old) + 1 /\ Len(old) \in Nat
      /\ DOMAIN got = 1..(Len(old) + 1) /\ got[Len(old) + 1] = frames[f].result
      /\ \A s \in 1..Len(old) : got[s] = old[s] /\ s \in DOMAIN old
  BY <1>2
<1>4. Input(frames[f].result) = Input(<<f[2], Len(old) + 1>>)
  BY <1>0, <1>1, FitsOne DEF FitInv, FrameFits
<1>5. \A s \in DOMAIN old : Input(old[s]) = Input(<<f[2], s>>)
  BY DEF FitInv, FrameFits
<1>6. ASSUME NEW s \in DOMAIN got
      PROVE  Input(got[s]) = Input(<<f[2], s>>)
  <2> HIDE DEF got, old
  <2>1. CASE s = Len(old) + 1
    BY <1>3, <1>4, <2>1
  <2>2. CASE s # Len(old) + 1
    <3>1. s \in 1..Len(old)
      BY <1>3, <2>2
    <3> QED BY <1>3, <1>5, <3>1
  <2> QED BY <2>1, <2>2
<1>7. \/ Len(got) < Len(calls[f[2]]) /\ Enter(f, got, r)
      \/ \E pc \in {"ended", "raised"} : Stop(f, pc, got, r)
  BY DEF Receive
<1> HIDE DEF got, old
<1>8. CASE Len(got) < Len(calls[f[2]]) /\ Enter(f, got, r)
  <2>1. f[2] \in Caller /\ Len(calls[f[2]]) \in Nat /\ DOMAIN calls[f[2]] = 1..Len(calls[f[2]])
    BY <1>0, FrameIs, CallsType
  <2>2. Len(got) + 1 \in DOMAIN calls[f[2]] /\ Len(got) + 1 > 1
    BY <1>3, <1>8, <2>1
  <2>3. calls[f[2]][Len(got) + 1] # Unnamed
    BY <1>0, <2>1, <2>2 DEF FirstUnnamed, TypeOK, Caller
  <2>4. counter' = counter
    BY <1>8, <2>3, Zenon DEF Enter
  <2> QED BY <1>0, <1>3, <1>6, <1>8, <2>3, <2>4, EnterFits
<1>9. CASE \E pc \in {"ended", "raised"} : Stop(f, pc, got, r)
  <2>1. counter' = counter
    BY <1>9 DEF Stop
  <2> QED BY <1>0, <1>6, <1>9, <2>1, StopFits
<1> QED BY <1>7, <1>8, <1>9

\* Steps of the callers leave the parent and the log as they are
LEMMA CallersFit ==
  ASSUME FitInv, UNCHANGED <<parentVars, log>>, counter' = counter,
         \A f \in Frame : FrameFits(f)', RunsFit(runs)'
  PROVE  FitInv'
<1>1. calls' = calls /\ parent' = parent /\ starting' = starting /\ snapshot' = snapshot
      /\ log' = log
  BY DEF parentVars
<1>2. LogFits' /\ CountFits'
  BY <1>1, SameFits DEF FitInv, LogFits, CountFits
<1> QED BY <1>1, <1>2, Same DEF FitInv

LEMMA WakeFits ==
  ASSUME IInv, FirstUnnamed, FitInv, Wake
  PROVE  FitInv'
<1> DEFINE f == Head(ready)
<1>1. f \in Frame
  BY DEF Wake, IInv, TypeOK
<1>2. UNCHANGED <<parentVars, log>> /\ calls' = calls /\ log' = log
  BY DEF Wake, parentVars
<1>3. \/ frames[f].pc = "returned" /\ Receive(f, Outcome(f, "completed"))
      \/ /\ frames[f].pc \in Busy \ {"waits"}
         /\ \E pc \in {"ended", "raised"}, r \in {Outcome(f, "failed"), Dropped(f)} :
              Stop(f, pc, frames[f].got, r)
  BY DEF Wake, GiveUp, Busy
<1> HIDE DEF f
<1>4. CASE frames[f].pc = "returned" /\ Receive(f, Outcome(f, "completed"))
  <2>1. frames[f].pc \in Busy
    BY <1>4 DEF Busy
  <2>2. RunsOK(Outcome(f, "completed")) /\ RunsFit(Outcome(f, "completed"))
    BY <1>1, <2>1, OutcomeFine, OutcomeFits
  <2> QED BY <1>1, <1>2, <1>4, <2>2, ReceiveFits, CallersFit
<1>5. CASE /\ frames[f].pc \in Busy \ {"waits"}
           /\ \E pc \in {"ended", "raised"}, r \in {Outcome(f, "failed"), Dropped(f)} :
                Stop(f, pc, frames[f].got, r)
  <2>1. PICK pc \in {"ended", "raised"}, r \in {Outcome(f, "failed"), Dropped(f)} :
          Stop(f, pc, frames[f].got, r)
    BY <1>5
  <2>2. RunsFit(r)
    BY <1>1, <1>5, OutcomeFits
  <2>3. \A s \in DOMAIN frames[f].got : Input(frames[f].got[s]) = Input(<<f[2], s>>)
    BY <1>1 DEF FitInv, FrameFits
  <2>4. counter' = counter
    BY <2>1 DEF Stop
  <2> QED BY <1>1, <1>2, <1>5, <2>1, <2>2, <2>3, <2>4, StopFits, CallersFit
<1> QED BY <1>3, <1>4, <1>5

LEMMA ReplayingFits ==
  ASSUME IInv, FirstUnnamed, FitInv, NEW f \in Frame,
         Replay(f) \/ Diverge(f) \/ CancelReplaying(f)
  PROVE  FitInv'
<1>1. UNCHANGED <<parentVars, log>> /\ calls' = calls /\ log' = log
  BY DEF Replay, Diverge, CancelReplaying, parentVars
<1>2. frames[f].pc = "replays" /\ RunsFit(runs) /\ RunsOK(runs)
  BY DEF Replay, Diverge, CancelReplaying, FitInv, RunsOK, IInv, TypeOK
<1>3. CASE Replay(f)
  BY <1>1, <1>2, <1>3, ReceiveFits, CallersFit DEF Replay
<1>4. CASE Diverge(f) \/ CancelReplaying(f)
  <2>1. PICK pc \in {"ended", "raised"} : Stop(f, pc, frames[f].got, runs)
    BY <1>4 DEF Diverge, CancelReplaying, GiveUp
  <2>2. \A s \in DOMAIN frames[f].got : Input(frames[f].got[s]) = Input(<<f[2], s>>)
    BY DEF FitInv, FrameFits
  <2>3. counter' = counter
    BY <2>1 DEF Stop
  <2> QED BY <1>1, <1>2, <2>1, <2>2, <2>3, StopFits, CallersFit
<1> QED BY <1>3, <1>4

LEMMA StartCallerFits ==
  ASSUME IInv, FitInv, StartCaller
  PROVE  FitInv'
<1> DEFINE f == <<attempt, starting>>
           auto == calls[starting][1] = Unnamed
           got == <<>>
<1>1. /\ f \in Frame /\ f[2] = starting /\ TypeOK /\ starting \in Caller
  BY DEF IInv, TypeOK, Frame
<1>2. frames[f] = NoCall
  <2>1. starting \in Nat
    BY <1>1, CallsType
  <2>2. f[1] = attempt /\ f[2] >= starting /\ parent = "calls"
    BY <1>1, <2>1 DEF StartCaller
  <2> QED BY <1>1, <2>2 DEF FreshInv, IInv
<1>3. /\ Len(calls) \in Nat \ {0} /\ Caller = 1..Len(calls) /\ Len(calls[starting]) \in Nat \ {0}
  BY <1>1, CallsType
<1>4. /\ got \in Seq(Result) /\ Len(got) = 0 /\ DOMAIN got = {} /\ f[2] = starting
  BY <1>1
<1>5. Enter(f, got, runs) /\ calls' = calls /\ log' = log /\ snapshot' = snapshot
  BY DEF StartCaller
<1>6. /\ snapshot \in Nat /\ counter = snapshot + Nth(starting - 1) /\ starting - 1 \in Nat
      /\ Nth(starting - 1) \in Nat
      /\ Nth(starting) = IF auto THEN Nth(starting - 1) + 1 ELSE Nth(starting - 1)
  <2>1. starting - 1 \in Nat /\ starting = (starting - 1) + 1 /\ snapshot \in Nat
    <3>1. snapshot \in Nat
      BY <1>1 DEF TypeOK
    <3> QED BY <1>1, <1>3, <3>1
  <2>2. Nth(starting - 1) \in Nat
    BY <2>1, NthCounts
  <2>3. Nth(starting) = IF calls[starting][1] = Unnamed THEN Nth(starting - 1) + 1
                        ELSE Nth(starting - 1)
    BY <2>1, NthNext
  <2> QED BY <2>1, <2>2, <2>3 DEF StartCaller, FitInv, CountFits
<1>7. counter' = snapshot + Nth(starting)
  <2>1. counter' = IF calls[f[2]][Len(got) + 1] = Unnamed THEN counter + 1 ELSE counter
    BY <1>5, Zenon DEF Enter
  <2>2. counter' = IF auto THEN counter + 1 ELSE counter
    <3>1. calls[f[2]][Len(got) + 1] = calls[starting][1]
      BY <1>4
    <3> QED BY <2>1, <3>1
  <2> QED BY <1>6, <2>2
<1>8. auto => FirstKey(counter + 1, starting)
  BY <1>6 DEF FirstKey, FitInv, CountFits
<1>9. (\A g \in Frame : FrameFits(g)') /\ RunsFit(runs)'
  <2>1. RunsOK(runs) /\ RunsFit(runs) /\ frames[f].pc # "waits"
    BY <1>1, <1>2 DEF FitInv, TypeOK, RunsOK, NoCall
  <2>2. /\ Len(got) < Len(calls[f[2]])
        /\ \A s \in DOMAIN got : Input(got[s]) = Input(<<f[2], s>>)
        /\ calls[f[2]][Len(got) + 1] = Unnamed => FirstKey(counter + 1, f[2])
    BY <1>3, <1>4, <1>8
  <2> HIDE DEF f, got
  <2> QED BY <1>1, <1>4, <1>5, <2>1, <2>2, EnterFits
<1>10. LogFits'
  BY <1>5, SameFits DEF FitInv, LogFits
<1>11. CountFits'
  <2>1. \/ starting < Len(calls) /\ starting' = starting + 1 /\ parent' = "calls"
        \/ starting = Len(calls) /\ parent' = "waits"
    BY <1>1, <1>3 DEF StartCaller
  <2>2. \A c : Nth(c)' = Nth(c)
    BY <1>5, SameFits
  <2>3. Autos' = Autos /\ Autos = Nth(Len(calls))
    BY <1>5, SameFits DEF Autos
  <2>4. starting \in Nat /\ (starting + 1) - 1 = starting
    BY <1>1, <1>3
  <2> QED BY <1>5, <1>7, <2>1, <2>2, <2>3, <2>4 DEF FitInv, CountFits
<1> QED BY <1>5, <1>9, <1>10, <1>11, Same DEF FitInv

LEMMA LoggedFits ==
  ASSUME IInv, FitInv, NEW f \in Frame, execs[f].state # "none", NEW output \in BOOLEAN,
         calls' = calls,
         log' = Append(log, [key |-> execs[f].key, call |-> CallOf(f), output |-> output])
  PROVE  LogFits'
<1>1. frames[f].pc = "waits" /\ Contains(execs[f].waiters, f)
  BY DEF IInv, WaitInv
<1>2. Fits(execs[f].key, CallOf(f))
  BY <1>1 DEF FitInv, FrameFits, Busy
<1> DEFINE e == [key |-> execs[f].key, call |-> CallOf(f), output |-> output]
<1>3. e.key = execs[f].key /\ e.call = CallOf(f) /\ e \in Event
  BY <1>1, AtCall DEF Event, Busy, IInv, WaitInv
<1>4. log \in Seq(Event) /\ log' = Append(log, e)
  BY DEF IInv, TypeOK, Event
<1> HIDE DEF e, Event
<1>5. /\ Len(log) \in Nat /\ DOMAIN log = 1..Len(log) /\ DOMAIN log' = 1..(Len(log) + 1)
      /\ \A i \in 1..Len(log) : log'[i] = log[i]
      /\ log'[Len(log) + 1] = e
  BY <1>3, <1>4
<1>6. ASSUME NEW i \in DOMAIN log', log'[i].output
      PROVE  Fits(log'[i].key, log'[i].call)
  <2>1. CASE i = Len(log) + 1
    BY <1>2, <1>3, <1>5, <2>1
  <2>2. CASE i # Len(log) + 1
    <3>1. i \in DOMAIN log /\ log'[i] = log[i]
      BY <1>5, <2>2
    <3> QED BY <1>6, <3>1 DEF FitInv, LogFits
  <2> QED BY <2>1, <2>2
<1> QED BY <1>6, SameFits DEF LogFits

LEMMA RecordFits ==
  ASSUME IInv, FitInv, NEW f \in Frame, Record(f)
  PROVE  FitInv'
<1> USE Same, SameFits
<1>1. /\ execs' = [execs EXCEPT ![f].state = "recorded"] /\ execs[f].state = "running"
      /\ calls' = calls /\ frames' = frames /\ runs' = runs /\ counter' = counter
      /\ parent' = parent /\ starting' = starting /\ snapshot' = snapshot
      /\ log' = Append(log, [key |-> execs[f].key, call |-> CallOf(f), output |-> TRUE])
  BY DEF Record, parentVars
<1>2. execs \in [Frame -> Execution]
  BY DEF IInv, TypeOK
<1>3. \A o \in Frame : execs'[o].waiters = execs[o].waiters /\ execs'[o].key = execs[o].key
  <2>1. /\ execs'[f] = [execs[f] EXCEPT !.state = "recorded"] /\ execs[f] \in Execution
        /\ \A o \in Frame \ {f} : execs'[o] = execs[o]
    BY <1>1, <1>2
  <2> QED BY <2>1 DEF Execution
<1>4. LogFits'
  BY <1>1, LoggedFits
<1>5. ASSUME NEW g \in Frame
      PROVE  FrameFits(g)'
  <2>1. CallOf(g)' = CallOf(g)
    BY <1>1 DEF CallOf
  <2> QED BY <1>1, <1>3, <2>1 DEF FitInv, FrameFits
<1>6. RunsFit(runs)' /\ CountFits'
  BY <1>1 DEF FitInv, RunsFit, CountFits
<1> QED BY <1>1, <1>4, <1>5, <1>6 DEF FitInv

LEMMA WokenFits ==
  ASSUME IInv, FitInv, NEW o \in Frame, Woken(o), LogFits',
         UNCHANGED <<parentVars, counter, runs>>,
         \A g \in Frame : Contains(execs[o].waiters, g) /\ frames'[g].pc \in {"returned", "replays"}
                          => frames'[g].result = CallOf(o) /\ Contains(execs[o].waiters, o)
  PROVE  FitInv'
<1> USE Same, SameFits
<1>1. /\ calls' = calls /\ parent' = parent /\ starting' = starting /\ snapshot' = snapshot
      /\ counter' = counter /\ runs' = runs
  BY DEF parentVars
<1>2. execs \in [Frame -> Execution] /\ execs' = [execs EXCEPT ![o] = NoExec]
  BY DEF IInv, TypeOK, Woken
<1>3. ASSUME NEW h \in Frame, NEW g \in Frame, Contains(execs'[h].waiters, g)
      PROVE  h # o /\ execs'[h] = execs[h]
  <2>1. <<>> \in Seq(Frame)
    OBVIOUS
  <2>2. ~ Contains(<<>>, g)
    BY <2>1, ContainsAppend
  <2> QED BY <1>2, <1>3, <2>2 DEF NoExec
<1>4. ASSUME NEW g \in Frame
      PROVE  FrameFits(g)'
  <2>0. FrameFits(g) /\ FrameFits(o)
    BY DEF FitInv
  <2>1. CASE ~ Contains(execs[o].waiters, g)
    <3>1. frames'[g] = frames[g] /\ CallOf(g)' = CallOf(g)
      BY <2>1 DEF Woken, CallOf
    <3> QED BY <1>1, <1>3, <2>0, <3>1 DEF FrameFits
  <2>2. CASE Contains(execs[o].waiters, g)
    <3>1. /\ frames'[g].pc \in Busy /\ frames'[g].got = frames[g].got
          /\ frames'[g].key = frames[g].key /\ CallOf(g)' = CallOf(g)
      BY <2>2 DEF Woken, CallOf
    <3>2. frames[g].pc \in Busy /\ frames[g].key = execs[o].key
      BY <2>0, <2>2 DEF IInv, WaitInv, Busy, FrameFits
    <3>3. ASSUME frames'[g].pc \in {"returned", "replays"}
          PROVE  Fits(frames'[g].key, frames'[g].result)
      <4>1. frames'[g].result = CallOf(o) /\ Contains(execs[o].waiters, o)
        BY <2>2, <3>3
      <4>2. frames[o].pc \in Busy /\ frames[o].key = execs[o].key
        BY <2>0, <4>1 DEF IInv, WaitInv, Busy, FrameFits
      <4> QED BY <2>0, <3>1, <3>2, <4>1, <4>2 DEF FrameFits
    <3> QED BY <1>1, <1>3, <2>0, <3>1, <3>2, <3>3 DEF FrameFits
  <2> QED BY <2>1, <2>2
<1>5. RunsFit(runs)' /\ CountFits'
  BY <1>1 DEF FitInv, RunsFit, CountFits
<1> QED BY <1>1, <1>4, <1>5 DEF FitInv

LEMMA EndsFits ==
  ASSUME IInv, FitInv, NEW f \in Frame, Return(f) \/ Fail(f)
  PROVE  FitInv'
<1>1. PICK pc \in {"returned", "failed"} : Ends(f, pc)
  BY DEF Return, Fail
<1>2. execs[f].state # "none" /\ UNCHANGED <<parentVars, counter, runs>> /\ calls' = calls
  BY DEF Return, Fail, parentVars
<1>3. Woken(f)
  BY <1>1, <1>2, EndsWakes
<1>4. LogFits'
  <2>1. CASE Return(f)
    BY <1>2, <2>1, SameFits DEF Return, FitInv, LogFits
  <2>2. CASE Fail(f)
    BY <1>2, <2>2, LoggedFits DEF Fail
  <2> QED BY <2>1, <2>2
<1>5. Contains(execs[f].waiters, f) /\ frames \in [Frame -> CallerState]
  BY <1>2 DEF IInv, WaitInv, TypeOK
<1>6. ASSUME NEW g \in Frame, Contains(execs[f].waiters, g)
      PROVE  frames'[g].result = CallOf(f)
  <2>1. frames'[g] = [frames[g] EXCEPT !.pc = pc, !.result = CallOf(f)]
    BY <1>1, <1>6 DEF Ends
  <2> QED BY <1>5, <2>1 DEF CallerState
<1> QED BY <1>2, <1>3, <1>4, <1>5, <1>6, WokenFits

LEMMA CancelWaitingFits ==
  ASSUME IInv, FitInv, NEW f \in Frame, CancelWaiting(f)
  PROVE  FitInv'
<1> USE Same, SameFits
<1>1. UNCHANGED <<parentVars, counter, runs, log>> /\ calls' = calls /\ LogFits'
  BY DEF CancelWaiting, parentVars, FitInv, LogFits
<1>2. ASSUME NEW o \in Frame, Contains(execs[o].waiters, f),
             frames' = [g \in Frame |-> IF g = f THEN [frames[g] EXCEPT !.pc = "doomed"]
                                        ELSE IF Contains(execs[o].waiters, g)
                                             THEN [frames[g] EXCEPT !.pc = "cancelled"]
                                        ELSE frames[g]],
             ready' = ready \o execs[o].waiters, execs' = [execs EXCEPT ![o] = NoExec]
      PROVE  FitInv'
  <2>1. /\ Woken(o)
        /\ \A g \in Frame : Contains(execs[o].waiters, g) =>
             frames'[g].pc \in {"doomed", "cancelled"}
    BY <1>2, CancelWakes
  <2> QED BY <1>1, <2>1, WokenFits
<1>3. CASE /\ frames[f].pc \in {"returned", "failed", "cancelled"}
           /\ frames' = [frames EXCEPT ![f].pc = "doomed"]
           /\ UNCHANGED <<execs, ready>>
  <2>1. frames \in [Frame -> CallerState]
    BY DEF IInv, TypeOK
  <2>2. /\ frames'[f] = [frames[f] EXCEPT !.pc = "doomed"] /\ frames[f] \in CallerState
        /\ \A g \in Frame \ {f} : frames'[g] = frames[g]
    BY <1>3, <2>1
  <2>3. /\ frames'[f].pc = "doomed" /\ frames'[f].got = frames[f].got
        /\ frames'[f].key = frames[f].key /\ frames[f].pc \in Busy
    BY <1>3, <2>2 DEF CallerState, Busy
  <2>4. ASSUME NEW g \in Frame
        PROVE  FrameFits(g)'
    <3>1. /\ CallOf(g)' = CallOf(g) /\ execs' = execs
      BY <1>3, <2>2, <2>3 DEF CallOf
    <3>2. CASE g = f
      BY <1>1, <2>3, <3>1, <3>2 DEF FitInv, FrameFits
    <3>3. CASE g # f
      BY <1>1, <2>2, <3>1, <3>3 DEF FitInv, FrameFits
    <3> QED BY <3>2, <3>3
  <2>5. RunsFit(runs)'
    BY <1>1 DEF FitInv, RunsFit
  <2> QED BY <1>1, <2>4, <2>5, CallersFit
<1> QED BY <1>2, <1>3 DEF CancelWaiting

LEMMA RetryFits ==
  ASSUME IInv, FitInv, Retry
  PROVE  FitInv'
<1> USE Same, SameFits
<1>1. /\ parent = "waits" /\ parent' = "calls" /\ snapshot' = counter' /\ starting' = starting
      /\ frames' = [f \in Frame |-> IF frames[f].pc \in {"ended", "raised"} THEN NoCall
                                    ELSE frames[f]]
      /\ counter' = Rewound
      /\ calls' = calls /\ runs' = runs /\ execs' = execs /\ log' = log
  BY DEF Retry
<1>2. ASSUME NEW f \in Frame
      PROVE  FrameFits(f)'
  <2>1. CASE frames[f].pc \in {"ended", "raised"}
    <3>1. frames'[f] = NoCall
      BY <1>1, <2>1
    <3>2. \A o \in Frame : ~ Contains(execs[o].waiters, f)
      BY <2>1 DEF IInv, WaitInv
    <3>3. DOMAIN <<>> = {}
      OBVIOUS
    <3>4. /\ frames'[f].pc = "none" /\ frames'[f].got = <<>>
      BY <3>1 DEF NoCall
    <3> QED BY <1>1, <3>2, <3>3, <3>4 DEF FrameFits, Busy
  <2>2. CASE frames[f].pc \notin {"ended", "raised"}
    <3>1. frames'[f] = frames[f] /\ CallOf(f)' = CallOf(f)
      BY <1>1, <2>2 DEF CallOf
    <3> QED BY <1>1, <3>1 DEF FrameFits, FitInv
  <2> QED BY <2>1, <2>2
<1>3. RunsFit(runs)' /\ LogFits'
  BY <1>1 DEF FitInv, RunsFit, LogFits
<1>4. CountFits'
  <2>1. PICK m \in Nat : snapshot = m * Autos
    BY DEF FitInv, CountFits
  <2>2. Autos \in Nat /\ starting = 1
    BY <1>1, AutosCount DEF IInv, FreshInv
  <2>3. counter = snapshot + Autos
    BY <1>1 DEF FitInv, CountFits
  <2>4. m + 1 \in Nat /\ (m + 1) * Autos = m * Autos + Autos /\ m * Autos \in Nat
    BY <2>2
  <2>5. \E n \in Nat : Rewound = n * Autos
    BY <2>1, <2>3, <2>4 DEF Rewound
  <2>6. Nth(starting - 1) = 0 /\ Rewound \in Nat
    <3>1. starting - 1 = 0 /\ 0 \in Nat
      BY <2>2
    <3>2. Nth(0) = 0
      BY <3>1, NthNext
    <3>3. Rewound \in Nat
      BY DEF Rewound, IInv, TypeOK
    <3> QED BY <3>1, <3>2, <3>3
  <2>7. Nth(starting - 1)' = 0 /\ Autos' = Autos
    BY <1>1, <2>6 DEF Nth
  <2> QED BY <1>1, <2>5, <2>6, <2>7 DEF CountFits
<1> QED BY <1>1, <1>2, <1>3, <1>4 DEF FitInv

LEMMA OverFits ==
  ASSUME IInv, FitInv, NEW how, Over(how)
  PROVE  FitInv'
<1> USE Same, SameFits
<1>1. /\ parent' = "over" /\ counter' = 0 /\ snapshot' = 0 /\ runs' = <<>>
      /\ frames' = [f \in Frame |-> NoCall] /\ execs' = [f \in Frame |-> NoExec]
      /\ calls' = calls /\ log' = log
  BY DEF Over
<1>2. ASSUME NEW f \in Frame
      PROVE  FrameFits(f)'
  <2>1. <<>> \in Seq(Frame) /\ DOMAIN <<>> = {}
    OBVIOUS
  <2>2. /\ frames'[f].pc = "none" /\ frames'[f].got = <<>>
        /\ \A o \in Frame : execs'[o].waiters = <<>>
    BY <1>1 DEF NoCall, NoExec
  <2>3. ~ Contains(<<>>, f)
    BY <2>1, ContainsAppend
  <2> QED BY <1>1, <2>1, <2>2, <2>3 DEF FrameFits, Busy
<1>3. LogFits'
  BY <1>1 DEF FitInv, LogFits
<1>4. RunsFit(runs)'
  <2>1. DOMAIN runs' = {}
    BY <1>1
  <2> QED BY <2>1 DEF RunsFit
<1>5. CountFits'
  <2>1. Autos \in Nat
    BY AutosCount DEF IInv
  <2>2. 0 \in Nat /\ 0 = 0 * Autos
    BY <2>1
  <2>3. \E m \in Nat : 0 = m * Autos
    BY <2>2
  <2>4. Autos' = Autos
    BY <1>1
  <2> QED BY <1>1, <2>3, <2>4 DEF CountFits
<1> QED BY <1>1, <1>2, <1>3, <1>4, <1>5 DEF FitInv

LEMMA IdleFits ==
  ASSUME IInv, FitInv, NextTurn \/ UNCHANGED vars
  PROVE  FitInv'
<1> USE Same, SameFits
<1>1. /\ calls' = calls /\ log' = log /\ frames' = frames /\ execs' = execs /\ runs' = runs
      /\ counter' = counter /\ snapshot' = snapshot /\ starting' = starting
      /\ parent' = parent \/ (parent = "over" /\ parent' = "calls")
  BY DEF NextTurn, vars, parentVars, memory
<1>2. ASSUME NEW f \in Frame
      PROVE  FrameFits(f)'
  <2>1. CallOf(f)' = CallOf(f)
    BY <1>1 DEF CallOf
  <2> QED BY <1>1, <2>1 DEF FrameFits, FitInv
<1>3. RunsFit(runs)' /\ LogFits'
  BY <1>1 DEF FitInv, RunsFit, LogFits
<1>4. CountFits'
  <2>1. CASE parent' = parent
    BY <1>1, <2>1 DEF FitInv, CountFits
  <2>2. CASE parent = "over" /\ parent' = "calls"
    <3>1. starting - 1 = 0 /\ 0 \in Nat
      BY <2>2 DEF IInv, FreshInv
    <3>2. Nth(starting - 1) = 0
      BY <3>1, NthNext
    <3>3. counter = 0 /\ snapshot = 0
      BY <2>2 DEF FitInv, CountFits
    <3>4. Nth(starting - 1)' = 0 /\ Autos' = Autos
      BY <1>1, <3>2 DEF Nth
    <3> QED BY <1>1, <2>2, <3>3, <3>4 DEF FitInv, CountFits
  <2> QED BY <1>1, <2>1, <2>2
<1> QED BY <1>1, <1>2, <1>3, <1>4 DEF FitInv

LEMMA InitFits ==
  ASSUME Init, TypeOK
  PROVE  FitInv
<1>1. ASSUME NEW f \in Frame
      PROVE  FrameFits(f)
  <2>1. <<>> \in Seq(Frame) /\ DOMAIN <<>> = {}
    OBVIOUS
  <2>2. /\ frames[f].pc = "none" /\ frames[f].got = <<>>
        /\ \A o \in Frame : execs[o].waiters = <<>>
    BY DEF Init, NoCall, NoExec
  <2>3. ~ Contains(<<>>, f)
    BY <2>1, ContainsAppend
  <2> QED BY <2>1, <2>2, <2>3 DEF FrameFits, Busy
<1>2. RunsFit(runs) /\ LogFits
  BY DEF Init, RunsFit, LogFits
<1>3. CountFits
  <2>1. Autos \in Nat
    BY AutosCount
  <2>2. 0 \in Nat /\ 0 = 0 * Autos
    BY <2>1
  <2>3. \E m \in Nat : 0 = m * Autos
    BY <2>2
  <2>4. Nth(0) = 0 /\ starting - 1 = 0
    BY <2>2, NthNext DEF Init
  <2> QED BY <2>3, <2>4 DEF Init, CountFits
<1> QED BY <1>1, <1>2, <1>3 DEF FitInv

LEMMA NextFits ==
  ASSUME IInv, FirstUnnamed, FitInv, [Next]_vars
  PROVE  FitInv'
<1>1. CASE Complete \/ GiveOver \/ Crash
  <2>1. PICK how : Over(how)
    BY <1>1 DEF Complete, GiveOver, Crash
  <2> QED BY <2>1, OverFits
<1>2. ASSUME NEW f \in Frame, \/ Record(f) \/ Return(f) \/ Fail(f) \/ Replay(f) \/ Diverge(f)
                              \/ CancelWaiting(f) \/ CancelReplaying(f)
      PROVE  FitInv'
  BY <1>2, RecordFits, EndsFits, ReplayingFits, CancelWaitingFits
<1> QED BY <1>1, <1>2, StartCallerFits, RetryFits, IdleFits, WakeFits DEF Next

\* Callers that make one unnamed call each, as their first, get results that were made for
\* their own calls.
THEOREM OwnResultsHolds ==
  ASSUME FirstUnnamed
  PROVE  Spec => []OwnResults
<1>1. Init => FitInv
  BY InitHolds, InitFits DEF IInv
<1>2. IInv /\ FitInv /\ [Next]_vars => FitInv'
  BY NextFits
<1>3. FitInv => OwnResults
  BY DEF FitInv, FrameFits, OwnResults
<1> QED BY <1>1, <1>2, <1>3, InductiveInvariant, PTL DEF Spec

-----------------------------------------------------------------------------
(* What a retry replays: runs that are completed, and that nobody executes. *)

\* Caller f holds the execution of run k, until it hears how it has ended
Owns(f, k) == frames[f].pc \in Busy /\ frames[f].own /\ frames[f].key = k

Apart(k) == \A f \in Frame : ~ UnderWay(f, k) /\ ~ Owns(f, k)

Kept(k) == Entry(runs, k).status = "completed" /\ Apart(k)

\* Callers that wait are woken, callers that are woken are in the queue, callers that replay
\* execute nothing
QueueInv == \A f \in Frame :
  /\ frames[f].pc \in {"returned", "failed", "cancelled", "doomed"} => Contains(ready, f)
  /\ frames[f].pc = "waits" => \E o \in Frame : Contains(execs[o].waiters, f)
  /\ frames[f].pc = "replays" => ~ frames[f].own

OwnersInv == \A k \in DOMAIN runs : \A g \in runs[k].owners : Owns(g, k)

\* The callers of the attempt are in the runs of their calls
MineInv == \A f \in Mine : frames[f].pc \in Busy => frames[f].key = RunOf(CallOf(f))

KeptInv == \A call \in kept : Kept(RunOf(call))

KeepInv == QueueInv /\ OwnersInv /\ MineInv /\ KeptInv

\* What a step of caller f makes of the runs: f holds none of r, and r differs from them
\* only in runs that f holds
Left(f, r) ==
  /\ \A k \in DOMAIN r : k \in DOMAIN runs /\ \A g \in r[k].owners : g # f /\ g \in runs[k].owners
  /\ \A k : ~ Owns(f, k) => /\ k \in DOMAIN r <=> k \in DOMAIN runs
                            /\ k \in DOMAIN r => r[k] = runs[k]

LEMMA LeftIs ==
  ASSUME IInv, OwnersInv, NEW f \in Frame, frames[f].pc \in Busy,
         NEW r \in {Outcome(f, "completed"), Outcome(f, "failed"), Dropped(f)}
  PROVE  Left(f, r)
<1> DEFINE k == frames[f].key
<1>1. \A j \in DOMAIN runs : f \in runs[j].owners => Owns(f, j) /\ j = k
  BY DEF OwnersInv, Owns
<1>2. ASSUME NEW status \in {"completed", "failed"}, r = Outcome(f, status)
      PROVE  Left(f, r)
  <2> DEFINE set == [status |-> status,
                     result |-> IF status = "completed" THEN CallOf(f) ELSE runs[k].result,
                     task |-> IF runs[k].task = f THEN None ELSE runs[k].task,
                     owners |-> runs[k].owners \ {f}]
  <2>1. CASE k \in DOMAIN runs /\ f \in runs[k].owners
    <3>1. r = [runs EXCEPT ![k] = set] /\ set.owners = runs[k].owners \ {f}
      BY <1>2, <2>1 DEF Outcome
    <3>2. Owns(f, k)
      BY <1>1, <2>1
    <3> HIDE DEF set, k
    <3>3. DOMAIN r = DOMAIN runs /\ r[k] = set /\ \A j \in DOMAIN runs \ {k} : r[j] = runs[j]
      BY <2>1, <3>1
    <3>4. ASSUME NEW j \in DOMAIN r, NEW g \in r[j].owners
          PROVE  j \in DOMAIN runs /\ g # f /\ g \in runs[j].owners
      BY <1>1, <3>1, <3>3, <3>4
    <3> QED BY <3>2, <3>3, <3>4 DEF Left
  <2>2. CASE ~ (k \in DOMAIN runs /\ f \in runs[k].owners)
    <3>1. r = runs
      BY <1>2, <2>2 DEF Outcome
    <3> QED BY <1>1, <2>2, <3>1 DEF Left
  <2> QED BY <2>1, <2>2
<1>3. CASE r = Dropped(f)
  <2>1. CASE frames[f].own
    <3>1. r = Without(runs, k) /\ Owns(f, k)
      BY <1>3, <2>1 DEF Dropped, Owns
    <3>2. /\ DOMAIN r = DOMAIN runs \ {k}
          /\ \A j \in DOMAIN runs \ {k} : r[j] = runs[j]
      BY <3>1 DEF Without
    <3> HIDE DEF k
    <3> QED BY <1>1, <3>1, <3>2 DEF Left
  <2>2. CASE ~ frames[f].own
    <3>1. r = runs
      BY <1>3, <2>2 DEF Dropped
    <3> QED BY <1>1, <2>2, <3>1 DEF Left, Owns
  <2> QED BY <2>1, <2>2
<1> QED BY <1>2, <1>3

LEMMA LeftSame ==
  ASSUME OwnersInv, NEW f \in Frame, ~ frames[f].own
  PROVE  Left(f, runs)
BY DEF OwnersInv, Owns, Left

\* Completed runs that nobody holds have the same entries in r
LEMMA EntryLeft ==
  ASSUME NEW f \in Frame, NEW r, Left(f, r), NEW k, Kept(k)
  PROVE  Entry(r, k) = Entry(runs, k) /\ Entry(r, k).status = "completed"
BY DEF Left, Kept, Apart, Entry

LEMMA NoFrame ==
  ASSUME NEW f \in Frame
  PROVE  f # None
BY BoundsAssumption DEF Frame, None

LEMMA RecoveredOwns ==
  ASSUME NEW k
  PROVE  Recovered(k).owners = {}
BY DEF Recovered, NewRun

LEMMA EnterKept ==
  ASSUME IInv, QueueInv, OwnersInv, NEW f \in Frame, NEW got \in Seq(Result),
         Len(got) < Len(calls[f[2]]), frames[f].pc # "waits", NEW r, RunsOK(r), Left(f, r),
         calls' = calls, log' = log, Enter(f, got, r),
         \A g \in Frame \ {f} : Contains(ready, g) => Contains(ready', g)
  PROVE  /\ QueueInv' /\ OwnersInv' /\ \A k : Kept(k) => Kept(k)'
         /\ frames'[f].key = IF calls[f[2]][Len(got) + 1] = Unnamed THEN counter + 1
                             ELSE calls[f[2]][Len(got) + 1]
         /\ frames'[f].got = got /\ \A g \in Frame \ {f} : frames'[g] = frames[g]
<1> USE Same
<1>0. TypeOK
  BY DEF IInv
<1>1. PICK j \in Key, run \in Run : Enters(f, got, r, j, run)
  BY <1>0, EnterTypes
<1>2. frames \in [Frame -> CallerState] /\ execs \in [Frame -> Execution]
  BY <1>0 DEF TypeOK
<1>3. \A g \in Frame : ~ Contains(execs[g].waiters, f)
  BY DEF IInv, WaitInv
<1>4. execs[f] = NoExec
  BY <1>3 DEF IInv, WaitInv
<1>5. run = Entry(r, j)
  BY <1>1 DEF Enters
<1> DEFINE begun == [run EXCEPT !.status = "running", !.task = f, !.owners = @ \cup {f}]
<1>6. begun \in Run /\ begun.owners = run.owners \cup {f}
  BY DEF Run
<1> HIDE DEF begun
<1>7. \/ /\ Joins(f, got, r, j, run) /\ runs' = r
      \/ /\ Repeats(f, got, r, j, run) /\ runs' = Put(r, j, run)
      \/ /\ Begins(f, got, r, j, run) /\ runs' = Put(r, j, begun)
  BY <1>1 DEF Enters, Joins, Repeats, Begins, begun
<1>8. /\ frames'[f].key = j /\ frames'[f].got = got
      /\ \A g \in Frame \ {f} : frames'[g] = frames[g]
  BY <1>2, <1>7 DEF Joins, Repeats, Begins
<1>9. /\ Joins(f, got, r, j, run) => frames'[f].pc = "waits" /\ ~ frames'[f].own
      /\ Repeats(f, got, r, j, run) => frames'[f].pc = "replays" /\ ~ frames'[f].own
      /\ Begins(f, got, r, j, run) => frames'[f].pc = "waits" /\ frames'[f].own
  BY <1>2 DEF Joins, Repeats, Begins
<1>16. /\ DOMAIN Put(r, j, run) = DOMAIN r \cup {j} /\ Put(r, j, run)[j] = run
       /\ \A k \in DOMAIN r \ {j} : Put(r, j, run)[k] = r[k]
       /\ DOMAIN Put(r, j, begun) = DOMAIN r \cup {j} /\ Put(r, j, begun)[j] = begun
       /\ \A k \in DOMAIN r \ {j} : Put(r, j, begun)[k] = r[k]
  <2>1. /\ DOMAIN Put(r, j, run) = DOMAIN r \cup {j} /\ Put(r, j, run)[j] = run
        /\ \A k \in DOMAIN r \ {j} : Put(r, j, run)[k] = r[k]
    BY DEF Put
  <2>2. /\ DOMAIN Put(r, j, begun) = DOMAIN r \cup {j} /\ Put(r, j, begun)[j] = begun
        /\ \A k \in DOMAIN r \ {j} : Put(r, j, begun)[k] = r[k]
    BY DEF Put
  <2> QED BY <2>1, <2>2
\* Executions other than the one that begins have the same key, and more waiters
<1>10. /\ Joins(f, got, r, j, run) => \E o \in Frame : Contains(execs'[o].waiters, f)
       /\ Begins(f, got, r, j, run) => Contains(execs'[f].waiters, f)
       /\ \A o \in Frame : \A g \in Frame :
            Contains(execs[o].waiters, g) => Contains(execs'[o].waiters, g)
       /\ \A o \in Frame : (o = f => ~ Begins(f, got, r, j, run)) =>
            execs'[o].key = execs[o].key /\ execs'[o].state = execs[o].state
  <2>1. CASE Joins(f, got, r, j, run)
    <3>1. /\ run.task \in Frame /\ execs[run.task].key = j
          /\ execs' = [execs EXCEPT ![run.task].waiters = Append(@, f)]
      BY <2>1 DEF Joins
    <3>2. execs[run.task].waiters \in Seq(Frame) /\ execs[run.task] \in Execution
      BY <1>2, <3>1, ExecutionIs
    <3>3. /\ execs'[run.task].waiters = Append(execs[run.task].waiters, f)
          /\ execs'[run.task].key = execs[run.task].key
          /\ execs'[run.task].state = execs[run.task].state
          /\ \A h \in Frame \ {run.task} : execs'[h] = execs[h]
      BY <1>2, <3>1, <3>2 DEF Execution
    <3>4. \A g \in Frame : Contains(Append(execs[run.task].waiters, f), g) <=>
            Contains(execs[run.task].waiters, g) \/ g = f
      BY <3>2, ContainsAppend
    <3>5. ~ Begins(f, got, r, j, run)
      BY <1>9, <2>1
    <3> QED BY <3>1, <3>3, <3>4, <3>5
  <2>2. CASE Repeats(f, got, r, j, run)
    BY <1>9, <2>2 DEF Repeats
  <2>3. CASE Begins(f, got, r, j, run)
    <3>1. /\ execs'[f].key = j /\ execs'[f].waiters = <<f>>
          /\ \A h \in Frame \ {f} : execs'[h] = execs[h]
      BY <1>2, <2>3 DEF Begins
    <3>2. <<>> \in Seq(Frame)
      OBVIOUS
    <3>3. \A g \in Frame : Contains(<<f>>, g) <=> g = f
      BY <3>2, ContainsAppend
    <3>4. ~ Joins(f, got, r, j, run)
      BY <1>9, <2>3
    <3>5. execs[f].waiters = <<>> /\ \A g \in Frame : ~ Contains(<<>>, g)
      <4>1. \A g \in Frame : ~ Contains(<<>>, g)
        BY <3>2, ContainsAppend
      <4>2. execs[f].waiters = <<>>
        BY <1>4 DEF NoExec
      <4> QED BY <4>1, <4>2
    <3> QED BY <2>3, <3>1, <3>3, <3>4, <3>5
  <2> QED BY <1>7, <2>1, <2>2, <2>3
<1>11. QueueInv'
  <2>1. ASSUME NEW g \in Frame
        PROVE  /\ frames'[g].pc \in {"returned", "failed", "cancelled", "doomed"}
                  => Contains(ready', g)
               /\ frames'[g].pc = "waits" => \E o \in Frame : Contains(execs'[o].waiters, g)
               /\ frames'[g].pc = "replays" => ~ frames'[g].own
    <3>1. CASE g = f
      BY <1>7, <1>9, <1>10, <3>1
    <3>2. CASE g # f
      BY <1>8, <1>10, <3>2 DEF QueueInv
    <3> QED BY <3>1, <3>2
  <2> QED BY <2>1 DEF QueueInv
<1>12. \A g \in Frame \ {f} : \A k : Owns(g, k)' <=> Owns(g, k)
  BY <1>8 DEF Owns
<1>13. OwnersInv'
  <2>1. \A k \in DOMAIN r : \A g \in r[k].owners : g # f /\ Owns(g, k) /\ g \in Frame
    BY DEF Left, OwnersInv, RunsOK, Run
  <2>2. \A g \in run.owners : g # f /\ Owns(g, j) /\ g \in Frame
    <3>1. j \notin DOMAIN r => run.owners = {}
      BY <1>0, <1>5, RecoveredOwns DEF Entry
    <3> QED BY <1>5, <2>1, <3>1 DEF Entry
  <2>3. \A k \in DOMAIN runs' : \A g \in runs'[k].owners : Owns(g, k)'
    <3>1. CASE Joins(f, got, r, j, run) /\ runs' = r
      BY <1>12, <2>1, <3>1
    <3>2. CASE Repeats(f, got, r, j, run) /\ runs' = Put(r, j, run)
      BY <1>12, <1>16, <2>1, <2>2, <3>2
    <3>3. CASE Begins(f, got, r, j, run) /\ runs' = Put(r, j, begun)
      <4>1. Owns(f, j)'
        BY <1>8, <1>9, <3>3 DEF Owns, Busy
      <4> QED BY <1>6, <1>12, <1>16, <2>1, <2>2, <3>3, <4>1
    <3> QED BY <1>7, <3>1, <3>2, <3>3
  <2> QED BY <2>3 DEF OwnersInv
<1>14. ASSUME NEW k, Kept(k)
       PROVE  Kept(k)'
  <2>1. Entry(r, k).status = "completed"
    BY <1>14, EntryLeft
  <2>2. k = j => ~ Joins(f, got, r, j, run) /\ ~ Begins(f, got, r, j, run)
    <3>1. run.task \in Frame => run.task # None
      BY NoFrame
    <3> QED BY <1>5, <1>14, <2>1, <3>1 DEF Joins, Begins, Kept, Apart, UnderWay
  <2>3. Recovered(k)' = Recovered(k)
    BY DEF Recovered, LatestIn
  <2>4. Entry(runs', k).status = "completed"
    <3>1. CASE k = j
      BY <1>5, <1>7, <1>16, <2>1, <2>2, <3>1 DEF Entry
    <3>2. CASE k # j
      BY <1>7, <1>16, <2>1, <3>2 DEF Entry
    <3> QED BY <3>1, <3>2
  <2>5. ASSUME NEW g \in Frame
        PROVE  ~ UnderWay(g, k)' /\ ~ Owns(g, k)'
    <3>1. ~ UnderWay(g, k)'
      <4>1. CASE g = f /\ Begins(f, got, r, j, run)
        <5>1. execs'[f].key = j
          BY <1>2, <4>1 DEF Begins
        <5> QED BY <2>2, <4>1, <5>1 DEF UnderWay
      <4>2. CASE ~ (g = f /\ Begins(f, got, r, j, run))
        BY <1>10, <1>14, <4>2 DEF UnderWay, Kept, Apart
      <4> QED BY <4>1, <4>2
    <3>2. ~ Owns(g, k)'
      <4>1. CASE g = f
        BY <1>7, <1>8, <1>9, <2>2, <4>1 DEF Owns
      <4>2. CASE g # f
        BY <1>12, <1>14, <4>2 DEF Kept, Apart
      <4> QED BY <4>1, <4>2
    <3> QED BY <3>1, <3>2
  <2>6. Entry(runs, k)' = Entry(runs', k)
    BY <2>3 DEF Entry
  <2> QED BY <2>4, <2>5, <2>6 DEF Kept, Apart
<1>15. j = IF calls[f[2]][Len(got) + 1] = Unnamed THEN counter + 1
           ELSE calls[f[2]][Len(got) + 1]
  BY <1>1 DEF Enters
<1> QED BY <1>8, <1>11, <1>13, <1>14, <1>15

LEMMA StopKept ==
  ASSUME IInv, QueueInv, OwnersInv, NEW f \in Frame, NEW pc \in {"ended", "raised"}, NEW got,
         frames[f].pc # "waits", NEW r, RunsOK(r), Left(f, r),
         calls' = calls, log' = log, Stop(f, pc, got, r),
         \A g \in Frame \ {f} : Contains(ready, g) => Contains(ready', g)
  PROVE  /\ QueueInv' /\ OwnersInv' /\ \A k : Kept(k) => Kept(k)'
         /\ frames'[f].pc \notin Busy /\ \A g \in Frame \ {f} : frames'[g] = frames[g]
<1> USE Same
<1>1. PICK n \in {NoCall, [NoCall EXCEPT !.pc = pc, !.got = got]} :
        frames' = [frames EXCEPT ![f] = n]
  BY DEF Stop
<1>2. frames \in [Frame -> CallerState]
  BY DEF IInv, TypeOK
<1>3. frames'[f] = n /\ \A g \in Frame \ {f} : frames'[g] = frames[g]
  BY <1>1, <1>2
<1>4. n.pc \in {"none", "ended", "raised"} /\ n.pc \notin Busy
  <2>1. CASE n = NoCall
    BY <2>1 DEF NoCall, Busy
  <2>2. CASE n = [NoCall EXCEPT !.pc = pc, !.got = got]
    <3>1. n.pc = pc
      BY <2>2 DEF NoCall
    <3> QED BY <3>1 DEF Busy
  <2> QED BY <1>1, <2>1, <2>2
<1>5. execs' = execs /\ runs' = r
  BY DEF Stop
<1>6. QueueInv'
  <2>1. ASSUME NEW g \in Frame
        PROVE  /\ frames'[g].pc \in {"returned", "failed", "cancelled", "doomed"}
                  => Contains(ready', g)
               /\ frames'[g].pc = "waits" => \E o \in Frame : Contains(execs'[o].waiters, g)
               /\ frames'[g].pc = "replays" => ~ frames'[g].own
    <3>1. CASE g = f
      BY <1>3, <1>4, <3>1
    <3>2. CASE g # f
      BY <1>3, <1>5, <3>2 DEF QueueInv
    <3> QED BY <3>1, <3>2
  <2> QED BY <2>1 DEF QueueInv
<1>7. /\ \A g \in Frame \ {f} : \A k : Owns(g, k)' <=> Owns(g, k)
      /\ \A k : ~ Owns(f, k)'
  BY <1>3, <1>4 DEF Owns
<1>8. OwnersInv'
  <2>1. \A k \in DOMAIN r : \A g \in r[k].owners : g # f /\ Owns(g, k) /\ g \in Frame
    BY DEF Left, OwnersInv, RunsOK, Run
  <2> QED BY <1>5, <1>7, <2>1 DEF OwnersInv
<1>9. ASSUME NEW k, Kept(k)
      PROVE  Kept(k)'
  <2>1. Recovered(k)' = Recovered(k)
    BY DEF Recovered, LatestIn
  <2>2. Entry(runs, k)' = Entry(r, k)
    BY <1>5, <2>1 DEF Entry
  <2>3. Entry(r, k).status = "completed"
    BY <1>9, EntryLeft
  <2>4. ASSUME NEW g \in Frame
        PROVE  ~ UnderWay(g, k)' /\ ~ Owns(g, k)'
    BY <1>5, <1>7, <1>9 DEF Kept, Apart, UnderWay
  <2> QED BY <2>2, <2>3, <2>4 DEF Kept, Apart
<1> QED BY <1>3, <1>4, <1>6, <1>8, <1>9

-----------------------------------------------------------------------------
(* The steps.                                                              *)

LEMMA RunOfSame ==
  ASSUME calls' = calls, snapshot' = snapshot
  PROVE  \A call : RunOf(call)' = RunOf(call)
BY Same, SameFits DEF RunOf

LEMMA CallerKept ==
  ASSUME IInv, KeepInv, NEW f \in Frame, calls' = calls, snapshot' = snapshot,
         attempt' = attempt,
         kept' = kept, QueueInv', OwnersInv', \A k : Kept(k) => Kept(k)',
         \A g \in Frame \ {f} : frames'[g] = frames[g],
         f \in Mine /\ frames'[f].pc \in Busy =>
           frames'[f].key = RunOf(<<f[2], Len(frames'[f].got) + 1>>)
  PROVE  KeepInv'
<1>1. KeptInv'
  BY RunOfSame DEF KeepInv, KeptInv
<1>2. MineInv'
  <2>1. Mine' = Mine /\ Mine \subseteq Frame
    BY Same DEF Mine, Frame, IInv, TypeOK
  <2>2. ASSUME NEW g \in Mine, frames'[g].pc \in Busy
        PROVE  frames'[g].key = RunOf(CallOf(g))'
    <3>1. CallOf(g)' = <<g[2], Len(frames'[g].got) + 1>>
      BY DEF CallOf
    <3>2. CASE g = f
      BY <2>2, <3>1, <3>2, RunOfSame
    <3>3. CASE g # f
      <4>1. frames'[g] = frames[g] /\ CallOf(g) = <<g[2], Len(frames[g].got) + 1>>
        BY <2>1, <3>3 DEF CallOf
      <4> QED BY <2>2, <3>1, <4>1, RunOfSame DEF KeepInv, MineInv
    <3> QED BY <3>2, <3>3
  <2> QED BY <2>1, <2>2 DEF MineInv
<1> QED BY <1>1, <1>2 DEF KeepInv

LEMMA ReceiveKept ==
  ASSUME IInv, FirstUnnamed, KeepInv, NEW f \in Frame, frames[f].pc \in {"returned", "replays"},
         NEW r, RunsOK(r), Left(f, r), UNCHANGED <<parentVars, log, notes>>, Receive(f, r),
         \A g \in Frame \ {f} : Contains(ready, g) => Contains(ready', g)
  PROVE  KeepInv'
<1> DEFINE old == frames[f].got
           got == Append(old, frames[f].result)
<1>0. /\ TypeOK /\ frames[f].pc # "waits" /\ frames[f].pc \in Busy
      /\ calls' = calls /\ snapshot' = snapshot /\ attempt' = attempt /\ kept' = kept
      /\ log' = log /\ QueueInv /\ OwnersInv
  BY DEF IInv, Busy, parentVars, notes, KeepInv
<1>1. old \in Seq(Result) /\ frames[f].result \in Result
  BY <1>0 DEF TypeOK, CallerState
<1>2. got \in Seq(Result) /\ Len(got) = Len(old) + 1 /\ Len(old) \in Nat
  BY <1>1
<1>3. \/ Len(got) < Len(calls[f[2]]) /\ Enter(f, got, r)
      \/ \E pc \in {"ended", "raised"} : Stop(f, pc, got, r)
  BY DEF Receive
<1> HIDE DEF got, old
<1>4. CASE Len(got) < Len(calls[f[2]]) /\ Enter(f, got, r)
  <2>1. f[2] \in Caller /\ Len(calls[f[2]]) \in Nat /\ DOMAIN calls[f[2]] = 1..Len(calls[f[2]])
    BY <1>0, FrameIs, CallsType
  <2>2. Len(got) + 1 \in DOMAIN calls[f[2]] /\ Len(got) + 1 > 1
    BY <1>2, <1>4, <2>1
  <2>3. calls[f[2]][Len(got) + 1] # Unnamed
    BY <1>0, <2>1, <2>2 DEF FirstUnnamed, TypeOK, Caller
  <2>4. /\ QueueInv' /\ OwnersInv' /\ \A k : Kept(k) => Kept(k)'
        /\ frames'[f].key = IF calls[f[2]][Len(got) + 1] = Unnamed THEN counter + 1
                            ELSE calls[f[2]][Len(got) + 1]
        /\ frames'[f].got = got /\ \A g \in Frame \ {f} : frames'[g] = frames[g]
    BY <1>0, <1>2, <1>4, EnterKept
  <2>5. RunOf(<<f[2], Len(got) + 1>>) = calls[f[2]][Len(got) + 1]
    BY <2>3 DEF RunOf, UnnamedCalls
  <2> QED BY <1>0, <2>3, <2>4, <2>5, CallerKept
<1>5. CASE \E pc \in {"ended", "raised"} : Stop(f, pc, got, r)
  <2>1. PICK pc \in {"ended", "raised"} : Stop(f, pc, got, r)
    BY <1>5
  <2>2. /\ QueueInv' /\ OwnersInv' /\ \A k : Kept(k) => Kept(k)'
        /\ frames'[f].pc \notin Busy /\ \A g \in Frame \ {f} : frames'[g] = frames[g]
    BY <1>0, <2>1, StopKept
  <2> QED BY <1>0, <2>2, CallerKept
<1> QED BY <1>3, <1>4, <1>5

LEMMA TailContains ==
  ASSUME NEW w \in Seq(Frame), w # <<>>, NEW g \in Frame, g # Head(w), Contains(w, g)
  PROVE  Contains(Tail(w), g)
<1>1. PICK i \in 1..Len(w) : w[i] = g
  BY DEF Contains
<1>2. Len(w) \in Nat /\ Head(w) = w[1] /\ Len(Tail(w)) = Len(w) - 1
      /\ \A j \in 1..(Len(w) - 1) : Tail(w)[j] = w[j + 1]
  OBVIOUS
<1>3. i - 1 \in 1..(Len(w) - 1) /\ (i - 1) + 1 = i
  BY <1>1, <1>2
<1>4. Tail(w)[i - 1] = g
  BY <1>1, <1>2, <1>3
<1> QED BY <1>2, <1>3, <1>4 DEF Contains

LEMMA WakeKept ==
  ASSUME IInv, FirstUnnamed, KeepInv, Wake
  PROVE  KeepInv'
<1> DEFINE f == Head(ready)
<1>1. f \in Frame /\ ready \in Seq(Frame) /\ ready # <<>> /\ ready' = Tail(ready)
  BY DEF Wake, IInv, TypeOK
<1>2. /\ UNCHANGED <<parentVars, log, notes>> /\ calls' = calls /\ log' = log
      /\ snapshot' = snapshot /\ attempt' = attempt /\ kept' = kept
      /\ QueueInv /\ OwnersInv
  BY DEF Wake, parentVars, notes, KeepInv
<1>3. \A g \in Frame \ {f} : Contains(ready, g) => Contains(ready', g)
  BY <1>1, TailContains
<1>4. \/ frames[f].pc = "returned" /\ Receive(f, Outcome(f, "completed"))
      \/ /\ frames[f].pc \in Busy \ {"waits"}
         /\ \E pc \in {"ended", "raised"}, r \in {Outcome(f, "failed"), Dropped(f)} :
              Stop(f, pc, frames[f].got, r)
  BY DEF Wake, GiveUp, Busy
<1> HIDE DEF f
<1>5. CASE frames[f].pc = "returned" /\ Receive(f, Outcome(f, "completed"))
  <2>1. frames[f].pc \in Busy
    BY <1>5 DEF Busy
  <2>2. RunsOK(Outcome(f, "completed")) /\ Left(f, Outcome(f, "completed"))
    BY <1>1, <1>2, <2>1, OutcomeFine, LeftIs
  <2> QED BY <1>1, <1>2, <1>3, <1>5, <2>2, ReceiveKept
<1>6. CASE /\ frames[f].pc \in Busy \ {"waits"}
           /\ \E pc \in {"ended", "raised"}, r \in {Outcome(f, "failed"), Dropped(f)} :
                Stop(f, pc, frames[f].got, r)
  <2>1. PICK pc \in {"ended", "raised"}, r \in {Outcome(f, "failed"), Dropped(f)} :
          Stop(f, pc, frames[f].got, r)
    BY <1>6
  <2>2. RunsOK(r) /\ Left(f, r)
    BY <1>1, <1>2, <1>6, OutcomeFine, DroppedFine, LeftIs
  <2>3. /\ QueueInv' /\ OwnersInv' /\ \A k : Kept(k) => Kept(k)'
        /\ frames'[f].pc \notin Busy /\ \A g \in Frame \ {f} : frames'[g] = frames[g]
    BY <1>1, <1>2, <1>3, <1>6, <2>1, <2>2, StopKept
  <2> QED BY <1>1, <1>2, <2>3, CallerKept
<1> QED BY <1>4, <1>5, <1>6

LEMMA ReplayingKept ==
  ASSUME IInv, FirstUnnamed, KeepInv, NEW f \in Frame,
         Replay(f) \/ Diverge(f) \/ CancelReplaying(f)
  PROVE  KeepInv'
<1>1. /\ UNCHANGED <<parentVars, log, notes>> /\ calls' = calls /\ log' = log /\ ready' = ready
      /\ snapshot' = snapshot /\ attempt' = attempt /\ kept' = kept
      /\ QueueInv /\ OwnersInv /\ RunsOK(runs)
  BY DEF Replay, Diverge, CancelReplaying, parentVars, notes, KeepInv, RunsOK, IInv, TypeOK
<1>2. frames[f].pc = "replays" /\ Left(f, runs)
  <2>1. frames[f].pc = "replays"
    BY DEF Replay, Diverge, CancelReplaying
  <2>2. ~ frames[f].own
    BY <1>1, <2>1 DEF QueueInv
  <2> QED BY <1>1, <2>1, <2>2, LeftSame
<1>3. CASE Replay(f)
  BY <1>1, <1>2, <1>3, ReceiveKept DEF Replay
<1>4. CASE Diverge(f) \/ CancelReplaying(f)
  <2>1. PICK pc \in {"ended", "raised"} : Stop(f, pc, frames[f].got, runs)
    BY <1>4 DEF Diverge, CancelReplaying, GiveUp
  <2>2. /\ QueueInv' /\ OwnersInv' /\ \A k : Kept(k) => Kept(k)'
        /\ frames'[f].pc \notin Busy /\ \A g \in Frame \ {f} : frames'[g] = frames[g]
    BY <1>1, <1>2, <2>1, StopKept
  <2> QED BY <1>1, <2>2, CallerKept
<1> QED BY <1>3, <1>4

LEMMA StartCallerKept ==
  ASSUME IInv, FitInv, KeepInv, StartCaller
  PROVE  KeepInv'
<1> DEFINE f == <<attempt, starting>>
           got == <<>>
<1>1. /\ f \in Frame /\ f[2] = starting /\ TypeOK /\ starting \in Caller
  BY DEF IInv, TypeOK, Frame
<1>2. frames[f] = NoCall
  <2>1. starting \in Nat
    BY <1>1, CallsType
  <2>2. f[1] = attempt /\ f[2] >= starting /\ parent = "calls"
    BY <1>1, <2>1 DEF StartCaller
  <2> QED BY <1>1, <2>2 DEF FreshInv, IInv
<1>3. /\ got \in Seq(Result) /\ Len(got) = 0 /\ Len(calls[starting]) \in Nat \ {0}
  BY <1>1, CallsType
<1>4. /\ Enter(f, got, runs) /\ calls' = calls /\ log' = log /\ snapshot' = snapshot
      /\ attempt' = attempt /\ kept' = kept /\ ready' = ready /\ QueueInv /\ OwnersInv
      /\ RunsOK(runs)
  BY DEF StartCaller, notes, KeepInv, RunsOK, IInv, TypeOK
<1>5. calls[starting][1] = Unnamed => counter + 1 = snapshot + Nth(starting)
  <2>1. starting - 1 \in Nat /\ starting = (starting - 1) + 1 /\ snapshot \in Nat
    <3>1. starting \in Nat \ {0}
      BY <1>1, CallsType
    <3>2. snapshot \in Nat
      BY <1>1 DEF TypeOK
    <3> QED BY <3>1, <3>2
  <2>2. Nth(starting - 1) \in Nat
    BY <2>1, NthCounts
  <2>3. calls[starting][1] = Unnamed => Nth(starting) = Nth(starting - 1) + 1
    BY <2>1, NthNext
  <2>4. counter = snapshot + Nth(starting - 1)
    BY DEF StartCaller, FitInv, CountFits
  <2> QED BY <2>1, <2>2, <2>3, <2>4
<1>6. Left(f, runs) /\ frames[f].pc # "waits"
  <2>1. ~ frames[f].own /\ frames[f].pc # "waits"
    BY <1>2 DEF NoCall
  <2> QED BY <1>1, <1>4, <2>1, LeftSame
<1>7. Len(got) < Len(calls[f[2]])
  BY <1>1, <1>3
<1> HIDE DEF f, got
<1>8. /\ QueueInv' /\ OwnersInv' /\ \A k : Kept(k) => Kept(k)'
      /\ frames'[f].key = IF calls[f[2]][Len(got) + 1] = Unnamed THEN counter + 1
                          ELSE calls[f[2]][Len(got) + 1]
      /\ frames'[f].got = got /\ \A g \in Frame \ {f} : frames'[g] = frames[g]
  BY <1>1, <1>3, <1>4, <1>6, <1>7, EnterKept
<1>9. RunOf(<<starting, 1>>) = IF calls[starting][1] = Unnamed THEN snapshot + Nth(starting)
                               ELSE calls[starting][1]
  <2>1. <<starting, 1>> \in Call
    BY <1>1, <1>3, CallIs, CallsType
  <2> QED BY <2>1 DEF RunOf, UnnamedCalls
<1>10. frames'[f].key = RunOf(<<f[2], Len(frames'[f].got) + 1>>)
  <2>1. Len(got) + 1 = 1
    BY <1>3
  <2> QED BY <1>1, <1>5, <1>8, <1>9, <2>1
<1> QED BY <1>1, <1>4, <1>8, <1>10, CallerKept

\* Steps that leave the callers at their calls, and begin no execution
LEMMA StillKept ==
  ASSUME IInv, KeepInv, UNCHANGED <<parentVars, notes, runs>>, QueueInv',
         \A g \in Frame : /\ frames'[g].pc \in Busy <=> frames[g].pc \in Busy
                          /\ frames'[g].own = frames[g].own /\ frames'[g].key = frames[g].key
                          /\ frames'[g].got = frames[g].got
                          /\ execs'[g].state # "none" =>
                               execs[g].state # "none" /\ execs'[g].key = execs[g].key,
         \A k : Apart(k) => Recovered(k)' = Recovered(k)
  PROVE  KeepInv'
<1> USE Same
<1>1. /\ calls' = calls /\ snapshot' = snapshot /\ attempt' = attempt /\ kept' = kept
      /\ runs' = runs
  BY DEF parentVars, notes
<1>2. \A g \in Frame : \A k : Owns(g, k)' <=> Owns(g, k)
  BY DEF Owns
<1>3. OwnersInv'
  <2>1. \A k \in DOMAIN runs : \A g \in runs[k].owners : g \in Frame
    BY DEF IInv, TypeOK, Run
  <2> QED BY <1>1, <1>2, <2>1 DEF OwnersInv, KeepInv
<1>4. ASSUME NEW k, Kept(k)
      PROVE  Kept(k)'
  <2>1. Entry(runs, k)' = Entry(runs, k)
    BY <1>1, <1>4 DEF Entry, Kept
  <2>2. \A g \in Frame : ~ UnderWay(g, k)' /\ ~ Owns(g, k)'
    BY <1>2, <1>4 DEF Kept, Apart, UnderWay
  <2> QED BY <1>1, <1>4, <2>1, <2>2 DEF Kept, Apart
<1>5. KeptInv'
  BY <1>1, <1>4, RunOfSame DEF KeepInv, KeptInv
<1>6. MineInv'
  <2>1. Mine' = Mine /\ Mine \subseteq Frame
    BY <1>1 DEF Mine, Frame, IInv, TypeOK
  <2>2. \A g \in Mine : RunOf(CallOf(g))' = RunOf(CallOf(g))
    <3>1. \A g \in Mine : CallOf(g)' = CallOf(g)
      BY <2>1 DEF CallOf
    <3> QED BY <1>1, <3>1, RunOfSame
  <2> QED BY <2>1, <2>2 DEF KeepInv, MineInv
<1> QED BY <1>3, <1>5, <1>6 DEF KeepInv

\* An event of a run that is under way says nothing of the others
LEMMA LoggedApart ==
  ASSUME IInv, NEW o \in Frame, execs[o].state # "none", NEW e, e.key = execs[o].key,
         log' = Append(log, e), NEW k, Apart(k)
  PROVE  Recovered(k)' = Recovered(k)
<1>1. e.key # k
  BY NoFrame DEF Apart, UnderWay
<1>2. log \in Seq(Event)
  BY DEF IInv, TypeOK, Event
<1> HIDE DEF Event
<1>3. /\ Len(log) \in Nat /\ DOMAIN log = 1..Len(log) /\ DOMAIN log' = 1..(Len(log) + 1)
      /\ \A i \in 1..Len(log) : log'[i] = log[i]
      /\ log'[Len(log) + 1] = e
  BY <1>2
<1>4. LatestIn(log', k) = LatestIn(log, k)
  <2>1. ASSUME NEW i \in LatestIn(log, k)
        PROVE  i \in LatestIn(log', k)
    BY <1>1, <1>3 DEF LatestIn
  <2>2. ASSUME NEW i \in LatestIn(log', k)
        PROVE  i \in LatestIn(log, k)
    <3>1. i \in DOMAIN log' /\ log'[i].key = k /\ \A j \in DOMAIN log' : j > i => log'[j].key # k
      BY DEF LatestIn
    <3>2. i \in DOMAIN log
      BY <1>1, <1>3, <3>1
    <3> QED BY <1>3, <3>1, <3>2 DEF LatestIn
  <2> QED BY <2>1, <2>2
<1>5. CASE LatestIn(log, k) = {}
  BY <1>4, <1>5 DEF Recovered
<1>6. CASE LatestIn(log, k) # {}
  <2> DEFINE i == CHOOSE i \in LatestIn(log, k) : TRUE
  <2>1. i \in DOMAIN log
    BY <1>6 DEF LatestIn
  <2>2. log'[i] = log[i]
    BY <1>3, <2>1
  <2> QED BY <1>4, <1>6, <2>2 DEF Recovered
<1> QED BY <1>5, <1>6

LEMMA RecordKept ==
  ASSUME IInv, KeepInv, NEW f \in Frame, Record(f)
  PROVE  KeepInv'
<1>1. /\ execs' = [execs EXCEPT ![f].state = "recorded"] /\ execs[f].state = "running"
      /\ UNCHANGED <<parentVars, notes, runs>> /\ frames' = frames /\ ready' = ready
      /\ calls' = calls
      /\ log' = Append(log, [key |-> execs[f].key, call |-> CallOf(f), output |-> TRUE])
  BY DEF Record, parentVars
<1>2. execs \in [Frame -> Execution]
  BY DEF IInv, TypeOK
<1>3. \A o \in Frame : /\ execs'[o].waiters = execs[o].waiters /\ execs'[o].key = execs[o].key
                       /\ execs'[o].state # "none" => execs[o].state # "none"
  <2>1. /\ execs'[f] = [execs[f] EXCEPT !.state = "recorded"] /\ execs[f] \in Execution
        /\ \A o \in Frame \ {f} : execs'[o] = execs[o]
    BY <1>1, <1>2
  <2> QED BY <1>1, <2>1 DEF Execution
<1>4. QueueInv'
  BY <1>1, <1>3, Same DEF KeepInv, QueueInv
<1>5. ASSUME NEW k, Apart(k)
      PROVE  Recovered(k)' = Recovered(k)
  <2> DEFINE e == [key |-> execs[f].key, call |-> CallOf(f), output |-> TRUE]
  <2>1. e.key = execs[f].key /\ log' = Append(log, e) /\ execs[f].state # "none"
    BY <1>1
  <2> HIDE DEF e
  <2> QED BY <1>5, <2>1, LoggedApart
<1> QED BY <1>1, <1>3, <1>4, <1>5, StillKept

LEMMA ContainsBoth ==
  ASSUME NEW v \in Seq(Frame), NEW w \in Seq(Frame), NEW g \in Frame
  PROVE  Contains(v, g) \/ Contains(w, g) => Contains(v \o w, g)
<1>1. /\ Len(v) \in Nat /\ Len(w) \in Nat /\ Len(v \o w) = Len(v) + Len(w)
      /\ \A i \in 1..Len(v) : (v \o w)[i] = v[i]
      /\ \A i \in 1..Len(w) : (v \o w)[Len(v) + i] = w[i]
  OBVIOUS
<1>2. ASSUME Contains(v, g)
      PROVE  Contains(v \o w, g)
  <2>1. PICK i \in 1..Len(v) : v[i] = g
    BY <1>2 DEF Contains
  <2>2. i \in 1..Len(v \o w)
    BY <1>1, <2>1
  <2> QED BY <1>1, <2>1, <2>2 DEF Contains
<1>3. ASSUME Contains(w, g)
      PROVE  Contains(v \o w, g)
  <2>1. PICK i \in 1..Len(w) : w[i] = g
    BY <1>3 DEF Contains
  <2>2. Len(v) + i \in 1..Len(v \o w)
    BY <1>1, <2>1
  <2> QED BY <1>1, <2>1, <2>2 DEF Contains
<1> QED BY <1>2, <1>3

LEMMA WokenKept ==
  ASSUME IInv, KeepInv, NEW o \in Frame, Woken(o), UNCHANGED <<parentVars, notes, runs>>,
         \A g \in Frame : Contains(execs[o].waiters, g) =>
           frames'[g].pc \in {"returned", "failed", "cancelled", "doomed"},
         \A k : Apart(k) => Recovered(k)' = Recovered(k)
  PROVE  KeepInv'
<1>1. calls' = calls
  BY DEF parentVars
<1>2. /\ execs \in [Frame -> Execution] /\ ready \in Seq(Frame)
      /\ execs[o].waiters \in Seq(Frame) /\ ready' = ready \o execs[o].waiters
  BY ExecutionIs DEF IInv, TypeOK, Woken
<1>3. execs'[o] = NoExec /\ \A g \in Frame \ {o} : execs'[g] = execs[g]
  BY <1>2 DEF Woken
<1>4. \A g \in Frame : Contains(execs[o].waiters, g) => frames[g].pc = "waits"
  BY DEF IInv, WaitInv
<1>5. QueueInv'
  <2>1. ASSUME NEW g \in Frame
        PROVE  /\ frames'[g].pc \in {"returned", "failed", "cancelled", "doomed"}
                  => Contains(ready', g)
               /\ frames'[g].pc = "waits" => \E h \in Frame : Contains(execs'[h].waiters, g)
               /\ frames'[g].pc = "replays" => ~ frames'[g].own
    <3>1. CASE Contains(execs[o].waiters, g)
      BY <1>2, <3>1, ContainsBoth
    <3>2. CASE ~ Contains(execs[o].waiters, g)
      <4>1. frames'[g] = frames[g]
        BY <3>2 DEF Woken
      <4>2. Contains(ready, g) => Contains(ready', g)
        BY <1>2, ContainsBoth
      <4>3. frames[g].pc = "waits" => \E h \in Frame : Contains(execs'[h].waiters, g)
        <5>1. frames[g].pc = "waits" => \E h \in Frame : Contains(execs[h].waiters, g)
          BY DEF KeepInv, QueueInv
        <5> QED BY <1>3, <3>2, <5>1
      <4> QED BY <4>1, <4>2, <4>3 DEF KeepInv, QueueInv
    <3> QED BY <3>1, <3>2
  <2> QED BY <1>1, <2>1, Same DEF QueueInv
<1>6. \A g \in Frame : /\ frames'[g].pc \in Busy <=> frames[g].pc \in Busy
                       /\ frames'[g].own = frames[g].own /\ frames'[g].key = frames[g].key
                       /\ frames'[g].got = frames[g].got
  BY <1>4 DEF Woken, Busy
<1>7. \A g \in Frame : execs'[g].state # "none" =>
                         execs[g].state # "none" /\ execs'[g].key = execs[g].key
  BY <1>3 DEF NoExec
<1> QED BY <1>5, <1>6, <1>7, StillKept

LEMMA EndsKept ==
  ASSUME IInv, KeepInv, NEW f \in Frame, Return(f) \/ Fail(f)
  PROVE  KeepInv'
<1>1. PICK pc \in {"returned", "failed"} : Ends(f, pc)
  BY DEF Return, Fail
<1>2. execs[f].state # "none" /\ UNCHANGED <<parentVars, notes, runs>>
  BY DEF Return, Fail
<1>3. Woken(f) /\ frames \in [Frame -> CallerState]
  BY <1>1, <1>2, EndsWakes DEF IInv, TypeOK
<1>4. ASSUME NEW g \in Frame, Contains(execs[f].waiters, g)
      PROVE  frames'[g].pc = pc
  <2>1. frames'[g] = [frames[g] EXCEPT !.pc = pc, !.result = CallOf(f)]
    BY <1>1, <1>4 DEF Ends
  <2> QED BY <1>3, <2>1 DEF CallerState
<1>5. ASSUME NEW k, Apart(k)
      PROVE  Recovered(k)' = Recovered(k)
  <2>1. CASE Return(f)
    BY <2>1 DEF Return, Recovered, LatestIn
  <2>2. CASE Fail(f)
    <3> DEFINE e == [key |-> execs[f].key, call |-> CallOf(f), output |-> FALSE]
    <3>1. e.key = execs[f].key /\ log' = Append(log, e)
      BY <2>2 DEF Fail
    <3> HIDE DEF e
    <3> QED BY <1>2, <1>5, <3>1, LoggedApart
  <2> QED BY <2>1, <2>2
<1> QED BY <1>2, <1>3, <1>4, <1>5, WokenKept

LEMMA CancelWaitingKept ==
  ASSUME IInv, KeepInv, NEW f \in Frame, CancelWaiting(f)
  PROVE  KeepInv'
<1>1. /\ UNCHANGED <<parentVars, notes, runs>> /\ calls' = calls
      /\ \A k : Recovered(k)' = Recovered(k)
  BY DEF CancelWaiting, parentVars, Recovered, LatestIn
<1>2. ASSUME NEW o \in Frame, Contains(execs[o].waiters, f),
             frames' = [g \in Frame |-> IF g = f THEN [frames[g] EXCEPT !.pc = "doomed"]
                                        ELSE IF Contains(execs[o].waiters, g)
                                             THEN [frames[g] EXCEPT !.pc = "cancelled"]
                                        ELSE frames[g]],
             ready' = ready \o execs[o].waiters, execs' = [execs EXCEPT ![o] = NoExec]
      PROVE  KeepInv'
  <2>1. /\ Woken(o)
        /\ \A g \in Frame : Contains(execs[o].waiters, g) =>
             frames'[g].pc \in {"doomed", "cancelled"}
    BY <1>2, CancelWakes
  <2> QED BY <1>1, <2>1, WokenKept
<1>3. CASE /\ frames[f].pc \in {"returned", "failed", "cancelled"}
           /\ frames' = [frames EXCEPT ![f].pc = "doomed"]
           /\ UNCHANGED <<execs, ready>>
  <2>1. frames \in [Frame -> CallerState]
    BY DEF IInv, TypeOK
  <2>2. /\ frames'[f] = [frames[f] EXCEPT !.pc = "doomed"] /\ frames[f] \in CallerState
        /\ \A g \in Frame \ {f} : frames'[g] = frames[g]
    BY <1>3, <2>1
  <2>3. /\ frames'[f].pc = "doomed" /\ frames'[f].got = frames[f].got
        /\ frames'[f].key = frames[f].key /\ frames'[f].own = frames[f].own
        /\ frames[f].pc \in Busy /\ frames'[f].pc \in Busy
    BY <1>3, <2>2 DEF CallerState, Busy
  <2>4. QueueInv'
    <3>1. ASSUME NEW g \in Frame
          PROVE  /\ frames'[g].pc \in {"returned", "failed", "cancelled", "doomed"}
                    => Contains(ready, g)
                 /\ frames'[g].pc = "waits" => \E o \in Frame : Contains(execs[o].waiters, g)
                 /\ frames'[g].pc = "replays" => ~ frames'[g].own
      <4>1. CASE g = f
        BY <1>3, <2>3, <4>1 DEF KeepInv, QueueInv
      <4>2. CASE g # f
        BY <2>2, <4>2 DEF KeepInv, QueueInv
      <4> QED BY <4>1, <4>2
    <3> QED BY <1>1, <1>3, <3>1, Same DEF QueueInv
  <2>5. \A g \in Frame : /\ frames'[g].pc \in Busy <=> frames[g].pc \in Busy
                         /\ frames'[g].own = frames[g].own /\ frames'[g].key = frames[g].key
                         /\ frames'[g].got = frames[g].got
    BY <2>2, <2>3
  <2> QED BY <1>1, <1>3, <2>4, <2>5, StillKept
<1> QED BY <1>2, <1>3 DEF CancelWaiting

LEMMA RetryKept ==
  ASSUME IInv, FitInv, KeepInv, Retry
  PROVE  KeepInv'
<1> USE Same
<1>1. /\ frames' = [f \in Frame |-> IF frames[f].pc \in {"ended", "raised"} THEN NoCall
                                    ELSE frames[f]]
      /\ calls' = calls /\ runs' = runs /\ execs' = execs /\ log' = log
      /\ ready = <<>> /\ ready' = ready /\ attempt' = attempt + 1
      /\ snapshot' = Rewound
      /\ kept' = IF ended = "child" THEN {call \in Served : Stays(RunOf(call))} ELSE {}
  BY DEF Retry
<1>2. ASSUME NEW f \in Frame
      PROVE  /\ frames'[f].pc \in Busy => frames'[f] = frames[f]
             /\ frames[f].pc \in Busy => frames'[f] = frames[f]
  <2>1. NoCall.pc \notin Busy
    BY DEF NoCall, Busy
  <2> QED BY <1>1, <2>1 DEF Busy
<1>3. QueueInv'
  BY <1>1, <1>2 DEF KeepInv, QueueInv, Busy
<1>4. \A g \in Frame : \A k : Owns(g, k)' <=> Owns(g, k)
  BY <1>2 DEF Owns
<1>5. OwnersInv'
  <2>1. \A k \in DOMAIN runs : \A g \in runs[k].owners : g \in Frame
    BY DEF IInv, TypeOK, Run
  <2> QED BY <1>1, <1>4, <2>1 DEF OwnersInv, KeepInv
<1>6. MineInv'
  <2>1. ASSUME NEW f \in Frame, f[1] = attempt + 1
        PROVE  frames'[f].pc \notin Busy
    <3>1. attempt \in Nat
      BY BoundsAssumption DEF IInv, TypeOK
    <3>2. frames[f] = NoCall
      BY <2>1, <3>1 DEF IInv, FreshInv
    <3> QED BY <1>2, <3>2 DEF NoCall, Busy
  <2>2. attempt + 1 \in 1..MaxAttempts
    BY BoundsAssumption DEF Retry, IInv, TypeOK
  <2>3. Mine' = {<<attempt + 1, c>> : c \in Caller}
    BY <1>1 DEF Mine
  <2>4. \A f \in Mine' : f \in Frame /\ f[1] = attempt + 1
    BY <2>2, <2>3 DEF Frame
  <2> QED BY <2>1, <2>4 DEF MineInv
\* The queue is empty: who owns an execution waits for it, and so it is under way
<1>7. ASSUME NEW k, NEW f \in Frame, Owns(f, k)
      PROVE  \E o \in Frame : UnderWay(o, k)
  <2>1. ~ Contains(ready, f)
    <3>1. <<>> \in Seq(Frame)
      OBVIOUS
    <3> QED BY <1>1, <3>1, ContainsAppend
  <2>2. frames[f].pc = "waits"
    BY <1>7, <2>1 DEF Owns, Busy, KeepInv, QueueInv
  <2>3. PICK o \in Frame : Contains(execs[o].waiters, f)
    BY <2>2 DEF KeepInv, QueueInv
  <2>4. execs[o].key = k
    BY <1>7, <2>3 DEF FitInv, FrameFits, Owns
  <2>5. execs[o].state # "none"
    <3>1. <<>> \in Seq(Frame)
      OBVIOUS
    <3>2. ~ Contains(<<>>, f)
      BY <3>1, ContainsAppend
    <3> QED BY <2>3, <3>2 DEF IInv, WaitInv, NoExec
  <2> QED BY <2>4, <2>5, NoFrame DEF UnderWay
<1>8. ASSUME NEW call \in kept'
      PROVE  Kept(RunOf(call))'
  <2>1. ended = "child" /\ Stays(RunOf(call))
    BY <1>1, <1>8
  <2>2. snapshot' = snapshot
    BY <1>1, <2>1 DEF Rewound
  <2>3. RunOf(call)' = RunOf(call)
    BY <1>1, <2>2, RunOfSame
  <2> DEFINE k == RunOf(call)
  <2>4. Entry(runs, k).status = "completed" /\ \A f \in Frame : ~ UnderWay(f, k)
    BY <2>1 DEF Stays
  <2>5. k' = k
    BY <2>3
  <2> HIDE DEF k
  <2>6. \A f \in Frame : ~ Owns(f, k)
    BY <1>7, <2>4
  <2>7. Entry(runs, k)' = Entry(runs, k)
    BY <1>1, <2>5 DEF Entry, Recovered, LatestIn
  <2>8. \A f \in Frame : ~ UnderWay(f, k)' /\ ~ Owns(f, k)'
    BY <1>1, <1>4, <2>4, <2>5, <2>6 DEF UnderWay, Owns
  <2>9. Kept(k)'
    BY <1>1, <2>4, <2>7, <2>8 DEF Kept, Apart
  <2> QED BY <2>9 DEF k
<1>9. KeptInv'
  BY <1>8 DEF KeptInv
<1> QED BY <1>3, <1>5, <1>6, <1>9 DEF KeepInv

LEMMA InitKept ==
  ASSUME Init, IInv
  PROVE  KeepInv
<1>1. /\ \A f \in Frame : frames[f].pc = "none"
      /\ DOMAIN runs = {} /\ kept = {} /\ Mine \subseteq Frame
  BY DEF Init, NoCall, IInv, TypeOK, Mine, Frame
<1> QED BY <1>1 DEF KeepInv, QueueInv, OwnersInv, MineInv, KeptInv, Busy

LEMMA OverKept ==
  ASSUME IInv, IInv', NEW how, Over(how)
  PROVE  KeepInv'
<1>1. /\ runs' = <<>> /\ kept' = {} /\ calls' = calls /\ frames' = [f \in Frame |-> NoCall]
  BY DEF Over
<1>2. \A f \in Frame' : frames'[f].pc = "none"
  BY <1>1, Same DEF NoCall
<1>3. Mine' \subseteq Frame'
  BY DEF IInv, TypeOK, Mine, Frame
<1>4. DOMAIN runs' = {}
  BY <1>1
<1> QED BY <1>1, <1>2, <1>3, <1>4 DEF KeepInv, QueueInv, OwnersInv, MineInv, KeptInv, Busy

LEMMA IdleKept ==
  ASSUME IInv, KeepInv, NextTurn \/ UNCHANGED vars
  PROVE  KeepInv'
<1> USE Same
<1>1. /\ calls' = calls /\ log' = log /\ frames' = frames /\ execs' = execs /\ runs' = runs
      /\ snapshot' = snapshot /\ attempt' = attempt /\ ready' = ready /\ kept' = kept
  BY DEF NextTurn, vars, parentVars, memory, notes
<1>2. \A k : Kept(k)' <=> Kept(k)
  <2>1. \A k : Recovered(k)' = Recovered(k)
    BY <1>1 DEF Recovered, LatestIn
  <2>2. \A k : Entry(runs, k)' = Entry(runs, k)
    BY <1>1, <2>1 DEF Entry
  <2>3. \A k : Apart(k)' <=> Apart(k)
    BY <1>1 DEF Apart, UnderWay, Owns
  <2> QED BY <2>2, <2>3 DEF Kept
<1>3. KeptInv'
  BY <1>1, <1>2, RunOfSame DEF KeepInv, KeptInv
<1>4. QueueInv' /\ OwnersInv'
  BY <1>1 DEF KeepInv, QueueInv, OwnersInv, Owns
<1>5. MineInv'
  <2>1. Mine' = Mine /\ \A f : CallOf(f)' = CallOf(f)
    BY <1>1 DEF Mine, CallOf
  <2>2. \A f : RunOf(CallOf(f))' = RunOf(CallOf(f))
    BY <1>1, <2>1, RunOfSame
  <2> QED BY <1>1, <2>1, <2>2 DEF KeepInv, MineInv
<1> QED BY <1>3, <1>4, <1>5 DEF KeepInv

LEMMA NextKept ==
  ASSUME IInv, IInv', FirstUnnamed, FitInv, KeepInv, [Next]_vars
  PROVE  KeepInv'
<1>1. CASE Complete \/ GiveOver \/ Crash
  <2>1. PICK how : Over(how)
    BY <1>1 DEF Complete, GiveOver, Crash
  <2> QED BY <2>1, OverKept
<1>2. ASSUME NEW f \in Frame, \/ Record(f) \/ Return(f) \/ Fail(f) \/ Replay(f) \/ Diverge(f)
                              \/ CancelWaiting(f) \/ CancelReplaying(f)
      PROVE  KeepInv'
  BY <1>2, RecordKept, EndsKept, ReplayingKept, CancelWaitingKept
<1> QED BY <1>1, <1>2, StartCallerKept, RetryKept, IdleKept, WakeKept DEF Next

\* An execution that begins leaves the parent and what the retry keeps as they are
LEMMA StartsIn ==
  ASSUME IInv, [Next]_vars, NEW f \in Frame, Starts(f)
  PROVE  calls' = calls /\ attempt' = attempt /\ kept' = kept
<1>1. CASE Complete \/ GiveOver \/ Crash
  <2>1. PICK how : Over(how)
    BY <1>1 DEF Complete, GiveOver, Crash
  <2> QED BY <2>1 DEF Over, NoExec, Starts
<1>2. CASE Retry
  BY <1>2 DEF Retry, Starts
<1>3. CASE StartCaller \/ NextTurn \/ Wake \/ UNCHANGED vars
  BY <1>3 DEF StartCaller, NextTurn, Wake, vars, parentVars, notes
<1>4. ASSUME NEW g \in Frame, \/ Record(g) \/ Return(g) \/ Fail(g) \/ Replay(g) \/ Diverge(g)
                              \/ CancelWaiting(g) \/ CancelReplaying(g)
      PROVE  calls' = calls /\ attempt' = attempt /\ kept' = kept
  BY <1>4 DEF Record, Return, Fail, Replay, Diverge, CancelWaiting, CancelReplaying,
              parentVars, notes
<1> QED BY <1>1, <1>2, <1>3, <1>4 DEF Next

\* No call of the attempt that the retry keeps is being executed
Idle == \A f \in Mine : execs[f].state # "none" => <<f[2], Len(frames[f].got) + 1>> \notin kept

LEMMA KeptIdle ==
  ASSUME IInv, FitInv, KeepInv
  PROVE  Idle
<1> SUFFICES ASSUME NEW f \in Mine, execs[f].state # "none"
             PROVE  CallOf(f) \notin kept
  BY DEF Idle, CallOf
<1>1. f \in Frame
  BY DEF Mine, Frame, IInv, TypeOK
<1>2. Contains(execs[f].waiters, f) /\ frames[f].pc \in Busy
  BY <1>1 DEF IInv, WaitInv, Busy
<1>3. execs[f].key = frames[f].key /\ frames[f].key = RunOf(CallOf(f))
  BY <1>1, <1>2 DEF FitInv, FrameFits, KeepInv, MineInv
<1>4. UnderWay(f, RunOf(CallOf(f)))
  BY <1>1, <1>3, NoFrame DEF UnderWay
<1> QED BY <1>1, <1>4 DEF KeepInv, KeptInv, Kept, Apart

\* After the failure of a child the retry begins no execution for a call that the failed
\* attempt had completed, callers making one unnamed call each, as their first
\* (_reset_dynamic_children_for_retry, run_node).
THEOREM RetryReplaysHolds ==
  ASSUME FirstUnnamed
  PROVE  Spec => RetryReplays
<1> DEFINE Inv == IInv /\ FitInv /\ KeepInv
<1>1. Init => Inv
  BY InitHolds, InitFits, InitKept DEF IInv
<1>2. Inv /\ [Next]_vars => Inv'
  BY NextKeeps, NextFits, NextKept
<1>3. Inv => Idle
  BY KeptIdle
<1>4. ASSUME Inv, Idle', [Next]_vars, NEW f \in Mine, Starts(f)
      PROVE  <<f[2], Len(frames'[f].got) + 1>> \notin kept
  <2>1. f \in Frame
    BY <1>4 DEF IInv, TypeOK, Mine, Frame
  <2>2. calls' = calls /\ attempt' = attempt /\ kept' = kept
    BY <1>4, <2>1, StartsIn
  <2>3. f \in Mine' /\ execs'[f].state # "none"
    BY <1>4, <2>2, Same DEF Mine, Starts
  <2> QED BY <1>4, <2>2, <2>3 DEF Idle
<1>5. Inv /\ Idle' /\ [Next]_vars =>
        [\A f \in Mine : Starts(f) => <<f[2], Len(frames'[f].got) + 1>> \notin kept]_vars
  BY <1>4
<1> HIDE DEF Inv
<1> QED BY <1>1, <1>2, <1>3, <1>5, PTL DEF Spec, RetryReplays
=============================================================================
