--------------------------- MODULE LlmFlow_proofs ---------------------------
(***************************************************************************)
(* Proofs about the safety of LlmFlow for any tools, any number of turns   *)
(* and any number of mishaps.  Every decision of the flow is read off the  *)
(* log, so the inductive invariant is about the order of its events; each  *)
(* step appends at most one.  A second one, LongInv, is about what keeps   *)
(* the flow from a long-running call that has no answer yet.               *)
(***************************************************************************)
EXTENDS LlmFlow, FiniteSetTheorems, WellFoundedInduction, TLAPS

Ruled == UNION {log[i].yes \cup log[i].no : i \in DOMAIN log}

MadeBefore(c, j) == \E i \in 1..(j - 1) : c \in log[i].calls
RuledBefore(c, j) == \E i \in 1..(j - 1) : c \in log[i].yes \cup log[i].no

(* Only the user decides, a call is made once, answers, requests and       *)
(* decisions are about calls made before, and what a gated call returned   *)
(* comes from the agent and after a decision of the user.                  *)
DecidedByUser == \A i \in DOMAIN log :
  log[i].by = "agent" => log[i].yes = {} /\ log[i].no = {}
MadeOnce == \A i, j \in DOMAIN log : i # j => log[i].calls \cap log[j].calls = {}
About(e) == Responses(e) \cup e.asks \cup e.yes \cup e.no
AboutMade == \A j \in DOMAIN log : \A c \in About(log[j]) : MadeBefore(c, j)
GatedRuled == \A j \in DOMAIN log : \A c \in log[j].results \cap Gated :
  log[j].by = "agent" /\ RuledBefore(c, j)

LogInv == DecidedByUser /\ MadeOnce /\ AboutMade /\ GatedRuled

(* The user speaks first.                                                  *)
Heard == /\ log # <<>> => \E i \in DOMAIN log : log[i].by = "user"
         /\ pc # "off" => log # <<>>

(* What a batch runs has been made and, if gated, been decided; its events *)
(* are answers of its calls and requests for those that are held.          *)
BatchInv == /\ batch.open \cup batch.done \cup batch.held \subseteq Made
            /\ (batch.open \cup batch.done) \cap Gated \subseteq Ruled
FromBatch(e) == /\ e.by = "agent" /\ e.calls = {} /\ e.yes = {} /\ e.no = {}
                /\ e.sealed = {} /\ e.results \subseteq batch.done
                /\ e.held \subseteq batch.held /\ e.asks \subseteq batch.held
OutInv == /\ pc # "emit" => out = <<>>
          /\ \A k \in DOMAIN out : FromBatch(out[k])

IInv == TypeOK /\ LogInv /\ Heard /\ BatchInv /\ OutInv

-----------------------------------------------------------------------------
(* The latest of some positions exists.                                    *)

LEMMA LatestIs ==
  ASSUME NEW n \in Nat, NEW S, S \subseteq 1..n, S # {}
  PROVE  Latest(S) \in S /\ \A j \in S : j <= Latest(S)
<1> DEFINE Above(k) == {j \in S : k < j}
           T == {Above(k) : k \in S}
<1>1. IsWellFoundedOn(StrictSubsetOrdering(1..n), FiniteSubsetsOf(1..n))
  BY FS_StrictSubsetOrderingWellFounded
<1>2. FiniteSubsetsOf(1..n) = SUBSET (1..n)
  <2>1. IsFiniteSet(1..n)
    BY FS_Interval
  <2> QED BY <2>1, FS_FiniteSubsetsOfFinite
<1>3. T \subseteq SUBSET (1..n) /\ T # {}
  OBVIOUS
<1>4. PICK x \in T : \A y \in T : <<y, x>> \notin StrictSubsetOrdering(1..n)
  <2> HIDE DEF T
  <2>1. T \subseteq FiniteSubsetsOf(1..n) /\ T # {}
    BY <1>2, <1>3
  <2>2. \E x \in T : \A y \in T : ~ (<<y, x>> \in StrictSubsetOrdering(1..n))
    BY ONLY <1>1, <2>1, WFMin
  <2> QED BY <2>2
<1>5. PICK k \in S : x = Above(k)
  BY <1>4
<1>6. \A j \in S : j <= k
  <2> SUFFICES ASSUME NEW j \in S, k < j PROVE FALSE
    OBVIOUS
  <2>1. Above(j) \subseteq Above(k) /\ j \in Above(k) /\ j \notin Above(j)
    <3>1. k \in Nat /\ j \in Nat /\ \A i \in S : i \in Nat
      OBVIOUS
    <3>2. \A i \in S : j < i => k < i
      BY <3>1
    <3>3. ~ (j < j)
      BY <3>1
    <3> QED BY <3>2, <3>3
  <2>2. Above(j) \in T /\ Above(j) \subseteq 1..n /\ Above(k) \subseteq 1..n
    OBVIOUS
  <2>3. <<Above(j), Above(k)>> \in StrictSubsetOrdering(1..n)
    <3> HIDE DEF Above
    <3> QED BY <2>1, <2>2 DEF StrictSubsetOrdering
  <2> QED BY <1>4, <1>5, <2>2, <2>3
<1> QED BY <1>6 DEF Latest

LEMMA Positions ==
  ASSUME TypeOK
  PROVE  /\ Len(log) \in Nat /\ DOMAIN log = 1..Len(log)
         /\ \A i \in DOMAIN log : log[i] \in Event
BY DEF TypeOK

LEMMA Fields ==
  ASSUME NEW e \in Event
  PROVE  /\ e.calls \subseteq Call /\ e.asks \subseteq Gated
         /\ e.results \subseteq Call /\ e.held \subseteq Gated
         /\ e.sealed \subseteq Call /\ e.dropped \subseteq Gated
         /\ e.yes \subseteq Gated /\ e.no \subseteq Gated
         /\ e.by \in {"user", "agent"}
BY DEF Event

LEMMA LastUserIs ==
  ASSUME TypeOK, Heard, pc # "off"
  PROVE  /\ LastUser \in DOMAIN log /\ log[LastUser].by = "user"
         /\ \A j \in DOMAIN log : log[j].by = "user" => j <= LastUser
<1> DEFINE S == {i \in DOMAIN log : log[i].by = "user"}
<1>1. S \subseteq 1..Len(log) /\ Len(log) \in Nat
  BY Positions
<1>2. S # {}
  BY DEF Heard
<1>3. Latest(S) \in S /\ \A j \in S : j <= Latest(S)
  <2> HIDE DEF S
  <2> QED BY <1>1, <1>2, LatestIs
<1> QED BY <1>3 DEF LastUser

LEMMA TargetIs ==
  ASSUME TypeOK, CallEvents # {}
  PROVE  Target \in CallEvents /\ Target \in DOMAIN log /\ Target < Len(log)
<1>1. CallEvents \subseteq 1..Len(log) /\ Len(log) \in Nat
  BY Positions DEF CallEvents, Earlier
<1>2. Target \in CallEvents
  BY <1>1, LatestIs DEF Target
<1> QED BY <1>2, Positions DEF CallEvents, Earlier

LEMMA LastIs ==
  ASSUME TypeOK, Heard, pc # "off"
  PROVE  Len(log) \in DOMAIN log /\ Last = log[Len(log)] /\ Last \in Event
<1>1. log # <<>>
  BY DEF Heard
<1>2. Len(log) \in DOMAIN log
  BY <1>1, Positions DEF TypeOK
<1> QED BY <1>2, Positions DEF Last

(* Where a call that is replayed was made, and that nothing after it has   *)
(* answered it.                                                            *)
LEMMA ReplayedFrom ==
  ASSUME TypeOK, Heard, pc # "off", NEW c \in ToReplay
  PROVE  \E i \in DOMAIN log : /\ c \in log[i].calls
                               /\ \A j \in DOMAIN log : j > i => c \notin Responses(log[j])
<1>1. CASE Owed # {} /\ c \in Owed
  <2>1. CallEvents # {} /\ c \in Calls \ Answered(Later)
    BY <1>1 DEF Owed, Unexecuted
  <2>2. Target \in DOMAIN log
    BY <2>1, TargetIs
  <2>3. \A j \in DOMAIN log : j > Target => j \in Later
    BY <2>2, Positions DEF Later
  <2> QED BY <2>1, <2>2, <2>3 DEF Calls, Answered
<1>2. CASE c \in Last.calls
  BY <1>2, LastIs, Positions
<1> QED BY <1>1, <1>2 DEF ToReplay

-----------------------------------------------------------------------------
(* The log grows by events that may follow it.                             *)

MayFollow(e) == /\ e \in Event
                /\ e.by = "agent" => e.yes = {} /\ e.no = {}
                /\ e.calls \cap Made = {}
                /\ About(e) \subseteq Made
                /\ \A c \in e.results \cap Gated : e.by = "agent" /\ c \in Ruled

LEMMA Grown ==
  ASSUME TypeOK, NEW e \in Event, log' = Append(log, e)
  PROVE  /\ log' \in Seq(Event) /\ log' # <<>>
         /\ DOMAIN log = 1..Len(log) /\ DOMAIN log' = 1..(Len(log) + 1)
         /\ Len(log) \in Nat /\ Len(log') = Len(log) + 1
         /\ \A i \in DOMAIN log : log'[i] = log[i]
         /\ log'[Len(log) + 1] = e
BY DEF TypeOK

LEMMA GrownLog ==
  ASSUME TypeOK, LogInv, NEW e, MayFollow(e), log' = Append(log, e)
  PROVE  LogInv'
<1>1. e \in Event
  BY DEF MayFollow
<1> DEFINE n == Len(log) + 1
<1>2. /\ n \in Nat /\ DOMAIN log = 1..(n - 1) /\ DOMAIN log' = 1..n
      /\ \A i \in DOMAIN log : log'[i] = log[i]
      /\ log'[n] = e /\ n \in DOMAIN log'
      /\ \A i \in DOMAIN log' : i \in DOMAIN log \/ i = n
  BY <1>1, Grown
<1> HIDE DEF n
<1>3. DecidedByUser'
  BY <1>2 DEF DecidedByUser, LogInv, MayFollow
<1>4. MadeOnce'
  <2>1. \A i \in DOMAIN log : log[i].calls \cap e.calls = {}
    BY DEF MayFollow, Made
  <2> QED BY <1>2, <2>1 DEF MadeOnce, LogInv
<1>5. AboutMade'
  <2> SUFFICES ASSUME NEW j \in DOMAIN log', NEW c \in About(log'[j])
               PROVE  \E i \in 1..(j - 1) : c \in log'[i].calls
    BY DEF AboutMade, MadeBefore, About, Responses
  <2>1. CASE j \in DOMAIN log
    <3>1. \E i \in 1..(j - 1) : c \in log[i].calls
      BY <1>2, <2>1 DEF AboutMade, LogInv, MadeBefore
    <3> QED BY <1>2, <2>1, <3>1
  <2>2. CASE j = n
    <3>1. c \in Made
      BY <1>2, <2>2 DEF MayFollow
    <3> QED BY <1>2, <2>2, <3>1 DEF Made
  <2> QED BY <1>2, <2>1, <2>2
<1>6. GatedRuled'
  <2> SUFFICES ASSUME NEW j \in DOMAIN log', NEW c \in log'[j].results \cap Gated
               PROVE  /\ log'[j].by = "agent"
                      /\ \E i \in 1..(j - 1) : c \in log'[i].yes \cup log'[i].no
    BY DEF GatedRuled, RuledBefore
  <2>1. CASE j \in DOMAIN log
    <3>1. log[j].by = "agent" /\ \E i \in 1..(j - 1) : c \in log[i].yes \cup log[i].no
      BY <1>2, <2>1 DEF GatedRuled, LogInv, RuledBefore
    <3> QED BY <1>2, <2>1, <3>1
  <2>2. CASE j = n
    <3>1. e.by = "agent" /\ c \in Ruled
      BY <1>2, <2>2 DEF MayFollow
    <3> QED BY <1>2, <2>2, <3>1 DEF Ruled
  <2> QED BY <1>2, <2>1, <2>2
<1> QED BY <1>3, <1>4, <1>5, <1>6 DEF LogInv

LEMMA GrownSets ==
  ASSUME TypeOK, NEW e \in Event, log' = Append(log, e)
  PROVE  /\ Made' = Made \cup e.calls
         /\ Ruled' = Ruled \cup e.yes \cup e.no
         /\ Recorded' = Recorded \cup e.results
<1> DEFINE n == Len(log) + 1
<1>1. /\ \A i \in DOMAIN log : i \in DOMAIN log' /\ log'[i] = log[i]
      /\ log'[n] = e /\ n \in DOMAIN log'
      /\ \A i \in DOMAIN log' : i \in DOMAIN log \/ i = n
  BY Grown
<1> HIDE DEF n
<1>2. Made' = Made \cup e.calls
  BY <1>1 DEF Made
<1>3. Ruled' = Ruled \cup e.yes \cup e.no
  BY <1>1 DEF Ruled
<1>4. Recorded' = Recorded \cup e.results
  BY <1>1 DEF Recorded
<1> QED BY <1>2, <1>3, <1>4

LEMMA GrownHeard ==
  ASSUME TypeOK, Heard, NEW e \in Event, log' = Append(log, e),
         log # <<>> \/ e.by = "user"
  PROVE  Heard'
<1>1. /\ \A i \in DOMAIN log : i \in DOMAIN log' /\ log'[i] = log[i]
      /\ log'[Len(log) + 1] = e /\ Len(log) + 1 \in DOMAIN log' /\ log' # <<>>
  BY Grown
<1> QED BY <1>1 DEF Heard

-----------------------------------------------------------------------------
(* Every step keeps the invariant.                                         *)

LEMMA Initially == Init => IInv
<1> SUFFICES ASSUME Init PROVE IInv
  OBVIOUS
<1>1. TypeOK
  BY BoundsKnown DEF Init, TypeOK, Batch, NoBatch
<1>2. LogInv /\ Heard /\ BatchInv /\ OutInv
  BY DEF Init, LogInv, DecidedByUser, MadeOnce, AboutMade, GatedRuled, Heard,
         BatchInv, NoBatch, OutInv
<1> QED BY <1>1, <1>2 DEF IInv

(* The log stays or grows by one event.                                    *)
LEMMA SameLog ==
  ASSUME IInv, log' = log, pc # "off" \/ pc' = "off"
  PROVE  LogInv' /\ Heard' /\ Made' = Made /\ Ruled' = Ruled /\ log' \in Seq(Event)
<1>1. LogInv'
  BY DEF IInv, LogInv, DecidedByUser, MadeOnce, AboutMade, GatedRuled, About,
         Responses, MadeBefore, RuledBefore
<1>2. Heard' /\ log' \in Seq(Event)
  BY DEF IInv, Heard, TypeOK
<1>3. Made' = Made /\ Ruled' = Ruled
  BY DEF Made, Ruled
<1> QED BY <1>1, <1>2, <1>3

LEMMA LongerLog ==
  ASSUME IInv, NEW e, MayFollow(e), log' = Append(log, e),
         log # <<>> \/ e.by = "user"
  PROVE  /\ LogInv' /\ Heard' /\ log' \in Seq(Event)
         /\ Made \subseteq Made' /\ Ruled \subseteq Ruled' /\ e.calls \subseteq Made'
<1>1. e \in Event
  BY DEF MayFollow
<1>2. LogInv'
  BY GrownLog DEF IInv
<1>3. Heard'
  BY <1>1, GrownHeard DEF IInv
<1>4. log' \in Seq(Event) /\ Made' = Made \cup e.calls /\ Ruled \subseteq Ruled'
  BY <1>1, Grown, GrownSets DEF IInv
<1> QED BY <1>2, <1>3, <1>4

LEMMA SameBatch ==
  ASSUME IInv, Made \subseteq Made', Ruled \subseteq Ruled',
         UNCHANGED <<batch, out>>, pc' = "emit" <=> pc = "emit"
  PROVE  BatchInv' /\ OutInv' /\ batch' \in Batch /\ out' \in Seq(Event)
BY DEF IInv, BatchInv, OutInv, FromBatch, TypeOK

(* A batch begins, with calls that have been made and, if gated, decided.  *)
LEMMA BatchBegins ==
  ASSUME IInv, NEW kind \in {"calls", "confirmed"},
         NEW calls, calls \subseteq Call, NEW done, done \subseteq Call,
         NEW held, held \subseteq Gated,
         Run(kind, calls, done, held),
         calls \cup done \cup held \subseteq Made', (calls \cup done) \cap Gated \subseteq Ruled',
         pc # "emit", pc' = "tools", out' = out
  PROVE  /\ BatchInv' /\ OutInv' /\ batch' \in Batch /\ out' \in Seq(Event)
         /\ runs' \in [Call -> Nat]
<1>1. batch' = [kind |-> kind, open |-> calls, done |-> done, held |-> held]
  BY DEF Run
<1>2. batch' \in Batch
  BY <1>1 DEF Batch
<1>3. BatchInv'
  BY <1>1 DEF BatchInv
<1>4. out = <<>>
  BY DEF IInv, OutInv
<1>5. OutInv' /\ out' \in Seq(Event)
  BY <1>4 DEF OutInv, IInv, TypeOK
<1>6. runs' \in [Call -> Nat]
  BY DEF Run, IInv, TypeOK
<1> QED BY <1>2, <1>3, <1>5, <1>6

LEMMA BlankIs ==
  /\ Blank \in Event /\ Responses(Blank) = {} /\ About(Blank) = {}
  /\ Blank.by = "agent" /\ Blank.calls = {} /\ Blank.results = {}
  /\ Blank.yes = {} /\ Blank.no = {}
BY DEF Blank, Event, Responses, About

LEMMA Turned ==
  ASSUME IInv, NEW message, Turn(message),
         \/ message = <<>> /\ log # <<>>
         \/ \E e : message = <<e>> /\ MayFollow(e) /\ e.by = "user"
  PROVE  IInv'
<1>1. /\ LogInv' /\ Heard' /\ log' \in Seq(Event)
      /\ Made \subseteq Made' /\ Ruled \subseteq Ruled'
  <2>1. CASE message = <<>> /\ log # <<>>
    <3>1. log' = log
      BY <2>1 DEF Turn, IInv, TypeOK
    <3>2. LogInv' /\ Made' = Made /\ Ruled' = Ruled
      BY <3>1 DEF IInv, LogInv, DecidedByUser, MadeOnce, AboutMade, GatedRuled, About,
         Responses, MadeBefore, RuledBefore, Made, Ruled
    <3>3. Heard'
      BY <2>1, <3>1 DEF IInv, Heard
    <3> QED BY <3>1, <3>2, <3>3 DEF IInv, TypeOK
  <2>2. ASSUME NEW e, message = <<e>>, MayFollow(e), e.by = "user"
        PROVE  /\ LogInv' /\ Heard' /\ log' \in Seq(Event)
               /\ Made \subseteq Made' /\ Ruled \subseteq Ruled'
    <3>1. e \in Event
      BY <2>2 DEF MayFollow
    <3>2. log' = Append(log, e)
      BY <2>2, <3>1 DEF Turn, IInv, TypeOK
    <3> QED BY <2>2, <3>2, LongerLog
  <2> QED BY <2>1, <2>2
<1>2. BatchInv' /\ OutInv' /\ batch' \in Batch /\ out' \in Seq(Event)
  BY <1>1, SameBatch DEF Turn
<1>3. TypeOK'
  BY <1>1, <1>2, BoundsKnown DEF IInv, TypeOK, Turn
<1> QED BY <1>1, <1>2, <1>3 DEF IInv

LEMMA UserTurnKeeps ==
  ASSUME IInv, UserTurn PROVE IInv'
<1>1. CASE Open
  <2> DEFINE e == [Blank EXCEPT !.by = "user", !.text = TRUE]
  <2>1. MayFollow(e) /\ e.by = "user"
    BY DEF MayFollow, Event, Blank, About, Responses
  <2> QED BY <1>1, <2>1, Turned DEF Open
<1>2. CASE Resume
  BY <1>2, Turned DEF Resume
<1>3. ASSUME NEW results \in SUBSET Long, NEW yes \in SUBSET Gated,
             NEW no \in SUBSET Gated, Answer(results, yes, no)
      PROVE  IInv'
  <2> DEFINE e == [Blank EXCEPT !.by = "user", !.results = results,
                                !.yes = yes, !.no = no]
  <2>1. Asked \subseteq Made
    <3> SUFFICES ASSUME NEW j \in DOMAIN log, NEW a, a \in log[j].asks
                 PROVE  a \in Made
      BY DEF Asked
    <3>1. PICK i \in 1..(j - 1) : a \in log[i].calls
      BY DEF IInv, LogInv, AboutMade, About, MadeBefore
    <3>2. i \in DOMAIN log
      BY <3>1, Positions DEF IInv
    <3> QED BY <3>1, <3>2 DEF Made
  <2>2. e \in Event /\ e.by = "user" /\ e.calls = {} /\ e.results = results
        /\ About(e) = results \cup yes \cup no
    BY DEF Event, Blank, About, Responses, Call
  <2>3. results \cup yes \cup no \subseteq Made /\ results \cap Gated = {}
    BY <1>3, <2>1, KindsApart DEF Answer
  <2>4. MayFollow(e)
    <3> HIDE DEF e
    <3> QED BY <2>2, <2>3 DEF MayFollow
  <2> QED BY <1>3, <2>2, <2>4, Turned DEF Answer
<1> QED BY <1>1, <1>2, <1>3 DEF UserTurn

LEMMA RunConfirmedKeeps ==
  ASSUME IInv, RunConfirmed PROVE IInv'
<1> DEFINE yes == Fresh \cap log[LastUser].yes
           no == Fresh \cap log[LastUser].no
<1>1. LastUser \in DOMAIN log /\ log[LastUser] \in Event
  BY LastUserIs, Positions DEF IInv, RunConfirmed
<1>2. yes \subseteq Gated /\ no \subseteq Gated /\ yes \subseteq Call /\ no \subseteq Call
  BY <1>1, Fields DEF Call
<1>3. yes \cup no \subseteq Ruled
  BY <1>1 DEF Ruled
<1>4. yes \cup no \subseteq Made
  <2>1. yes \cup no \subseteq About(log[LastUser])
    BY DEF About
  <2> QED BY <1>1, <2>1, Positions DEF IInv, LogInv, AboutMade, MadeBefore, Made
<1>5. /\ LogInv' /\ Heard' /\ Made' = Made /\ Ruled' = Ruled /\ log' \in Seq(Event)
  BY SameLog DEF RunConfirmed
<1>6. Run("confirmed", yes, no, {}) /\ pc # "emit" /\ pc' = "tools" /\ out' = out
  BY DEF RunConfirmed
<1> HIDE DEF yes, no
<1>7. /\ BatchInv' /\ OutInv' /\ batch' \in Batch /\ out' \in Seq(Event)
      /\ runs' \in [Call -> Nat]
  <2>1. /\ yes \cup no \cup {} \subseteq Made' /\ (yes \cup no) \cap Gated \subseteq Ruled'
        /\ {} \subseteq Gated /\ "confirmed" \in {"calls", "confirmed"}
    BY <1>3, <1>4, <1>5
  <2> QED BY <1>2, <1>6, <2>1, BatchBegins
<1>8. TypeOK'
  BY <1>5, <1>7 DEF IInv, TypeOK, RunConfirmed
<1> QED BY <1>5, <1>7, <1>8 DEF IInv

LEMMA ReplayKeeps ==
  ASSUME IInv, Replay PROVE IInv'
<1> DEFINE calls == ToReplay
<1>1. \A c \in calls : \E i \in DOMAIN log : c \in log[i].calls
  BY ReplayedFrom DEF IInv, Replay
<1>2. calls \subseteq Call /\ calls \subseteq Made
  BY <1>1, Positions, Fields DEF Made, IInv
<1>3. /\ LogInv' /\ Heard' /\ Made' = Made /\ Ruled' = Ruled /\ log' \in Seq(Event)
  BY SameLog DEF Replay
<1>4. /\ Run("calls", calls \ Gated, {}, calls \cap Gated)
      /\ pc # "emit" /\ pc' = "tools" /\ out' = out
  BY DEF Replay, RunCalls
<1> HIDE DEF calls
<1>5. /\ BatchInv' /\ OutInv' /\ batch' \in Batch /\ out' \in Seq(Event)
      /\ runs' \in [Call -> Nat]
  <2>1. /\ (calls \ Gated) \cup {} \cup (calls \cap Gated) \subseteq Made'
        /\ ((calls \ Gated) \cup {}) \cap Gated \subseteq Ruled'
        /\ calls \ Gated \subseteq Call /\ {} \subseteq Call /\ calls \cap Gated \subseteq Gated
        /\ "calls" \in {"calls", "confirmed"}
    BY <1>2, <1>3
  <2> QED BY <1>4, <2>1, BatchBegins
<1>6. TypeOK'
  BY <1>3, <1>5 DEF IInv, TypeOK, Replay
<1> QED BY <1>3, <1>5, <1>6 DEF IInv

LEMMA ModelAnswersKeeps ==
  ASSUME IInv, ModelAnswers PROVE IInv'
<1> DEFINE e == [Blank EXCEPT !.text = TRUE]
<1>1. MayFollow(e)
  BY DEF MayFollow, Event, Blank, About, Responses
<1>2. /\ LogInv' /\ Heard' /\ log' \in Seq(Event)
      /\ Made \subseteq Made' /\ Ruled \subseteq Ruled'
  BY <1>1, LongerLog DEF ModelAnswers, IInv, Heard
<1>3. BatchInv' /\ OutInv' /\ batch' \in Batch /\ out' \in Seq(Event)
  BY <1>2, SameBatch DEF ModelAnswers
<1>4. TypeOK'
  BY <1>2, <1>3 DEF IInv, TypeOK, ModelAnswers
<1> QED BY <1>2, <1>3, <1>4 DEF IInv

LEMMA ModelCallsKeeps ==
  ASSUME IInv, NEW calls \in SUBSET Call, ModelCalls(calls) PROVE IInv'
<1> DEFINE e == [Blank EXCEPT !.calls = calls]
<1>1. /\ e \in Event /\ e.calls = calls /\ e.by = "agent" /\ e.yes = {} /\ e.no = {}
      /\ e.results = {} /\ About(e) = {}
  BY DEF Event, Blank, About, Responses
<1>2. /\ log' = Append(log, e) /\ calls \cap Made = {}
      /\ Run("calls", calls \ Gated, {}, calls \cap Gated)
      /\ pc # "emit" /\ pc' = "tools" /\ out' = out
      /\ yielded' \in {"final", "more"} /\ log # <<>>
  BY DEF ModelCalls, RunCalls, IInv, Heard
<1> HIDE DEF e
<1>3. MayFollow(e)
  BY <1>1, <1>2 DEF MayFollow
<1>4. /\ LogInv' /\ Heard' /\ log' \in Seq(Event)
      /\ Made \subseteq Made' /\ Ruled \subseteq Ruled' /\ calls \subseteq Made'
  BY <1>1, <1>2, <1>3, LongerLog
<1>5. /\ BatchInv' /\ OutInv' /\ batch' \in Batch /\ out' \in Seq(Event)
      /\ runs' \in [Call -> Nat]
  <2>1. /\ (calls \ Gated) \cup {} \cup (calls \cap Gated) \subseteq Made'
        /\ ((calls \ Gated) \cup {}) \cap Gated \subseteq Ruled'
        /\ calls \ Gated \subseteq Call /\ {} \subseteq Call /\ calls \cap Gated \subseteq Gated
        /\ "calls" \in {"calls", "confirmed"}
    BY <1>4
  <2> QED BY <1>2, <2>1, BatchBegins
<1>6. TypeOK'
  BY <1>2, <1>4, <1>5 DEF IInv, TypeOK, ModelCalls
<1> QED BY <1>4, <1>5, <1>6 DEF IInv

(* Between two steps nothing happens to the log.                           *)
LEMMA DecisionKeeps ==
  ASSUME IInv, DropRepeats \/ Preprocessed \/ Pause \/ CallModel PROVE IInv'
<1>1. /\ UNCHANGED <<resumable, log, batch, out, runs, turns, mishaps>>
      /\ pc # "off" /\ pc # "emit" /\ pc' \in {"off", "step", "decide", "model"}
      /\ yielded' \in {yielded, "nothing"}
  BY DEF DropRepeats, Preprocessed, Pause, CallModel, StepEnds
<1>2. LogInv' /\ Heard' /\ Made' = Made /\ Ruled' = Ruled /\ log' \in Seq(Event)
  BY <1>1, SameLog
<1>3. BatchInv' /\ OutInv' /\ batch' \in Batch /\ out' \in Seq(Event)
  BY <1>1, <1>2, SameBatch
<1>4. TypeOK'
  BY <1>1, <1>2, <1>3 DEF IInv, TypeOK
<1> QED BY <1>2, <1>3, <1>4 DEF IInv

LEMMA ReturnKeeps ==
  ASSUME IInv, NEW c \in Call, Return(c) \/ ReturnNothing(c) PROVE IInv'
<1>1. /\ UNCHANGED <<resumable, log, pc, out, yielded, runs, turns, mishaps>>
      /\ pc = "tools" /\ c \in batch.open
      /\ \/ batch' = [batch EXCEPT !.open = @ \ {c}, !.done = @ \cup {c}]
         \/ batch' = [batch EXCEPT !.open = @ \ {c}]
  BY DEF Return, ReturnNothing
<1>2. /\ batch' \in Batch /\ batch'.held = batch.held
      /\ batch'.open \cup batch'.done \subseteq batch.open \cup batch.done
  <2>1. batch \in Batch /\ c \in batch.open /\ c \in Call
    BY <1>1 DEF IInv, TypeOK
  <2>2. CASE batch' = [batch EXCEPT !.open = @ \ {c}, !.done = @ \cup {c}]
    BY <2>1, <2>2 DEF Batch
  <2>3. CASE batch' = [batch EXCEPT !.open = @ \ {c}]
    BY <2>1, <2>3 DEF Batch
  <2> QED BY <1>1, <2>2, <2>3
<1>3. LogInv' /\ Heard' /\ Made' = Made /\ Ruled' = Ruled /\ log' \in Seq(Event)
  BY <1>1, SameLog
<1>4. BatchInv'
  BY <1>2, <1>3 DEF IInv, BatchInv
<1>5. OutInv'
  BY <1>1 DEF IInv, OutInv
<1>6. TypeOK'
  BY <1>1, <1>2, <1>3 DEF IInv, TypeOK
<1> QED BY <1>3, <1>4, <1>5, <1>6 DEF IInv

LEMMA AllReturnedKeeps ==
  ASSUME IInv, AllReturned PROVE IInv'
<1> DEFINE answers == [Blank EXCEPT !.results = batch.done, !.held = batch.held]
           request == [Blank EXCEPT !.asks = batch.held]
<1>1. batch.done \subseteq Call /\ batch.held \subseteq Gated
  BY DEF IInv, TypeOK, Batch
<1>2. answers \in Event /\ request \in Event
  BY <1>1 DEF Event, Blank
<1>3. FromBatch(answers) /\ FromBatch(request)
  BY DEF FromBatch, Blank
<1>4. /\ UNCHANGED <<resumable, log, batch, yielded, runs, turns, mishaps>>
      /\ pc = "tools" /\ pc' = "emit"
      /\ out' \in {<<>>, <<request, answers>>, <<answers>>, <<answers, request>>}
  BY DEF AllReturned
<1> HIDE DEF answers, request
<1>5. out' \in Seq(Event) /\ \A k \in DOMAIN out' : out'[k] \in {answers, request}
  <2>1. \A a, b \in Event : /\ <<a, b>> \in Seq(Event) /\ DOMAIN <<a, b>> = 1..2
                            /\ <<a, b>>[1] = a /\ <<a, b>>[2] = b
    OBVIOUS
  <2>2. \A a \in Event : <<a>> \in Seq(Event) /\ DOMAIN <<a>> = 1..1 /\ <<a>>[1] = a
    OBVIOUS
  <2>3. <<>> \in Seq(Event) /\ DOMAIN <<>> = {}
    OBVIOUS
  <2>4. CASE out' = <<>>
    BY <2>3, <2>4
  <2>5. CASE out' = <<answers>>
    BY <1>2, <2>2, <2>5
  <2>6. ASSUME NEW a \in {answers, request}, NEW b \in {answers, request}, out' = <<a, b>>
        PROVE  out' \in Seq(Event) /\ \A k \in DOMAIN out' : out'[k] \in {answers, request}
    BY <1>2, <2>1, <2>6
  <2> QED BY <1>4, <2>4, <2>5, <2>6
<1>6. LogInv' /\ Heard' /\ Made' = Made /\ Ruled' = Ruled /\ log' \in Seq(Event)
  BY <1>4, SameLog
<1>7. BatchInv'
  BY <1>4, <1>6 DEF IInv, BatchInv
<1>8. OutInv'
  BY <1>3, <1>4, <1>5 DEF OutInv, FromBatch
<1>9. TypeOK'
  BY <1>4, <1>5, <1>6 DEF IInv, TypeOK
<1> QED BY <1>6, <1>7, <1>8, <1>9 DEF IInv

LEMMA EmitKeeps ==
  ASSUME IInv, Emit PROVE IInv'
<1> DEFINE e == Head(out)
<1>1. /\ e \in Event /\ Tail(out) \in Seq(Event) /\ 1 \in DOMAIN out /\ e = out[1]
      /\ \A k \in DOMAIN Tail(out) : k + 1 \in DOMAIN out /\ Tail(out)[k] = out[k + 1]
  BY DEF Emit, IInv, TypeOK
<1>2. FromBatch(e)
  BY <1>1 DEF IInv, OutInv
<1>3. MayFollow(e)
  <2>1. About(e) \subseteq Made /\ e.results \cap Gated \subseteq Ruled
    BY <1>2 DEF FromBatch, About, Responses, IInv, BatchInv
  <2> QED BY <1>1, <1>2, <2>1 DEF MayFollow, FromBatch
<1>4. /\ UNCHANGED <<resumable, pc, batch, runs, turns, mishaps>>
      /\ log' = Append(log, e) /\ out' = Tail(out) /\ pc = "emit" /\ log # <<>>
      /\ yielded' \in {"final", "more"}
  BY DEF Emit, IInv, Heard
<1> HIDE DEF e
<1>5. /\ LogInv' /\ Heard' /\ log' \in Seq(Event)
      /\ Made \subseteq Made' /\ Ruled \subseteq Ruled'
  BY <1>3, <1>4, LongerLog
<1>6. BatchInv'
  BY <1>4, <1>5 DEF IInv, BatchInv
<1>7. OutInv'
  BY <1>1, <1>4 DEF IInv, OutInv, FromBatch
<1>8. TypeOK'
  BY <1>1, <1>4, <1>5 DEF IInv, TypeOK
<1> QED BY <1>5, <1>6, <1>7, <1>8 DEF IInv

LEMMA NoBatchIs ==
  ASSUME batch' = NoBatch, out' = <<>>
  PROVE  BatchInv' /\ OutInv' /\ batch' \in Batch /\ out' \in Seq(Event)
BY DEF NoBatch, Batch, BatchInv, OutInv

LEMMA BatchEndsKeeps ==
  ASSUME IInv, BatchEnds PROVE IInv'
<1>1. /\ UNCHANGED <<resumable, log, out, runs, turns, mishaps>>
      /\ pc = "emit" /\ out = <<>> /\ batch' = NoBatch
      /\ pc' \in {"decide", "step", "off"} /\ yielded' \in {yielded, "nothing"}
  BY DEF BatchEnds, StepEnds
<1>2. LogInv' /\ Heard' /\ log' \in Seq(Event)
  BY <1>1, SameLog
<1>3. BatchInv' /\ OutInv' /\ batch' \in Batch /\ out' \in Seq(Event)
  BY <1>1, NoBatchIs
<1>4. TypeOK'
  BY <1>1, <1>2, <1>3 DEF IInv, TypeOK
<1> QED BY <1>2, <1>3, <1>4 DEF IInv

LEMMA StopsKeeps ==
  ASSUME IInv, NEW events, Stops(events), log # <<>>,
         \/ events = <<>>
         \/ \E e : events = <<e>> /\ MayFollow(e)
  PROVE  IInv'
<1>1. /\ LogInv' /\ Heard' /\ log' \in Seq(Event)
  <2>1. CASE events = <<>>
    <3>1. log' = log /\ pc' = "off"
      BY <2>1 DEF Stops, IInv, TypeOK
    <3> QED BY <3>1, SameLog
  <2>2. ASSUME NEW e, events = <<e>>, MayFollow(e)
        PROVE  LogInv' /\ Heard' /\ log' \in Seq(Event)
    <3>1. e \in Event
      BY <2>2 DEF MayFollow
    <3>2. log' = Append(log, e)
      BY <2>2, <3>1 DEF Stops, IInv, TypeOK
    <3> QED BY <2>2, <3>2, LongerLog
  <2> QED BY <2>1, <2>2
<1>2. BatchInv' /\ OutInv' /\ batch' \in Batch /\ out' \in Seq(Event)
  BY NoBatchIs DEF Stops
<1>3. TypeOK'
  BY <1>1, <1>2, BoundsKnown DEF IInv, TypeOK, Stops
<1> QED BY <1>1, <1>2, <1>3 DEF IInv

LEMMA MishapKeeps ==
  ASSUME IInv, Crash \/ Abort \/ \E c \in Call : Raise(c) PROVE IInv'
<1>1. CASE Crash
  BY <1>1, StopsKeeps DEF Crash, IInv, Heard
<1>2. CASE Abort
  <2> DEFINE e == [Blank EXCEPT !.sealed = Made \ Answered(DOMAIN log),
                                !.dropped = Asked \ Decided(DOMAIN log)]
  <2>1. Made \subseteq Call /\ Asked \subseteq Gated
    BY Positions, Fields DEF Made, Asked, IInv
  <2>2. /\ e \in Event /\ e.by = "agent" /\ e.calls = {} /\ e.results = {}
        /\ e.yes = {} /\ e.no = {} /\ About(e) \subseteq Made
    BY <2>1 DEF Event, Blank, About, Responses
  <2>3. MayFollow(e)
    <3> HIDE DEF e
    <3> QED BY <2>2 DEF MayFollow
  <2>4. log # <<>> /\ Stops(<<e>>)
    BY <1>2 DEF Abort, IInv, Heard
  <2> QED BY <2>3, <2>4, StopsKeeps
<1>3. ASSUME NEW c \in Call, Raise(c) PROVE IInv'
  <2> DEFINE e == [Blank EXCEPT !.results = Kept]
  <2>1. Kept \subseteq batch.done /\ batch.done \subseteq Call
    BY DEF Kept, IInv, TypeOK, Batch
  <2>2. /\ e \in Event /\ e.by = "agent" /\ e.calls = {} /\ e.results = Kept
        /\ e.yes = {} /\ e.no = {} /\ About(e) = Kept
    BY <2>1 DEF Event, Blank, About, Responses
  <2>3. Kept \subseteq Made /\ Kept \cap Gated \subseteq Ruled
    BY <2>1 DEF IInv, BatchInv
  <2>4. MayFollow(e)
    <3> HIDE DEF e
    <3> QED BY <2>2, <2>3 DEF MayFollow
  <2>5. log # <<>> /\ Stops(<<e>>)
    BY <1>3 DEF Raise, IInv, Heard
  <2> QED BY <2>4, <2>5, StopsKeeps
<1> QED BY <1>1, <1>2, <1>3

LEMMA Always == Spec => []IInv
<1>1. IInv /\ Next => IInv'
  <2> SUFFICES ASSUME IInv, Next PROVE IInv'
    OBVIOUS
  <2>1. CASE UserTurn
    BY <2>1, UserTurnKeeps
  <2>2. CASE Work
    BY <2>2, RunConfirmedKeeps, DecisionKeeps, ReplayKeeps, ModelAnswersKeeps,
       ModelCallsKeeps, ReturnKeeps, AllReturnedKeeps, EmitKeeps, BatchEndsKeeps DEF Work
  <2>3. CASE Crash \/ Abort \/ \E c \in Call : Raise(c)
    BY <2>3, MishapKeeps
  <2> QED BY <2>1, <2>2, <2>3 DEF Next
<1>2. IInv /\ UNCHANGED vars => IInv'
  <2> SUFFICES ASSUME IInv, UNCHANGED vars PROVE IInv'
    OBVIOUS
  <2>1. UNCHANGED <<resumable, log, pc, batch, out, yielded, runs, turns, mishaps>>
    BY DEF vars
  <2>2. TypeOK'
    BY <2>1 DEF IInv, TypeOK
  <2>3. LogInv' /\ Heard'
    BY <2>1 DEF IInv, LogInv, DecidedByUser, MadeOnce, AboutMade, GatedRuled, About,
         Responses, MadeBefore, RuledBefore, Heard
  <2>4. BatchInv' /\ OutInv'
    BY <2>1 DEF IInv, BatchInv, OutInv, FromBatch, Made, Ruled
  <2> QED BY <2>2, <2>3, <2>4 DEF IInv
<1> QED BY <1>1, <1>2, Initially, PTL DEF Spec

(* The state of the flow is always of the declared types: the calls that a *)
(* turn finds in the log and runs are calls of the agent's tools.          *)
THEOREM TypeCorrect == Spec => []TypeOK
BY Always, PTL DEF IInv

-----------------------------------------------------------------------------
(* What runs, and the model's view.                                        *)

(* The calls that a step starts: confirmed ones, calls of the log that     *)
(* nothing after them has answered, or new ones.                           *)
LEMMA Started ==
  ASSUME IInv, [Next]_vars, NEW c \in Call, runs'[c] # runs[c]
  PROVE  \/ pc = "step" /\ c \in Fresh \cap log[LastUser].yes
         \/ /\ pc # "off" /\ c \notin Gated
            /\ \E i \in DOMAIN log : /\ c \in log[i].calls
                                     /\ \A j \in DOMAIN log : j > i => c \notin Responses(log[j])
         \/ pc = "model" /\ c \notin Gated /\ c \notin Made
<1>1. CASE RunConfirmed
  BY <1>1 DEF RunConfirmed, Run
<1>2. CASE Replay
  <2>1. pc # "off" /\ c \in ToReplay /\ c \notin Gated
    BY <1>2 DEF Replay, RunCalls, Run
  <2> QED BY <2>1, ReplayedFrom DEF IInv
<1>3. ASSUME NEW calls \in SUBSET Call, ModelCalls(calls)
      PROVE  pc = "model" /\ c \notin Gated /\ c \notin Made
  BY <1>3 DEF ModelCalls, RunCalls, Run
<1>4. ASSUME ~ RunConfirmed, ~ Replay, ~ \E calls \in SUBSET Call : ModelCalls(calls)
      PROVE  runs' = runs
  <2>1. CASE UNCHANGED vars
    BY <2>1 DEF vars
  <2>2. CASE UserTurn
    BY <2>2 DEF UserTurn, Open, Answer, Resume, Turn
  <2>3. CASE Work
    BY <1>4, <2>3 DEF Work, DropRepeats, Preprocessed, Pause, CallModel, ModelAnswers,
       Return, ReturnNothing, AllReturned, Emit, BatchEnds
  <2>4. CASE Crash \/ Abort \/ \E d \in Call : Raise(d)
    BY <2>4 DEF Crash, Abort, Raise, Stops
  <2> QED BY <2>1, <2>2, <2>3, <2>4 DEF Next
<1> QED BY <1>1, <1>2, <1>3, <1>4

(* What is answered was made before, and nowhere else.                     *)
LEMMA AnswersFollow ==
  ASSUME IInv, NEW i \in DOMAIN log, NEW j \in DOMAIN log, NEW c,
         c \in log[i].calls, c \in Responses(log[j])
  PROVE  j > i
<1>1. PICK k \in 1..(j - 1) : c \in log[k].calls
  BY DEF IInv, LogInv, AboutMade, About, MadeBefore
<1>2. k \in DOMAIN log /\ k < j
  BY <1>1, Positions DEF IInv
<1>3. k = i
  BY <1>1, <1>2 DEF IInv, LogInv, MadeOnce
<1> QED BY <1>2, <1>3, Positions DEF IInv

(* A call that is run has no result in the session, and only a gated one   *)
(* may have another kind of answer.                                        *)
LEMMA AnsweredStays ==
  ASSUME IInv, [Next]_vars, NEW c \in Call, runs'[c] # runs[c],
         NEW j \in DOMAIN log, c \in Responses(log[j])
  PROVE  c \in Gated /\ c \notin log[j].results
<1>1. CASE pc = "step" /\ c \in Fresh \cap log[LastUser].yes
  <2>1. c \in Gated
    BY <1>1, LastUserIs, Positions, Fields DEF IInv
  <2>2. ASSUME c \in log[j].results PROVE FALSE
    <3>1. log[j].by = "agent" /\ RuledBefore(c, j)
      BY <2>1, <2>2 DEF IInv, LogInv, GatedRuled
    <3>2. Consumed(c)
      BY <3>1 DEF Consumed, ConsumedAt, RuledBefore
    <3> QED BY <1>1, <3>2 DEF Fresh
  <2> QED BY <2>1, <2>2
<1>2. ASSUME NEW i \in DOMAIN log, c \in log[i].calls,
             \A k \in DOMAIN log : k > i => c \notin Responses(log[k])
      PROVE  FALSE
  BY <1>2, AnswersFollow
<1>3. CASE c \notin Made
  BY <1>3, Positions DEF IInv, LogInv, AboutMade, About, MadeBefore, Made
<1> QED BY <1>1, <1>2, <1>3, Started

(* A call whose result is in the session is not run again, however often   *)
(* its confirmation is sent and its turn is resumed.                       *)
THEOREM NoSecondRun == Spec => RecordedNeverReruns
<1>1. IInv /\ [Next]_vars => [\A c \in Call : runs'[c] # runs[c] => c \notin Recorded]_vars
  BY AnsweredStays DEF Recorded, Responses
<1> QED BY <1>1, Always, PTL DEF Spec, RecordedNeverReruns

(* An ordinary or long-running call that an abort has sealed is never run  *)
(* afterwards, whatever turns follow.                                      *)
THEOREM SealHolds == Spec => SealedNeverRuns
<1>1. IInv /\ [Next]_vars =>
        [\A c \in Plain \cup Long : runs'[c] # runs[c] => c \notin Sealed]_vars
  <2> SUFFICES ASSUME IInv, [Next]_vars, NEW c \in Plain \cup Long, runs'[c] # runs[c],
                      c \in Sealed
               PROVE  FALSE
    OBVIOUS
  <2>1. c \in Call /\ c \notin Gated
    BY KindsApart DEF Call
  <2>2. PICK j \in DOMAIN log : c \in log[j].sealed
    BY DEF Sealed
  <2> QED BY <2>1, <2>2, AnsweredStays DEF Responses
<1> QED BY <1>1, Always, PTL DEF Spec, SealedNeverRuns

(* A gated tool runs only while the user's latest decision on that very    *)
(* call is an approval: the gate answers for a replayed call, and what is  *)
(* confirmed is read off the user's last message.                          *)
THEOREM GateHolds == Spec => ApprovedRuns
<1> DEFINE on(c) == {i \in DOMAIN log : c \in log[i].yes \cup log[i].no}
<1>1. ASSUME IInv, [Next]_vars, NEW c \in Gated, runs'[c] # runs[c]
      PROVE  on(c) # {} /\ c \in log[Latest(on(c))].yes
  <2>1. c \in Call
    BY DEF Call
  <2>2. pc = "step" /\ c \in log[LastUser].yes
    BY <1>1, <2>1, Started
  <2>3. /\ LastUser \in DOMAIN log /\ LastUser \in on(c)
        /\ \A j \in DOMAIN log : log[j].by = "user" => j <= LastUser
    BY <1>1, <2>2, LastUserIs DEF IInv
  <2>4. \A j \in on(c) : j <= LastUser
    <3> SUFFICES ASSUME NEW j \in on(c) PROVE log[j].by = "user"
      BY <2>3
    <3> QED BY <1>1, Positions, Fields DEF IInv, LogInv, DecidedByUser
  <2>5. on(c) \subseteq 1..Len(log) /\ Len(log) \in Nat
    BY <1>1, Positions DEF IInv
  <2>6. Latest(on(c)) \in on(c) /\ \A j \in on(c) : j <= Latest(on(c))
    <3> HIDE DEF on
    <3> QED BY <2>3, <2>5, LatestIs
  <2>7. Latest(on(c)) = LastUser
    <3> HIDE DEF on
    <3> QED BY <2>3, <2>4, <2>5, <2>6
  <2> QED BY <2>2, <2>3, <2>7
<1>2. IInv /\ [Next]_vars =>
        [\A c \in Gated : runs'[c] # runs[c] =>
           LET S == {i \in DOMAIN log : c \in log[i].yes \cup log[i].no}
           IN  S # {} /\ c \in log[Latest(S)].yes]_vars
  BY <1>1
<1> QED BY <1>2, Always, PTL DEF Spec, ApprovedRuns

(* In a resumable app the model sees an answer to each long-running call   *)
(* and each request, whatever was cut short before.                        *)
THEOREM ModelWaits == Spec => []ModelSeesAnswers
<1>1. Init => ModelSeesAnswers
  BY DEF Init, ModelSeesAnswers
<1>2. ASSUME IInv, CallModel, resumable
      PROVE  /\ Made \cap Long \subseteq Answered(DOMAIN log)
             /\ Asked \subseteq Decided(DOMAIN log)
  <2>1. /\ Len(log) \in DOMAIN log /\ Last = log[Len(log)]
        /\ DOMAIN log = 1..Len(log) /\ Len(log) \in Nat
    BY <1>2, LastIs, Positions DEF IInv, CallModel
  <2>2. ~ MustPause /\ ToReplay = {}
    BY <1>2 DEF CallModel
  <2>3. ~ Pauses(Last) /\ ~ LeftUnanswered
    BY <1>2, <2>2 DEF MustPause, ToReplay, HeldByPause, PausedByLast
  <2>4. \A i \in DOMAIN log : i \in Earlier \/ i = Len(log)
    BY <2>1 DEF Earlier
  <2>5. \A i \in DOMAIN log : Pauses(log[i]) => /\ log[i].calls \subseteq Answered(DOMAIN log)
                                               /\ log[i].asks \subseteq Decided(DOMAIN log)
    BY <2>1, <2>3, <2>4 DEF LeftUnanswered
  <2> QED BY <2>5 DEF Pauses, Made, Asked
<1>3. IInv /\ ModelSeesAnswers /\ [Next]_vars => ModelSeesAnswers'
  <2> SUFFICES ASSUME IInv, ModelSeesAnswers, [Next]_vars, pc' = "model", resumable'
               PROVE  /\ Made' \cap Long \subseteq Answered(DOMAIN log)'
                      /\ Asked' \subseteq Decided(DOMAIN log)'
    BY DEF ModelSeesAnswers
  <2>1. log' = log /\ resumable
        /\ (CallModel \/ pc = "model")
    <3>1. CASE UNCHANGED vars
      BY <3>1 DEF vars
    <3>2. CASE UserTurn
      BY <3>2 DEF UserTurn, Open, Answer, Resume, Turn
    <3>3. CASE Work
      BY <3>3 DEF Work, RunConfirmed, Replay, ModelCalls, DropRepeats, Preprocessed, Pause,
         CallModel, ModelAnswers, Return, ReturnNothing, AllReturned, Emit, BatchEnds, StepEnds
    <3>4. CASE Crash \/ Abort \/ \E d \in Call : Raise(d)
      BY <3>4 DEF Crash, Abort, Raise, Stops
    <3> QED BY <3>1, <3>2, <3>3, <3>4 DEF Next
  <2>2. Made' = Made /\ Asked' = Asked /\ Answered(DOMAIN log)' = Answered(DOMAIN log)
        /\ Decided(DOMAIN log)' = Decided(DOMAIN log)
    BY <2>1 DEF Made, Asked, Answered, Decided, Responses, Decisions
  <2> QED BY <1>2, <2>1, <2>2 DEF ModelSeesAnswers
<1> QED BY <1>1, <1>3, Always, PTL DEF Spec
-----------------------------------------------------------------------------
(* Long-running calls.  What protects such a call after it was cut short   *)
(* is the pause of its own event: as long as it has no answer, no step     *)
(* runs calls of the log, none asks the model, and of the requests that    *)
(* come behind it all are of its own batch.                                *)

Unanswered(i) == resumable /\ \E c \in log[i].calls \cap Long : c \notin Answered(DOMAIN log)

(* Nothing from i to j decides a request or answers calls of another event.*)
Quiet(i, j) == \A k \in (i + 1)..j :
                 Decisions(log[k]) = {} /\ Responses(log[k]) \subseteq log[i].calls

Waiting == \A i \in DOMAIN log : Unanswered(i) =>
             \A j \in (i + 1)..Len(log) : log[j].calls = {} /\ (log[j].asks # {} => Quiet(i, j))

(* Nothing was left to run when the model made a long-running call.        *)
NothingOwed == resumable /\ log # <<>> /\ Last.calls \cap Long # {} => Owed = {}
ModelMay == pc = "model" /\ resumable => ~ MustPause /\ ToReplay = {}

OwnBatch == pc \in {"tools", "emit"} /\ batch.held # {} =>
              \A i \in DOMAIN log : Unanswered(i) =>
                /\ Quiet(i, Len(log))
                /\ batch.open \cup batch.done \cup batch.held \subseteq log[i].calls
NoDrops == \A k \in DOMAIN out : out[k].dropped = {}

RunsMade == resumable => \A c \in Long : runs[c] <= 1 /\ (c \notin Made => runs[c] = 0)

LongInv == Waiting /\ NothingOwed /\ ModelMay /\ OwnBatch /\ NoDrops /\ RunsMade

(* The event that decide_step_resume takes for the answer.                 *)
Answering == {i \in Later : \/ Responses(log[i]) \cap (Calls \cup LongCalls) # {}
                            \/ Decisions(log[i]) \cap LongAsks # {}}

LEMMA AnsweringIs ==
  ASSUME TypeOK, CallEvents # {}, ~ NothingAnswered
  PROVE  Answering # {} /\ Latest(Answering) \in Answering /\ AnswerEvent = log[Latest(Answering)]
<1>1. Target \in DOMAIN log /\ Len(log) \in Nat /\ DOMAIN log = 1..Len(log)
  BY TargetIs, Positions
<1>2. Later \subseteq 1..Len(log) /\ Answering \subseteq Later
  BY <1>1 DEF Later, Answering
<1>3. Answering # {}
  <2>1. CASE LongCalls \cap Answered(Later) # {}
    <3>1. PICK c \in LongCalls, i \in Later : c \in Responses(log[i])
      BY <2>1 DEF Answered
    <3> QED BY <3>1 DEF Answering
  <2>2. CASE LongAsks \cap Decided(Later) # {}
    <3>1. PICK c \in LongAsks, i \in Later : c \in Decisions(log[i])
      BY <2>2 DEF Decided
    <3> QED BY <3>1 DEF Answering
  <2>3. CASE Calls \cap Answered(Later) # {}
    <3>1. PICK c \in Calls, i \in Later : c \in Responses(log[i])
      BY <2>3 DEF Answered
    <3> QED BY <3>1 DEF Answering
  <2> QED BY <2>1, <2>2, <2>3 DEF NothingAnswered
<1>4. Latest(Answering) \in Answering
  <2> HIDE DEF Answering
  <2> QED BY <1>1, <1>2, <1>3, LatestIs
<1> QED BY <1>3, <1>4 DEF AnswerEvent, Answering

(* No step of a resumable flow runs or asks anything while a long-running  *)
(* call has no answer.                                                     *)
LEMMA PauseStays ==
  ASSUME IInv, LongInv, pc # "off", NEW i \in DOMAIN log, Unanswered(i)
  PROVE  MustPause
<1>1. /\ Len(log) \in DOMAIN log /\ Last = log[Len(log)] /\ log # <<>> /\ resumable
      /\ DOMAIN log = 1..Len(log) /\ Len(log) \in Nat /\ TypeOK
  BY LastIs, Positions DEF IInv, Unanswered, Heard
<1>2. PICK c \in log[i].calls \cap Long : c \notin Answered(DOMAIN log)
  BY DEF Unanswered
<1>3. CASE i = Len(log)
  BY <1>1, <1>2, <1>3 DEF MustPause, PausedByLast, Pauses, LongInv, NothingOwed
<1>4. CASE i # Len(log)
  <2>1. i \in Earlier /\ Pauses(log[i]) /\ LeftUnanswered
    BY <1>1, <1>2, <1>4 DEF Earlier, Pauses, LeftUnanswered
  <2>2. CASE ~ PausedByLast
    BY <1>1, <2>1, <2>2 DEF MustPause, HeldByPause
  <2>3. CASE PausedByLast
    <3>1. \A j \in (i + 1)..Len(log) :
            log[j].calls = {} /\ (log[j].asks # {} => Quiet(i, j))
      BY DEF LongInv, Waiting
    <3>2. Quiet(i, Len(log))
      <4>1. Len(log) \in (i + 1)..Len(log)
        BY <1>1, <2>1 DEF Earlier
      <4> QED BY <1>1, <2>3, <3>1, <4>1 DEF PausedByLast, Pauses
    <3>3. Target = i /\ CallEvents # {}
      <4>1. i \in CallEvents /\ CallEvents \subseteq 1..Len(log)
        BY <1>1, <1>2, <2>1 DEF CallEvents, Earlier
      <4>2. Target \in CallEvents /\ \A j \in CallEvents : j <= Target
        BY <1>1, <4>1, LatestIs DEF Target
      <4>3. \A j \in CallEvents : j \in 1..Len(log) /\ ~ (j \in (i + 1)..Len(log))
        BY <3>1, <4>1 DEF CallEvents
      <4> QED BY <1>1, <4>1, <4>2, <4>3
    <3>4. Calls = log[i].calls /\ Later = (i + 1)..Len(log) /\ Later \subseteq DOMAIN log
      BY <1>1, <3>3 DEF Calls, Later
    <3>5. c \in LongCalls /\ c \notin Answered(Later)
      <4>1. c \in LongCalls
        BY <1>1, <1>2, <3>3 DEF LongCalls
      <4>2. c \notin Answered(Later)
        BY <1>2, <3>4 DEF Answered
      <4> QED BY <4>1, <4>2
    <3>6. ASSUME ~ NothingAnswered PROVE ~ NeedsReplay
      <4>1. PICK j \in Later : AnswerEvent = log[j]
        BY <1>1, <3>3, <3>6, AnsweringIs DEF Answering
      <4> QED BY <3>2, <3>4, <4>1 DEF NeedsReplay, Quiet
    <3>7. Owed = {}
      BY <3>5, <3>6 DEF Owed
    <3> QED BY <2>3, <3>7 DEF MustPause
  <2> QED BY <2>2, <2>3
<1> QED BY <1>3, <1>4

(* What is read off the log only is kept with it.                          *)
LEMMA LogReads ==
  ASSUME UNCHANGED <<log, resumable>>
  PROVE  /\ \A i : Unanswered(i)' <=> Unanswered(i)
         /\ \A i, j : Quiet(i, j)' <=> Quiet(i, j)
         /\ Waiting' <=> Waiting
         /\ NothingOwed' <=> NothingOwed
         /\ MustPause' <=> MustPause
         /\ ToReplay' = ToReplay
         /\ Made' = Made
<1>1. /\ CallEvents' = CallEvents /\ Target' = Target /\ Later' = Later /\ Calls' = Calls
      /\ LongCalls' = LongCalls /\ LongAsks' = LongAsks /\ Earlier' = Earlier
      /\ Last' = Last /\ Made' = Made /\ DOMAIN log' = DOMAIN log
  BY DEF CallEvents, Target, Later, Calls, LongCalls, LongAsks, Earlier, Last, Made
<1>2. Answered(Later)' = Answered(Later) /\ Decided(Later)' = Decided(Later)
      /\ Answered(DOMAIN log)' = Answered(DOMAIN log) /\ Decided(DOMAIN log)' = Decided(DOMAIN log)
  BY DEF Answered, Decided, Responses, Decisions, Later, Target, CallEvents, Earlier
<1>3. AnswerEvent' = AnswerEvent
  BY DEF AnswerEvent, Later, Target, CallEvents, Earlier, Responses, Decisions, Calls, LongCalls,
     LongAsks
<1>4. NothingAnswered' <=> NothingAnswered
  BY <1>1, <1>2 DEF NothingAnswered
<1>5. NeedsReplay' <=> NeedsReplay
  BY <1>1, <1>3 DEF NeedsReplay, Responses, Decisions
<1>6. Unexecuted(TRUE)' = Unexecuted(TRUE) /\ Unexecuted(FALSE)' = Unexecuted(FALSE)
  BY <1>1, <1>2 DEF Unexecuted
<1>7. Owed' = Owed
  BY <1>1, <1>2, <1>4, <1>5, <1>6 DEF Owed
<1>8. /\ \A i : Unanswered(i)' <=> Unanswered(i)
      /\ \A i, j : Quiet(i, j)' <=> Quiet(i, j)
  BY <1>2 DEF Unanswered, Quiet, Responses, Decisions
<1>9. Waiting' <=> Waiting
  BY <1>8 DEF Waiting
<1>10. NothingOwed' <=> NothingOwed
  BY <1>1, <1>7 DEF NothingOwed
<1>11. LeftUnanswered' <=> LeftUnanswered
  BY <1>1, <1>2 DEF LeftUnanswered, Pauses
<1>12. PausedByLast' <=> PausedByLast
  BY <1>1 DEF PausedByLast, Pauses
<1>13. MustPause' <=> MustPause
  BY <1>1, <1>4, <1>7, <1>11, <1>12 DEF MustPause, HeldByPause
<1>14. ToReplay' = ToReplay
  BY <1>1, <1>7, <1>13 DEF ToReplay
<1> QED BY <1>1, <1>8, <1>9, <1>10, <1>13, <1>14

(* When the model makes a long-running call all that is to run of earlier  *)
(* events has been run, and the new event answers and decides nothing.     *)
LEMMA ModelOwesNothing ==
  ASSUME IInv, LongInv, resumable, NEW calls \in SUBSET Call, ModelCalls(calls),
         calls \cap Long # {}
  PROVE  Owed' = {}
<1> DEFINE e == [Blank EXCEPT !.calls = calls]
<1>1. PICK n \in Nat : n = Len(log) + 1
  BY Positions DEF IInv
<1>2. /\ e \in Event /\ e.calls = calls /\ e.asks = {} /\ Responses(e) = {} /\ Decisions(e) = {}
  BY DEF Event, Blank, Responses, Decisions
<1>3. /\ DOMAIN log = 1..(n - 1) /\ DOMAIN log' = 1..n /\ Len(log') = n /\ Len(log) = n - 1
      /\ \A i \in DOMAIN log : log'[i] = log[i]
      /\ log'[n] = e /\ TypeOK /\ n > 1
  <2>1. log' = Append(log, e) /\ TypeOK
    BY DEF ModelCalls, IInv
  <2>2. Len(log) # 0
    BY <2>1 DEF ModelCalls, IInv, Heard, TypeOK
  <2> QED BY <1>1, <1>2, <2>1, <2>2, Grown
<1> HIDE DEF e
<1>4. /\ ~ MustPause /\ Owed = {} /\ Last = log[n - 1] /\ Last.calls = {}
  BY <1>3 DEF ModelCalls, LongInv, ModelMay, ToReplay, Last
<1>5. /\ CallEvents' = CallEvents
  BY <1>3, <1>4 DEF CallEvents, Earlier
<1>6. CASE CallEvents = {}
  BY <1>5, <1>6 DEF Owed
<1>7. CASE CallEvents # {}
  <2>1. ~ NothingAnswered
    BY <1>4, <1>7 DEF MustPause
  <2>2. Target' = Target /\ Target \in 1..(n - 1)
    BY <1>3, <1>5, <1>7, TargetIs DEF Target
  <2>3. /\ Later' = Later \cup {n} /\ n \notin Later /\ Later \subseteq DOMAIN log
        /\ Calls' = Calls
    BY <1>3, <2>2 DEF Later, Calls
  <2>4. Answered(Later)' = Answered(Later) /\ Decided(Later)' = Decided(Later)
    <3>1. \A j \in Later : Responses(log[j])' = Responses(log[j])
                           /\ Decisions(log[j])' = Decisions(log[j])
      BY <1>3, <2>3 DEF Responses, Decisions
    <3>2. Responses(log'[n]) = {} /\ Decisions(log'[n]) = {}
      BY <1>2, <1>3
    <3> QED BY <2>3, <3>1, <3>2 DEF Answered, Decided, Responses, Decisions
  <2>5. LongCalls' = LongCalls \cup (calls \cap Long) /\ LongAsks' = LongAsks
    <3>1. (Target..Len(log))' = (Target..Len(log)) \cup {n} /\ Target..Len(log) \subseteq DOMAIN log
      BY <1>3, <2>2
    <3> QED BY <1>2, <1>3, <3>1 DEF LongCalls, LongAsks
  <2>6. \A j \in DOMAIN log : Responses(log[j]) \cap calls = {}
    <3>1. \A j \in DOMAIN log : Responses(log[j]) \subseteq Made
      BY Positions DEF IInv, LogInv, AboutMade, About, MadeBefore, Made
    <3> QED BY <3>1 DEF ModelCalls
  <2>7. Answering' = Answering
    <3>1. \A j \in Later : j \in Answering' <=> j \in Answering
      <4> TAKE j \in Later
      <4>1. j \in DOMAIN log /\ log'[j] = log[j]
        BY <1>3, <2>3
      <4> QED BY <2>3, <2>5, <2>6, <4>1 DEF Answering, Responses, Decisions
    <3>2. n \notin Answering'
      BY <1>2, <1>3 DEF Answering, Responses, Decisions
    <3> QED BY <2>3, <3>1, <3>2 DEF Answering
  <2>8. NeedsReplay' <=> NeedsReplay
    <3>1. Latest(Answering) \in Later /\ AnswerEvent = log[Latest(Answering)]
      BY <1>3, <1>7, <2>1, AnsweringIs DEF Answering
    <3>2. AnswerEvent' = log'[Latest(Answering)]
      BY <2>7 DEF AnswerEvent, Answering
    <3>3. AnswerEvent' = AnswerEvent
      BY <1>3, <2>3, <3>1, <3>2
    <3> QED BY <2>3, <3>3 DEF NeedsReplay, Responses, Decisions
  <2>9. ~ (LongCalls' \subseteq Answered(Later)')
    <3>1. Answered(Later) \cap calls = {}
      BY <2>3, <2>6 DEF Answered
    <3> QED BY <2>4, <2>5, <3>1
  <2>10. ASSUME NeedsReplay PROVE Calls \subseteq Answered(Later)
    BY <1>4, <1>7, <2>1, <2>10 DEF Owed, Unexecuted
  <2>11. NeedsReplay => Unexecuted(TRUE)' = {}
    BY <2>3, <2>4, <2>10 DEF Unexecuted
  <2> QED BY <2>8, <2>9, <2>11 DEF Owed
<1> QED BY <1>6, <1>7

LEMMA LongModelCalls ==
  ASSUME IInv, LongInv, NEW calls \in SUBSET Call, ModelCalls(calls) PROVE LongInv'
<1> DEFINE e == [Blank EXCEPT !.calls = calls]
<1>1. PICK n \in Nat : n = Len(log) + 1
  BY Positions DEF IInv
<1>2. /\ e \in Event /\ e.calls = calls /\ Responses(e) = {}
  BY DEF Event, Blank, Responses
<1>3. /\ DOMAIN log = 1..(n - 1) /\ DOMAIN log' = 1..n /\ Len(log') = n
      /\ \A i \in DOMAIN log : log'[i] = log[i]
      /\ log'[n] = e /\ Made' = Made \cup calls
      /\ \A i \in DOMAIN log' : i \in DOMAIN log \/ i = n
  <2>1. log' = Append(log, e) /\ TypeOK
    BY DEF ModelCalls, IInv
  <2>2. Made' = Made \cup calls
    BY <1>2, <2>1, GrownSets
  <2> QED BY <1>1, <1>2, <2>1, <2>2, Grown
<1> HIDE DEF e
<1>4. /\ pc = "model" /\ pc' = "tools" /\ calls \cap Made = {}
      /\ UNCHANGED <<resumable, out>>
      /\ batch' = [kind |-> "calls", open |-> calls \ Gated, done |-> {}, held |-> calls \cap Gated]
      /\ runs' = [c \in Call |-> IF c \in calls \ Gated THEN runs[c] + 1 ELSE runs[c]]
  BY DEF ModelCalls, RunCalls, Run
<1>5. \A i \in DOMAIN log' : Unanswered(i)' => i = n
  <2> SUFFICES ASSUME NEW i \in DOMAIN log, Unanswered(i)' PROVE FALSE
    BY <1>3
  <2>1. Answered(DOMAIN log)' = Answered(DOMAIN log)
    BY <1>2, <1>3 DEF Answered, Responses
  <2>2. Unanswered(i)
    BY <1>3, <1>4, <2>1 DEF Unanswered
  <2> QED BY <1>4, <2>2, PauseStays DEF LongInv, ModelMay, Unanswered
<1>6. Waiting'
  BY <1>3, <1>5 DEF Waiting
<1>7. OwnBatch'
  BY <1>2, <1>3, <1>4, <1>5 DEF OwnBatch, Quiet
<1>8. NoDrops' /\ ModelMay'
  BY <1>4 DEF LongInv, NoDrops, ModelMay
<1>9. RunsMade'
  BY <1>3, <1>4 DEF LongInv, RunsMade, IInv, TypeOK, Call
<1>10. NothingOwed'
  <2>1. Last'.calls = calls
    BY <1>2, <1>3 DEF Last
  <2> QED BY <1>4, <2>1, ModelOwesNothing DEF NothingOwed
<1> QED BY <1>6, <1>7, <1>8, <1>9, <1>10 DEF LongInv

(* An event that makes no call.                                            *)
LEMMA LongAppend ==
  ASSUME IInv, LongInv, NEW e \in Event, log' = Append(log, e), resumable' = resumable,
         e.calls = {},
         e.asks # {} => \A i \in DOMAIN log : Unanswered(i) =>
           Quiet(i, Len(log)) /\ Decisions(e) = {} /\ Responses(e) \subseteq log[i].calls
  PROVE  /\ Waiting' /\ NothingOwed' /\ Made' = Made
         /\ \A i \in DOMAIN log' : Unanswered(i)' =>
              /\ i \in DOMAIN log /\ Unanswered(i) /\ log'[i] = log[i]
              /\ e.asks # {} => Quiet(i, Len(log))'
<1>1. PICK n \in Nat : n = Len(log) + 1
  BY Positions DEF IInv
<1>2. /\ DOMAIN log = 1..(n - 1) /\ DOMAIN log' = 1..n /\ Len(log') = n /\ Len(log) = n - 1
      /\ \A i \in DOMAIN log : log'[i] = log[i]
      /\ log'[n] = e /\ Made' = Made /\ n \in DOMAIN log'
      /\ \A i \in DOMAIN log' : i \in DOMAIN log \/ i = n
  <2>1. TypeOK /\ Made' = Made
    BY GrownSets DEF IInv
  <2> QED BY <1>1, <2>1, Grown
<1>3. ASSUME NEW i \in DOMAIN log', Unanswered(i)' PROVE i \in DOMAIN log /\ Unanswered(i)
  <2>1. i # n
    BY <1>2, <1>3 DEF Unanswered
  <2>2. Answered(DOMAIN log) \subseteq Answered(DOMAIN log)'
    BY <1>2 DEF Answered, Responses
  <2> QED BY <1>2, <1>3, <2>1, <2>2 DEF Unanswered
<1>4. ASSUME NEW i \in DOMAIN log, NEW j \in 1..(n - 1), Quiet(i, j)
      PROVE  Quiet(i, j)'
  BY <1>2, <1>4 DEF Quiet, Responses, Decisions
<1>5. ASSUME e.asks # {}, NEW i \in DOMAIN log, Unanswered(i) PROVE Quiet(i, Len(log))'
  <2>1. Quiet(i, Len(log)) /\ Decisions(e) = {} /\ Responses(e) \subseteq log[i].calls
    BY <1>5
  <2>2. \A k \in (i + 1)..n : k = n \/ (k \in (i + 1)..(n - 1) /\ k \in DOMAIN log)
    BY <1>2
  <2> QED BY <1>2, <2>1, <2>2 DEF Quiet, Responses, Decisions
<1>6. Waiting'
  <2> SUFFICES ASSUME NEW i \in DOMAIN log', Unanswered(i)', NEW j \in (i + 1)..n
               PROVE  log'[j].calls = {} /\ (log'[j].asks # {} => Quiet(i, j)')
    BY <1>2 DEF Waiting
  <2>1. i \in DOMAIN log /\ Unanswered(i)
    BY <1>3
  <2>2. CASE j = n
    BY <1>2, <1>5, <2>1, <2>2
  <2>3. CASE j # n
    <3>1. j \in (i + 1)..Len(log) /\ j \in DOMAIN log
      BY <1>2, <2>1, <2>3
    <3>2. log[j].calls = {} /\ (log[j].asks # {} => Quiet(i, j))
      BY <2>1, <3>1 DEF LongInv, Waiting
    <3> QED BY <1>2, <1>4, <2>1, <3>1, <3>2
  <2> QED BY <2>2, <2>3
<1>7. NothingOwed'
  BY <1>2 DEF NothingOwed, Last
<1> QED BY <1>2, <1>3, <1>5, <1>6, <1>7

(* Steps that leave the log alone.                                         *)
LEMMA LongSameLog ==
  ASSUME IInv, LongInv, UNCHANGED <<log, resumable>>,
         \A c \in Long : runs'[c] = runs[c],
         pc' = "model" => CallModel \/ pc = "model",
         OwnBatch', NoDrops'
  PROVE  LongInv'
<1>1. Waiting' /\ NothingOwed' /\ Made' = Made
  BY LogReads DEF LongInv
<1>2. ModelMay'
  <2>1. CASE pc = "model"
    BY <2>1, LogReads DEF LongInv, ModelMay
  <2>2. CASE CallModel
    BY <2>2, LogReads DEF ModelMay, CallModel
  <2>3. CASE pc' # "model"
    BY <2>3 DEF ModelMay
  <2> QED BY <2>1, <2>2, <2>3
<1>3. RunsMade'
  BY <1>1 DEF LongInv, RunsMade
<1> QED BY <1>1, <1>2, <1>3 DEF LongInv

LEMMA LongDecision ==
  ASSUME IInv, LongInv, DropRepeats \/ Preprocessed \/ Pause \/ CallModel PROVE LongInv'
<1>1. /\ UNCHANGED <<log, resumable, runs, out, batch>>
      /\ pc' \in {"off", "step", "decide", "model"}
      /\ pc' = "model" => CallModel
  BY DEF DropRepeats, Preprocessed, Pause, CallModel, StepEnds
<1>2. OwnBatch' /\ NoDrops'
  BY <1>1 DEF OwnBatch, LongInv, NoDrops
<1> QED BY <1>1, <1>2, LongSameLog

LEMMA LongRunConfirmed == ASSUME IInv, LongInv, RunConfirmed PROVE LongInv'
<1>1. /\ UNCHANGED <<log, resumable, out>> /\ pc' = "tools" /\ batch'.held = {}
      /\ runs' = [c \in Call |-> IF c \in Fresh \cap log[LastUser].yes
                                 THEN runs[c] + 1 ELSE runs[c]]
  BY DEF RunConfirmed, Run
<1>2. log[LastUser].yes \cap Long = {}
  BY LastUserIs, Positions, Fields, KindsApart DEF IInv, RunConfirmed
<1>3. \A c \in Long : runs'[c] = runs[c]
  BY <1>1, <1>2 DEF Call
<1>4. OwnBatch' /\ NoDrops'
  BY <1>1 DEF OwnBatch, LongInv, NoDrops
<1> QED BY <1>1, <1>3, <1>4, LongSameLog

LEMMA LongReplay == ASSUME IInv, LongInv, Replay PROVE LongInv'
<1>1. /\ UNCHANGED <<log, resumable, out>> /\ pc = "decide" /\ pc' = "tools"
      /\ runs' = [c \in Call |-> IF c \in ToReplay \ Gated THEN runs[c] + 1 ELSE runs[c]]
      /\ ~ MustPause
  BY DEF Replay, RunCalls, Run, ToReplay
<1>2. \A i \in DOMAIN log : ~ Unanswered(i)
  BY <1>1, PauseStays
<1>3. OwnBatch' /\ NoDrops'
  BY <1>1, <1>2, LogReads DEF OwnBatch, LongInv, NoDrops
<1>4. CASE resumable
  <2>1. ToReplay \cap Long = {}
    <3> SUFFICES ASSUME NEW c \in ToReplay, c \in Long PROVE FALSE
      OBVIOUS
    <3>1. PICK i \in DOMAIN log : c \in log[i].calls /\
                                  \A j \in DOMAIN log : j > i => c \notin Responses(log[j])
      BY <1>1, ReplayedFrom DEF IInv
    <3>2. PICK j \in DOMAIN log : c \in Responses(log[j])
      BY <1>2, <1>4, <3>1 DEF Unanswered, Answered
    <3> QED BY <3>1, <3>2, AnswersFollow
  <2>2. \A c \in Long : runs'[c] = runs[c]
    BY <1>1, <2>1 DEF Call
  <2> QED BY <1>1, <1>3, <2>2, LongSameLog
<1>5. CASE ~ resumable
  <2>1. Waiting' /\ NothingOwed'
    BY <1>1, LogReads DEF LongInv
  <2>2. ModelMay' /\ RunsMade'
    BY <1>1, <1>5 DEF ModelMay, RunsMade
  <2> QED BY <1>3, <2>1, <2>2 DEF LongInv
<1> QED BY <1>4, <1>5

(* The batch goes on; its answers and its request are about its own calls. *)
LEMMA LongBatch ==
  ASSUME IInv, LongInv,
         AllReturned \/ BatchEnds \/ \E c \in Call : Return(c) \/ ReturnNothing(c)
  PROVE  LongInv'
<1>1. CASE AllReturned
  <2> DEFINE answers == [Blank EXCEPT !.results = batch.done, !.held = batch.held]
             request == [Blank EXCEPT !.asks = batch.held]
  <2>1. /\ UNCHANGED <<log, resumable, runs, batch>> /\ pc = "tools" /\ pc' = "emit"
        /\ out' \in {<<>>, <<request, answers>>, <<answers>>, <<answers, request>>}
    BY <1>1 DEF AllReturned
  <2>2. answers.dropped = {} /\ request.dropped = {}
    BY DEF Blank
  <2> HIDE DEF answers, request
  <2>3. NoDrops'
    <3>1. \A k \in DOMAIN out' : out'[k] \in {answers, request}
      <4>1. CASE out' = <<>>
        BY <4>1
      <4>2. CASE out' = <<answers>>
        BY <4>2
      <4>3. ASSUME NEW a \in {answers, request}, NEW b \in {answers, request}, out' = <<a, b>>
            PROVE  \A k \in DOMAIN out' : out'[k] \in {answers, request}
        BY <4>3
      <4> QED BY <2>1, <4>1, <4>2, <4>3
    <3> QED BY <2>2, <3>1 DEF NoDrops
  <2>4. OwnBatch'
    BY <2>1, LogReads DEF OwnBatch, LongInv
  <2> QED BY <2>1, <2>3, <2>4, LongSameLog
<1>2. CASE BatchEnds
  <2>1. /\ UNCHANGED <<log, resumable, runs, out>> /\ batch' = NoBatch /\ pc' # "model"
    BY <1>2 DEF BatchEnds, StepEnds
  <2>2. NoDrops' /\ OwnBatch'
    BY <2>1 DEF LongInv, NoDrops, OwnBatch, NoBatch
  <2> QED BY <2>1, <2>2, LongSameLog
<1>3. ASSUME NEW c \in Call, Return(c) \/ ReturnNothing(c) PROVE LongInv'
  <2>1. /\ UNCHANGED <<log, resumable, runs, out, pc>> /\ pc = "tools" /\ c \in batch.open
        /\ \/ batch' = [batch EXCEPT !.open = @ \ {c}, !.done = @ \cup {c}]
           \/ batch' = [batch EXCEPT !.open = @ \ {c}]
    BY <1>3 DEF Return, ReturnNothing
  <2>2. /\ batch'.held = batch.held
        /\ batch'.open \cup batch'.done \subseteq batch.open \cup batch.done
    <3>1. batch \in Batch
      BY DEF IInv, TypeOK
    <3>2. CASE batch' = [batch EXCEPT !.open = @ \ {c}, !.done = @ \cup {c}]
      <4>1. /\ batch'.held = batch.held /\ batch'.open = batch.open \ {c}
            /\ batch'.done = batch.done \cup {c}
        BY <3>1, <3>2 DEF Batch
      <4> QED BY <2>1, <4>1
    <3>3. CASE batch' = [batch EXCEPT !.open = @ \ {c}]
      <4>1. /\ batch'.held = batch.held /\ batch'.open = batch.open \ {c}
            /\ batch'.done = batch.done
        BY <3>1, <3>3 DEF Batch
      <4> QED BY <4>1
    <3> QED BY <2>1, <3>2, <3>3
  <2>3. OwnBatch'
    BY <2>1, <2>2, LogReads DEF OwnBatch, LongInv
  <2>4. NoDrops'
    BY <2>1 DEF LongInv, NoDrops
  <2> QED BY <2>1, <2>3, <2>4, LongSameLog
<1> QED BY <1>1, <1>2, <1>3

LEMMA LongEmit == ASSUME IInv, LongInv, Emit PROVE LongInv'
<1> DEFINE e == Head(out)
<1>1. /\ e \in Event /\ 1 \in DOMAIN out /\ e = out[1]
      /\ \A k \in DOMAIN Tail(out) : k + 1 \in DOMAIN out /\ Tail(out)[k] = out[k + 1]
  BY DEF Emit, IInv, TypeOK
<1>2. FromBatch(e) /\ e.dropped = {}
  BY <1>1 DEF IInv, OutInv, LongInv, NoDrops
<1>3. /\ UNCHANGED <<resumable, pc, batch, runs>> /\ pc = "emit"
      /\ log' = Append(log, e) /\ out' = Tail(out)
  BY DEF Emit
<1> HIDE DEF e
<1>4. /\ e.calls = {} /\ Decisions(e) = {}
      /\ Responses(e) \subseteq batch.done \cup batch.held
      /\ e.asks \subseteq batch.held
  BY <1>2 DEF FromBatch, Decisions, Responses
<1>5. batch.held # {} => \A i \in DOMAIN log : Unanswered(i) =>
        /\ Quiet(i, Len(log)) /\ Decisions(e) = {} /\ Responses(e) \subseteq log[i].calls
        /\ batch.open \cup batch.done \cup batch.held \subseteq log[i].calls
  BY <1>3, <1>4 DEF LongInv, OwnBatch
<1>6. /\ Waiting' /\ NothingOwed' /\ Made' = Made
      /\ \A i \in DOMAIN log' : Unanswered(i)' => i \in DOMAIN log /\ Unanswered(i)
                                                  /\ log'[i] = log[i]
  BY <1>1, <1>3, <1>4, <1>5, LongAppend
<1>7. OwnBatch'
  <2> SUFFICES ASSUME batch.held # {}, NEW i \in DOMAIN log', Unanswered(i)'
               PROVE  /\ Quiet(i, Len(log))'
                      /\ batch.open \cup batch.done \cup batch.held \subseteq log'[i].calls
    BY <1>3 DEF OwnBatch
  <2>1. /\ i \in DOMAIN log /\ Unanswered(i) /\ log'[i] = log[i]
        /\ Quiet(i, Len(log)) /\ Responses(e) \subseteq log[i].calls
        /\ batch.open \cup batch.done \cup batch.held \subseteq log[i].calls
    BY <1>5, <1>6
  <2>2. /\ DOMAIN log = 1..Len(log) /\ Len(log') = Len(log) + 1 /\ Len(log) \in Nat
        /\ \A k \in DOMAIN log : log'[k] = log[k]
        /\ log'[Len(log) + 1] = e
    BY <1>1, <1>3, Grown DEF IInv
  <2>3. \A k \in (i + 1)..Len(log') : k = Len(log) + 1
                                      \/ (k \in (i + 1)..Len(log) /\ k \in DOMAIN log)
    BY <2>1, <2>2
  <2>4. \A k \in (i + 1)..Len(log') :
          Decisions(log'[k]) = {} /\ Responses(log'[k]) \subseteq log[i].calls
    BY <1>4, <2>1, <2>2, <2>3 DEF Quiet
  <2> QED BY <2>1, <2>4 DEF Quiet, Decisions, Responses
<1>8. NoDrops' /\ ModelMay' /\ RunsMade'
  BY <1>1, <1>3, <1>6 DEF LongInv, NoDrops, ModelMay, RunsMade
<1> QED BY <1>6, <1>7, <1>8 DEF LongInv

(* What comes from elsewhere makes no call and requests nothing.           *)
LEMMA LongFromOutside ==
  ASSUME IInv, LongInv, UNCHANGED <<resumable, runs>>,
         pc' \notin {"tools", "emit", "model"}, out' = out \/ out' = <<>>,
         log' = log \/ \E e \in Event : log' = Append(log, e) /\ e.calls = {} /\ e.asks = {}
  PROVE  LongInv'
<1>1. Waiting' /\ NothingOwed' /\ Made' = Made
  <2>1. CASE log' = log
    BY <2>1, LogReads DEF LongInv
  <2>2. ASSUME NEW e \in Event, log' = Append(log, e), e.calls = {}, e.asks = {}
        PROVE  Waiting' /\ NothingOwed' /\ Made' = Made
    BY <2>2, LongAppend
  <2> QED BY <2>1, <2>2
<1>2. OwnBatch' /\ ModelMay' /\ NoDrops' /\ RunsMade'
  BY <1>1 DEF LongInv, OwnBatch, ModelMay, NoDrops, RunsMade
<1> QED BY <1>1, <1>2 DEF LongInv

LEMMA LongOutside ==
  ASSUME IInv, LongInv, UserTurn \/ ModelAnswers \/ Crash \/ Abort \/ \E c \in Call : Raise(c)
  PROVE  LongInv'
<1>0. log \in Seq(Event)
  BY DEF IInv, TypeOK
<1>1. /\ UNCHANGED <<resumable, runs>> /\ pc' \notin {"tools", "emit", "model"}
      /\ out' = out \/ out' = <<>>
  BY DEF UserTurn, Open, Answer, Resume, Turn, ModelAnswers, Crash, Abort, Raise, Stops
<1>2. log' = log \/ \E e \in Event : log' = Append(log, e) /\ e.calls = {} /\ e.asks = {}
  <2>1. \A e \in Event : log \o <<e>> = Append(log, e)
    BY <1>0
  <2>2. log \o <<>> = log
    BY <1>0
  <2>3. CASE Open
    <3>1. [Blank EXCEPT !.by = "user", !.text = TRUE] \in Event
      BY DEF Blank, Event
    <3> QED BY <2>1, <2>3, <3>1 DEF Open, Turn, Blank
  <2>4. CASE Resume
    BY <2>2, <2>4 DEF Resume, Turn
  <2>5. ASSUME NEW results \in SUBSET Long, NEW yes \in SUBSET Gated, NEW no \in SUBSET Gated,
               Answer(results, yes, no)
        PROVE  \E e \in Event : log' = Append(log, e) /\ e.calls = {} /\ e.asks = {}
    <3> DEFINE e == [Blank EXCEPT !.by = "user", !.results = results, !.yes = yes, !.no = no]
    <3>1. e \in Event /\ e.calls = {} /\ e.asks = {}
      BY DEF Blank, Event, Call
    <3> HIDE DEF e
    <3>2. log' = log \o <<e>>
      BY <2>5 DEF Answer, Turn, e
    <3> QED BY <2>1, <3>1, <3>2
  <2>6. CASE ModelAnswers
    <3>1. [Blank EXCEPT !.text = TRUE] \in Event
      BY DEF Blank, Event
    <3> QED BY <2>6, <3>1 DEF ModelAnswers, Blank
  <2>7. CASE Crash
    BY <2>2, <2>7 DEF Crash, Stops
  <2>8. CASE Abort
    <3> DEFINE e == [Blank EXCEPT !.sealed = Made \ Answered(DOMAIN log),
                                  !.dropped = Asked \ Decided(DOMAIN log)]
    <3>1. Made \subseteq Call /\ Asked \subseteq Gated
      BY Positions, Fields DEF Made, Asked, IInv
    <3>2. e \in Event /\ e.calls = {} /\ e.asks = {}
      BY <3>1 DEF Event, Blank
    <3> HIDE DEF e
    <3>3. log' = log \o <<e>>
      BY <2>8 DEF Abort, Stops, e
    <3> QED BY <2>1, <3>2, <3>3
  <2>9. ASSUME NEW c \in Call, Raise(c)
        PROVE  \E e \in Event : log' = Append(log, e) /\ e.calls = {} /\ e.asks = {}
    <3> DEFINE e == [Blank EXCEPT !.results = Kept]
    <3>1. e \in Event /\ e.calls = {} /\ e.asks = {}
      BY DEF Event, Blank, Kept, IInv, TypeOK, Batch
    <3> HIDE DEF e
    <3>2. log' = log \o <<e>>
      BY <2>9 DEF Raise, Stops, e
    <3> QED BY <2>1, <3>1, <3>2
  <2> QED BY <2>3, <2>4, <2>5, <2>6, <2>7, <2>8, <2>9 DEF UserTurn
<1> QED BY <1>1, <1>2, LongFromOutside

LEMMA LongInit == Init => LongInv
<1> SUFFICES ASSUME Init PROVE LongInv
  OBVIOUS
<1>1. Waiting /\ NothingOwed /\ ModelMay /\ OwnBatch /\ NoDrops
  BY DEF Init, Waiting, NothingOwed, ModelMay, OwnBatch, NoDrops
<1>2. RunsMade
  BY DEF Init, RunsMade, Call
<1> QED BY <1>1, <1>2 DEF LongInv

LEMMA LongStep == IInv /\ LongInv /\ [Next]_vars => LongInv'
<1> SUFFICES ASSUME IInv, LongInv, [Next]_vars PROVE LongInv'
  OBVIOUS
<1>1. CASE UserTurn \/ Crash \/ Abort \/ \E c \in Call : Raise(c)
  BY <1>1, LongOutside
<1>2. CASE Work
  <2>1. CASE RunConfirmed
    BY <2>1, LongRunConfirmed
  <2>2. CASE DropRepeats \/ Preprocessed \/ Pause \/ CallModel
    BY <2>2, LongDecision
  <2>3. CASE Replay
    BY <2>3, LongReplay
  <2>4. CASE ModelAnswers
    BY <2>4, LongOutside
  <2>5. CASE \E calls \in SUBSET Call : ModelCalls(calls)
    BY <2>5, LongModelCalls
  <2>6. CASE AllReturned \/ BatchEnds \/ \E c \in Call : Return(c) \/ ReturnNothing(c)
    BY <2>6, LongBatch
  <2>7. CASE Emit
    BY <2>7, LongEmit
  <2> QED BY <1>2, <2>1, <2>2, <2>3, <2>4, <2>5, <2>6, <2>7 DEF Work
<1>3. CASE UNCHANGED vars
  <2>1. UNCHANGED <<resumable, log, pc, batch, out, runs>>
    BY <1>3 DEF vars
  <2>2. OwnBatch' /\ NoDrops'
    BY <2>1, LogReads DEF LongInv, OwnBatch, NoDrops
  <2> QED BY <2>1, <2>2, LongSameLog
<1> QED BY <1>1, <1>2, <1>3 DEF Next

(* In a resumable app a long-running tool is run at most once per call,    *)
(* through crashes, aborts, failures and answers in any order              *)
(* (decide_step_resume, _unexecuted_calls_event).                          *)
THEOREM LongHolds == Spec => []LongRunsOnce
<1>1. LongInv => LongRunsOnce
  BY DEF LongInv, RunsMade, LongRunsOnce
<1> QED BY <1>1, Always, LongInit, LongStep, PTL DEF Spec
=============================================================================
