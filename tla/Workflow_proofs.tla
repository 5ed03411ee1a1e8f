--------------------------- MODULE Workflow_proofs ---------------------------
(***************************************************************************)
(* What holds of the graph engine in every graph, whatever its nodes do    *)
(* and however many runs and turns it takes.                               *)
(*                                                                         *)
(* First what Filter returns, then what the operators of the graph return, *)
(* then the inductive invariant IInv, kept by every step of the loop, of   *)
(* the tasks and of the user, and the theorems that follow from it.        *)
(*                                                                         *)
(* The second part is about replays.  What the events before a place make  *)
(* due is the least set of runs that takes in what they lead to; the       *)
(* invariant WalkInv says that each recorded outcome and each run of the   *)
(* turn is in it.  So the barrier waits for no run that the turn will not  *)
(* come to, as long as the joins keep up with their predecessors; the last *)
(* part says in which graphs they do.                                      *)
(***************************************************************************)
EXTENDS Workflow, FiniteSetTheorems, WellFoundedInduction, TLAPS

-----------------------------------------------------------------------------
(* Filter: what a sequence has in a set, in the order of the sequence.     *)

(* Of some positions there is a first and a last.                          *)
LEMMA LeastIs ==
  ASSUME NEW n \in Nat, NEW S, S \subseteq 1..n, S # {}
  PROVE  \E k \in S : \A j \in S : k =< j
<1> DEFINE Below(k) == {j \in S : j < k}
           T == {Below(k) : k \in S}
<1>1. IsWellFoundedOn(StrictSubsetOrdering(1..n), FiniteSubsetsOf(1..n))
  BY FS_StrictSubsetOrderingWellFounded
<1>2. FiniteSubsetsOf(1..n) = SUBSET (1..n)
  <2>1. IsFiniteSet(1..n)
    BY FS_Interval
  <2> QED BY <2>1, FS_FiniteSubsetsOfFinite
<1>3. T \subseteq SUBSET (1..n) /\ T # {}
  OBVIOUS
<1>4. PICK x \in T : \A y \in T : <<y, x>> \notin StrictSubsetOrdering(1..n)
  <2> HIDE DEF T
  <2>1. T \subseteq FiniteSubsetsOf(1..n) /\ T # {}
    BY <1>2, <1>3
  <2>2. \E x \in T : \A y \in T : ~ (<<y, x>> \in StrictSubsetOrdering(1..n))
    BY ONLY <1>1, <2>1, WFMin
  <2> QED BY <2>2
<1>5. PICK k \in S : x = Below(k)
  BY <1>4
<1>6. \A j \in S : k =< j
  <2> SUFFICES ASSUME NEW j \in S, j < k PROVE FALSE
    OBVIOUS
  <2>1. Below(j) \subseteq Below(k) /\ j \in Below(k) /\ j \notin Below(j)
    <3>1. k \in Nat /\ j \in Nat /\ \A i \in S : i \in Nat
      OBVIOUS
    <3>2. \A i \in S : i < j => i < k
      BY <3>1
    <3>3. ~ (j < j)
      BY <3>1
    <3> QED BY <3>2, <3>3
  <2>2. Below(j) \in T /\ Below(j) \subseteq 1..n /\ Below(k) \subseteq 1..n
    OBVIOUS
  <2>3. <<Below(j), Below(k)>> \in StrictSubsetOrdering(1..n)
    <3> HIDE DEF Below
    <3> QED BY <2>1, <2>2 DEF StrictSubsetOrdering
  <2> QED BY <1>4, <1>5, <2>2, <2>3
<1> QED BY <1>6

(* What holds of 0 and of the next of each number holds of all up to n.    *)
LEMMA Counting ==
  ASSUME NEW n \in Nat, NEW T, 0 \in T, \A i \in 0..(n - 1) : i \in T => i + 1 \in T
  PROVE  0..n \subseteq T
<1> SUFFICES ASSUME 0..n \ T # {} PROVE FALSE
  OBVIOUS
<1>1. 0..n \ T \subseteq 1..n
  OBVIOUS
<1>2. PICK k \in 0..n \ T : \A j \in 0..n \ T : k =< j
  <2> DEFINE S == 0..n \ T
  <2>1. S \subseteq 1..n /\ S # {}
    BY <1>1
  <2> HIDE DEF S
  <2>2. \E k \in S : \A j \in S : k =< j
    BY <2>1, LeastIs
  <2> QED BY <2>2 DEF S
<1>3. k - 1 \in 0..(n - 1) /\ k - 1 \in 0..n /\ k - 1 + 1 = k
  BY <1>1
<1>4. k - 1 \in T
  BY <1>2, <1>3
<1> QED BY <1>2, <1>3, <1>4

(* f keeps, of the first n elements of s, those in S, in their order.      *)
Keeps(f, n, s, S) ==
  \E at \in [1..Len(f) -> 1..n] :
    /\ \A k \in 1..Len(f) : f[k] = s[at[k]] /\ s[at[k]] \in S
    /\ \A k, l \in 1..Len(f) : k < l => at[k] < at[l]
    /\ \A i \in 1..n : s[i] \in S => \E k \in 1..Len(f) : at[k] = i

Step(g, n, s, S) ==
  g = [i \in 0..n |-> IF i = 0 THEN <<>>
                      ELSE IF s[i] \in S THEN Append(g[i - 1], s[i]) ELSE g[i - 1]]

LEMMA StepExtends ==
  ASSUME NEW s, NEW S, NEW n \in Nat, NEW g, Step(g, n, s, S)
  PROVE  \E h : Step(h, n + 1, s, S)
<1> DEFINE v == IF s[n + 1] \in S THEN Append(g[n], s[n + 1]) ELSE g[n]
           h == [i \in 0..(n + 1) |-> IF i = n + 1 THEN v ELSE g[i]]
<1>1. \A i \in 0..(n + 1) : h[i] = IF i = n + 1 THEN v ELSE g[i]
  OBVIOUS
<1> HIDE DEF h
<1>2. \A i \in 0..(n + 1) : 
        (IF i = n + 1 THEN v ELSE g[i]) = IF i = 0 THEN <<>>
                      ELSE IF s[i] \in S THEN Append(h[i - 1], s[i]) ELSE h[i - 1]
  <2> SUFFICES ASSUME NEW i \in 0..(n + 1)
               PROVE  (IF i = n + 1 THEN v ELSE g[i]) = IF i = 0 THEN <<>>
                      ELSE IF s[i] \in S THEN Append(h[i - 1], s[i]) ELSE h[i - 1]
    OBVIOUS
  <2>1. CASE i = n + 1
    <3>1. h[i - 1] = g[n] /\ i # 0
      BY <2>1, <1>1
    <3> QED BY <2>1, <3>1
  <2>2. CASE i # n + 1 /\ i # 0
    <3>1. h[i - 1] = g[i - 1] /\ i \in 0..n
      BY <2>2, <1>1
    <3>2. g[i] = IF i = 0 THEN <<>>
                      ELSE IF s[i] \in S THEN Append(g[i - 1], s[i]) ELSE g[i - 1]
      BY <3>1 DEF Step
    <3> QED BY <2>2, <3>1, <3>2
  <2>3. CASE i = 0
    <3>1. g[0] = <<>>
      BY DEF Step
    <3> QED BY <2>3, <3>1
  <2> QED BY <2>1, <2>2, <2>3
<1>3. Step(h, n + 1, s, S)
  BY <1>2 DEF Step, h
<1> QED BY <1>3

LEMMA StepExists ==
  ASSUME NEW s, NEW S, NEW n \in Nat
  PROVE  \E g : Step(g, n, s, S)
<1> DEFINE T == {i \in 0..n : \E g : Step(g, i, s, S)}
<1>1. 0 \in T
  <2>1. Step([i \in 0..0 |-> <<>>], 0, s, S)
    BY DEF Step
  <2> QED BY <2>1
<1>2. ASSUME NEW i \in 0..(n - 1), i \in T PROVE i + 1 \in T
  <2>1. i + 1 \in 0..n /\ i \in Nat
    OBVIOUS
  <2>2. \E h : Step(h, i + 1, s, S)
    BY <1>2, <2>1, StepExtends
  <2> QED BY <2>1, <2>2
<1> HIDE DEF T
<1>3. 0..n \subseteq T
  BY <1>1, <1>2, Counting
<1>4. n \in T
  BY <1>3
<1> QED BY <1>4 DEF T

(* What each step keeps.                                                   *)
LEMMA StepKeeps ==
  ASSUME NEW T, NEW n \in Nat, NEW s \in Seq(T), n = Len(s), NEW S, NEW g, Step(g, n, s, S)
  PROVE  g[n] \in Seq(T) /\ Keeps(g[n], n, s, S)
<1>0. \A i \in 0..n : g[i] = IF i = 0 THEN <<>>
                            ELSE IF s[i] \in S THEN Append(g[i - 1], s[i]) ELSE g[i - 1]
  BY DEF Step
<1> DEFINE Good == {i \in 0..n : g[i] \in Seq(T) /\ Keeps(g[i], i, s, S)}
<1>1. 0 \in Good
  <2>1. g[0] = <<>> /\ 0 \in 0..n
    BY <1>0
  <2>2. Len(g[0]) = 0 /\ 1..0 = {} /\ g[0] \in Seq(T)
    BY <2>1
  <2>3. Keeps(g[0], 0, s, S)
    <3>1. [k \in 1..0 |-> 0] \in [1..0 -> 1..0]
      BY <2>2
    <3> QED BY <2>2, <3>1 DEF Keeps
  <2> QED BY <2>1, <2>2, <2>3
<1>2. ASSUME NEW i \in 0..(n - 1), i \in Good PROVE i + 1 \in Good
  <2>1. /\ i + 1 \in 0..n /\ i \in Nat /\ i + 1 \in 1..n /\ i + 1 # 0
        /\ i + 1 - 1 = i /\ s[i + 1] \in T
    OBVIOUS
  <2>2. g[i + 1] = IF s[i + 1] \in S THEN Append(g[i], s[i + 1]) ELSE g[i]
    BY <1>0, <2>1
  <2> DEFINE f == g[i]
  <2>3. f \in Seq(T) /\ Len(f) \in Nat
    BY <1>2
  <2>4. PICK at \in [1..Len(f) -> 1..i] :
          /\ \A k \in 1..Len(f) : f[k] = s[at[k]] /\ s[at[k]] \in S
          /\ \A k, l \in 1..Len(f) : k < l => at[k] < at[l]
          /\ \A j \in 1..i : s[j] \in S => \E k \in 1..Len(f) : at[k] = j
    BY <1>2 DEF Keeps
  <2> HIDE DEF f
  <2>5. CASE s[i + 1] \in S
    <3> DEFINE h == Append(f, s[i + 1])
               to == [k \in 1..(Len(f) + 1) |-> IF k = Len(f) + 1 THEN i + 1 ELSE at[k]]
    <3>1. /\ h \in Seq(T) /\ Len(h) = Len(f) + 1
          /\ \A k \in 1..Len(f) : h[k] = f[k]
          /\ h[Len(f) + 1] = s[i + 1]
      BY <2>1, <2>3
    <3>2. /\ to \in [1..(Len(f) + 1) -> 1..(i + 1)]
          /\ \A k \in 1..Len(f) : to[k] = at[k] /\ at[k] \in 1..i /\ k \in 1..(Len(f) + 1)
          /\ to[Len(f) + 1] = i + 1 /\ Len(f) + 1 \in 1..(Len(f) + 1)
          /\ \A k \in 1..(Len(f) + 1) : k = Len(f) + 1 \/ k \in 1..Len(f)
      <4> HIDE DEF h
      <4>1. /\ Len(f) + 1 \in 1..(Len(f) + 1)
            /\ \A k \in 1..Len(f) : k \in 1..(Len(f) + 1) /\ k # Len(f) + 1
            /\ \A k \in 1..(Len(f) + 1) : k = Len(f) + 1 \/ k \in 1..Len(f)
        BY <2>3
      <4>2. /\ \A k \in 1..Len(f) : at[k] \in 1..i
            /\ 1..i \subseteq 1..(i + 1) /\ i + 1 \in 1..(i + 1)
        BY <2>1
      <4>3. \A k \in 1..(Len(f) + 1) : to[k] = IF k = Len(f) + 1 THEN i + 1 ELSE at[k]
        OBVIOUS
      <4>4. \A k \in 1..(Len(f) + 1) : (IF k = Len(f) + 1 THEN i + 1 ELSE at[k]) \in 1..(i + 1)
        BY <4>1, <4>2
      <4>5. to \in [1..(Len(f) + 1) -> 1..(i + 1)]
        BY <4>4
      <4> QED BY <4>1, <4>2, <4>3, <4>5
    <3> HIDE DEF h, to
    <3>3. \A k \in 1..(Len(f) + 1) : h[k] = s[to[k]] /\ s[to[k]] \in S
      BY <2>4, <2>5, <3>1, <3>2
    <3>4. \A k, l \in 1..(Len(f) + 1) : k < l => to[k] < to[l]
      BY <2>1, <2>3, <2>4, <3>2
    <3>5. \A j \in 1..(i + 1) : s[j] \in S => \E k \in 1..(Len(f) + 1) : to[k] = j
      <4>1. i + 1 \in 1..(i + 1) /\ \A j \in 1..(i + 1) : j = i + 1 \/ j \in 1..i
        BY <2>1
      <4>2. ASSUME NEW j \in 1..i, s[j] \in S PROVE \E k \in 1..(Len(f) + 1) : to[k] = j
        <5>1. PICK k \in 1..Len(f) : at[k] = j
          BY <2>4, <4>2
        <5> QED BY <3>2, <5>1
      <4> QED BY <3>2, <4>1, <4>2
    <3>6. Keeps(h, i + 1, s, S)
      <4>1. \A k \in 1..Len(h) : h[k] = s[to[k]] /\ s[to[k]] \in S
        BY <3>1, <3>3
      <4>2. \A k, l \in 1..Len(h) : k < l => to[k] < to[l]
        BY <3>1, <3>4
      <4>3. \A j \in 1..(i + 1) : s[j] \in S => \E k \in 1..Len(h) : to[k] = j
        BY <3>1, <3>5
      <4>4. to \in [1..Len(h) -> 1..(i + 1)]
        BY <3>1, <3>2
      <4> QED BY <4>1, <4>2, <4>3, <4>4 DEF Keeps
    <3> QED BY <2>1, <2>2, <2>5, <3>1, <3>6 DEF h, f
  <2>6. CASE s[i + 1] \notin S
    <3>1. at \in [1..Len(f) -> 1..(i + 1)]
      BY <2>1, <2>4
    <3>2. \A j \in 1..(i + 1) : s[j] \in S => \E k \in 1..Len(f) : at[k] = j
      BY <2>1, <2>4, <2>6
    <3>3. Keeps(f, i + 1, s, S)
      BY <2>4, <3>1, <3>2 DEF Keeps
    <3> QED BY <2>1, <2>2, <2>3, <2>6, <3>3 DEF f
  <2> QED BY <2>5, <2>6
<1>3. 0..n \subseteq Good
  <2> HIDE DEF Good
  <2> QED BY <1>1, <1>2, Counting
<1>4. n \in Good
  BY <1>3
<1> QED BY <1>4

LEMMA FilterKeeps ==
  ASSUME NEW T, NEW s \in Seq(T), NEW S
  PROVE  Filter(s, S) \in Seq(T) /\ Keeps(Filter(s, S), Len(s), s, S)
<1> DEFINE n == Len(s)
           kept == CHOOSE g : Step(g, n, s, S)
<1>1. n \in Nat
  OBVIOUS
<1>2. Step(kept, n, s, S)
  <2>1. \E g : Step(g, n, s, S)
    BY <1>1, StepExists
  <2> QED BY <2>1
<1>3. Filter(s, S) = kept[n]
  BY DEF Filter, Step
<1>4. kept[n] \in Seq(T) /\ Keeps(kept[n], n, s, S)
  <2> HIDE DEF kept
  <2> QED BY <1>1, <1>2, StepKeeps
<1> QED BY <1>3, <1>4

LEMMA FilterElements ==
  ASSUME NEW T, NEW s \in Seq(T), NEW S
  PROVE  /\ Filter(s, S) \in Seq(T) /\ ToSet(Filter(s, S)) = ToSet(s) \cap S
         /\ Filter(s, S) = <<>> <=> ToSet(s) \cap S = {}
<1> DEFINE f == Filter(s, S)
           n == Len(s)
<1>1. f \in Seq(T) /\ Keeps(f, n, s, S)
  BY FilterKeeps
<1> HIDE DEF f
<1>2. PICK at \in [1..Len(f) -> 1..n] :
        /\ \A k \in 1..Len(f) : f[k] = s[at[k]] /\ s[at[k]] \in S
        /\ \A i \in 1..n : s[i] \in S => \E k \in 1..Len(f) : at[k] = i
  BY <1>1 DEF Keeps
<1>3. DOMAIN f = 1..Len(f) /\ DOMAIN s = 1..n /\ Len(f) \in Nat
  BY <1>1
<1>4. ToSet(f) \subseteq ToSet(s) \cap S
  BY <1>2, <1>3 DEF ToSet
<1>5. ASSUME NEW x \in ToSet(s) \cap S PROVE x \in ToSet(f)
  <2>1. PICK i \in 1..n : x = s[i]
    BY <1>3 DEF ToSet
  <2>2. PICK k \in 1..Len(f) : at[k] = i
    BY <1>2, <1>5, <2>1
  <2> QED BY <1>2, <1>3, <2>1, <2>2 DEF ToSet
<1>6. f = <<>> <=> ToSet(f) = {}
  <2>1. f = <<>> => ToSet(f) = {}
    BY DEF ToSet
  <2>2. ASSUME f # <<>> PROVE ToSet(f) # {}
    <3>1. 1 \in DOMAIN f
      BY <1>1, <1>3, <2>2
    <3> QED BY <3>1 DEF ToSet
  <2> QED BY <2>1, <2>2
<1> QED BY <1>1, <1>4, <1>5, <1>6 DEF f

LEMMA Elements ==
  ASSUME NEW T, NEW s \in Seq(T), NEW t \in Seq(T)
  PROVE  /\ s \o t \in Seq(T) /\ ToSet(s \o t) = ToSet(s) \cup ToSet(t)
         /\ ToSet(s) \subseteq T /\ ToSet(<<>>) = {}
         /\ s = <<>> <=> ToSet(s) = {}
<1> DEFINE u == s \o t
<1>1. /\ u \in Seq(T) /\ Len(u) = Len(s) + Len(t) /\ Len(s) \in Nat /\ Len(t) \in Nat
      /\ DOMAIN s = 1..Len(s) /\ DOMAIN t = 1..Len(t) /\ DOMAIN u = 1..(Len(s) + Len(t))
      /\ \A i \in 1..Len(s) : u[i] = s[i] /\ s[i] \in T
      /\ \A i \in 1..Len(t) : u[Len(s) + i] = t[i]
  OBVIOUS
<1> HIDE DEF u
<1>2. ToSet(s) \cup ToSet(t) \subseteq ToSet(u)
  <2>1. ASSUME NEW i \in 1..Len(s) PROVE s[i] \in ToSet(u)
    <3>1. i \in DOMAIN u
      BY <1>1
    <3> QED BY <1>1, <3>1 DEF ToSet
  <2>2. ASSUME NEW i \in 1..Len(t) PROVE t[i] \in ToSet(u)
    <3>1. Len(s) + i \in DOMAIN u
      BY <1>1
    <3> QED BY <1>1, <3>1 DEF ToSet
  <2> QED BY <1>1, <2>1, <2>2 DEF ToSet
<1>3. ASSUME NEW i \in DOMAIN u PROVE u[i] \in ToSet(s) \cup ToSet(t)
  <2>1. CASE i \in 1..Len(s)
    BY <1>1, <2>1 DEF ToSet
  <2>2. CASE i \notin 1..Len(s)
    <3>1. i - Len(s) \in 1..Len(t) /\ Len(s) + (i - Len(s)) = i
      BY <1>1, <2>2
    <3>2. u[i] = t[i - Len(s)]
      BY <1>1, <3>1
    <3> QED BY <1>1, <3>1, <3>2 DEF ToSet
  <2> QED BY <2>1, <2>2
<1>4. ToSet(u) \subseteq ToSet(s) \cup ToSet(t)
  BY <1>3 DEF ToSet
<1>5. ToSet(s) \subseteq T /\ ToSet(<<>>) = {}
  BY <1>1 DEF ToSet
<1>6. s # <<>> => ToSet(s) # {}
  <2> SUFFICES ASSUME s # <<>> PROVE ToSet(s) # {}
    OBVIOUS
  <2>1. 1 \in DOMAIN s
    BY <1>1
  <2> QED BY <2>1 DEF ToSet
<1> QED BY <1>1, <1>2, <1>4, <1>5, <1>6 DEF u

(* Of some positions there is a last one.                                  *)
LEMMA LatestIs ==
  ASSUME NEW n \in Nat, NEW S, S \subseteq 1..n, S # {}
  PROVE  Latest(S) \in S /\ \A i \in S : i =< Latest(S)
<1> DEFINE R == {n + 1 - i : i \in S}
<1>1. R \subseteq 1..n /\ R # {}
  <2>1. \A i \in 1..n : n + 1 - i \in 1..n
    OBVIOUS
  <2> QED BY <2>1
<1>2. PICK k \in R : \A j \in R : k =< j
  <2> HIDE DEF R
  <2> QED BY <1>1, LeastIs
<1>3. PICK i \in S : k = n + 1 - i
  BY <1>2
<1>4. \A j \in S : j =< i
  <2> SUFFICES ASSUME NEW j \in S PROVE j =< i
    OBVIOUS
  <2>1. n + 1 - i =< n + 1 - j
    BY <1>2, <1>3
  <2> QED BY <2>1
<1> QED BY <1>4 DEF Latest

-----------------------------------------------------------------------------
(* The invariant.                                                          *)

Inputs(j) == <<input[j]>> \o triggers[j]

(* Tasks: who is in flight is pending and running, and was given a run.    *)
InFlight == \A n \in Node : /\ task[n] # "none" <=> n \in ToSet(pending)
                            /\ task[n] # "none" <=> status[n] = "RUNNING"
                            /\ task[n] # "none" => runs[n] >= 1
ReplayedTasks == /\ \A n \in replayed : task[n] \in {"held", "done", "raised"}
                 /\ \A n \in batch : task[n] \in {"done", "raised"}
Queued == \A n \in ToSet(order) : triggers[n] # <<>>
Limited == limit = 0 \/ Cardinality(ToSet(pending) \ replayed) =< limit

(* Events: a run that has a result has nothing after it and does not       *)
(* execute.                                                                *)
ResultsLast == \A i, j \in DOMAIN session :
  session[i].kind = "result" /\ session[i].key = session[j].key => j =< i
LiveIsNew == \A n \in Node : task[n] = "live" =>
  \A i \in DOMAIN session : session[i].key = KeyOf(n) => session[i].kind # "result"

(* The barrier: a run has one place, the tasks of the finished runs have   *)
(* ended, and a replayed run that has ended comes after finished ones.     *)
OnePlace == \A p, q \in sequence : p.key = q.key => p = q
FinishedEnded == \A k \in finished :
  /\ k.node \in Node /\ k.run =< runs[k.node]
  /\ k = KeyOf(k.node) => task[k.node] \in {"none", "done"} \/ Pending(k)
ReplayedInTurn == \A n \in replayed : task[n] = "done" =>
  \A p, q \in sequence : q.key = KeyOf(n) /\ p.at < q.at => p.key \in finished
BatchInTurn == pc = "handle" /\ ~error =>
  \A n \in batch \cap replayed : task[n] = "done" => \A p, q \in sequence :
    q.key = KeyOf(n) /\ p.at < q.at /\ ~p.pending
    => HandledBy(p.key) \/ (p.key.node \in batch /\ p.key = KeyOf(p.key.node))
Rest == pc \in Over \ {"completed"} => replayed = {} /\ pending = <<>>

(* Joins: the inputs a join was given and is going to be given have later  *)
(* and later runs of the nodes that feed it, and one that has arrived, or  *)
(* is in flight, is in a run that none of them has.                        *)
Ascending == \A j \in Join : \A p \in Fed(j) : \A a, b \in DOMAIN Inputs(j) :
  a < b => \A r \in RunsOf(p, Inputs(j)[a]), s \in RunsOf(p, Inputs(j)[b]) : s > r
Behind == \A j \in Join : \A p \in Fed(j) : \A a \in DOMAIN Inputs(j) :
  \A r \in RunsOf(p, Inputs(j)[a]) :
    /\ r =< runs[p]
    /\ p \in arrivals[j] \/ task[p] # "none" => r < runs[p]

OutOfWork == pc \in {"leave", "completed"} =>
  /\ pending = <<>>
  /\ order = <<>> \/ Waiting # {} \/ \E n \in TaskAgent : status[n] = "WAITING"
  /\ pc = "completed" => Waiting = {}

IInv == /\ TypeOK
        /\ InFlight /\ ReplayedTasks /\ Queued /\ Limited
        /\ ResultsLast /\ LiveIsNew
        /\ OnePlace /\ FinishedEnded /\ ReplayedInTurn /\ BatchInTurn /\ Rest
        /\ Ascending /\ Behind
        /\ OutOfWork

-----------------------------------------------------------------------------
(* The graph.                                                              *)

EdgeType == [from : Node \cup {Start}, to : Node, route : Routes]

LEMMA TargetsAre ==
  ASSUME NEW edges \in Seq(EdgeType) PROVE Targets(edges) \in Seq(Node)
<1>1. DOMAIN edges = 1..Len(edges) /\ Len(edges) \in Nat
      /\ \A i \in DOMAIN edges : edges[i] \in EdgeType
  OBVIOUS
<1>2. \A i \in DOMAIN edges : edges[i].to \in Node
  BY <1>1 DEF EdgeType
<1>3. [i \in DOMAIN edges |-> edges[i].to] \in [1..Len(edges) -> Node]
  BY <1>1, <1>2
<1> QED BY <1>1, <1>3 DEF Targets

LEMMA FromIs == ASSUME NEW n \in Node \cup {Start} PROVE From[n] \in Seq(EdgeType)
<1>1. Edges \in Seq(EdgeType)
  BY GraphAssumption DEF EdgeType
<1> QED BY <1>1, FilterElements DEF From

LEMMA NextNodesAre ==
  ASSUME NEW n \in Node, NEW route \in Routes PROVE NextNodes[n][route] \in Seq(Node)
<1>1. From[n] \in Seq(EdgeType)
  BY FromIs
<1>2. \A S, T : Filter(From[n], S) \o Filter(From[n], T) \in Seq(EdgeType)
  BY <1>1, FilterElements, Elements
<1>3. \A S, T : Targets(Filter(From[n], S) \o Filter(From[n], T)) \in Seq(Node)
  BY <1>2, TargetsAre
<1>4. \E S, T : NextNodes[n][route] = Targets(Filter(From[n], S) \o Filter(From[n], T))
  BY DEF NextNodes
<1> QED BY <1>3, <1>4

LEMMA SeededAre == Seeded \in Seq(Node)
<1>1. Targets(From[Start]) \in Seq(Node)
  BY FromIs, TargetsAre
<1> QED BY <1>1, FilterElements DEF Seeded

LEMMA FedAre == ASSUME NEW j \in Join PROVE Fed(j) \subseteq Predecessors(j) \cap Node
<1>1. j \in Node /\ \A e \in ToSet(Edges) : e.from \in Node \cup {Start}
  <2>1. Edges \in Seq(EdgeType) /\ j \in Node
    BY GraphAssumption DEF EdgeType
  <2>2. ToSet(Edges) \subseteq EdgeType
    BY <2>1, Elements
  <2> QED BY <2>1, <2>2 DEF EdgeType
<1>2. Descendants[j] \subseteq Node
  BY <1>1 DEF Descendants
<1> QED BY <1>1, <1>2 DEF Fed, Predecessors

-----------------------------------------------------------------------------

(* A turn begins, or has ended and forgotten its state.                    *)

FreshTurn ==
  /\ order = Seeded /\ triggers = Seeds /\ arrivals = [j \in Join |-> {}]
  /\ runs = Each(0) /\ status = Each("NONE") /\ input = Each({})
  /\ pending = <<>> /\ replayed = {} /\ batch = {}
  /\ task = Each("none") /\ outcome = Each(NoOutcome) /\ finished = {}
  /\ error = FALSE /\ aborted = FALSE /\ diverged = "no"

Kept ==
  /\ session \in Seq(SessionEvent) /\ turn \in 1..MaxTurns /\ limit \in Limits
  /\ sequence \subseteq [key : Key, pending : BOOLEAN, at : Nat]
  /\ pc \in {"handle"} \cup (Over \ {"completed"})
  /\ ResultsLast /\ OnePlace

LEMMA SeedsAre ==
  /\ \A n \in Node : Seeds[n] \in Seq(SUBSET Key)
  /\ \A n \in ToSet(Seeded) : Seeds[n] # <<>>
  /\ \A n \in Node : \A b \in DOMAIN Seeds[n] : Seeds[n][b] = {StartKey}
<1>1. StartKey \in Key
  BY BoundsAssumption DEF StartKey, Key
<1>2. ToSet(Seeded) \subseteq Node
  BY SeededAre, Elements
<1>3. <<{StartKey}>> \in Seq(SUBSET Key) /\ <<>> \in Seq(SUBSET Key)
  BY <1>1
<1>4. \A n \in Node : Seeds[n] = IF n \in ToSet(Seeded) THEN <<{StartKey}>> ELSE <<>>
  BY DEF Seeds
<1>5. \A n \in Node : Seeds[n] \in Seq(SUBSET Key)
  BY <1>3, <1>4
<1>6. \A n \in ToSet(Seeded) : Seeds[n] # <<>>
  BY <1>2, <1>4
<1>7. ASSUME NEW n \in Node, NEW b \in DOMAIN Seeds[n] PROVE Seeds[n][b] = {StartKey}
  <2>1. CASE n \in ToSet(Seeded)
    <3>1. Seeds[n] = <<{StartKey}>> /\ b = 1
      BY <1>4, <1>7, <2>1
    <3> QED BY <3>1
  <2>2. CASE n \notin ToSet(Seeded)
    BY <1>4, <1>7, <2>2
  <2> QED BY <2>1, <2>2
<1> QED BY <1>5, <1>6, <1>7

(* What a join was given and what is queued for it.                        *)
LEMMA InputsAre ==
  ASSUME NEW j \in Node, triggers[j] \in Seq(SUBSET Key)
  PROVE  /\ Inputs(j)[1] = input[j] /\ 1 \in DOMAIN Inputs(j)
         /\ \A b \in DOMAIN triggers[j] :
              b + 1 \in DOMAIN Inputs(j) /\ Inputs(j)[b + 1] = triggers[j][b]
         /\ \A a \in DOMAIN Inputs(j) :
              a = 1 \/ \E b \in DOMAIN triggers[j] : a = b + 1 /\ Inputs(j)[a] = triggers[j][b]
         /\ DOMAIN Inputs(j) = 1..(Len(triggers[j]) + 1) /\ Len(triggers[j]) \in Nat
<1> DEFINE s == triggers[j]
           t == <<input[j]>>
           u == t \o s
<1>1. Len(s) \in Nat /\ DOMAIN s = 1..Len(s) /\ Len(t) = 1 /\ t[1] = input[j]
  OBVIOUS
<1>2. t \in Seq({input[j]} \cup SUBSET Key) /\ s \in Seq({input[j]} \cup SUBSET Key)
  OBVIOUS
<1> HIDE DEF s, t
<1>3. /\ DOMAIN u = 1..(Len(t) + Len(s))
      /\ \A i \in 1..Len(t) : u[i] = t[i]
      /\ \A i \in 1..Len(s) : u[Len(t) + i] = s[i]
  BY <1>2
<1> HIDE DEF u
<1>4. /\ u[1] = input[j] /\ 1 \in DOMAIN u /\ DOMAIN u = 1..(Len(s) + 1)
      /\ \A b \in DOMAIN s : b + 1 \in DOMAIN u /\ u[b + 1] = s[b]
      /\ \A a \in DOMAIN u : a = 1 \/ (a - 1 \in DOMAIN s /\ a - 1 + 1 = a)
  BY <1>1, <1>3
<1>5. \A a \in DOMAIN u : a = 1 \/ \E b \in DOMAIN s : a = b + 1 /\ u[a] = s[b]
  BY <1>4
<1> QED BY <1>1, <1>4, <1>5 DEF Inputs, s, t, u

LEMMA FreshIInv == FreshTurn /\ Kept => IInv
<1> SUFFICES ASSUME FreshTurn, Kept PROVE IInv
  OBVIOUS
<1> USE DEF FreshTurn, Kept, Each
<1>1. ToSet(pending) = {} /\ Active = 0
  <2>1. ToSet(pending) = {}
    BY DEF ToSet
  <2> QED BY <2>1, FS_EmptySet DEF Active
<1>2. /\ runs \in [Node -> 0..MaxRuns] /\ input \in [Node -> SUBSET Key]
      /\ task \in [Node -> {"none", "held", "live", "recorded", "done", "raised"}]
      /\ status \in [Node -> {"NONE", "RUNNING", "COMPLETED", "WAITING", "INTERRUPTED", "FAILED"}]
      /\ outcome \in [Node -> Outcome]
  <2>1. NoOutcome \in Outcome
    BY DEF NoOutcome, Outcome, Kinds, Routes
  <2> QED BY <2>1, BoundsAssumption
<1>3. TypeOK
  <2>1. order \in Seq(Node) /\ triggers \in [Node -> Seq(SUBSET Key)]
    BY SeededAre, SeedsAre DEF Seeds
  <2>2. arrivals \in [Join -> SUBSET Node]
    OBVIOUS
  <2>3. pending \in Seq(Node) /\ batch \subseteq ToSet(pending)
    OBVIOUS
  <2>4. /\ error \in BOOLEAN /\ aborted \in BOOLEAN /\ diverged \in {"no", "stuck", "slow"}
        /\ pc \in {"handle", "wait", "drain", "cleanup", "leave"} \cup Over
        /\ finished \subseteq Key /\ replayed \subseteq Node
    OBVIOUS
  <2> QED BY <1>2, <2>1, <2>2, <2>3, <2>4 DEF TypeOK
<1>4. InFlight /\ ReplayedTasks /\ LiveIsNew
  BY <1>1 DEF InFlight, ReplayedTasks, LiveIsNew
<1>5. Queued
  BY SeedsAre DEF Queued
<1>6. Limited
  <2>1. limit \in Nat /\ Cardinality(ToSet(pending) \ replayed) = 0
    BY <1>1, BoundsAssumption DEF Active
  <2> QED BY <2>1 DEF Limited
<1>7. FinishedEnded /\ ReplayedInTurn /\ BatchInTurn /\ Rest
  BY DEF FinishedEnded, ReplayedInTurn, BatchInTurn, Rest
<1>8. ASSUME NEW j \in Join, NEW p \in Fed(j), NEW a \in DOMAIN Inputs(j)
      PROVE  RunsOf(p, Inputs(j)[a]) = {}
  <2>1. p \in Node /\ p # Start /\ j \in Node
    BY FedAre, GraphAssumption
  <2>2. input[j] = {} /\ triggers[j] \in Seq(SUBSET Key)
    BY <2>1, SeedsAre
  <2>3. Inputs(j)[a] \in {{}, {StartKey}}
    <3>1. a = 1 \/ \E b \in DOMAIN triggers[j] : Inputs(j)[a] = triggers[j][b]
      BY <2>1, <2>2, InputsAre
    <3>2. Inputs(j)[1] = {} /\ triggers[j] = Seeds[j]
      BY <2>1, <2>2, InputsAre
    <3> QED BY <2>1, <3>1, <3>2, SeedsAre
  <2> QED BY <2>1, <2>3 DEF RunsOf, StartKey
<1>9. Ascending /\ Behind
  BY <1>8 DEF Ascending, Behind
<1>10. OutOfWork
  BY DEF OutOfWork, Over
<1> QED BY <1>3, <1>4, <1>5, <1>6, <1>7, <1>9, <1>10 DEF IInv

LEMMA FreshStep == FreshTurn' /\ Kept' => IInv'
BY FreshIInv, PTL

LEMMA InitIInv == Init => IInv
<1> SUFFICES ASSUME Init PROVE IInv
  OBVIOUS
<1>1. FreshTurn
  BY DEF Init, FreshTurn
<1>2. Kept
  BY BoundsAssumption DEF Init, Kept, ResultsLast, OnePlace, Over
<1> QED BY <1>1, <1>2, FreshIInv

LEMMA ReturnStep ==
  ASSUME IInv, NEW how \in Over \ {"completed"}, Return(how) PROVE IInv'
<1>1. FreshTurn'
  BY DEF Return, Fresh, FreshTurn
<1>2. Kept'
  BY DEF Return, Kept, IInv, TypeOK, ResultsLast, OnePlace
<1> QED BY <1>1, <1>2, FreshStep

-----------------------------------------------------------------------------
(* The steps that leave the buffer and the runs alone.                     *)

LEMMA KeysAre ==
  ASSUME IInv
  PROVE  /\ \A n \in Node : KeyOf(n) \in Key /\ KeyOf(n).node = n /\ KeyOf(n).run = runs[n]
         /\ \A k \in Key : k.node \in Node /\ k.run = runs[k.node] => k = KeyOf(k.node)
         /\ \A m, n \in Node : KeyOf(m) = KeyOf(n) => m = n
BY DEF IInv, TypeOK, KeyOf, Key

LEMMA JoinsKept ==
  ASSUME IInv, UNCHANGED <<input, triggers, arrivals, runs>>,
         \A m \in Node : task'[m] # "none" => task[m] # "none"
  PROVE  Ascending' /\ Behind'
<1>1. \A j : Inputs(j)' = Inputs(j)
  BY DEF Inputs
<1>2. \A j \in Join : Fed(j) \subseteq Node
  BY FedAre
<1> QED BY <1>1, <1>2 DEF IInv, Ascending, Behind

LEMMA WakeStep == ASSUME IInv, Wake PROVE IInv'
<1> USE DEF Wake, taskVars
<1>1. TypeOK'
  <2>1. Done \subseteq ToSet(pending)
    BY DEF Done
  <2> QED BY <2>1 DEF IInv, TypeOK
<1>2. Ascending' /\ Behind'
  BY JoinsKept
<1>3. BatchInTurn'
  <2> SUFFICES ASSUME NEW n \in Done \cap replayed, task[n] = "done", NEW p \in sequence,
                      NEW q \in sequence, q.key = KeyOf(n), p.at < q.at, ~p.pending
               PROVE  HandledBy(p.key) \/ (p.key.node \in Done /\ p.key = KeyOf(p.key.node))
    BY DEF BatchInTurn, HandledBy, KeyOf
  <2>1. p.key \in finished /\ p.key \in Key
    BY DEF IInv, ReplayedInTurn, TypeOK
  <2> DEFINE m == p.key.node
  <2>2. m \in Node /\ p.key.run =< runs[m] /\ runs[m] \in Nat /\ p.key.run \in Nat
    BY <2>1 DEF IInv, FinishedEnded, TypeOK, Key
  <2>3. CASE p.key.run = runs[m]
    <3>1. p.key = KeyOf(m)
      BY <2>1, <2>2, <2>3, KeysAre
    <3>2. ~Pending(p.key)
      BY DEF Pending, IInv, OnePlace
    <3>3. task[m] \in {"none", "done"}
      BY <2>1, <3>1, <3>2 DEF IInv, FinishedEnded
    <3>4. m \notin ToSet(pending) \/ m \in Done
      BY <2>2, <3>3 DEF IInv, InFlight, Done
    <3> QED BY <2>3, <3>1, <3>4 DEF HandledBy
  <2>4. CASE p.key.run < runs[m]
    BY <2>4 DEF HandledBy
  <2> QED BY <2>2, <2>3, <2>4
<1>4. ReplayedTasks'
  BY DEF IInv, ReplayedTasks, Done
<1>5. InFlight' /\ Queued' /\ Limited' /\ ResultsLast' /\ LiveIsNew' /\ OnePlace'
      /\ FinishedEnded' /\ ReplayedInTurn'
  BY DEF IInv, InFlight, Queued, Limited, ResultsLast, LiveIsNew, OnePlace, FinishedEnded,
         ReplayedInTurn, KeyOf, Pending
<1>6. Rest' /\ OutOfWork'
  BY DEF Rest, OutOfWork, Over
<1> QED BY <1>1, <1>2, <1>3, <1>4, <1>5, <1>6 DEF IInv

LEMMA DrainStep == ASSUME IInv, Drain PROVE IInv'
<1> USE DEF Drain, taskVars
<1>1. TypeOK'
  <2>1. Done \subseteq ToSet(pending)
    BY DEF Done
  <2> QED BY <2>1 DEF IInv, TypeOK
<1>2. Ascending' /\ Behind'
  BY JoinsKept
<1>3. BatchInTurn'
  BY DEF BatchInTurn
<1>4. ReplayedTasks'
  BY DEF IInv, ReplayedTasks, Done
<1>5. InFlight' /\ Queued' /\ Limited' /\ ResultsLast' /\ LiveIsNew' /\ OnePlace'
      /\ FinishedEnded' /\ ReplayedInTurn'
  BY DEF IInv, InFlight, Queued, Limited, ResultsLast, LiveIsNew, OnePlace, FinishedEnded,
         ReplayedInTurn, KeyOf, Pending
<1>6. Rest' /\ OutOfWork'
  BY DEF Rest, OutOfWork, Over
<1> QED BY <1>1, <1>2, <1>3, <1>4, <1>5, <1>6 DEF IInv

(* Only where the loop is, what ails it and the abort signal change.       *)
LEMMA LoopMoves ==
  ASSUME IInv, UNCHANGED <<session, turn, limit, sequence, loopVars, taskVars>>,
         pc' \in {"cleanup", pc} \/ (pc = "leave" /\ pc' = "completed" /\ Waiting = {}),
         error' \in BOOLEAN, error => error', aborted' \in BOOLEAN,
         diverged' \in {"no", "stuck", "slow"}
  PROVE  IInv'
<1> USE DEF loopVars, taskVars
<1>1. TypeOK'
  BY DEF IInv, TypeOK, Over
<1>2. Ascending' /\ Behind'
  BY JoinsKept
<1>3. BatchInTurn'
  BY DEF IInv, BatchInTurn, HandledBy, KeyOf
<1>4. ReplayedTasks' /\ InFlight' /\ Queued' /\ Limited' /\ ResultsLast' /\ LiveIsNew' /\ OnePlace'
      /\ FinishedEnded' /\ ReplayedInTurn'
  BY DEF IInv, InFlight, Queued, Limited, ResultsLast, LiveIsNew, OnePlace, FinishedEnded,
         ReplayedInTurn, ReplayedTasks, KeyOf, Pending
<1>5. Rest' /\ OutOfWork'
  BY DEF IInv, Rest, OutOfWork, Over, Waiting
<1> QED BY <1>1, <1>2, <1>3, <1>4, <1>5 DEF IInv

LEMMA FinalizeStep == ASSUME IInv, Finalize PROVE IInv'
<1>1. CASE pc' = "completed" /\ Waiting = {}
           /\ UNCHANGED <<session, turn, limit, sequence, loopVars, taskVars, error, aborted,
                          diverged>>
  <2>1. error \in BOOLEAN /\ aborted \in BOOLEAN /\ diverged \in {"no", "stuck", "slow"}
    BY DEF IInv, TypeOK
  <2> QED BY <1>1, <2>1, LoopMoves DEF Finalize
<1>2. CASE \E how \in Over \ {"completed"} : Return(how)
  BY <1>2, ReturnStep
<1> QED BY <1>1, <1>2 DEF Finalize, Over

-----------------------------------------------------------------------------
(* The steps of a task.                                                    *)

LEMMA ExecuteStep == ASSUME IInv, NEW n \in Node, Execute(n) PROVE IInv'
<1>1. PICK result \in Does[n][runs[n]] :
        /\ outcome' = [outcome EXCEPT ![n] = result]
        /\ Record(KeyOf(n), result, input[n])
  BY DEF Execute
<1>2. /\ task[n] = "live" /\ task' = [task EXCEPT ![n] = "recorded"]
      /\ UNCHANGED <<turn, limit, sequence, order, triggers, arrivals, runs, status, input, pending,
                     replayed, batch, finished, error, aborted, pc, diverged>>
  BY DEF Execute, loopVars
<1>3. n \notin replayed /\ n \notin batch /\ KeyOf(n) \in Key /\ result \in Outcome
  <2>1. runs[n] \in 1..MaxRuns
    BY <1>2 DEF IInv, TypeOK, InFlight
  <2> QED BY <1>2, <2>1, KeysAre, BoundsAssumption DEF IInv, ReplayedTasks
<1>4. \/ session' = session
      \/ \E e \in SessionEvent : e.key = KeyOf(n) /\ session' = Append(session, e)
  <2> DEFINE e == [kind |-> result.kind, key |-> KeyOf(n), route |-> result.route,
                   input |-> input[n]]
  <2>1. e \in SessionEvent
    BY <1>3 DEF IInv, TypeOK, SessionEvent, Outcome
  <2>2. e.key = KeyOf(n)
    OBVIOUS
  <2> QED BY <1>1, <2>1, <2>2 DEF Record
<1>5. /\ DOMAIN session = 1..Len(session) /\ Len(session) \in Nat
      /\ session' \in Seq(SessionEvent)
      /\ DOMAIN session \subseteq DOMAIN session'
      /\ \A i \in DOMAIN session : session'[i] = session[i]
      /\ \A i \in DOMAIN session' \ DOMAIN session :
           i = Len(session) + 1 /\ session'[i].key = KeyOf(n)
  <2>1. session \in Seq(SessionEvent)
    BY DEF IInv, TypeOK
  <2> QED BY <1>4, <2>1
<1>6. TypeOK'
  <2>1. outcome' \in [Node -> Outcome]
    BY <1>1, <1>3 DEF IInv, TypeOK
  <2>2. task' \in [Node -> {"none", "held", "live", "recorded", "done", "raised"}]
    BY <1>2 DEF IInv, TypeOK
  <2> QED BY <1>2, <1>5, <2>1, <2>2 DEF IInv, TypeOK
<1>7. /\ task'[n] = "recorded" /\ task[n] = "live"
      /\ \A m \in Node \ {n} : task'[m] = task[m]
  BY <1>2 DEF IInv, TypeOK
<1>8. ResultsLast' /\ LiveIsNew'
  <2>1. ASSUME NEW i \in DOMAIN session', NEW j \in DOMAIN session',
               session'[i].kind = "result", session'[i].key = session'[j].key
        PROVE  j =< i
    <3>1. CASE i \in DOMAIN session
      <4>1. session[i].key # KeyOf(n)
        BY <1>2, <1>5, <2>1, <3>1 DEF IInv, LiveIsNew
      <4>2. j \in DOMAIN session
        BY <1>5, <2>1, <3>1, <4>1
      <4> QED BY <1>5, <2>1, <3>1, <4>2 DEF IInv, ResultsLast
    <3>2. CASE i \notin DOMAIN session
      BY <1>5, <3>2
    <3> QED BY <3>1, <3>2
  <2>2. ASSUME NEW m \in Node, task'[m] = "live", NEW i \in DOMAIN session',
               session'[i].key = KeyOf(m)
        PROVE  session'[i].kind # "result"
    <3>1. m # n /\ task[m] = "live" /\ KeyOf(m) # KeyOf(n)
      BY <1>7, <2>2, KeysAre
    <3> QED BY <1>5, <2>2, <3>1 DEF IInv, LiveIsNew
  <2> QED BY <1>2, <2>1, <2>2 DEF ResultsLast, LiveIsNew, KeyOf
<1>9. Ascending' /\ Behind'
  BY <1>2, <1>7, JoinsKept
<1>10. InFlight' /\ ReplayedTasks' /\ FinishedEnded' /\ ReplayedInTurn' /\ BatchInTurn'
  <2>1. InFlight' /\ ReplayedTasks'
    BY <1>2, <1>3, <1>7 DEF IInv, TypeOK, InFlight, ReplayedTasks
  <2>2. FinishedEnded'
    BY <1>2, <1>7 DEF IInv, FinishedEnded, KeyOf, Pending
  <2>3. \A m \in replayed \cup batch : m \in Node /\ task'[m] = task[m]
    BY <1>3, <1>7 DEF IInv, TypeOK, ToSet
  <2>4. ReplayedInTurn'
    BY <1>2, <2>3 DEF IInv, ReplayedInTurn, KeyOf
  <2>5. BatchInTurn'
    BY <1>2, <2>3 DEF IInv, BatchInTurn, HandledBy, KeyOf
  <2> QED BY <2>1, <2>2, <2>4, <2>5
<1>11. Queued' /\ Limited' /\ OnePlace' /\ Rest' /\ OutOfWork'
  BY <1>2 DEF IInv, Queued, Limited, OnePlace, Rest, OutOfWork, Waiting
<1> QED BY <1>6, <1>8, <1>9, <1>10, <1>11 DEF IInv

(* A task ends, or raises.                                                 *)
LEMMA TaskEnds ==
  ASSUME IInv, NEW n \in Node, NEW to \in {"done", "raised"},
         task[n] \in {"held", "recorded"}, task' = [task EXCEPT ![n] = to],
         finished' = IF to = "done" THEN finished \cup {KeyOf(n)} ELSE finished,
         task[n] = "held" /\ to = "done" => Released(KeyOf(n)),
         diverged' \in {"no", "stuck", "slow"},
         UNCHANGED <<session, turn, limit, sequence, loopVars, outcome, error, aborted, pc>>
  PROVE  IInv'
<1>1. UNCHANGED <<session, turn, limit, sequence, order, triggers, arrivals, runs, status, input,
                  pending, replayed, batch, outcome, error, aborted, pc>>
  BY DEF loopVars
<1>2. /\ task'[n] = to /\ task[n] \notin {"none", "live", "done"}
      /\ \A m \in Node \ {n} : task'[m] = task[m]
      /\ task' \in [Node -> {"none", "held", "live", "recorded", "done", "raised"}]
  BY DEF IInv, TypeOK
<1>3. n \notin batch /\ (n \in replayed => task[n] = "held")
  BY DEF IInv, ReplayedTasks
<1>4. TypeOK'
  <2>1. finished' \subseteq Key
    BY KeysAre DEF IInv, TypeOK
  <2> QED BY <1>1, <1>2, <2>1 DEF IInv, TypeOK
<1>5. InFlight' /\ ReplayedTasks' /\ LiveIsNew'
  BY <1>1, <1>2, <1>3 DEF IInv, TypeOK, InFlight, ReplayedTasks, LiveIsNew, KeyOf
<1>6. FinishedEnded'
  <2> SUFFICES ASSUME NEW k \in finished'
               PROVE  /\ k.node \in Node /\ k.run =< runs[k.node]
                      /\ k = KeyOf(k.node) => task'[k.node] \in {"none", "done"} \/ Pending(k)
    BY <1>1 DEF FinishedEnded, KeyOf, Pending
  <2>1. CASE k \in finished
    BY <1>2, <2>1 DEF IInv, FinishedEnded
  <2>2. CASE k \notin finished
    <3>1. k = KeyOf(n) /\ to = "done"
      BY <2>2
    <3>2. k.node = n /\ k.run = runs[n] /\ runs[n] \in Nat
      BY <3>1, KeysAre DEF IInv, TypeOK
    <3> QED BY <1>2, <3>1, <3>2
  <2> QED BY <2>1, <2>2
<1>7. ReplayedInTurn'
  <2> SUFFICES ASSUME NEW m \in replayed, task'[m] = "done", NEW p \in sequence, NEW q \in sequence,
                      q.key = KeyOf(m), p.at < q.at
               PROVE  p.key \in finished'
    BY <1>1 DEF ReplayedInTurn, KeyOf
  <2>0. m \in Node
    BY DEF IInv, TypeOK
  <2>1. CASE m = n
    BY <1>2, <1>3, <2>1 DEF Released
  <2>2. CASE m # n
    BY <1>2, <2>0, <2>2 DEF IInv, ReplayedInTurn
  <2> QED BY <2>1, <2>2
<1>8. BatchInTurn'
  BY <1>1, <1>2, <1>3 DEF IInv, TypeOK, BatchInTurn, HandledBy, KeyOf
<1>9. Ascending' /\ Behind'
  BY <1>1, <1>2, JoinsKept
<1>10. Queued' /\ Limited' /\ ResultsLast' /\ OnePlace' /\ Rest' /\ OutOfWork'
  BY <1>1 DEF IInv, Queued, Limited, ResultsLast, OnePlace, Rest, OutOfWork, Waiting
<1> QED BY <1>4, <1>5, <1>6, <1>7, <1>8, <1>9, <1>10 DEF IInv

LEMMA TaskStepKeeps == ASSUME IInv, NEW n \in Node, TaskStep(n) PROVE IInv'
<1>0. diverged \in {"no", "stuck", "slow"}
  BY DEF IInv, TypeOK
<1>1. CASE Execute(n)
  BY <1>1, ExecuteStep
<1>2. CASE Finish(n)
  <2>1. \A to : to = "done" => IInv'
    BY <1>0, <1>2, TaskEnds DEF Finish
  <2> QED BY <2>1
<1>3. CASE Replay(n)
  <2>1. \A to : to = "done" => IInv'
    BY <1>0, <1>3, TaskEnds DEF Replay
  <2> QED BY <2>1
<1>4. CASE TimeOut(n)
  <2>1. \A to : to = "raised" => IInv'
    BY <1>4, TaskEnds DEF TimeOut
  <2> QED BY <2>1
<1> QED BY <1>1, <1>2, <1>3, <1>4 DEF TaskStep

-----------------------------------------------------------------------------
(* The next turn.                                                          *)

LEMMA PlacesAreOne ==
  ASSUME NEW events \in Seq(SessionEvent), NEW i \in DOMAIN events, NEW j \in DOMAIN events,
         Places(events, i), Places(events, j), events[i].key = events[j].key
  PROVE  i = j
<1>1. i \in Nat /\ j \in Nat
  OBVIOUS
<1>2. ~(i < j) /\ ~(j < i)
  BY DEF Places
<1> QED BY <1>1, <1>2

LEMMA AnswersAre ==
  ASSUME NEW questions \in SUBSET Open, session \in Seq(SessionEvent)
  PROVE  /\ Answers(questions) \in Seq(SessionEvent)
         /\ \A k \in DOMAIN Answers(questions) :
              /\ Answers(questions)[k].kind = "answer"
              /\ \E i \in Open : /\ Answers(questions)[k].key = session[i].key
                               /\ Answers(questions)[k].route = session[i].route
<1> DEFINE all == [i \in DOMAIN session |-> i]
           at == Filter(all, questions)
           answers == [k \in DOMAIN at |-> [session[at[k]] EXCEPT !.kind = "answer"]]
<1>1. all \in Seq(Nat) /\ DOMAIN session = 1..Len(session) /\ Len(session) \in Nat
  OBVIOUS
<1>2. at \in Seq(Nat) /\ ToSet(at) \subseteq questions
  <2> HIDE DEF all
  <2> QED BY <1>1, FilterElements
<1> HIDE DEF at
<1>3. DOMAIN at = 1..Len(at) /\ Len(at) \in Nat /\ \A k \in DOMAIN at : at[k] \in questions
  BY <1>2 DEF ToSet
<1>4. \A i \in Open : i \in DOMAIN session /\ session[i] \in SessionEvent
  BY DEF Open
<1>5. ASSUME NEW e \in SessionEvent
      PROVE  /\ [e EXCEPT !.kind = "answer"] \in SessionEvent
             /\ [e EXCEPT !.kind = "answer"].kind = "answer"
             /\ [e EXCEPT !.kind = "answer"].key = e.key
             /\ [e EXCEPT !.kind = "answer"].route = e.route
  BY DEF SessionEvent
<1>6. \A k \in DOMAIN at : /\ answers[k] \in SessionEvent
                           /\ answers[k].kind = "answer" /\ answers[k].key = session[at[k]].key
                           /\ answers[k].route = session[at[k]].route
  BY <1>3, <1>4, <1>5
<1>7. answers \in [1..Len(at) -> SessionEvent]
  BY <1>3, <1>6
<1>8. answers \in Seq(SessionEvent) /\ DOMAIN answers = DOMAIN at
  BY <1>3, <1>7
<1>9. Answers(questions) = answers
  BY DEF Answers, at
<1> QED BY <1>3, <1>6, <1>8, <1>9

(* A new turn adds answers to the events, and nothing else.                *)
LEMMA AnswersAdded ==
  ASSUME IInv, Resume
  PROVE  /\ session' \in Seq(SessionEvent) /\ Len(session) \in Nat
         /\ DOMAIN session = 1..Len(session) /\ DOMAIN session \subseteq DOMAIN session'
         /\ \A i \in DOMAIN session : session'[i] = session[i]
         /\ \A i \in DOMAIN session' \ DOMAIN session :
              /\ session'[i].kind = "answer"
              /\ \E q \in Open : /\ session'[i].key = session[q].key
                                 /\ session'[i].route = session[q].route
<1>1. PICK answered \in SUBSET Open : session' = session \o Answers(answered)
  BY DEF Resume
<1> DEFINE s == session
           a == Answers(answered)
<1>2. s \in Seq(SessionEvent) /\ a \in Seq(SessionEvent)
  BY AnswersAre DEF IInv, TypeOK
<1>3. \A k \in DOMAIN a : /\ a[k].kind = "answer"
                          /\ \E q \in Open : a[k].key = s[q].key /\ a[k].route = s[q].route
  BY <1>2, AnswersAre
<1> HIDE DEF s, a
<1>4. s \o a \in Seq(SessionEvent)
  BY <1>2
<1>5. Len(s) \in Nat /\ DOMAIN s = 1..Len(s) /\ Len(a) \in Nat /\ DOMAIN a = 1..Len(a)
  BY <1>2
<1>6. DOMAIN (s \o a) = 1..(Len(s) + Len(a))
  BY <1>2
<1>7. \A i \in 1..Len(s) : (s \o a)[i] = s[i]
  BY <1>2
<1>8. ASSUME NEW i \in 1..(Len(s) + Len(a)), i \notin 1..Len(s)
      PROVE  i - Len(s) \in 1..Len(a) /\ (s \o a)[i] = a[i - Len(s)]
  <2>1. i - Len(s) \in 1..Len(a)
    BY <1>5, <1>8
  <2> QED BY <1>2, <1>8
<1>9. session' = s \o a /\ s = session
  BY <1>1 DEF s, a
<1> QED BY <1>3, <1>4, <1>5, <1>6, <1>7, <1>8, <1>9

LEMMA ResumeStep == ASSUME IInv, Resume PROVE IInv'
<1> DEFINE s == session
<1>1. /\ session' \in Seq(SessionEvent) /\ Len(s) \in Nat /\ DOMAIN s = 1..Len(s)
      /\ DOMAIN s \subseteq DOMAIN session'
      /\ \A i \in DOMAIN s : session'[i] = s[i]
      /\ \A i \in DOMAIN session' \ DOMAIN s :
           session'[i].kind = "answer" /\ \E q \in Open : session'[i].key = s[q].key
  BY AnswersAdded
<1>2. ResultsLast'
  <2> SUFFICES ASSUME NEW i \in DOMAIN session', NEW j \in DOMAIN session',
                      session'[i].kind = "result", session'[i].key = session'[j].key
               PROVE  j =< i
    BY DEF ResultsLast
  <2>1. i \in DOMAIN s
    BY <1>1
  <2>2. CASE j \in DOMAIN s
    BY <1>1, <2>1, <2>2 DEF IInv, ResultsLast
  <2>3. CASE j \notin DOMAIN s
    <3>1. PICK q \in Open : session'[j].key = s[q].key
      BY <1>1, <2>3
    <3>2. q \in DOMAIN s /\ s[q].kind = "interrupt" /\ q = Latest(EventsOf(s[q].key))
      BY DEF Open
    <3>3. i \in EventsOf(s[q].key) /\ EventsOf(s[q].key) \subseteq 1..Len(s)
      BY <1>1, <2>1, <3>1 DEF EventsOf
    <3>4. i =< q
      BY <1>1, <3>2, <3>3, LatestIs
    <3>5. q =< i
      BY <1>1, <2>1, <3>1, <3>2 DEF IInv, ResultsLast
    <3>6. q = i
      BY <1>1, <2>1, <3>2, <3>4, <3>5
    <3> QED BY <1>1, <2>1, <3>2, <3>6
  <2> QED BY <2>2, <2>3
<1>3. sequence' = ScanSequence(session')
  BY DEF Resume
<1>4. sequence' \subseteq [key : Key, pending : BOOLEAN, at : Nat]
  <2> SUFFICES ASSUME NEW i \in DOMAIN session'
               PROVE  [key |-> session'[i].key, pending |-> session'[i].kind = "interrupt",
                       at |-> i]
                      \in [key : Key, pending : BOOLEAN, at : Nat]
    BY <1>3 DEF ScanSequence
  <2>1. session'[i] \in SessionEvent /\ i \in Nat
    BY <1>1
  <2> QED BY <2>1 DEF SessionEvent
<1>5. OnePlace'
  <2> SUFFICES ASSUME NEW p \in sequence', NEW q \in sequence', p.key = q.key PROVE p = q
    BY DEF OnePlace
  <2>1. PICK i \in DOMAIN session' :
          /\ Places(session', i)
          /\ p = [key |-> session'[i].key, pending |-> session'[i].kind = "interrupt", at |-> i]
    BY <1>3 DEF ScanSequence
  <2>2. PICK j \in DOMAIN session' :
          /\ Places(session', j)
          /\ q = [key |-> session'[j].key, pending |-> session'[j].kind = "interrupt", at |-> j]
    BY <1>3 DEF ScanSequence
  <2>3. i = j
    <3> DEFINE e == session'
    <3>1. e \in Seq(SessionEvent) /\ i \in DOMAIN e /\ j \in DOMAIN e
          /\ Places(e, i) /\ Places(e, j) /\ e[i].key = e[j].key
      BY <1>1, <2>1, <2>2
    <3> HIDE DEF e
    <3> QED BY <3>1, PlacesAreOne
  <2> QED BY <2>1, <2>2, <2>3
<1>6. Kept'
  <2>1. turn' \in 1..MaxTurns /\ limit' \in Limits /\ pc' = "handle"
    BY BoundsAssumption DEF Resume, IInv, TypeOK
  <2> QED BY <1>1, <1>2, <1>4, <1>5, <2>1 DEF Kept
<1>7. FreshTurn'
  BY DEF Resume, Fresh, FreshTurn
<1> QED BY <1>6, <1>7, FreshStep

-----------------------------------------------------------------------------
(* Starting nodes.                                                         *)

LEMMA ElementsFinite == ASSUME NEW T, NEW s \in Seq(T) PROVE IsFiniteSet(ToSet(s))
<1>1. Len(s) \in Nat /\ DOMAIN s = 1..Len(s) /\ s \in [1..Len(s) -> ToSet(s)]
  BY DEF ToSet
<1>2. s \in Surjection(1..Len(s), ToSet(s))
  BY <1>1 DEF Surjection, ToSet
<1>3. IsFiniteSet(1..Len(s))
  BY <1>1, FS_Interval
<1> QED BY <1>2, <1>3, FS_Surjection

Ahead(i) == {j \in 1..(i - 1) : Startable(order[j]) /\ ~Replays(NextKey(order[j]))}

LEMMA ToStartAre ==
  ASSUME IInv, NEW n \in ToStart
  PROVE  /\ n \in Node /\ n \in ToSet(order) /\ Startable(n) /\ triggers[n] # <<>>
         /\ task[n] = "none" /\ n \notin ToSet(pending) /\ n \notin replayed
         /\ \A m \in TaskAgent : status[m] \notin {"WAITING", "INTERRUPTED"}
         /\ \E i \in DOMAIN order : /\ order[i] = n
                                    /\ ~Full(Active + Cardinality(Ahead(i)))
<1>1. PICK i \in DOMAIN order : /\ order[i] = n /\ Startable(n)
                                /\ ~Full(Active + Cardinality(Ahead(i)))
                                /\ \A m \in TaskAgent : status[m] \notin {"WAITING", "INTERRUPTED"}
  BY DEF ToStart, Ahead
<1>2. n \in Node /\ n \in ToSet(order)
  <2>1. order \in Seq(Node)
    BY DEF IInv, TypeOK
  <2> QED BY <1>1, <2>1 DEF ToSet
<1>3. triggers[n] # <<>> /\ n \notin ToSet(pending) /\ task[n] = "none"
  BY <1>1, <1>2 DEF IInv, Queued, Startable, InFlight
<1>4. n \notin replayed
  BY <1>3 DEF IInv, ReplayedTasks
<1> QED BY <1>1, <1>2, <1>3, <1>4

(* No more runs are started than there are slots.                          *)
LEMMA SlotsKept ==
  ASSUME IInv, limit # 0,
         NEW E, E = {n \in ToStart : ~Replays(NextKey(n))}
  PROVE  Cardinality((ToSet(pending) \ replayed) \cup E) =< limit
<1> DEFINE A == ToSet(pending) \ replayed
           P == {i \in DOMAIN order : order[i] \in E /\ ~Full(Active + Cardinality(Ahead(i)))}
<1>1. /\ IsFiniteSet(A) /\ Cardinality(A) \in Nat /\ Active = Cardinality(A) /\ limit \in Nat
      /\ Cardinality(A) =< limit
  <2>1. pending \in Seq(Node) /\ limit \in Nat
    BY BoundsAssumption DEF IInv, TypeOK
  <2>2. IsFiniteSet(A)
    BY <2>1, ElementsFinite, FS_Subset
  <2> QED BY <2>1, <2>2, FS_CardinalityType DEF Active, IInv, Limited
<1>2. DOMAIN order = 1..Len(order) /\ Len(order) \in Nat /\ P \subseteq 1..Len(order)
  BY DEF IInv, TypeOK
<1>3. \A n \in E : \E i \in P : order[i] = n
  BY ToStartAre
<1>4. CASE E = {}
  BY <1>1, <1>4
<1>5. CASE E # {}
  <2> DEFINE last == Latest(P)
             S == Ahead(last)
  <2>1. P # {}
    BY <1>3, <1>5
  <2>2. last \in P /\ \A i \in P : i =< last
    BY <1>2, <2>1, LatestIs
  <2> HIDE DEF last
  <2>3. last \in 1..Len(order) /\ S \subseteq 1..Len(order)
    BY <1>2, <2>2 DEF Ahead
  <2>4. P \subseteq S \cup {last}
    <3> SUFFICES ASSUME NEW j \in P, j # last PROVE j \in S
      OBVIOUS
    <3>1. j \in 1..(last - 1)
      BY <1>2, <2>2
    <3>2. Startable(order[j]) /\ ~Replays(NextKey(order[j]))
      BY ToStartAre
    <3> QED BY <3>1, <3>2 DEF Ahead
  <2>5. IsFiniteSet(S) /\ Cardinality(S) \in Nat /\ Cardinality(S) < limit - Cardinality(A)
    <3>1. IsFiniteSet(S)
      <4>1. IsFiniteSet(1..Len(order))
        BY <1>2, FS_Interval
      <4> HIDE DEF S
      <4> QED BY <2>3, <4>1, FS_Subset
    <3>2. ~Full(Active + Cardinality(S))
      BY <2>2
    <3>3. Cardinality(S) \in Nat
      BY <3>1, FS_CardinalityType
    <3> QED BY <1>1, <3>1, <3>2, <3>3 DEF Full
  <2> HIDE DEF S, P, A
  <2>6. IsFiniteSet(P) /\ Cardinality(P) =< Cardinality(S) + 1
    <3>1. IsFiniteSet(S \cup {last}) /\ Cardinality(S \cup {last}) =< Cardinality(S) + 1
      BY <2>5, FS_AddElement
    <3>2. IsFiniteSet(P) /\ Cardinality(P) =< Cardinality(S \cup {last})
      BY <2>4, <3>1, FS_Subset
    <3> QED BY <2>5, <3>1, <3>2, FS_CardinalityType
  <2>7. IsFiniteSet(E) /\ Cardinality(E) =< Cardinality(P)
    <3> DEFINE f == [i \in P |-> order[i]]
    <3>1. f \in Surjection(P, E)
      BY <1>3 DEF Surjection, P
    <3> QED BY <2>6, <3>1, FS_Surjection
  <2>8. Cardinality(A \cup E) =< Cardinality(A) + Cardinality(E)
    <3>1. IsFiniteSet(A \cap E)
      BY <1>1, FS_Subset
    <3>2. Cardinality(A \cap E) \in Nat /\ Cardinality(E) \in Nat
      BY <2>7, <3>1, FS_CardinalityType
    <3>3. Cardinality(A \cup E) = Cardinality(A) + Cardinality(E) - Cardinality(A \cap E)
      BY <1>1, <2>7, FS_Union
    <3> QED BY <1>1, <3>2, <3>3
  <2>9. Cardinality(A \cup E) \in Nat /\ Cardinality(E) \in Nat /\ Cardinality(P) \in Nat
    BY <1>1, <2>6, <2>7, FS_Union, FS_CardinalityType
  <2> QED BY <1>1, <2>5, <2>6, <2>7, <2>8, <2>9 DEF A
<1> QED BY <1>4, <1>5

LEMMA RecoveredIs ==
  ASSUME session \in Seq(SessionEvent), NEW k, Replays(k) PROVE Recovered(k) \in Outcome
<1> DEFINE routed == {i \in EventsOf(k) : session[i].route # NoRoute}
<1>1. DOMAIN session = 1..Len(session) /\ Len(session) \in Nat
      /\ \A i \in DOMAIN session : session[i].route \in Routes
  <2>1. DOMAIN session = 1..Len(session) /\ Len(session) \in Nat
        /\ \A i \in DOMAIN session : session[i] \in SessionEvent
    OBVIOUS
  <2> QED BY <2>1 DEF SessionEvent
<1>2. routed \subseteq 1..Len(session)
  BY <1>1 DEF EventsOf
<1>3. NoRoute \in Routes /\ (routed # {} => session[Latest(routed)].route \in Routes)
  BY <1>1, <1>2, LatestIs DEF Routes
<1>4. (IF LastEvent(k) = "answer" THEN "result" ELSE LastEvent(k)) \in Kinds
  BY DEF Replays, Settled, Kinds
<1> QED BY <1>3, <1>4 DEF Recovered, RouteOf, Outcome

(* A result is the last event of its run, which is replayed.               *)
LEMMA ResultReplays ==
  ASSUME IInv, NEW i \in DOMAIN session, session[i].kind = "result"
  PROVE  LastEvent(session[i].key) = "result" /\ Replays(session[i].key)
<1> DEFINE k == session[i].key
<1>1. DOMAIN session = 1..Len(session) /\ Len(session) \in Nat
  BY DEF IInv, TypeOK
<1>2. i \in EventsOf(k) /\ EventsOf(k) \subseteq 1..Len(session)
  BY <1>1 DEF EventsOf
<1>3. Latest(EventsOf(k)) \in EventsOf(k) /\ i =< Latest(EventsOf(k))
  BY <1>1, <1>2, LatestIs
<1>4. Latest(EventsOf(k)) =< i
  BY <1>3 DEF IInv, ResultsLast, EventsOf
<1>5. Latest(EventsOf(k)) = i
  BY <1>1, <1>2, <1>3, <1>4
<1> QED BY <1>2, <1>5 DEF LastEvent, Replays

LEMMA HeadTail ==
  ASSUME NEW T, NEW s \in Seq(T), s # <<>>
  PROVE  /\ Head(s) \in T /\ Tail(s) \in Seq(T) /\ <<Head(s)>> \o Tail(s) = s
OBVIOUS

(* What a start does, node by node.                                        *)
Starts(E, R) ==
  /\ session \in Seq(SessionEvent)
  /\ \A n \in E : /\ triggers[n] # <<>> /\ task[n] = "none" /\ n \notin ToSet(pending)
                  /\ n \notin replayed /\ runs[n] < MaxRuns /\ runs'[n] = runs[n] + 1
                  /\ status'[n] = "RUNNING" /\ input'[n] = Head(triggers[n])
                  /\ triggers'[n] = Tail(triggers[n])
                  /\ task'[n] = IF n \in R THEN "held" ELSE "live"
  /\ \A n \in Node \ E : /\ UNCHANGED <<runs[n], status[n], input[n], triggers[n], task[n]>>
  /\ E \subseteq Node /\ R = {n \in E : Replays(NextKey(n))}
  /\ replayed' = replayed \cup R
  /\ finished' = finished \cup {k \in {NextKey(n) : n \in E \ R} : Pending(k)}
  /\ ToSet(pending') = ToSet(pending) \cup E
  /\ UNCHANGED <<session, turn, limit, sequence, arrivals, batch, error, aborted, diverged>>

LEMMA ScheduleStarts ==
  ASSUME IInv, Schedule
  PROVE  /\ Starts(ToStart, {n \in ToStart : Replays(NextKey(n))})
         /\ TypeOK' /\ Queued'
<1> DEFINE E == ToStart
           R == {n \in E : Replays(NextKey(n))}
<1>1. \A n \in E : /\ n \in Node /\ n \in ToSet(order) /\ triggers[n] # <<>> /\ task[n] = "none"
                   /\ n \notin ToSet(pending) /\ n \notin replayed
  BY ToStartAre
<1>2. \A n \in E : runs[n] < MaxRuns
  BY DEF Schedule
<1> DEFINE left == [n \in Node |-> IF n \in E THEN Tail(triggers[n]) ELSE triggers[n]]
<1>3. /\ triggers' = left
      /\ order' = Filter(order, {n \in Node : left[n] # <<>>})
      /\ runs' = [n \in Node |-> IF n \in E THEN runs[n] + 1 ELSE runs[n]]
      /\ status' = [n \in Node |-> IF n \in E THEN "RUNNING" ELSE status[n]]
      /\ input' = [n \in Node |-> IF n \in E THEN Head(triggers[n]) ELSE input[n]]
      /\ task' = [n \in Node |-> IF n \in R THEN "held" ELSE IF n \in E THEN "live" ELSE task[n]]
      /\ outcome' = [n \in Node |-> IF n \in R THEN Recovered(NextKey(n)) ELSE outcome[n]]
      /\ replayed' = replayed \cup R
      /\ finished' = finished \cup {k \in {NextKey(n) : n \in E \ R} : Pending(k)}
      /\ pending' = pending \o Filter(order, E)
      /\ pc' = IF pending' = <<>> THEN "leave" ELSE "wait"
      /\ UNCHANGED <<session, turn, limit, sequence, arrivals, batch, error, aborted, diverged>>
  BY DEF Schedule
<1>4. TypeOK
  BY DEF IInv
<1> HIDE DEF E
<1>5. pending' \in Seq(Node) /\ ToSet(pending') = ToSet(pending) \cup E
  <2>1. order \in Seq(Node) /\ pending \in Seq(Node) /\ E \subseteq ToSet(order)
    BY <1>1, <1>4 DEF TypeOK
  <2>2. Filter(order, E) \in Seq(Node) /\ ToSet(Filter(order, E)) = ToSet(order) \cap E
    BY <2>1, FilterElements
  <2> QED BY <1>3, <2>1, <2>2, Elements
<1>6. order' \in Seq(Node) /\ ToSet(order') \subseteq {n \in Node : left[n] # <<>>}
  <2>1. order \in Seq(Node)
    BY <1>4 DEF TypeOK
  <2> HIDE DEF left
  <2> QED BY <1>3, <2>1, FilterElements
<1>7. triggers' \in [Node -> Seq(SUBSET Key)] /\ input' \in [Node -> SUBSET Key]
  <2>1. \A n \in Node : triggers[n] \in Seq(SUBSET Key) /\ input[n] \in SUBSET Key
    BY <1>4 DEF TypeOK
  <2>2. \A n \in E : Head(triggers[n]) \in SUBSET Key /\ Tail(triggers[n]) \in Seq(SUBSET Key)
    BY <1>1, <2>1, HeadTail
  <2> QED BY <1>3, <2>1, <2>2
<1>8. /\ runs' \in [Node -> 0..MaxRuns] /\ \A n \in E : NextKey(n) \in Key
  <2>1. \A n \in E : runs[n] + 1 \in 0..MaxRuns
    BY <1>1, <1>2, <1>4, BoundsAssumption DEF TypeOK
  <2>2. \A n \in E : NextKey(n) \in Key
    BY <1>1, <2>1 DEF NextKey, Key
  <2>3. \A n \in Node : runs[n] \in 0..MaxRuns
    BY <1>4 DEF TypeOK
  <2> QED BY <1>3, <2>1, <2>2, <2>3
<1>9. outcome' \in [Node -> Outcome]
  <2>1. \A n \in R : Recovered(NextKey(n)) \in Outcome
    BY <1>4, RecoveredIs DEF TypeOK
  <2>2. \A n \in Node : outcome[n] \in Outcome
    BY <1>4 DEF TypeOK
  <2> QED BY <1>3, <2>1, <2>2
<1>10. /\ task' \in [Node -> {"none", "held", "live", "recorded", "done", "raised"}]
       /\ status' \in [Node -> {"NONE", "RUNNING", "COMPLETED", "WAITING", "INTERRUPTED",
                                "FAILED"}]
  <2>1. \A n \in Node : /\ task[n] \in {"none", "held", "live", "recorded", "done", "raised"}
                        /\ status[n] \in {"NONE", "RUNNING", "COMPLETED", "WAITING", "INTERRUPTED",
                                          "FAILED"}
    BY <1>4 DEF TypeOK
  <2> QED BY <1>3, <2>1
<1>11. replayed' \subseteq Node /\ finished' \subseteq Key
  BY <1>1, <1>3, <1>4, <1>8 DEF TypeOK
<1>12. TypeOK'
  <2>1. batch' = {} /\ batch' \subseteq ToSet(pending')
    BY DEF Schedule
  <2>2. /\ session' \in Seq(SessionEvent) /\ turn' \in 1..MaxTurns /\ limit' \in Limits
        /\ sequence' \subseteq [key : Key, pending : BOOLEAN, at : Nat]
        /\ arrivals' \in [Join -> SUBSET Node] /\ error' \in BOOLEAN /\ aborted' \in BOOLEAN
        /\ diverged' \in {"no", "stuck", "slow"}
    BY <1>3, <1>4 DEF TypeOK
  <2>3. pc' \in {"handle", "wait", "drain", "cleanup", "leave"} \cup Over
    BY <1>3
  <2> QED BY <1>5, <1>6, <1>7, <1>8, <1>9, <1>10, <1>11, <2>1, <2>2, <2>3 DEF TypeOK
<1>13. Queued'
  BY <1>3, <1>6 DEF Queued
<1>14. Starts(E, R)
  <2>1. \A n \in E : /\ triggers[n] # <<>> /\ task[n] = "none" /\ n \notin ToSet(pending)
                     /\ n \notin replayed /\ runs[n] < MaxRuns
    BY <1>1, <1>2
  <2>2. \A n \in E : /\ runs'[n] = runs[n] + 1
                     /\ status'[n] = "RUNNING" /\ input'[n] = Head(triggers[n])
                     /\ triggers'[n] = Tail(triggers[n])
                     /\ task'[n] = IF n \in R THEN "held" ELSE "live"
    BY <1>1, <1>3
  <2>3. \A n \in Node \ E : UNCHANGED <<runs[n], status[n], input[n], triggers[n], task[n]>>
    BY <1>3
  <2>4. session \in Seq(SessionEvent)
    BY <1>4 DEF TypeOK
  <2> QED BY <1>1, <1>3, <1>5, <2>1, <2>2, <2>3, <2>4 DEF Starts
<1> QED BY <1>12, <1>13, <1>14 DEF E

LEMMA StartsKeepTasks ==
  ASSUME IInv, NEW E, NEW R, Starts(E, R), batch = {}
  PROVE  /\ InFlight' /\ ReplayedTasks' /\ LiveIsNew' /\ FinishedEnded' /\ ReplayedInTurn'
         /\ ResultsLast' /\ OnePlace' /\ BatchInTurn'
<1>1. /\ E \subseteq Node /\ R \subseteq E /\ batch' = {}
      /\ session' = session /\ sequence' = sequence /\ replayed' = replayed \cup R
      /\ ToSet(pending') = ToSet(pending) \cup E
      /\ \A n \in Node : runs[n] \in Nat
  BY DEF Starts, IInv, TypeOK
<1>2. \A n \in E : /\ runs'[n] = runs[n] + 1 /\ status'[n] = "RUNNING"
                   /\ task'[n] = IF n \in R THEN "held" ELSE "live"
                   /\ KeyOf(n)' = NextKey(n) /\ task[n] = "none" /\ n \notin replayed
  BY DEF Starts, KeyOf, NextKey
<1>3. \A n \in Node \ E : /\ runs'[n] = runs[n] /\ status'[n] = status[n] /\ task'[n] = task[n]
                          /\ KeyOf(n)' = KeyOf(n)
  BY DEF Starts, KeyOf
<1>4. InFlight' /\ ReplayedTasks'
  <2>1. InFlight'
    BY <1>1, <1>2, <1>3 DEF IInv, InFlight
  <2>2. ReplayedTasks'
    BY <1>1, <1>2, <1>3 DEF IInv, TypeOK, ReplayedTasks
  <2> QED BY <2>1, <2>2
<1>5. LiveIsNew'
  <2> SUFFICES ASSUME NEW n \in Node, task'[n] = "live", NEW i \in DOMAIN session,
                      session[i].key = KeyOf(n)', session[i].kind = "result"
               PROVE  FALSE
    BY <1>1 DEF LiveIsNew
  <2>1. CASE n \in E
    <3>1. n \notin R /\ ~Replays(NextKey(n)) /\ session[i].key = NextKey(n)
      BY <1>2, <2>1 DEF Starts
    <3> QED BY <3>1, ResultReplays
  <2>2. CASE n \notin E
    BY <1>3, <2>2 DEF IInv, LiveIsNew
  <2> QED BY <2>1, <2>2
<1>6. FinishedEnded'
  <2> SUFFICES ASSUME NEW k \in finished'
               PROVE  /\ k.node \in Node /\ k.run =< runs'[k.node]
                      /\ k = KeyOf(k.node)' => task'[k.node] \in {"none", "done"} \/ Pending(k)
    BY <1>1 DEF FinishedEnded, Pending
  <2>1. CASE k \in finished
    <3>1. /\ k.node \in Node /\ k.run =< runs[k.node] /\ k.run \in Nat
          /\ k = KeyOf(k.node) => task[k.node] \in {"none", "done"} \/ Pending(k)
      BY <2>1 DEF IInv, FinishedEnded, TypeOK, Key
    <3>2. CASE k.node \in E
      <4>1. runs'[k.node] = runs[k.node] + 1 /\ KeyOf(k.node)'.run = runs[k.node] + 1
        BY <1>2, <3>2 DEF NextKey
      <4> QED BY <1>1, <3>1, <4>1
    <3>3. CASE k.node \notin E
      BY <1>3, <3>1, <3>3
    <3> QED BY <3>2, <3>3
  <2>2. CASE k \notin finished
    <3>1. PICK n \in E : k = NextKey(n) /\ Pending(k)
      BY <2>2 DEF Starts
    <3>2. k.node = n /\ k.run = runs[n] + 1 /\ runs'[n] = runs[n] + 1
      BY <1>2, <3>1 DEF NextKey
    <3> QED BY <1>1, <3>1, <3>2
  <2> QED BY <2>1, <2>2
<1>7. ReplayedInTurn'
  <2> SUFFICES ASSUME NEW n \in replayed', task'[n] = "done",
                      NEW p \in sequence, NEW q \in sequence, q.key = KeyOf(n)', p.at < q.at
               PROVE  p.key \in finished'
    BY <1>1 DEF ReplayedInTurn
  <2>1. n \notin E /\ n \in replayed /\ n \in Node
    BY <1>1, <1>2 DEF IInv, TypeOK
  <2>2. p.key \in finished
    BY <1>3, <2>1 DEF IInv, ReplayedInTurn
  <2> QED BY <2>2 DEF Starts
<1>8. ResultsLast' /\ OnePlace' /\ BatchInTurn'
  BY <1>1 DEF IInv, ResultsLast, OnePlace, BatchInTurn
<1> QED BY <1>4, <1>5, <1>6, <1>7, <1>8

LEMMA StartsKeepJoins ==
  ASSUME IInv, NEW E, NEW R, Starts(E, R) PROVE Ascending' /\ Behind'
<1>1. /\ E \subseteq Node /\ arrivals' = arrivals
      /\ \A n \in Node : runs[n] \in Nat /\ triggers[n] \in Seq(SUBSET Key)
      /\ \A n \in E : runs'[n] = runs[n] + 1
      /\ \A n \in Node \ E : runs'[n] = runs[n] /\ task'[n] = task[n]
  BY DEF Starts, IInv, TypeOK
<1>2. ASSUME NEW j \in Node
      PROVE  \E d \in {0, 1} : \A a \in DOMAIN Inputs(j)' :
               a \in Nat /\ a + d \in DOMAIN Inputs(j) /\ Inputs(j)'[a] = Inputs(j)[a + d]
  <2>1. CASE j \in E
    <3>1. Inputs(j)' = triggers[j]
      <4>1. triggers[j] # <<>> /\ Inputs(j)' = <<Head(triggers[j])>> \o Tail(triggers[j])
        BY <2>1 DEF Starts, Inputs
      <4> QED BY <1>1, <4>1, HeadTail
    <3>2. DOMAIN triggers[j] \subseteq Nat
      BY <1>1
    <3>3. \A a \in DOMAIN triggers[j] :
            a + 1 \in DOMAIN Inputs(j) /\ Inputs(j)[a + 1] = triggers[j][a]
      BY <1>1, InputsAre
    <3> QED BY <3>1, <3>2, <3>3
  <2>2. CASE j \notin E
    <3>1. Inputs(j)' = Inputs(j)
      BY <2>2 DEF Starts, Inputs
    <3>2. DOMAIN Inputs(j) \subseteq Nat
      BY <1>1, InputsAre
    <3>3. \A a \in DOMAIN Inputs(j) : a \in Nat /\ a + 0 = a
      BY <3>2
    <3> QED BY <3>1, <3>3
  <2> QED BY <2>1, <2>2
<1>3. \A j \in Join : j \in Node /\ Fed(j) \subseteq Node
  BY FedAre, GraphAssumption
<1>4. Ascending'
  <2> SUFFICES ASSUME NEW j \in Join, NEW p \in Fed(j), NEW a \in DOMAIN Inputs(j)',
                      NEW b \in DOMAIN Inputs(j)', a < b,
                      NEW r \in RunsOf(p, Inputs(j)'[a]), NEW s \in RunsOf(p, Inputs(j)'[b])
               PROVE  s > r
    BY DEF Ascending
  <2>1. PICK d \in {0, 1} : \A c \in DOMAIN Inputs(j)' :
               c \in Nat /\ c + d \in DOMAIN Inputs(j) /\ Inputs(j)'[c] = Inputs(j)[c + d]
    BY <1>2, <1>3
  <2>2. a + d < b + d /\ a + d \in DOMAIN Inputs(j) /\ b + d \in DOMAIN Inputs(j)
    BY <2>1
  <2> QED BY <2>1, <2>2 DEF IInv, Ascending
<1>5. Behind'
  <2> SUFFICES ASSUME NEW j \in Join, NEW p \in Fed(j), NEW a \in DOMAIN Inputs(j)',
                      NEW r \in RunsOf(p, Inputs(j)'[a])
               PROVE  /\ r =< runs'[p]
                      /\ p \in arrivals[j] \/ task'[p] # "none" => r < runs'[p]
    BY <1>1 DEF Behind
  <2>1. PICK d \in {0, 1} : \A c \in DOMAIN Inputs(j)' :
               c \in Nat /\ c + d \in DOMAIN Inputs(j) /\ Inputs(j)'[c] = Inputs(j)[c + d]
    BY <1>2, <1>3
  <2>2. /\ r =< runs[p] /\ p \in Node
        /\ p \in arrivals[j] \/ task[p] # "none" => r < runs[p]
    BY <1>3, <2>1 DEF IInv, Behind
  <2>3. r \in Nat
    <3>1. Inputs(j)[a + d] \subseteq Key
      <4>1. a + d \in DOMAIN Inputs(j) /\ input[j] \subseteq Key
        BY <1>3, <2>1 DEF IInv, TypeOK
      <4>2. \A b \in DOMAIN triggers[j] : triggers[j][b] \subseteq Key
        BY <1>1, <1>3
      <4> QED BY <1>1, <1>3, <4>1, <4>2, InputsAre
    <3> QED BY <2>1, <3>1 DEF RunsOf, Key
  <2> QED BY <1>1, <2>2, <2>3
<1> QED BY <1>4, <1>5

LEMMA ScheduleStep == ASSUME IInv, Schedule PROVE IInv'
<1> DEFINE E == ToStart
           R == {n \in E : Replays(NextKey(n))}
<1>1. Starts(E, R) /\ TypeOK' /\ Queued'
  BY ScheduleStarts
<1>2. batch = {} /\ pc' = IF pending' = <<>> THEN "leave" ELSE "wait"
  BY DEF Schedule
<1>3. Ascending' /\ Behind'
  BY <1>1, StartsKeepJoins
<1>4. /\ InFlight' /\ ReplayedTasks' /\ LiveIsNew' /\ FinishedEnded' /\ ReplayedInTurn'
      /\ ResultsLast' /\ OnePlace' /\ BatchInTurn'
  BY <1>1, <1>2, StartsKeepTasks
<1>5. Limited'
  <2>1. (ToSet(pending) \ replayed) \cup (E \ R) = ToSet(pending') \ replayed'
    BY <1>1 DEF Starts
  <2>2. E \ R = {n \in ToStart : ~Replays(NextKey(n))} /\ limit' = limit
    BY <1>1 DEF Starts
  <2>3. limit # 0 => Cardinality((ToSet(pending) \ replayed) \cup (E \ R)) =< limit
    BY <2>2, SlotsKept
  <2> QED BY <2>1, <2>2, <2>3 DEF Limited
<1>6. Rest'
  BY <1>2 DEF Rest, Over
<1>7. OutOfWork'
  <2> SUFFICES ASSUME pending' = <<>>
               PROVE  order' = <<>> \/ Waiting' # {} \/ \E n \in TaskAgent : status'[n] = "WAITING"
    BY <1>2 DEF OutOfWork
  <2>1. ToSet(pending) = {} /\ E = {}
    <3>1. ToSet(pending') = {}
      BY DEF ToSet
    <3> QED BY <1>1, <3>1 DEF Starts
  <2>2. order' = <<>> \/ order # <<>>
    <3>1. order \in Seq(Node) /\ \E S : order' = Filter(order, S)
      BY DEF Schedule, IInv, TypeOK
    <3>2. order = <<>> => ToSet(order) = {}
      BY <3>1, Elements
    <3> QED BY <3>1, <3>2, FilterElements
  <2>3. CASE order # <<>>
    <3> DEFINE n == order[1]
    <3>1. 1 \in DOMAIN order /\ n \in Node
      BY <2>3 DEF IInv, TypeOK
    <3>2. ~Full(Active + Cardinality(Ahead(1)))
      <4>1. Ahead(1) = {}
        BY DEF Ahead
      <4>2. Active + Cardinality(Ahead(1)) = 0
        BY <2>1, <4>1, FS_EmptySet DEF Active
      <4>3. limit \in Nat
        BY BoundsAssumption DEF IInv, TypeOK
      <4> QED BY <4>2, <4>3 DEF Full
    <3>3. ~Startable(n) \/ \E m \in TaskAgent : status[m] \in {"WAITING", "INTERRUPTED"}
      BY <2>1, <3>1, <3>2 DEF ToStart, Ahead
    <3>4. status[n] # "RUNNING" /\ n \notin ToSet(pending)
      BY <2>1, <3>1 DEF IInv, InFlight
    <3>5. \A m \in Node : status'[m] = status[m]
      BY <1>1, <2>1 DEF Starts
    <3>6. TaskAgent \subseteq Node
      BY GraphAssumption
    <3> QED BY <3>1, <3>3, <3>4, <3>5, <3>6 DEF Startable, Waiting
  <2> QED BY <2>2, <2>3
<1> QED BY <1>1, <1>3, <1>4, <1>5, <1>6, <1>7 DEF IInv

-----------------------------------------------------------------------------
(* Handling what a task ended with.                                        *)

(* What follows a completed run of n, node by node.                        *)
Buffers(n, stat, targets, fired) ==
  /\ ToSet(targets) \subseteq Node /\ fired \subseteq ToSet(targets)
  /\ \A t \in Node \ fired : triggers'[t] = triggers[t]
  /\ \A t \in fired : triggers'[t] =
       Append(triggers[t], IF t \in Join THEN {Outputs(p) : p \in Predecessors(t)} ELSE {KeyOf(n)})
  /\ \A j \in Join \ ToSet(targets) : arrivals'[j] = arrivals[j]
  /\ \A j \in (Join \cap ToSet(targets)) \ fired : arrivals'[j] = arrivals[j] \cup {n}
  /\ \A j \in Join \cap fired : /\ Fires(j, arrivals[j] \cup {n}, stat)
                                /\ arrivals'[j] = Consumed(j, arrivals[j] \cup {n})

LEMMA PredecessorsAre == ASSUME NEW t \in Node PROVE Predecessors(t) \subseteq Node \cup {Start}
<1>1. Edges \in Seq(EdgeType)
  BY GraphAssumption DEF EdgeType
<1>2. ToSet(Edges) \subseteq EdgeType
  BY <1>1, Elements
<1> QED BY <1>2 DEF Predecessors, EdgeType

LEMMA OutputsAre ==
  ASSUME IInv, NEW p \in Node \cup {Start}
  PROVE  /\ Outputs(p) \in Key /\ Outputs(p).node = p
         /\ p \in Node => Outputs(p).run = runs[p]
<1>1. StartKey \in Key /\ StartKey.node = Start /\ Start \notin Node
  BY BoundsAssumption, GraphAssumption DEF StartKey, Key
<1> QED BY <1>1, KeysAre DEF Outputs

LEMMA BufferBuffers ==
  ASSUME IInv, NEW n \in Node, NEW route \in Routes, NEW stat, Buffer(n, route, stat)
  PROVE  /\ \E targets, fired : Buffers(n, stat, targets, fired)
         /\ triggers' \in [Node -> Seq(SUBSET Key)] /\ arrivals' \in [Join -> SUBSET Node]
         /\ order' \in Seq(Node) /\ Queued'
<1> DEFINE targets == NextNodes[n][route]
           arrived == [j \in Join |-> IF j \in ToSet(targets) THEN arrivals[j] \cup {n}
                                                              ELSE arrivals[j]]
           fired == {t \in ToSet(targets) : t \in Join => Fires(t, arrived[t], stat)}
           given(t) == IF t \in Join THEN {Outputs(p) : p \in Predecessors(t)} ELSE {KeyOf(n)}
<1>1. /\ triggers' = [t \in Node |-> IF t \in fired THEN Append(triggers[t], given(t))
                                                   ELSE triggers[t]]
      /\ order' = order \o Filter(targets, {t \in fired : triggers[t] = <<>>})
      /\ arrivals' = [j \in Join |-> IF j \in fired THEN Consumed(j, arrived[j]) ELSE arrived[j]]
  BY DEF Buffer
<1>2. targets \in Seq(Node) /\ ToSet(targets) \subseteq Node
  BY NextNodesAre, Elements
<1>3. /\ order \in Seq(Node) /\ \A t \in Node : triggers[t] \in Seq(SUBSET Key)
      /\ \A j \in Join : arrivals[j] \subseteq Node
  BY DEF IInv, TypeOK
<1>4. \A t \in Node : given(t) \in SUBSET Key
  BY PredecessorsAre, OutputsAre, KeysAre
<1> HIDE DEF targets, given
<1>5. \A j \in Join : /\ arrived[j] \subseteq Node
                      /\ j \in ToSet(targets) => arrived[j] = arrivals[j] \cup {n}
                      /\ j \notin ToSet(targets) => arrived[j] = arrivals[j]
  BY <1>3
<1> HIDE DEF arrived
<1>6. fired \subseteq ToSet(targets) /\ \A j \in Join \cap fired : Fires(j, arrived[j], stat)
  OBVIOUS
<1> HIDE DEF fired
<1>7. triggers' \in [Node -> Seq(SUBSET Key)]
  <2>1. \A t \in Node : Append(triggers[t], given(t)) \in Seq(SUBSET Key)
    BY <1>3, <1>4
  <2> QED BY <1>1, <1>3, <2>1
<1>8. arrivals' \in [Join -> SUBSET Node]
  <2>1. \A j \in Join : Consumed(j, arrived[j]) \subseteq Node
    BY <1>5 DEF Consumed
  <2> QED BY <1>1, <1>5, <2>1
<1>9. /\ order' \in Seq(Node) /\ ToSet(order') \subseteq ToSet(order) \cup fired
      /\ ToSet(order) \subseteq Node
  <2> DEFINE new == Filter(targets, {t \in fired : triggers[t] = <<>>})
  <2>1. new \in Seq(Node) /\ ToSet(new) = ToSet(targets) \cap {t \in fired : triggers[t] = <<>>}
    BY <1>2, FilterElements
  <2> HIDE DEF new
  <2>2. order \o new \in Seq(Node) /\ ToSet(order \o new) = ToSet(order) \cup ToSet(new)
        /\ ToSet(order) \subseteq Node
    BY <1>3, <2>1, Elements
  <2> QED BY <1>1, <2>1, <2>2 DEF new
<1>10. Queued'
  <2>1. \A t \in Node : Append(triggers[t], given(t)) # <<>>
    BY <1>3, <1>4
  <2>2. \A t \in ToSet(order) \cup fired : triggers'[t] # <<>>
    BY <1>1, <1>2, <1>6, <1>9, <2>1 DEF IInv, Queued
  <2> QED BY <1>9, <2>2 DEF Queued
<1>11. Buffers(n, stat, targets, fired)
  <2>1. Join \subseteq Node
    BY GraphAssumption
  <2>2. \A t \in Node \ fired : triggers'[t] = triggers[t]
    BY <1>1
  <2>3. \A t \in fired : triggers'[t] = Append(triggers[t], given(t))
    BY <1>1, <1>2, <1>6
  <2>4. \A j \in Join \ ToSet(targets) : arrivals'[j] = arrivals[j]
    BY <1>1, <1>5, <1>6
  <2>5. \A j \in (Join \cap ToSet(targets)) \ fired : arrivals'[j] = arrivals[j] \cup {n}
    BY <1>1, <1>5
  <2>6. \A j \in Join \cap fired : /\ Fires(j, arrivals[j] \cup {n}, stat)
                                   /\ arrivals'[j] = Consumed(j, arrivals[j] \cup {n})
    BY <1>1, <1>5, <1>6
  <2> QED BY <1>2, <1>6, <2>2, <2>3, <2>4, <2>5, <2>6 DEF Buffers, given
<1> QED BY <1>7, <1>8, <1>9, <1>10, <1>11

(* One more input for a node comes after those it has.                     *)
LEMMA InputAppended ==
  ASSUME NEW j \in Node, triggers[j] \in Seq(SUBSET Key), NEW g \in SUBSET Key,
         triggers'[j] = Append(triggers[j], g), input'[j] = input[j]
  PROVE  \A a \in DOMAIN Inputs(j)' :
           \/ a \in DOMAIN Inputs(j) /\ Inputs(j)'[a] = Inputs(j)[a]
           \/ Inputs(j)'[a] = g /\ \A b \in DOMAIN Inputs(j)' : b =< a
<1> DEFINE s == triggers[j]
           x == input[j]
           t == Append(s, g)
<1>1. Inputs(j) = <<x>> \o s /\ Inputs(j)' = <<x>> \o t
  BY DEF Inputs
<1>2. s \in Seq(SUBSET Key) /\ t \in Seq(SUBSET Key) /\ Len(t) = Len(s) + 1 /\ Len(s) \in Nat
      /\ t[Len(s) + 1] = g /\ \A i \in 1..Len(s) : t[i] = s[i]
  OBVIOUS
<1> HIDE DEF s, t, x
<1> DEFINE u == <<x>> \o s
           v == <<x>> \o t
<1>3. <<x>> \in Seq({x} \cup SUBSET Key) /\ s \in Seq({x} \cup SUBSET Key)
      /\ t \in Seq({x} \cup SUBSET Key)
  BY <1>2
<1>4. /\ DOMAIN u = 1..(Len(s) + 1) /\ DOMAIN v = 1..(Len(s) + 2)
      /\ u[1] = x /\ v[1] = x
      /\ \A i \in 1..Len(s) : u[i + 1] = s[i]
      /\ \A i \in 1..(Len(s) + 1) : v[i + 1] = t[i]
  BY <1>2, <1>3
<1> HIDE DEF u, v
<1>5. ASSUME NEW a \in DOMAIN v
      PROVE  \/ a \in DOMAIN u /\ v[a] = u[a]
             \/ v[a] = g /\ \A b \in DOMAIN v : b =< a
  <2>1. CASE a = 1
    BY <1>2, <1>4, <2>1
  <2>2. CASE a # 1 /\ a # Len(s) + 2
    <3>1. a - 1 \in 1..Len(s) /\ a - 1 \in 1..(Len(s) + 1) /\ a - 1 + 1 = a /\ a \in DOMAIN u
      BY <1>2, <1>4, <2>2
    <3>2. v[a] = t[a - 1] /\ u[a] = s[a - 1] /\ t[a - 1] = s[a - 1]
      BY <1>2, <1>4, <3>1
    <3> QED BY <3>1, <3>2
  <2>3. CASE a = Len(s) + 2
    <3>1. Len(s) + 1 \in 1..(Len(s) + 1) /\ Len(s) + 1 + 1 = Len(s) + 2
      BY <1>2
    <3>2. v[a] = t[Len(s) + 1]
      BY <1>4, <2>3, <3>1
    <3> QED BY <1>2, <1>4, <2>3, <3>2
  <2> QED BY <2>1, <2>2, <2>3
<1> QED BY <1>1, <1>5 DEF u, v

(* A join that fires has had a new run of every node that feeds it.        *)
LEMMA BufferKeepsJoins ==
  ASSUME IInv, NEW n \in Node, task[n] = "done", NEW stat, NEW targets, NEW fired,
         Buffers(n, stat, targets, fired), \A m \in Node \ {n} : stat[m] = status[m],
         task' = [task EXCEPT ![n] = "none"], UNCHANGED <<runs, input>>
  PROVE  Ascending' /\ Behind'
<1>1. /\ \A m \in Node : task'[m] # "none" => task[m] # "none" /\ m # n
      /\ \A m \in Node : runs[m] \in Nat /\ triggers[m] \in Seq(SUBSET Key)
  BY DEF IInv, TypeOK
<1>2. \A j \in Join : j \in Node /\ Fed(j) \subseteq Node /\ Fed(j) \subseteq Predecessors(j)
  BY FedAre, GraphAssumption
<1>3. ASSUME NEW j \in Join, j \notin fired
      PROVE  /\ Inputs(j)' = Inputs(j) /\ arrivals'[j] \subseteq arrivals[j] \cup {n}
  <2>1. triggers'[j] = triggers[j]
    BY <1>2, <1>3 DEF Buffers
  <2>2. arrivals'[j] \subseteq arrivals[j] \cup {n}
    BY <1>3 DEF Buffers
  <2> QED BY <2>1, <2>2 DEF Inputs
<1>4. ASSUME NEW j \in Join, j \in fired, NEW p \in Fed(j)
      PROVE  /\ \A a \in DOMAIN Inputs(j)' :
                  \/ a \in DOMAIN Inputs(j) /\ Inputs(j)'[a] = Inputs(j)[a]
                  \/ RunsOf(p, Inputs(j)'[a]) = {runs[p]} /\ \A b \in DOMAIN Inputs(j)' : b =< a
             /\ \A a \in DOMAIN Inputs(j) : \A r \in RunsOf(p, Inputs(j)[a]) : r < runs[p]
             /\ p \notin arrivals'[j] /\ task'[p] = "none"
  <2> DEFINE g == {Outputs(q) : q \in Predecessors(j)}
  <2>1. /\ triggers'[j] = Append(triggers[j], g)
        /\ Fires(j, arrivals[j] \cup {n}, stat)
        /\ arrivals'[j] = Consumed(j, arrivals[j] \cup {n})
    BY <1>4 DEF Buffers
  <2>2. g \in SUBSET Key /\ RunsOf(p, g) = {runs[p]}
    <3>1. \A q \in Predecessors(j) : /\ Outputs(q) \in Key /\ Outputs(q).node = q
                                     /\ q \in Node => Outputs(q).run = runs[q]
      BY <1>2, PredecessorsAre, OutputsAre
    <3>2. p \in Predecessors(j) /\ p \in Node
      BY <1>2
    <3> QED BY <3>1, <3>2 DEF RunsOf
  <2> HIDE DEF g
  <2>3. p # Start /\ p \in arrivals[j] \cup {n} /\ stat[p] = "COMPLETED"
    BY <1>2, <2>1, GraphAssumption DEF Fires
  <2>4. \A a \in DOMAIN Inputs(j) : \A r \in RunsOf(p, Inputs(j)[a]) : r < runs[p]
    BY <2>3 DEF IInv, Behind
  <2>5. p \notin arrivals'[j]
    BY <2>1 DEF Consumed, Fed
  <2>6. task'[p] = "none"
    <3>1. CASE p = n
      BY <1>1, <1>2, <3>1
    <3>2. CASE p # n
      <4>1. status[p] = "COMPLETED" /\ p \in Node
        BY <1>2, <2>3, <3>2
      <4> QED BY <1>1, <4>1 DEF IInv, InFlight
    <3> QED BY <3>1, <3>2
  <2>7. \A a \in DOMAIN Inputs(j)' :
          \/ a \in DOMAIN Inputs(j) /\ Inputs(j)'[a] = Inputs(j)[a]
          \/ Inputs(j)'[a] = g /\ \A b \in DOMAIN Inputs(j)' : b =< a
    BY <1>1, <1>2, <2>1, <2>2, InputAppended
  <2> QED BY <2>2, <2>4, <2>5, <2>6, <2>7
<1>5. Ascending'
  <2> SUFFICES ASSUME NEW j \in Join, NEW p \in Fed(j), NEW a \in DOMAIN Inputs(j)',
                      NEW b \in DOMAIN Inputs(j)', a < b,
                      NEW r \in RunsOf(p, Inputs(j)'[a]), NEW s \in RunsOf(p, Inputs(j)'[b])
               PROVE  s > r
    BY DEF Ascending
  <2>1. CASE j \notin fired
    BY <1>3, <2>1 DEF IInv, Ascending
  <2>2. CASE j \in fired
    <3>0. a \in Nat /\ b \in Nat
      <4>1. triggers'[j] \in Seq(SUBSET Key)
        <5>1. triggers'[j] = Append(triggers[j], {Outputs(q) : q \in Predecessors(j)})
          BY <2>2 DEF Buffers
        <5>2. {Outputs(q) : q \in Predecessors(j)} \in SUBSET Key
          BY <1>2, PredecessorsAre, OutputsAre
        <5> QED BY <1>1, <1>2, <5>1, <5>2
      <4>2. DOMAIN Inputs(j)' = 1..(1 + Len(triggers'[j]))
        <5> DEFINE x == input'[j]
                   t == triggers'[j]
        <5>1. Inputs(j)' = <<x>> \o t /\ t \in Seq({x} \cup SUBSET Key)
              /\ <<x>> \in Seq({x} \cup SUBSET Key)
          BY <4>1 DEF Inputs
        <5> HIDE DEF x, t
        <5>2. DOMAIN (<<x>> \o t) = 1..(1 + Len(t))
          BY <5>1
        <5> QED BY <5>1, <5>2 DEF t
      <4> QED BY <4>1, <4>2
    <3>1. a \in DOMAIN Inputs(j) /\ Inputs(j)'[a] = Inputs(j)[a]
      BY <1>4, <2>2, <3>0
    <3>2. CASE b \in DOMAIN Inputs(j) /\ Inputs(j)'[b] = Inputs(j)[b]
      BY <3>1, <3>2 DEF IInv, Ascending
    <3>3. CASE RunsOf(p, Inputs(j)'[b]) = {runs[p]}
      <4>1. s = runs[p] /\ r < runs[p]
        BY <1>4, <2>2, <3>1, <3>3
      <4> QED BY <4>1
    <3> QED BY <1>4, <2>2, <3>2, <3>3
  <2> QED BY <2>1, <2>2
<1>6. Behind'
  <2> SUFFICES ASSUME NEW j \in Join, NEW p \in Fed(j), NEW a \in DOMAIN Inputs(j)',
                      NEW r \in RunsOf(p, Inputs(j)'[a])
               PROVE  /\ r =< runs[p]
                      /\ p \in arrivals'[j] \/ task'[p] # "none" => r < runs[p]
    BY DEF Behind
  <2>1. CASE j \notin fired
    <3>1. a \in DOMAIN Inputs(j) /\ r \in RunsOf(p, Inputs(j)[a]) /\ p \in Node
      BY <1>2, <1>3, <2>1
    <3>2. p \in arrivals'[j] \/ task'[p] # "none" => p \in arrivals[j] \/ task[p] # "none"
      BY <1>1, <1>3, <2>1, <3>1
    <3> QED BY <3>1, <3>2 DEF IInv, Behind
  <2>2. CASE j \in fired
    <3>1. p \notin arrivals'[j] /\ task'[p] = "none"
      BY <1>4, <2>2
    <3>2. r < runs[p] \/ r = runs[p]
      BY <1>4, <2>2
    <3>3. runs[p] \in Nat
      BY <1>1, <1>2
    <3>4. CASE a \in DOMAIN Inputs(j) /\ Inputs(j)'[a] = Inputs(j)[a]
      BY <3>1, <3>4 DEF IInv, Behind
    <3>5. CASE RunsOf(p, Inputs(j)'[a]) = {runs[p]}
      BY <3>1, <3>3, <3>5
    <3> QED BY <1>4, <2>2, <3>4, <3>5
  <2> QED BY <2>1, <2>2
<1> QED BY <1>5, <1>6

LEMMA HandleStep == ASSUME IInv, NEW n \in Node, Handle(n) PROVE IInv'
<1> DEFINE stat == [status EXCEPT ![n] = StatusOf(n, outcome[n])]
           e == [kind |-> "result", key |-> KeyOf(n), route |-> NoRoute, input |-> input[n]]
           echoed == n \in replayed /\ LastEvent(KeyOf(n)) = "answer"
<1>1. /\ pc \in {"handle", "drain"} /\ n \in NextDone /\ task[n] = "done"
      /\ pending' = Filter(pending, Node \ {n}) /\ replayed' = replayed \ {n}
      /\ task' = [task EXCEPT ![n] = "none"] /\ status' = stat
      /\ error' = (error \/ stat[n] = "FAILED")
      /\ session' = IF echoed THEN Append(session, e) ELSE session
      /\ IF stat[n] = "COMPLETED" THEN Buffer(n, outcome[n].route, stat)
         ELSE UNCHANGED <<order, triggers, arrivals>>
      /\ batch' = batch \ {n}
      /\ UNCHANGED <<turn, limit, sequence, runs, input, outcome, finished, aborted, pc, diverged>>
  BY DEF Handle
<1>2. TypeOK
  BY DEF IInv
<1>3. /\ status'[n] \in {"FAILED", "INTERRUPTED", "WAITING", "COMPLETED"}
      /\ \A m \in Node \ {n} : status'[m] = status[m] /\ task'[m] = task[m]
      /\ task'[n] = "none"
      /\ status' \in [Node -> {"NONE", "RUNNING", "COMPLETED", "WAITING", "INTERRUPTED", "FAILED"}]
      /\ task' \in [Node -> {"none", "held", "live", "recorded", "done", "raised"}]
  <2>1. StatusOf(n, outcome[n]) \in {"FAILED", "INTERRUPTED", "WAITING", "COMPLETED"}
    BY DEF StatusOf
  <2> HIDE DEF e, echoed
  <2> QED BY <1>1, <1>2, <2>1 DEF TypeOK
<1> HIDE DEF stat
<1>4. /\ pending' \in Seq(Node) /\ ToSet(pending') = ToSet(pending) \ {n}
      /\ ToSet(pending) \subseteq Node
  <2>1. pending \in Seq(Node)
    BY <1>2 DEF TypeOK
  <2>2. Filter(pending, Node \ {n}) \in Seq(Node)
        /\ ToSet(Filter(pending, Node \ {n})) = ToSet(pending) \cap (Node \ {n})
    BY <2>1, FilterElements
  <2>3. ToSet(pending) \subseteq Node
    BY <2>1, Elements
  <2> QED BY <1>1, <2>2, <2>3
<1>5. /\ triggers' \in [Node -> Seq(SUBSET Key)] /\ arrivals' \in [Join -> SUBSET Node]
      /\ order' \in Seq(Node) /\ Queued' /\ Ascending' /\ Behind'
  <2>1. CASE stat[n] = "COMPLETED"
    <3>1. Buffer(n, outcome[n].route, stat) /\ outcome[n].route \in Routes
      BY <1>1, <1>2, <2>1 DEF TypeOK, Outcome
    <3>2. PICK targets, fired : Buffers(n, stat, targets, fired)
      BY <3>1, BufferBuffers
    <3>3. \A m \in Node \ {n} : stat[m] = status[m]
      BY <1>1, <1>3
    <3>4. Ascending' /\ Behind'
      BY <1>1, <3>2, <3>3, BufferKeepsJoins
    <3> QED BY <3>1, <3>4, BufferBuffers
  <2>2. CASE stat[n] # "COMPLETED"
    <3>1. UNCHANGED <<order, triggers, arrivals, input, runs>>
      BY <1>1, <2>2
    <3>2. \A m \in Node : task'[m] # "none" => task[m] # "none"
      BY <1>1, <1>3
    <3>3. Ascending' /\ Behind'
      BY <3>1, <3>2, JoinsKept
    <3> QED BY <1>2, <3>1, <3>3 DEF TypeOK, IInv, Queued
  <2> QED BY <2>1, <2>2
<1>6. /\ session' \in Seq(SessionEvent) /\ Len(session) \in Nat
      /\ DOMAIN session = 1..Len(session)
      /\ DOMAIN session \subseteq DOMAIN session'
      /\ \A i \in DOMAIN session : session'[i] = session[i]
      /\ \A i \in DOMAIN session' \ DOMAIN session :
           i = Len(session) + 1 /\ session'[i].key = KeyOf(n) /\ echoed
  <2>1. session \in Seq(SessionEvent)
    BY <1>2 DEF TypeOK
  <2>2. e \in SessionEvent /\ e.key = KeyOf(n)
    <3>1. KeyOf(n) \in Key /\ input[n] \in SUBSET Key /\ NoRoute \in Routes /\ "result" \in Kinds
      BY <1>2, KeysAre DEF TypeOK, Routes, Kinds
    <3> QED BY <3>1 DEF SessionEvent
  <2>3. session' = session \/ (echoed /\ session' = Append(session, e))
    BY <1>1
  <2> HIDE DEF e, echoed
  <2> QED BY <2>1, <2>2, <2>3
<1>7. TypeOK'
  <2>1. replayed' \subseteq Node /\ batch' \subseteq ToSet(pending') /\ error' \in BOOLEAN
    BY <1>1, <1>2, <1>4 DEF TypeOK
  <2> HIDE DEF e, echoed
  <2> QED BY <1>1, <1>2, <1>3, <1>4, <1>5, <1>6, <2>1 DEF TypeOK
<1>8. /\ sequence' = sequence /\ finished' = finished /\ runs' = runs /\ pc' = pc /\ limit' = limit
      /\ replayed' = replayed \ {n} /\ batch' = batch \ {n} /\ pc \in {"handle", "drain"}
      /\ ~error' => ~error
  BY <1>1
<1>9. \A m : KeyOf(m)' = KeyOf(m)
  BY <1>8 DEF KeyOf
<1>10. InFlight' /\ ReplayedTasks'
  <2>1. InFlight'
    BY <1>3, <1>4, <1>8 DEF IInv, InFlight
  <2>2. \A m \in replayed \cup batch : m \in Node
    BY <1>2, <1>4 DEF TypeOK
  <2> QED BY <1>3, <1>8, <2>1, <2>2 DEF IInv, ReplayedTasks
<1>11. ResultsLast' /\ LiveIsNew'
  <2> HIDE DEF e
  <2>1. ASSUME NEW i \in DOMAIN session', NEW j \in DOMAIN session',
               session'[i].kind = "result", session'[i].key = session'[j].key
        PROVE  j =< i
    <3>1. CASE i \in DOMAIN session
      <4>1. LastEvent(session[i].key) = "result"
        BY <1>6, <2>1, <3>1, ResultReplays
      <4>2. j \in DOMAIN session
        BY <1>6, <2>1, <3>1, <4>1
      <4> QED BY <1>6, <2>1, <3>1, <4>2 DEF IInv, ResultsLast
    <3>2. CASE i \notin DOMAIN session
      BY <1>6, <3>2
    <3> QED BY <3>1, <3>2
  <2>2. ASSUME NEW m \in Node, task'[m] = "live", NEW i \in DOMAIN session',
               session'[i].key = KeyOf(m)
        PROVE  session'[i].kind # "result"
    <3>1. m # n /\ task[m] = "live" /\ KeyOf(m) # KeyOf(n)
      BY <1>3, <2>2, KeysAre
    <3> QED BY <1>6, <2>2, <3>1 DEF IInv, LiveIsNew
  <2> QED BY <1>9, <2>1, <2>2 DEF ResultsLast, LiveIsNew
<1>12. FinishedEnded' /\ ReplayedInTurn' /\ OnePlace'
  <2>1. FinishedEnded'
    BY <1>3, <1>8, <1>9 DEF IInv, FinishedEnded, Pending
  <2>2. ReplayedInTurn'
    BY <1>2, <1>3, <1>8, <1>9 DEF TypeOK, IInv, ReplayedInTurn
  <2> QED BY <1>8, <2>1, <2>2 DEF IInv, OnePlace
<1>13. BatchInTurn'
  <2> SUFFICES ASSUME pc = "handle", ~error', NEW m \in batch' \cap replayed', task'[m] = "done",
                      NEW p \in sequence, NEW q \in sequence,
                      q.key = KeyOf(m), p.at < q.at, ~p.pending
               PROVE  \/ HandledBy(p.key)'
                      \/ p.key.node \in batch' /\ p.key = KeyOf(p.key.node)
    BY <1>8, <1>9 DEF BatchInTurn
  <2>1. m \in batch \cap replayed /\ m \in Node /\ m # n /\ task[m] = "done" /\ ~error
    BY <1>2, <1>3, <1>8 DEF TypeOK
  <2>2. HandledBy(p.key) \/ (p.key.node \in batch /\ p.key = KeyOf(p.key.node))
    BY <2>1 DEF IInv, BatchInTurn
  <2>3. CASE HandledBy(p.key)
    BY <1>4, <1>8, <2>3 DEF HandledBy
  <2>4. CASE p.key.node \in batch /\ p.key = KeyOf(p.key.node)
    <3>1. CASE p.key.node = n
      <4>1. p.key.run = runs[n]
        BY <2>4, <3>1 DEF KeyOf
      <4> QED BY <1>4, <1>8, <3>1, <4>1 DEF HandledBy
    <3> QED BY <1>8, <2>4, <3>1
  <2> QED BY <2>2, <2>3, <2>4
<1>14. Limited'
  <2> DEFINE A == ToSet(pending) \ replayed
             B == ToSet(pending') \ replayed'
  <2>1. B \subseteq A
    BY <1>4, <1>8
  <2>2. IsFiniteSet(A)
    <3>1. IsFiniteSet(ToSet(pending))
      BY <1>2, ElementsFinite DEF TypeOK
    <3> QED BY <3>1, FS_Subset
  <2>3. limit \in Nat /\ (limit = 0 \/ Cardinality(A) =< limit)
    BY <1>2, BoundsAssumption DEF TypeOK, IInv, Limited
  <2> HIDE DEF A, B
  <2>4. Cardinality(B) =< Cardinality(A) /\ Cardinality(B) \in Nat /\ Cardinality(A) \in Nat
    BY <2>1, <2>2, FS_Subset, FS_CardinalityType
  <2>5. limit = 0 \/ Cardinality(B) =< limit
    BY <2>3, <2>4
  <2> QED BY <1>8, <2>5 DEF Limited, B
<1>15. Rest' /\ OutOfWork'
  BY <1>8 DEF Rest, OutOfWork, Over
<1> QED BY <1>5, <1>7, <1>10, <1>11, <1>12, <1>13, <1>14, <1>15 DEF IInv

-----------------------------------------------------------------------------
(* Every step keeps the invariant.                                         *)

LEMMA StepKeepsIInv == ASSUME IInv, [Next]_vars PROVE IInv'
<1>0. error \in BOOLEAN /\ aborted \in BOOLEAN /\ diverged \in {"no", "stuck", "slow"}
  BY DEF IInv, TypeOK
<1>1. CASE Schedule
  BY <1>1, ScheduleStep
<1>2. CASE Wake
  BY <1>2, WakeStep
<1>3. CASE \E n \in Node : Handle(n)
  BY <1>3, HandleStep
<1>4. CASE \E n \in Node : HandleRaised(n)
  BY <1>0, <1>4, LoopMoves DEF HandleRaised
<1>5. CASE Drain
  BY <1>5, DrainStep
<1>6. CASE SeeAbort
  BY <1>0, <1>6, LoopMoves DEF SeeAbort
<1>7. CASE Cleanup
  <2>1. (IF error THEN "failed" ELSE "aborted") \in Over \ {"completed"}
    BY DEF Over
  <2> QED BY <1>7, <2>1, ReturnStep DEF Cleanup
<1>8. CASE Finalize
  BY <1>8, FinalizeStep
<1>9. CASE \E n \in Node : TaskStep(n)
  BY <1>9, TaskStepKeeps
<1>10. CASE Resume
  BY <1>10, ResumeStep
<1>11. CASE Abort
  BY <1>0, <1>11, LoopMoves DEF Abort
<1>12. CASE Crash
  <2>1. "crashed" \in Over \ {"completed"}
    BY DEF Over
  <2> QED BY <1>12, <2>1, ReturnStep DEF Crash
<1>13. CASE UNCHANGED vars
  BY <1>0, <1>13, LoopMoves DEF vars
<1> QED BY <1>1, <1>2, <1>3, <1>4, <1>5, <1>6, <1>7, <1>8, <1>9, <1>10, <1>11, <1>12, <1>13
        DEF Next, Loop

(* The state the arguments below rest on: what the tasks do fits what the  *)
(* loop knows of them, the barrier and the session what has ended, and the *)
(* inputs of the joins what their predecessors are running.                *)
THEOREM InductiveInvariant == Spec => []IInv
<1>1. IInv /\ [Next]_vars => IInv'
  BY StepKeepsIInv
<1> QED BY InitIInv, <1>1, PTL DEF Spec

(* Every variable keeps its type: what the loop and the tasks of the nodes *)
(* write in _LoopState, the barrier and the session.                       *)
THEOREM TypeCorrect == Spec => []TypeOK
<1>1. IInv => TypeOK
  BY DEF IInv
<1> QED BY <1>1, InductiveInvariant, PTL

(* No run has two results in the session, over any number of turns,        *)
(* crashes and answers: what has a result is replayed, never executed.     *)
THEOREM OneResultPerRunHolds == Spec => []OneResultPerRun
<1>1. IInv => OneResultPerRun
  <2> SUFFICES ASSUME IInv, NEW i \in DOMAIN session, NEW j \in DOMAIN session,
                      session[i].kind = "result", session[j].kind = "result",
                      session[i].key = session[j].key
               PROVE  i = j
    BY DEF OneResultPerRun
  <2>1. i =< j /\ j =< i
    BY DEF IInv, ResultsLast
  <2>2. i \in Nat /\ j \in Nat
    BY DEF IInv, TypeOK
  <2> QED BY <2>1, <2>2
<1> QED BY <1>1, InductiveInvariant, PTL

(* However many nodes are ready, no more of them execute at a time than    *)
(* max_concurrency; runs that are fast-forwarded do not count.             *)
THEOREM LimitHolds == Spec => []Limited
<1>1. IInv => Limited
  BY DEF IInv
<1> QED BY <1>1, InductiveInvariant, PTL

(* The loop stops with nothing in flight, and with a trigger left in the   *)
(* buffer only when a node waits for the user or a task agent for its      *)
(* output; it records its end only when no node waits for the user.        *)
THEOREM StopsOutOfWork == Spec => []OutOfWork
<1>1. IInv => OutOfWork
  BY DEF IInv
<1> QED BY <1>1, InductiveInvariant, PTL

(* The completions of replayed runs are gone through in the recorded order *)
(* (_handle_completions sorts them by the barrier's), in any graph.        *)
THEOREM ReplayInOrderHolds == Spec => ReplayInOrder
<1> DEFINE InOrder == \A n \in replayed \ replayed' : \A p, q \in sequence :
             (pc' = "handle" /\ ~error /\ p.at < q.at /\ q.key = KeyOf(n) /\ ~p.pending)
             => HandledBy(p.key)
<1>1. ASSUME IInv, [Next]_vars PROVE InOrder
  <2> SUFFICES ASSUME NEW n \in replayed, n \notin replayed',
                      NEW p \in sequence, NEW q \in sequence,
                      pc' = "handle", ~error, p.at < q.at, q.key = KeyOf(n), ~p.pending
               PROVE  HandledBy(p.key)
    OBVIOUS
  <2>1. CASE \E m \in Node : Handle(m)
    <3>1. PICK m \in Node : Handle(m)
      BY <2>1
    <3>2. m = n /\ n \in NextDone /\ task[n] = "done" /\ pc = "handle"
      BY <1>1, <3>1 DEF Handle
    <3>3. HandledBy(p.key) \/ (p.key.node \in batch /\ p.key = KeyOf(p.key.node))
      BY <1>1, <3>2 DEF IInv, BatchInTurn, NextDone
    <3>4. CASE p.key.node \in batch /\ p.key = KeyOf(p.key.node)
      <4> DEFINE k == p.key.node
      <4>1. GoesBefore(k, n)
        <5>1. \A r \in sequence : r.key = KeyOf(n) => r = q
          BY <1>1 DEF IInv, OnePlace
        <5> QED BY <3>2, <3>4, <5>1 DEF GoesBefore
      <4> QED BY <3>2, <3>4, <4>1 DEF NextDone
    <3> QED BY <3>3, <3>4
  <2>2. CASE Resume
    BY <1>1, <2>2 DEF Resume, IInv, Rest
  <2>3. CASE Cleanup \/ Finalize \/ Crash
    BY <2>3 DEF Cleanup, Finalize, Crash, Return, loopVars
  <2>4. CASE replayed \subseteq replayed'
    BY <2>4
  <2>5. Schedule \/ Wake \/ Drain \/ SeeAbort \/ Abort \/ UNCHANGED vars
        \/ (\E m \in Node : HandleRaised(m) \/ TaskStep(m))
        => replayed \subseteq replayed'
    BY DEF Schedule, Wake, Drain, SeeAbort, Abort, HandleRaised, TaskStep, Execute, Finish, Replay,
           TimeOut, vars, loopVars
  <2> QED BY <1>1, <2>1, <2>2, <2>3, <2>4, <2>5 DEF Next, Loop
<1>2. IInv /\ [Next]_vars => InOrder
  BY <1>1
<1> QED BY <1>2, InductiveInvariant, PTL DEF Spec, ReplayInOrder

(* A firing of a join is given later runs of every node that feeds it than *)
(* the firing before was: one that has run again since counts its new run, *)
(* and one that has not keeps the join from firing (_buffer_barrier_trigger*)
(* checks arrival and status).                                             *)
THEOREM JoinInputsAdvanceHolds == Spec => JoinInputsAdvance
<1> DEFINE Advance == \A j \in Join : turn' = turn /\ runs'[j] > runs[j] /\ runs[j] > 0 =>
             \A p \in Fed(j) :
               \A r \in RunsOf(p, input[j]), s \in RunsOf(p, input'[j]) : s > r
<1>1. ASSUME IInv, [Next]_vars PROVE Advance
  <2> SUFFICES ASSUME NEW j \in Join, runs'[j] > runs[j], NEW p \in Fed(j),
                      NEW r \in RunsOf(p, input[j]), NEW s \in RunsOf(p, input'[j])
               PROVE  s > r
    OBVIOUS
  <2>1. j \in Node /\ runs[j] \in Nat /\ triggers[j] \in Seq(SUBSET Key)
    BY <1>1, GraphAssumption DEF IInv, TypeOK
  <2>2. CASE Schedule
    <3> DEFINE E == ToStart
               R == {n \in E : Replays(NextKey(n))}
    <3>1. Starts(E, R)
      BY <1>1, <2>2, ScheduleStarts
    <3> HIDE DEF E, R
    <3>2. triggers[j] # <<>> /\ input'[j] = Head(triggers[j])
      BY <2>1, <3>1 DEF Starts
    <3>3. 1 \in DOMAIN triggers[j] /\ Head(triggers[j]) = triggers[j][1]
      BY <2>1, <3>2
    <3>4. 1 \in DOMAIN Inputs(j) /\ Inputs(j)[1] = input[j]
          /\ 2 \in DOMAIN Inputs(j) /\ Inputs(j)[2] = input'[j]
      BY <2>1, <3>2, <3>3, InputsAre
    <3> QED BY <1>1, <3>4 DEF IInv, Ascending
  <2>3. CASE runs' = runs
    BY <2>1, <2>3
  <2>4. CASE Fresh
    <3>1. runs'[j] = 0
      BY <2>1, <2>4 DEF Fresh, Each
    <3> QED BY <2>1, <3>1
  <2>5. Wake \/ Drain \/ SeeAbort \/ Abort \/ UNCHANGED vars
        \/ (\E m \in Node : Handle(m) \/ HandleRaised(m) \/ TaskStep(m))
        => runs' = runs
    BY DEF Wake, Drain, SeeAbort, Abort, Handle, HandleRaised, TaskStep, Execute, Finish, Replay,
           TimeOut, vars, loopVars
  <2>6. Resume \/ Cleanup \/ Finalize \/ Crash => Fresh \/ runs' = runs
    BY DEF Resume, Cleanup, Finalize, Crash, Return, loopVars
  <2> QED BY <1>1, <2>2, <2>3, <2>4, <2>5, <2>6 DEF Next, Loop
<1>2. IInv /\ [Next]_vars => Advance
  BY <1>1
<1> QED BY <1>2, InductiveInvariant, PTL DEF Spec, JoinInputsAdvance

-----------------------------------------------------------------------------
(* Walking the graph again.  The events of a session tell which runs of    *)
(* the graph were due before each of them: this is what the turns that     *)
(* made them and the turn that replays them have in common.                *)

Run == [node : Node, run : 1..MaxRuns]

(* A run that leaves no event when it ends.                                *)
Silent(k) == \E o \in Does[k.node][k.run] : o.kind = "nothing"

(* The events before i: which runs are over by then, and by which route.   *)
OverBy(s, i, k) == Silent(k) \/ \E e \in 1..(i - 1) : s[e].key = k /\ s[e].kind = "result"
LeadsTo(s, i, k, t) ==
  \/ \E e \in 1..(i - 1) : /\ s[e].key = k /\ s[e].kind = "result"
                           /\ t \in ToSet(NextNodes[k.node][s[e].route])
  \/ \E o \in Does[k.node][k.run] : /\ o.kind = "nothing" /\ k.node \notin WaitsForOutput
                                    /\ t \in ToSet(NextNodes[k.node][o.route])

(* Those of K that lead to t, and those among them of the node p.          *)
Feed(s, i, K, t) == {k \in K : LeadsTo(s, i, k, t)}
FeedOf(s, i, K, t, p) == {k \in K : k.node = p /\ LeadsTo(s, i, k, t)}

(* How many runs of p the r-th run of the join t takes.                    *)
Share(t, p, r) == IF p \in Fed(t) THEN r ELSE 1

(* A run is due when its node has been given as many triggers by those in  *)
(* K, and the run before it is over.                                       *)
Triggered(s, i, K, k) ==
  \/ k.run =< Seed(k.node)
  \/ k.node \notin Join /\ k.run =< Seed(k.node) + Cardinality(Feed(s, i, K, k.node))
  \/ /\ k.node \in Join /\ Others(k.node) # {}
     /\ \A p \in Others(k.node) :
          Share(k.node, p, k.run) =< Cardinality(FeedOf(s, i, K, k.node, p))
Before(k) == [node |-> k.node, run |-> k.run - 1]
Due(s, i, K, k) ==
  Triggered(s, i, K, k) /\ (k.run = 1 \/ (Before(k) \in K /\ OverBy(s, i, Before(k))))

(* K takes in whatever the events before i make due.                       *)
Walked(s, i, K) == \A k \in Run : Due(s, i, K, k) => k \in K

(* A part of a finite set is finite, and no larger.                        *)
LEMMA CardinalityGrows ==
  ASSUME NEW B, IsFiniteSet(B), NEW A \in SUBSET B
  PROVE  /\ IsFiniteSet(A) /\ Cardinality(A) \in Nat /\ Cardinality(B) \in Nat
         /\ Cardinality(A) =< Cardinality(B)
<1>1. IsFiniteSet(A) /\ Cardinality(A) =< Cardinality(B)
  BY FS_Subset
<1>2. Cardinality(A) \in Nat /\ Cardinality(B) \in Nat
  BY <1>1, FS_CardinalityType
<1> QED BY <1>1, <1>2

(* A node that comes after n has n among its predecessors, which are       *)
(* finitely many, and so are their runs.                                   *)
LEMMA NextArePreceded ==
  ASSUME NEW n \in Node, NEW route \in Routes, NEW t \in ToSet(NextNodes[n][route])
  PROVE  t \in Node /\ n \in Predecessors(t)
<1>1. Edges \in Seq(EdgeType)
  BY GraphAssumption DEF EdgeType
<1> DEFINE f == From[n]
<1>2. f \in Seq(EdgeType) /\ \A e \in ToSet(f) : e \in ToSet(Edges) /\ e.from = n
  <2>1. f = Filter(Edges, {e \in ToSet(Edges) : e.from = n})
    BY DEF From
  <2>2. ToSet(f) = ToSet(Edges) \cap {e \in ToSet(Edges) : e.from = n}
    BY <1>1, <2>1, FilterElements
  <2> QED BY <2>2, FromIs
<1>3. PICK S, T : NextNodes[n][route] = Targets(Filter(f, S) \o Filter(f, T))
  BY DEF NextNodes
<1> HIDE DEF f
<1> DEFINE a == Filter(f, S)
           b == Filter(f, T)
           c == a \o b
<1>4. a \in Seq(EdgeType) /\ b \in Seq(EdgeType) /\ ToSet(a) \subseteq ToSet(f)
      /\ ToSet(b) \subseteq ToSet(f)
  BY <1>2, FilterElements
<1>5. NextNodes[n][route] = Targets(c)
  BY <1>3
<1> HIDE DEF a, b
<1>6. c \in Seq(EdgeType) /\ ToSet(c) = ToSet(a) \cup ToSet(b)
  BY <1>4, Elements
<1> HIDE DEF c
<1>7. PICK i \in DOMAIN Targets(c) : t = Targets(c)[i]
  BY <1>5 DEF ToSet
<1>8. i \in DOMAIN c /\ t = c[i].to
  BY <1>7 DEF Targets
<1>9. c[i] \in ToSet(c) /\ c[i] \in EdgeType
  BY <1>6, <1>8 DEF ToSet
<1>10. c[i] \in ToSet(Edges) /\ c[i].from = n
  BY <1>2, <1>4, <1>6, <1>9
<1> QED BY <1>8, <1>9, <1>10 DEF Predecessors, EdgeType

LEMMA PredecessorsFinite == ASSUME NEW t PROVE IsFiniteSet(Predecessors(t))
<1> DEFINE E == {d \in ToSet(Edges) : d.to = t}
           f == [e \in E |-> e.from]
<1>1. Edges \in Seq(EdgeType)
  BY GraphAssumption DEF EdgeType
<1>2. IsFiniteSet(ToSet(Edges))
  BY <1>1, ElementsFinite
<1>3. IsFiniteSet(E)
  BY <1>2, FS_Subset
<1>4. f \in Surjection(E, Predecessors(t))
  BY DEF Surjection, Predecessors
<1> HIDE DEF f, E
<1> QED BY <1>3, <1>4, FS_Surjection

LEMMA FeedersFinite ==
  ASSUME NEW t PROVE IsFiniteSet({k \in Run : k.node \in Predecessors(t)})
<1> DEFINE P == Predecessors(t) \cap Node
           Q == {k \in Run : k.node \in Predecessors(t)}
           f == [x \in P \X (1..MaxRuns) |-> [node |-> x[1], run |-> x[2]]]
<1>1. IsFiniteSet(P) /\ IsFiniteSet(1..MaxRuns)
  <2>1. IsFiniteSet(P)
    BY PredecessorsFinite, FS_Subset
  <2>2. MaxRuns \in Nat
    BY BoundsAssumption
  <2>3. IsFiniteSet(1..MaxRuns)
    BY <2>2, FS_Interval
  <2> QED BY <2>1, <2>3
<1>2. IsFiniteSet(P \X (1..MaxRuns))
  BY <1>1, FS_Product
<1>3. \A k \in Q : k.node \in P /\ k.run \in 1..MaxRuns /\ k = [node |-> k.node, run |-> k.run]
  BY DEF Run
<1>4. \A x \in P \X (1..MaxRuns) : f[x] \in Q
  BY DEF Run
<1>5. \A k \in Q : \E x \in P \X (1..MaxRuns) : f[x] = k
  <2> SUFFICES ASSUME NEW k \in Q PROVE \E x \in P \X (1..MaxRuns) : f[x] = k
    OBVIOUS
  <2>1. <<k.node, k.run>> \in P \X (1..MaxRuns)
    BY <1>3
  <2>2. f[<<k.node, k.run>>] = [node |-> k.node, run |-> k.run]
    BY <2>1
  <2> QED BY <1>3, <2>1, <2>2
<1>6. f \in Surjection(P \X (1..MaxRuns), Q)
  BY <1>4, <1>5 DEF Surjection
<1> HIDE DEF f, P, Q
<1>7. IsFiniteSet(Q)
  BY <1>2, <1>6, FS_Surjection
<1> QED BY <1>7 DEF Q

(* Of a session, the runs that lead to a node are runs of its predecessors,*)
(* and there are finitely many.                                            *)
LEMMA FeedIs ==
  ASSUME NEW s \in Seq(SessionEvent), NEW i \in 1..(Len(s) + 1), NEW K \in SUBSET Run, NEW t
  PROVE  /\ \A k \in Run : LeadsTo(s, i, k, t) => k.node \in Predecessors(t) /\ OverBy(s, i, k)
         /\ IsFiniteSet(Feed(s, i, K, t)) /\ Cardinality(Feed(s, i, K, t)) \in Nat
         /\ \A p : /\ IsFiniteSet(FeedOf(s, i, K, t, p))
                   /\ Cardinality(FeedOf(s, i, K, t, p)) \in Nat
<1>1. ASSUME NEW k \in Run, LeadsTo(s, i, k, t)
      PROVE  k.node \in Predecessors(t) /\ OverBy(s, i, k)
  <2>0. k.node \in Node /\ k.run \in 1..MaxRuns
    BY DEF Run
  <2>1. CASE \E e \in 1..(i - 1) : /\ s[e].key = k /\ s[e].kind = "result"
                                   /\ t \in ToSet(NextNodes[k.node][s[e].route])
    <3>1. PICK e \in 1..(i - 1) : /\ s[e].key = k /\ s[e].kind = "result"
                                  /\ t \in ToSet(NextNodes[k.node][s[e].route])
      BY <2>1
    <3>2. e \in 1..Len(s)
      OBVIOUS
    <3>3. s[e].route \in Routes
      <4>1. s[e] \in SessionEvent
        BY <3>2
      <4> QED BY <4>1 DEF SessionEvent
    <3> QED BY <2>0, <3>1, <3>3, NextArePreceded DEF OverBy
  <2>2. CASE \E o \in Does[k.node][k.run] : /\ o.kind = "nothing" /\ k.node \notin WaitsForOutput
                                            /\ t \in ToSet(NextNodes[k.node][o.route])
    <3>1. PICK o \in Does[k.node][k.run] : /\ o.kind = "nothing"
                                           /\ t \in ToSet(NextNodes[k.node][o.route])
      BY <2>2
    <3>2. o.route \in Routes
      BY <2>0, BoundsAssumption DEF Outcome
    <3> QED BY <2>0, <3>1, <3>2, NextArePreceded DEF OverBy, Silent
  <2> QED BY <1>1, <2>1, <2>2 DEF LeadsTo
<1> DEFINE Q == {k \in Run : k.node \in Predecessors(t)}
<1>2. IsFiniteSet(Q)
  BY FeedersFinite
<1>3. Feed(s, i, K, t) \in SUBSET Q /\ \A p : FeedOf(s, i, K, t, p) \in SUBSET Q
  BY <1>1 DEF Feed, FeedOf
<1> HIDE DEF Q
<1> QED BY <1>1, <1>2, <1>3, CardinalityGrows

(* More events, and more runs, lead further.                               *)
LEMMA FeedGrows ==
  ASSUME NEW s \in Seq(SessionEvent), NEW i \in 1..(Len(s) + 1), NEW K \in SUBSET Run,
         NEW z \in Seq(SessionEvent), NEW m \in 1..(Len(z) + 1), NEW L \in SUBSET Run,
         NEW t, \A k \in K : LeadsTo(s, i, k, t) => k \in L /\ LeadsTo(z, m, k, t)
  PROVE  /\ Cardinality(Feed(s, i, K, t)) =< Cardinality(Feed(z, m, L, t))
         /\ \A p : Cardinality(FeedOf(s, i, K, t, p)) =< Cardinality(FeedOf(z, m, L, t, p))
<1>1. Feed(s, i, K, t) \in SUBSET Feed(z, m, L, t)
      /\ \A p : FeedOf(s, i, K, t, p) \in SUBSET FeedOf(z, m, L, t, p)
  BY DEF Feed, FeedOf
<1>2. IsFiniteSet(Feed(z, m, L, t)) /\ \A p : IsFiniteSet(FeedOf(z, m, L, t, p))
  BY FeedIs
<1> QED BY <1>1, <1>2, CardinalityGrows

LEMMA ShareIs ==
  ASSUME NEW t, NEW p, NEW r \in Nat PROVE Share(t, p, r) \in Nat /\ Seed(t) \in Nat
BY DEF Share, Seed

(* So what is triggered stays triggered, and a set that takes in what more *)
(* events make due takes in what fewer do.                                 *)
LEMMA TriggeredGrows ==
  ASSUME NEW s \in Seq(SessionEvent), NEW i \in 1..(Len(s) + 1), NEW K \in SUBSET Run,
         NEW z \in Seq(SessionEvent), NEW m \in 1..(Len(z) + 1), NEW L \in SUBSET Run,
         NEW k \in Run,
         \A x \in K : LeadsTo(s, i, x, k.node) => x \in L /\ LeadsTo(z, m, x, k.node),
         Triggered(s, i, K, k)
  PROVE  Triggered(z, m, L, k)
<1> DEFINE t == k.node
           a == Cardinality(Feed(s, i, K, t))
           b == Cardinality(Feed(z, m, L, t))
           c(p) == Cardinality(FeedOf(s, i, K, t, p))
           d(p) == Cardinality(FeedOf(z, m, L, t, p))
<1>1. a \in Nat /\ b \in Nat /\ a =< b /\ \A p : c(p) \in Nat /\ d(p) \in Nat /\ c(p) =< d(p)
  BY FeedIs, FeedGrows
<1>2. k.run \in Nat /\ Seed(t) \in Nat /\ \A p : Share(t, p, k.run) \in Nat
  <2>1. k.run \in Nat
    BY DEF Run
  <2> QED BY <2>1, ShareIs
<1>3. CASE k.run =< Seed(t)
  BY <1>3 DEF Triggered
<1>4. CASE t \notin Join /\ k.run =< Seed(t) + a
  <2>1. k.run =< Seed(t) + b
    <3> HIDE DEF a, b, t
    <3> QED BY <1>1, <1>2, <1>4
  <2> QED BY <1>4, <2>1 DEF Triggered
<1>5. CASE t \in Join /\ Others(t) # {} /\ \A p \in Others(t) : Share(t, p, k.run) =< c(p)
  <2>1. \A p \in Others(t) : Share(t, p, k.run) =< d(p)
    <3> HIDE DEF c, d, t
    <3> QED BY <1>1, <1>2, <1>5
  <2> QED BY <1>5, <2>1 DEF Triggered
<1> QED BY <1>3, <1>4, <1>5 DEF Triggered

LEMMA WalkedBefore ==
  ASSUME NEW s \in Seq(SessionEvent), NEW i \in 1..(Len(s) + 1),
         NEW z \in Seq(SessionEvent), NEW m \in 1..(Len(z) + 1), i =< m,
         \A e \in 1..(i - 1) : z[e] = s[e],
         NEW K \in SUBSET Run, Walked(z, m, K)
  PROVE  Walked(s, i, K)
<1> SUFFICES ASSUME NEW k \in Run, Due(s, i, K, k) PROVE k \in K
  BY DEF Walked
<1>1. 1..(i - 1) \subseteq 1..(m - 1)
  OBVIOUS
<1>2. \A x : /\ OverBy(s, i, x) => OverBy(z, m, x)
             /\ \A t : LeadsTo(s, i, x, t) => LeadsTo(z, m, x, t)
  BY <1>1 DEF OverBy, LeadsTo
<1>3. Triggered(z, m, K, k)
  BY <1>2, TriggeredGrows DEF Due
<1>4. Due(z, m, K, k)
  BY <1>2, <1>3 DEF Due
<1> QED BY <1>4 DEF Walked

-----------------------------------------------------------------------------
(* What the turn's walk has come to.                                       *)

(* The runs it has started and those of them the loop has gone through,    *)
(* the triggers a node has been given, and how many runs have given them.  *)
Now == Len(session) + 1
Started == {k \in Run : k.run =< runs[k.node]}
Handled == {k \in Started : k.run < runs[k.node] \/ k.node \notin ToSet(pending)}
Given(t) == runs[t] + Len(triggers[t])
Feeds(t) == Cardinality(Feed(session, Now, Handled, t))
FeedsOf(t, p) == Cardinality(FeedOf(session, Now, Handled, t, p))

(* The events are of runs; of a silent one there are but errors, and only  *)
(* results have a route.                                                   *)
EventsKnown == \A i \in DOMAIN session :
  /\ session[i].key \in Run
  /\ Silent(session[i].key) => session[i].kind = "error"
  /\ session[i].kind # "result" => session[i].route = NoRoute
(* The events before an outcome make its run due, and those of the whole   *)
(* session every run the turn has started: each is in every set of runs    *)
(* that takes in what they make due.                                       *)
Justified == \A i \in DOMAIN session : session[i].kind \in {"result", "interrupt"} =>
  \A K \in SUBSET Run : Walked(session, i, K) => session[i].key \in K
Reached == \A K \in SUBSET Run : Walked(session, Now, K) => Started \subseteq K
(* A run that is gone through is over, or asks.                            *)
HandledOver == ~error => \A k \in Handled :
  OverBy(session, Now, k) \/ (k = KeyOf(k.node) /\ status[k.node] = "INTERRUPTED")
Asked == \A n \in Node : status[n] = "INTERRUPTED" =>
  runs[n] >= 1 /\ ~OverBy(session, Now, KeyOf(n))
(* A node has been given one trigger by START and by each run that leads   *)
(* to it, a join one for each set of runs of those that feed it.           *)
Counted == ~error => \A t \in Node \ Join : Given(t) = Seed(t) + Feeds(t)
JoinsCounted == ~error => \A j \in Join :
  /\ Others(j) = {} => Given(j) = Seed(j)
  /\ \A p \in Fed(j) : FeedsOf(j, p) = Given(j) + (IF p \in arrivals[j] THEN 1 ELSE 0)
  /\ \A p \in Others(j) \ Fed(j) : /\ p \in arrivals[j] <=> FeedsOf(j, p) > 0
                                   /\ Given(j) > 0 => p \in arrivals[j]
  /\ Others(j) # {} => \E p \in Others(j) : p \notin arrivals[j]
(* What has arrived at a join is completed.                                *)
Arrived == \A j \in Join : \A p \in arrivals[j] : p \in Others(j) /\ status[p] = "COMPLETED"
(* Who has a trigger is in the buffer.                                     *)
AllQueued == \A n \in Node : triggers[n] # <<>> => n \in ToSet(order)
(* While the loop waits, a trigger is left only to a node that cannot      *)
(* start, or to wait for a slot; and no error has stopped the loop.        *)
Exhausted == pc = "wait" => \A n \in Node :
  triggers[n] # <<>> => ~Startable(n) \/ ToSet(pending) \ replayed # {}
Clean == pc \in {"wait", "leave", "completed"} => ~error
(* What has been gone through has finished, and a task ends with what its  *)
(* run has left in the session, or leaves none.                            *)
Ended == /\ Handled \subseteq finished
         /\ \A n \in Node : task[n] = "done" => KeyOf(n) \in finished
Outcomes == \A n \in Node :
  /\ task[n] = "held" => n \in replayed
  /\ task[n] \in {"held", "done"} /\ n \in replayed =>
       Replays(KeyOf(n)) /\ outcome[n] = Recovered(KeyOf(n))
  /\ task[n] \in {"recorded", "done"} /\ n \notin replayed =>
       /\ outcome[n] \in Does[n][runs[n]]
       /\ IF outcome[n].kind = "result"
          THEN \E i \in DOMAIN session : /\ session[i].key = KeyOf(n) /\ session[i].kind = "result"
                                         /\ session[i].route = outcome[n].route
          ELSE \A i \in DOMAIN session : session[i].key = KeyOf(n) => session[i].kind # "result"
(* A place is that of an outcome, and every result before it has one.      *)
Placed == \A p \in sequence :
  /\ p.at \in DOMAIN session /\ session[p.at].key = p.key
  /\ session[p.at].kind \in {"result", "interrupt"}
  /\ \A i \in 1..(p.at - 1) : session[i].kind = "result" =>
       \E q \in sequence : q.at = i /\ q.key = session[i].key

WalkInv == /\ EventsKnown /\ Justified /\ Reached /\ HandledOver /\ Asked
           /\ Counted /\ JoinsCounted /\ Arrived
           /\ AllQueued /\ Exhausted /\ Clean /\ Ended /\ Outcomes /\ Placed

(* What START triggers: no join that waits for others.                     *)
LEMMA SeedIs ==
  ASSUME NEW j \in Node
  PROVE  /\ Seed(j) \in Nat /\ j \in Join /\ Others(j) # {} => Seed(j) = 0
         /\ Len(Seeds[j]) = Seed(j) /\ (Seeds[j] # <<>> => j \in ToSet(Seeded))
<1>1. Targets(From[Start]) \in Seq(Node)
  BY FromIs, TargetsAre
<1>2. j \in ToSet(Seeded) => (j \in Join => Predecessors(j) = {Start})
  <2> DEFINE s == Targets(From[Start])
             S == {t \in Node : t \in Join => Predecessors(t) = {Start}}
  <2>1. ToSet(Filter(s, S)) = ToSet(s) \cap S
    <3> HIDE DEF s, S
    <3> QED BY <1>1, FilterElements DEF s
  <2> QED BY <2>1 DEF Seeded
<1>3. Seeds[j] = IF j \in ToSet(Seeded) THEN <<{StartKey}>> ELSE <<>>
  BY DEF Seeds
<1>4. Len(Seeds[j]) = Seed(j) /\ (Seeds[j] # <<>> => j \in ToSet(Seeded))
  BY <1>3 DEF Seed
<1> QED BY <1>2, <1>4 DEF Seed, Others

(* A turn begins with nothing started, or has ended.                       *)
LEMMA FreshWalkInv ==
  FreshTurn /\ EventsKnown /\ Justified /\ Placed /\ pc \in {"handle"} \cup (Over \ {"completed"})
  => WalkInv
<1> SUFFICES ASSUME FreshTurn, EventsKnown, Justified, Placed,
                    pc \in {"handle"} \cup (Over \ {"completed"})
             PROVE  WalkInv
  OBVIOUS
<1> USE DEF FreshTurn, Each
<1>1. Started = {} /\ Handled = {} /\ \A n \in Node : runs[n] = 0
  <2>1. \A n \in Node : runs[n] = 0
    OBVIOUS
  <2>2. \A k \in Run : k.node \in Node /\ ~(k.run =< 0)
    BY DEF Run
  <2> QED BY <2>1, <2>2 DEF Started, Handled
<1>2. \A t, p : Feeds(t) = 0 /\ FeedsOf(t, p) = 0
  <2>1. \A t, p : Feed(session, Now, {}, t) = {} /\ FeedOf(session, Now, {}, t, p) = {}
    BY DEF Feed, FeedOf
  <2> QED BY <1>1, <2>1, FS_EmptySet DEF Feeds, FeedsOf
<1>3. \A t \in Node : Given(t) = Seed(t) /\ Seed(t) \in Nat
  <2> SUFFICES ASSUME NEW t \in Node PROVE Given(t) = Seed(t) /\ Seed(t) \in Nat
    OBVIOUS
  <2>1. Len(triggers[t]) = Seed(t) /\ Seed(t) \in Nat /\ runs[t] = 0
    BY SeedIs, <1>1
  <2> QED BY <2>1 DEF Given
<1>4. Reached /\ HandledOver /\ Ended /\ Outcomes /\ Asked /\ Clean /\ Exhausted
  BY <1>1 DEF Reached, HandledOver, Ended, Outcomes, Asked, Clean, Exhausted, Over
<1>5. Counted
  BY <1>2, <1>3 DEF Counted
<1>6. JoinsCounted /\ Arrived
  <2> SUFFICES ASSUME NEW j \in Join
               PROVE  /\ Others(j) = {} => Given(j) = Seed(j)
                      /\ \A p \in Fed(j) : FeedsOf(j, p) = Given(j) + 0
                      /\ \A p \in Others(j) \ Fed(j) : ~(FeedsOf(j, p) > 0) /\ ~(Given(j) > 0)
    <3>1. \A i \in Join : arrivals[i] = {}
      OBVIOUS
    <3> QED BY <3>1 DEF JoinsCounted, Arrived
  <2>1. j \in Node /\ Fed(j) \subseteq Others(j)
    <3>1. j \in Node /\ Start \notin Node
      BY GraphAssumption
    <3> QED BY <3>1, FedAre DEF Others
  <2>2. Given(j) = Seed(j) /\ Seed(j) \in Nat /\ (Others(j) # {} => Seed(j) = 0)
    BY <1>3, <2>1, SeedIs
  <2>3. \A p : FeedsOf(j, p) = 0
    BY <1>2
  <2> QED BY <2>1, <2>2, <2>3
<1>7. AllQueued
  BY SeedIs DEF AllQueued
<1> QED BY <1>4, <1>5, <1>6, <1>7 DEF WalkInv

LEMMA FreshWalkStep ==
  ASSUME FreshTurn', EventsKnown', Justified', Placed',
         pc' \in {"handle"} \cup (Over \ {"completed"})
  PROVE  WalkInv'
<1>1. (pc \in {"handle"} \cup (Over \ {"completed"}))'
  BY DEF Over
<1> QED BY <1>1, FreshWalkInv, PTL

LEMMA InitWalkInv == Init => WalkInv
<1> SUFFICES ASSUME Init PROVE WalkInv
  OBVIOUS
<1>1. FreshTurn
  BY DEF Init, FreshTurn
<1>2. EventsKnown /\ Justified /\ Placed
  BY DEF Init, EventsKnown, Justified, Placed
<1>3. pc = "handle"
  BY DEF Init
<1> QED BY <1>1, <1>2, <1>3, FreshWalkInv

LEMMA ReturnKeepsWalk ==
  ASSUME WalkInv, NEW how \in Over \ {"completed"}, Return(how) PROVE WalkInv'
<1>1. FreshTurn' /\ pc' = how /\ session' = session /\ sequence' = {}
  BY DEF Return, Fresh, FreshTurn
<1>2. EventsKnown' /\ Justified' /\ Placed'
  BY <1>1 DEF WalkInv, EventsKnown, Justified, Placed
<1> QED BY <1>1, <1>2, FreshWalkStep

(* The loop goes on, but its tasks and its buffer stay as they are.        *)
LEMMA MovesKeepWalk ==
  ASSUME WalkInv, UNCHANGED <<session, sequence, order, triggers, arrivals, runs, status, pending,
                              replayed, task, outcome, finished>>,
         error => error',
         pc' = "wait" => pc = "wait",
         pc' \in {"wait", "leave", "completed"} =>
           pc \in {"wait", "leave", "completed"} /\ error' = error
  PROVE  WalkInv'
<1>1. Now' = Now /\ Started' = Started /\ Handled' = Handled /\ \A n : KeyOf(n)' = KeyOf(n)
  BY DEF Now, Started, Handled, KeyOf
<1>2. EventsKnown' /\ Justified' /\ Reached' /\ HandledOver' /\ Asked'
  BY <1>1 DEF WalkInv, EventsKnown, Justified, Reached, HandledOver, Asked
<1>3. \A t, p : Given(t)' = Given(t) /\ Feeds(t)' = Feeds(t) /\ FeedsOf(t, p)' = FeedsOf(t, p)
  BY <1>1 DEF Given, Feeds, FeedsOf
<1>4. Counted' /\ JoinsCounted' /\ Arrived'
  BY <1>3 DEF WalkInv, Counted, JoinsCounted, Arrived
<1>5. AllQueued' /\ Exhausted' /\ Clean' /\ Ended' /\ Placed'
  BY <1>1 DEF WalkInv, AllQueued, Exhausted, Clean, Ended, Placed, Startable
<1>6. Outcomes'
  BY <1>1
     DEF WalkInv, Outcomes, Replays, Settled, Recovered, RouteOf, LastEvent, EventsOf
<1> QED BY <1>2, <1>4, <1>5, <1>6 DEF WalkInv

(* A task ends, or raises: its run has finished.                           *)
LEMMA TaskEndKeepsWalk ==
  ASSUME IInv, WalkInv, NEW n \in Node, NEW to \in {"done", "raised"},
         task[n] \in {"held", "recorded"}, task' = [task EXCEPT ![n] = to],
         finished' = IF to = "done" THEN finished \cup {KeyOf(n)} ELSE finished,
         UNCHANGED <<session, turn, limit, sequence, loopVars, outcome, error, aborted, pc>>
  PROVE  WalkInv'
<1>0. UNCHANGED <<session, sequence, order, triggers, arrivals, runs, status, pending, replayed,
                  outcome, error, pc>>
  BY DEF loopVars
<1>1. Now' = Now /\ Started' = Started /\ Handled' = Handled /\ \A m : KeyOf(m)' = KeyOf(m)
  BY <1>0 DEF Now, Started, Handled, KeyOf
<1>2. EventsKnown' /\ Justified' /\ Reached' /\ HandledOver' /\ Asked'
  BY <1>0, <1>1 DEF WalkInv, EventsKnown, Justified, Reached, HandledOver, Asked
<1>3. \A t, p : Given(t)' = Given(t) /\ Feeds(t)' = Feeds(t) /\ FeedsOf(t, p)' = FeedsOf(t, p)
  BY <1>0, <1>1 DEF Given, Feeds, FeedsOf
<1>4. Counted' /\ JoinsCounted' /\ Arrived'
  BY <1>0, <1>3 DEF WalkInv, Counted, JoinsCounted, Arrived
<1>5. AllQueued' /\ Exhausted' /\ Clean' /\ Placed'
  BY <1>0, <1>1 DEF WalkInv, AllQueued, Exhausted, Clean, Placed, Startable
<1>6. task'[n] = to /\ \A m \in Node \ {n} : task'[m] = task[m]
  BY DEF IInv, TypeOK
<1>7. Ended'
  BY <1>0, <1>1, <1>6 DEF WalkInv, Ended
<1>8. Outcomes'
  <2>1. \A k : Replays(k)' = Replays(k) /\ Recovered(k)' = Recovered(k)
    BY <1>0 DEF Replays, Settled, Recovered, RouteOf, LastEvent, EventsOf
  <2>2. task[n] = "recorded" => n \notin replayed
    BY DEF IInv, ReplayedTasks
  <2>3. task[n] = "held" => n \in replayed
    BY DEF WalkInv, Outcomes
  <2> QED BY <1>0, <1>1, <1>6, <2>1, <2>2, <2>3 DEF WalkInv, Outcomes
<1> QED BY <1>2, <1>4, <1>5, <1>7, <1>8 DEF WalkInv

-----------------------------------------------------------------------------
(* The session goes on: events of the run r are added to it.               *)

Grows(r) ==
  /\ session \in Seq(SessionEvent) /\ session' \in Seq(SessionEvent)
  /\ DOMAIN session \subseteq DOMAIN session'
  /\ \A i \in DOMAIN session : session'[i] = session[i]
  /\ \A i \in DOMAIN session' \ DOMAIN session : session'[i].key = r

LEMMA GrowsIs ==
  ASSUME NEW r, Grows(r)
  PROVE  /\ Len(session) \in Nat /\ Len(session') \in Nat /\ Len(session) =< Len(session')
         /\ DOMAIN session = 1..Len(session) /\ DOMAIN session' = 1..Len(session')
         /\ Now \in 1..(Len(session) + 1) /\ Now' \in 1..(Len(session') + 1) /\ Now =< Now'
         /\ 1..(Now - 1) = DOMAIN session /\ 1..(Now' - 1) = DOMAIN session'
<1>1. /\ Len(session) \in Nat /\ Len(session') \in Nat
      /\ DOMAIN session = 1..Len(session) /\ DOMAIN session' = 1..Len(session')
  BY DEF Grows
<1>2. Len(session) =< Len(session')
  <2>1. Len(session) = 0 \/ Len(session) \in 1..Len(session')
    BY <1>1 DEF Grows
  <2> QED BY <1>1, <2>1
<1> QED BY <1>1, <1>2 DEF Now

(* What was over is over, and the other runs stand where they stood.       *)
LEMMA GrowsKeeps ==
  ASSUME NEW r, Grows(r)
  PROVE  /\ \A k, t : /\ OverBy(session, Now, k) => OverBy(session', Now', k)
                      /\ LeadsTo(session, Now, k, t) => LeadsTo(session', Now', k, t)
         /\ \A k, t : k # r => /\ OverBy(session', Now', k) <=> OverBy(session, Now, k)
                               /\ LeadsTo(session', Now', k, t) <=> LeadsTo(session, Now, k, t)
<1>1. 1..(Now - 1) = DOMAIN session /\ 1..(Now' - 1) = DOMAIN session'
  BY GrowsIs
<1>2. \A i \in DOMAIN session : i \in DOMAIN session' /\ session'[i] = session[i]
  BY DEF Grows
<1>3. \A i \in DOMAIN session' : session'[i].key # r => i \in DOMAIN session
  BY DEF Grows
<1>4. ASSUME NEW k
      PROVE  /\ OverBy(session, Now, k) => OverBy(session', Now', k)
             /\ k # r => (OverBy(session', Now', k) => OverBy(session, Now, k))
  BY <1>1, <1>2, <1>3 DEF OverBy
<1>5. ASSUME NEW k, NEW t
      PROVE  /\ LeadsTo(session, Now, k, t) => LeadsTo(session', Now', k, t)
             /\ k # r => (LeadsTo(session', Now', k, t) => LeadsTo(session, Now, k, t))
  <2> DEFINE s(o) == o.kind = "nothing" /\ k.node \notin WaitsForOutput
                     /\ t \in ToSet(NextNodes[k.node][o.route])
             Led(z, m) == \E e \in 1..(m - 1) : /\ z[e].key = k /\ z[e].kind = "result"
                                                /\ t \in ToSet(NextNodes[k.node][z[e].route])
  <2>1. Led(session, Now) => Led(session', Now')
    BY <1>1, <1>2
  <2>2. k # r => (Led(session', Now') => Led(session, Now))
    BY <1>1, <1>2, <1>3
  <2> QED BY <2>1, <2>2 DEF LeadsTo
<1> QED BY <1>4, <1>5

(* And are replayed as they were.                                          *)
LEMMA GrowsKeepsRuns ==
  ASSUME NEW r, Grows(r), NEW m \in Node, KeyOf(m)' = KeyOf(m), KeyOf(m) # r
  PROVE  /\ LastEvent(KeyOf(m))' = LastEvent(KeyOf(m))
         /\ Replays(KeyOf(m))' = Replays(KeyOf(m)) /\ Recovered(KeyOf(m))' = Recovered(KeyOf(m))
<1>1. /\ DOMAIN session = 1..Len(session) /\ Len(session) \in Nat
      /\ \A i \in DOMAIN session : i \in DOMAIN session' /\ session'[i] = session[i]
      /\ \A i \in DOMAIN session' : session'[i].key # r => i \in DOMAIN session
  BY GrowsIs DEF Grows
<1>2. EventsOf(KeyOf(m))' = EventsOf(KeyOf(m)) /\ EventsOf(KeyOf(m)) \subseteq DOMAIN session
  BY <1>1 DEF EventsOf
<1>3. EventsOf(KeyOf(m)) # {} =>
        session'[Latest(EventsOf(KeyOf(m)))] = session[Latest(EventsOf(KeyOf(m)))]
  BY <1>1, <1>2, LatestIs
<1>4. LastEvent(KeyOf(m))' = LastEvent(KeyOf(m))
  BY <1>2, <1>3 DEF LastEvent
<1> DEFINE routed == {i \in EventsOf(KeyOf(m)) : session[i].route # NoRoute}
           routed1 == {i \in EventsOf(KeyOf(m))' : session'[i].route # NoRoute}
<1>5. routed1 = routed /\ routed \subseteq DOMAIN session
  BY <1>1, <1>2
<1>6. routed # {} => session'[Latest(routed)] = session[Latest(routed)]
  <2> HIDE DEF routed
  <2> QED BY <1>1, <1>5, LatestIs
<1>7. Recovered(KeyOf(m)) =
        [kind |-> IF LastEvent(KeyOf(m)) = "answer" THEN "result" ELSE LastEvent(KeyOf(m)),
         route |-> IF routed = {} THEN NoRoute ELSE session[Latest(routed)].route]
  BY DEF Recovered, RouteOf
<1>8. Recovered(KeyOf(m))' =
        [kind |-> IF LastEvent(KeyOf(m))' = "answer" THEN "result" ELSE LastEvent(KeyOf(m))',
         route |-> IF routed1 = {} THEN NoRoute ELSE session'[Latest(routed1)].route]
  BY DEF Recovered, RouteOf
<1>9. Recovered(KeyOf(m))' = Recovered(KeyOf(m))
  <2> HIDE DEF routed, routed1
  <2> QED BY <1>4, <1>5, <1>6, <1>7, <1>8
<1>10. RouteOf(KeyOf(m))' = RouteOf(KeyOf(m))
  BY <1>9 DEF Recovered
<1> QED BY <1>4, <1>9, <1>10 DEF Replays, Settled

(* A run that has been started may leave events.                           *)
LEMMA GrowsKeepsWalk ==
  ASSUME WalkInv, NEW r \in Started, Grows(r),
         \A i \in DOMAIN session' \ DOMAIN session :
           /\ i = Now /\ (Silent(r) => session'[i].kind = "error")
           /\ session'[i].kind # "result" => session'[i].route = NoRoute
  PROVE  /\ EventsKnown' /\ Justified' /\ (sequence' = sequence => Placed')
         /\ \A K \in SUBSET Run : Walked(session', Now', K) => Started \subseteq K
<1>1. \A i \in DOMAIN session : i \in DOMAIN session' /\ session'[i] = session[i]
  BY DEF Grows
<1>2. r \in Run
  BY DEF Started
<1>3. EventsKnown'
  BY <1>1, <1>2 DEF Grows, WalkInv, EventsKnown
<1>4. ASSUME NEW K \in SUBSET Run, NEW m \in 1..(Len(session') + 1), Now =< m,
             Walked(session', m, K)
      PROVE  Started \subseteq K
  <2>1. \A e \in 1..(Now - 1) : session'[e] = session[e]
    BY <1>1, GrowsIs
  <2>2. Walked(session, Now, K)
    <3>1. session \in Seq(SessionEvent) /\ session' \in Seq(SessionEvent)
      BY DEF Grows
    <3> QED BY <1>4, <2>1, <3>1, WalkedBefore, GrowsIs
  <2> QED BY <2>2 DEF WalkInv, Reached
<1>5. Justified'
  <2> SUFFICES ASSUME NEW i \in DOMAIN session', session'[i].kind \in {"result", "interrupt"},
                      NEW K \in SUBSET Run, Walked(session', i, K)
               PROVE  session'[i].key \in K
    BY DEF Justified
  <2>1. CASE i \in DOMAIN session
    <3>1. Walked(session, i, K)
      <4>1. session \in Seq(SessionEvent) /\ session' \in Seq(SessionEvent)
        BY DEF Grows
      <4>2. i \in 1..(Len(session) + 1) /\ i \in 1..(Len(session') + 1)
            /\ \A e \in 1..(i - 1) : e \in DOMAIN session
        BY <2>1, GrowsIs
      <4> QED BY <1>1, <4>1, <4>2, WalkedBefore
    <3> QED BY <1>1, <2>1, <3>1 DEF WalkInv, Justified
  <2>2. CASE i \notin DOMAIN session
    <3>1. i = Now /\ session'[i].key = r /\ i \in 1..(Len(session') + 1) /\ Now =< i
      BY <2>2, GrowsIs DEF Grows
    <3> QED BY <1>4, <3>1
  <2> QED BY <2>1, <2>2
<1>6. ASSUME sequence' = sequence PROVE Placed'
  <2> SUFFICES ASSUME NEW p \in sequence
               PROVE  /\ p.at \in DOMAIN session' /\ session'[p.at].key = p.key
                      /\ session'[p.at].kind \in {"result", "interrupt"}
                      /\ \A i \in 1..(p.at - 1) : session'[i].kind = "result" =>
                           \E q \in sequence : q.at = i /\ q.key = session'[i].key
    BY <1>6 DEF Placed
  <2>1. p.at \in DOMAIN session
    BY DEF WalkInv, Placed
  <2>2. \A i \in 1..(p.at - 1) : i \in DOMAIN session
    BY <2>1, GrowsIs
  <2> QED BY <1>1, <2>1, <2>2 DEF WalkInv, Placed
<1>7. Now' \in 1..(Len(session') + 1) /\ Now =< Now'
  BY GrowsIs
<1> QED BY <1>3, <1>4, <1>5, <1>6, <1>7

(* A run that executes is one the turn has started.                        *)
LEMMA ExecuteKeepsWalk ==
  ASSUME Steady, IInv, WalkInv, NEW n \in Node, Execute(n) PROVE WalkInv'
<1>1. PICK result \in Does[n][runs[n]] :
        /\ outcome' = [outcome EXCEPT ![n] = result]
        /\ Record(KeyOf(n), result, input[n])
  BY DEF Execute
<1>2. /\ task[n] = "live" /\ task' = [task EXCEPT ![n] = "recorded"]
      /\ UNCHANGED <<sequence, order, triggers, arrivals, runs, status, pending, replayed,
                     finished, error, pc>>
  BY DEF Execute, loopVars
<1> DEFINE r == KeyOf(n)
<1>3. /\ r \in Started /\ r \notin Handled /\ r \in Run /\ runs[n] \in 1..MaxRuns
      /\ n \notin replayed /\ n \in ToSet(pending) /\ status[n] = "RUNNING"
      /\ result \in Outcome /\ r \in Key
  <2>1. runs[n] \in 1..MaxRuns /\ n \in ToSet(pending) /\ status[n] = "RUNNING"
    BY <1>2 DEF IInv, TypeOK, InFlight
  <2>2. r \in Run /\ r.node = n /\ r.run = runs[n] /\ runs[n] =< runs[n] /\ ~(runs[n] < runs[n])
    BY <2>1 DEF Run, KeyOf
  <2>3. n \notin replayed
    BY <1>2 DEF IInv, ReplayedTasks
  <2> QED BY <2>1, <2>2, <2>3, KeysAre, BoundsAssumption DEF Started, Handled
<1> DEFINE e == [kind |-> result.kind, key |-> r, route |-> result.route, input |-> input[n]]
<1>4. session \in Seq(SessionEvent) /\ e \in SessionEvent /\ Now = Len(session) + 1
  BY <1>3 DEF IInv, TypeOK, SessionEvent, Outcome, Now
<1> HIDE DEF e
<1>6. /\ Grows(r)
      /\ \A i \in DOMAIN session' \ DOMAIN session : i = Now /\ session'[i] = e
      /\ result.kind # "nothing" => Now \in DOMAIN session' /\ session'[Now] = e
      /\ result.kind = "nothing" => session' = session
  <2>1. CASE result.kind = "nothing"
    <3>1. session' = session
      BY <1>1, <2>1 DEF Record
    <3> QED BY <1>4, <2>1, <3>1 DEF Grows
  <2>2. CASE result.kind # "nothing"
    <3>1. session' = Append(session, e)
      BY <1>1, <2>2 DEF Record, e
    <3>2. e.key = r
      BY DEF e
    <3>3. /\ session' \in Seq(SessionEvent) /\ DOMAIN session = 1..Len(session)
          /\ Len(session) \in Nat /\ DOMAIN session' = 1..(Len(session) + 1)
          /\ \A i \in DOMAIN session : session'[i] = session[i]
          /\ session'[Len(session) + 1] = e
      BY <1>4, <3>1
    <3>4. \A i \in DOMAIN session' \ DOMAIN session : i = Len(session) + 1
      BY <3>3
    <3>5. DOMAIN session \subseteq DOMAIN session' /\ Len(session) + 1 \in DOMAIN session'
      BY <3>3
    <3> QED BY <1>4, <2>2, <3>2, <3>3, <3>4, <3>5 DEF Grows
  <2> QED BY <2>1, <2>2
<1>7. \A i \in DOMAIN session' \ DOMAIN session :
        /\ i = Now /\ (Silent(r) => session'[i].kind = "error")
        /\ session'[i].kind # "result" => session'[i].route = NoRoute
  <2> SUFFICES ASSUME NEW i \in DOMAIN session' \ DOMAIN session
               PROVE  /\ Silent(r) => e.kind = "error"
                      /\ e.kind # "result" => e.route = NoRoute
    BY <1>6
  <2>1. result.kind # "nothing"
    BY <1>6
  <2>2. e.kind = result.kind /\ e.route = result.route /\ r.node = n /\ r.run = runs[n]
    BY DEF e, KeyOf
  <2>3. Silent(r) => result.kind = "error"
    BY <1>3, <2>1, <2>2 DEF Silent, Steady
  <2>4. result.kind \in {"error", "interrupt"} => result.route = NoRoute
    BY <1>3 DEF Steady
  <2>5. result.kind \in Kinds
    BY <1>3 DEF Outcome
  <2> QED BY <2>1, <2>2, <2>3, <2>4, <2>5 DEF Kinds
<1> HIDE DEF r
<1>8. /\ EventsKnown' /\ Justified' /\ Placed'
      /\ \A K \in SUBSET Run : Walked(session', Now', K) => Started \subseteq K
  BY <1>2, <1>3, <1>6, <1>7, GrowsKeepsWalk
<1>9. Started' = Started /\ Handled' = Handled /\ \A m : KeyOf(m)' = KeyOf(m)
  BY <1>2 DEF Started, Handled, KeyOf
<1>10. Reached'
  BY <1>8, <1>9 DEF Reached
<1>11. \A m \in Node \ {n} : KeyOf(m) # r
  BY KeysAre DEF r
<1>12. HandledOver' /\ Asked'
  <2>1. HandledOver'
    BY <1>2, <1>6, <1>9, GrowsKeeps DEF WalkInv, HandledOver
  <2>2. ASSUME NEW m \in Node, status[m] = "INTERRUPTED"
        PROVE  runs[m] >= 1 /\ ~OverBy(session', Now', KeyOf(m))
    <3>1. KeyOf(m) # r
      BY <1>3, <1>11, <2>2
    <3> QED BY <1>6, <2>2, <3>1, GrowsKeeps DEF WalkInv, Asked
  <2>3. Asked'
    BY <1>2, <1>9, <2>2 DEF Asked
  <2> QED BY <2>1, <2>3
<1>13. \A t, p : Given(t)' = Given(t) /\ Feeds(t)' = Feeds(t) /\ FeedsOf(t, p)' = FeedsOf(t, p)
  <2>1. \A k \in Handled : \A t : LeadsTo(session', Now', k, t) <=> LeadsTo(session, Now, k, t)
    BY <1>3, <1>6, GrowsKeeps
  <2>2. \A t, p : /\ Feed(session', Now', Handled, t) = Feed(session, Now, Handled, t)
                  /\ FeedOf(session', Now', Handled, t, p) = FeedOf(session, Now, Handled, t, p)
    BY <2>1 DEF Feed, FeedOf
  <2> QED BY <1>2, <1>9, <2>2 DEF Given, Feeds, FeedsOf
<1>14. Counted' /\ JoinsCounted' /\ Arrived'
  BY <1>2, <1>13 DEF WalkInv, Counted, JoinsCounted, Arrived
<1>15. AllQueued' /\ Exhausted' /\ Clean'
  BY <1>2 DEF WalkInv, AllQueued, Exhausted, Clean, Startable
<1>16. task'[n] = "recorded" /\ \A m \in Node \ {n} : task'[m] = task[m]
  BY <1>2 DEF IInv, TypeOK
<1>17. Ended'
  BY <1>2, <1>9, <1>16 DEF WalkInv, Ended
<1>18. Outcomes'
  <2>1. \A m \in Node :
          /\ task'[m] = "held" => m \in replayed
          /\ task'[m] \in {"held", "done"} /\ m \in replayed =>
               Replays(KeyOf(m))' /\ outcome'[m] = Recovered(KeyOf(m))'
          /\ task'[m] \in {"recorded", "done"} /\ m \notin replayed =>
               /\ outcome'[m] \in Does[m][runs[m]]
               /\ IF outcome'[m].kind = "result"
                  THEN \E i \in DOMAIN session' :
                         /\ session'[i].key = KeyOf(m) /\ session'[i].kind = "result"
                         /\ session'[i].route = outcome'[m].route
                  ELSE \A i \in DOMAIN session' :
                         session'[i].key = KeyOf(m) => session'[i].kind # "result"
    <3> SUFFICES ASSUME NEW m \in Node
        PROVE
          /\ task'[m] = "held" => m \in replayed
          /\ task'[m] \in {"held", "done"} /\ m \in replayed =>
               Replays(KeyOf(m))' /\ outcome'[m] = Recovered(KeyOf(m))'
          /\ task'[m] \in {"recorded", "done"} /\ m \notin replayed =>
               /\ outcome'[m] \in Does[m][runs[m]]
               /\ IF outcome'[m].kind = "result"
                  THEN \E i \in DOMAIN session' :
                         /\ session'[i].key = KeyOf(m) /\ session'[i].kind = "result"
                         /\ session'[i].route = outcome'[m].route
                  ELSE \A i \in DOMAIN session' :
                         session'[i].key = KeyOf(m) => session'[i].kind # "result"
      OBVIOUS
    <3>1. CASE m = n
      <4>1. outcome'[n] = result
        BY <1>1 DEF IInv, TypeOK
      <4>2. CASE result.kind = "result"
        <5>1. Now \in DOMAIN session' /\ session'[Now] = e
          BY <1>6, <4>2
        <5>2. e.key = KeyOf(n) /\ e.kind = "result" /\ e.route = result.route
          BY <4>2 DEF e, r
        <5> QED BY <1>3, <1>16, <3>1, <4>1, <4>2, <5>1, <5>2
      <4>3. CASE result.kind # "result"
        <5>1. \A i \in DOMAIN session : session[i].key = KeyOf(n) => session[i].kind # "result"
          BY <1>2 DEF IInv, LiveIsNew
        <5>2. \A i \in DOMAIN session' \ DOMAIN session : session'[i].kind # "result"
          BY <1>6, <4>3 DEF e
        <5>3. \A i \in DOMAIN session' : session'[i].key = KeyOf(n) => session'[i].kind # "result"
          BY <1>6, <5>1, <5>2 DEF Grows
        <5> QED BY <1>3, <1>16, <3>1, <4>1, <4>3, <5>3
      <4> QED BY <4>2, <4>3
    <3>2. CASE m # n
      <4>1. outcome'[m] = outcome[m] /\ task'[m] = task[m] /\ KeyOf(m) # r
        BY <1>1, <1>11, <1>16, <3>2 DEF IInv, TypeOK
      <4>2. Replays(KeyOf(m))' = Replays(KeyOf(m)) /\ Recovered(KeyOf(m))' = Recovered(KeyOf(m))
        BY <1>2, <1>6, <1>9, <4>1, GrowsKeepsRuns
      <4>3. \A i \in DOMAIN session' : session'[i].key = KeyOf(m)
              => i \in DOMAIN session /\ session'[i] = session[i]
        BY <1>6, <4>1 DEF Grows
      <4>4. \A i \in DOMAIN session : i \in DOMAIN session' /\ session'[i] = session[i]
        BY <1>6 DEF Grows
      <4> QED BY <4>1, <4>2, <4>3, <4>4 DEF WalkInv, Outcomes
    <3> QED BY <3>1, <3>2
  <2> QED BY <1>2, <1>9, <2>1 DEF Outcomes
<1> QED BY <1>8, <1>10, <1>12, <1>14, <1>15, <1>17, <1>18 DEF WalkInv

(* Answers are no outcomes, so the walk they are read for stays the same.  *)
LEMMA ResumeKeepsWalk == ASSUME IInv, WalkInv, Resume PROVE WalkInv'
<1>1. /\ session' \in Seq(SessionEvent) /\ session \in Seq(SessionEvent) /\ Len(session) \in Nat
      /\ DOMAIN session = 1..Len(session) /\ DOMAIN session \subseteq DOMAIN session'
      /\ DOMAIN session' = 1..Len(session') /\ Len(session') \in Nat
      /\ \A i \in DOMAIN session : session'[i] = session[i]
  BY AnswersAdded DEF IInv, TypeOK
<1>2. ASSUME NEW i \in DOMAIN session' \ DOMAIN session
      PROVE  /\ session'[i].kind = "answer"
             /\ \E q \in DOMAIN session : /\ session[q].kind = "interrupt"
                                          /\ session'[i].key = session[q].key
                                          /\ session'[i].route = session[q].route
  BY AnswersAdded DEF Open
<1>3. EventsKnown'
  BY <1>1, <1>2 DEF WalkInv, EventsKnown
<1>4. Justified'
  <2> SUFFICES ASSUME NEW i \in DOMAIN session', session'[i].kind \in {"result", "interrupt"},
                      NEW K \in SUBSET Run, Walked(session', i, K)
               PROVE  session'[i].key \in K
    BY DEF Justified
  <2>1. i \in DOMAIN session
    BY <1>2
  <2>2. /\ i \in 1..(Len(session) + 1) /\ i \in 1..(Len(session') + 1)
        /\ \A e \in 1..(i - 1) : e \in DOMAIN session
    BY <1>1, <2>1
  <2>3. Walked(session, i, K)
    BY <1>1, <2>2, WalkedBefore
  <2> QED BY <1>1, <2>1, <2>3 DEF WalkInv, Justified
<1>5. Placed'
  <2>1. ResultsLast' /\ sequence' = ScanSequence(session')
    BY ResumeStep DEF IInv, Resume
  <2>2. \A i \in DOMAIN session' : Places(session', i) =>
          [key |-> session'[i].key, pending |-> session'[i].kind = "interrupt", at |-> i]
          \in sequence'
    BY <2>1 DEF ScanSequence
  <2> SUFFICES ASSUME NEW p \in sequence'
               PROVE  /\ p.at \in DOMAIN session' /\ session'[p.at].key = p.key
                      /\ session'[p.at].kind \in {"result", "interrupt"}
                      /\ \A i \in 1..(p.at - 1) : session'[i].kind = "result" =>
                           \E q \in sequence' : q.at = i /\ q.key = session'[i].key
    BY DEF Placed
  <2>3. PICK at \in DOMAIN session' :
          /\ Places(session', at)
          /\ p = [key |-> session'[at].key, pending |-> session'[at].kind = "interrupt", at |-> at]
    BY <2>1 DEF ScanSequence
  <2>4. ASSUME NEW i \in 1..(at - 1), session'[i].kind = "result"
        PROVE  \E q \in sequence' : q.at = i /\ q.key = session'[i].key
    <3>1. i \in DOMAIN session'
      BY <1>1
    <3>2. \A j \in DOMAIN session' : session'[j].key = session'[i].key /\ j < i
            => session'[j].kind # "result"
      BY <1>1, <2>1, <3>1 DEF ResultsLast
    <3>3. Places(session', i)
      BY <2>4, <3>1, <3>2 DEF Places
    <3> QED BY <2>2, <3>1, <3>3
  <2> QED BY <2>3, <2>4 DEF Places
<1>6. FreshTurn' /\ pc' = "handle"
  BY DEF Resume, Fresh, FreshTurn
<1> QED BY <1>3, <1>4, <1>5, <1>6, FreshWalkStep

(* A trigger in the buffer is one that the runs gone through have given.   *)
LEMMA QueuedIsTriggered ==
  ASSUME IInv, WalkInv, ~error, NEW k \in Run, k.run =< Given(k.node)
  PROVE  Triggered(session, Now, Handled, k)
<1> DEFINE n == k.node
           g == Given(n)
<1>1. /\ n \in Node /\ k.run \in Nat /\ k.run >= 1 /\ g \in Nat /\ k.run =< g
      /\ session \in Seq(SessionEvent) /\ Now \in 1..(Len(session) + 1)
  <2>1. n \in Node /\ k.run \in 1..MaxRuns
    BY DEF Run
  <2>2. runs[n] \in Nat /\ triggers[n] \in Seq(SUBSET Key) /\ session \in Seq(SessionEvent)
    BY <2>1 DEF IInv, TypeOK
  <2>3. Len(triggers[n]) \in Nat /\ Len(session) \in Nat
    BY <2>2
  <2> QED BY <2>1, <2>2, <2>3 DEF Given, Now
<1> HIDE DEF g
<1>2. CASE n \notin Join
  <2>1. g = Seed(n) + Feeds(n)
    BY <1>1, <1>2 DEF WalkInv, Counted, g
  <2> QED BY <1>1, <1>2, <2>1 DEF Triggered, Feeds
<1>3. CASE n \in Join /\ Others(n) = {}
  <2>1. g = Seed(n)
    BY <1>3 DEF WalkInv, JoinsCounted, g
  <2> QED BY <1>1, <2>1 DEF Triggered
<1>4. CASE n \in Join /\ Others(n) # {}
  <2>1. ASSUME NEW p \in Others(n)
        PROVE  Share(n, p, k.run) =< FeedsOf(n, p)
    <3>1. FeedsOf(n, p) \in Nat
      <4>1. Handled \in SUBSET Run
        BY DEF Handled, Started
      <4> QED BY <1>1, <4>1, FeedIs DEF FeedsOf
    <3>2. CASE p \in Fed(n)
      <4>1. FeedsOf(n, p) = g + (IF p \in arrivals[n] THEN 1 ELSE 0)
        BY <1>4, <3>2 DEF WalkInv, JoinsCounted, g
      <4>2. Share(n, p, k.run) = k.run
        BY <3>2 DEF Share
      <4> QED BY <1>1, <4>1, <4>2
    <3>3. CASE p \notin Fed(n)
      <4>1. g > 0 => p \in arrivals[n]
        BY <1>4, <2>1, <3>3 DEF WalkInv, JoinsCounted, g
      <4>2. p \in arrivals[n] => FeedsOf(n, p) > 0
        BY <1>4, <2>1, <3>3 DEF WalkInv, JoinsCounted
      <4>3. Share(n, p, k.run) = 1
        BY <3>3 DEF Share
      <4> QED BY <1>1, <3>1, <4>1, <4>2, <4>3
    <3> QED BY <3>2, <3>3
  <2> QED BY <1>4, <2>1 DEF Triggered, FeedsOf
<1> QED BY <1>2, <1>3, <1>4

(* A node with a trigger that is not started finds every slot taken, and   *)
(* some run executes.                                                      *)
LEMMA StartsAll ==
  ASSUME IInv, TaskAgent = {}, NEW n \in ToSet(order), Startable(n), n \notin ToStart
  PROVE  \/ ToSet(pending) \ replayed # {}
         \/ \E m \in ToStart : ~Replays(NextKey(m))
<1> SUFFICES ASSUME ToSet(pending) \ replayed = {}
             PROVE  \E m \in ToStart : ~Replays(NextKey(m))
  OBVIOUS
<1>1. PICK j \in DOMAIN order : order[j] = n
  BY DEF ToSet
<1>2. /\ order \in Seq(Node) /\ limit \in Nat
      /\ DOMAIN order = 1..Len(order) /\ Len(order) \in Nat /\ Active = 0
  <2>1. order \in Seq(Node) /\ limit \in Nat
    BY BoundsAssumption DEF IInv, TypeOK
  <2>2. Active = 0
    BY FS_EmptySet DEF Active
  <2> QED BY <2>1, <2>2
<1>3. Full(Active + Cardinality(Ahead(j)))
  BY <1>1 DEF ToStart, Ahead
<1>4. Ahead(j) # {} /\ limit # 0
  <2>1. limit # 0 /\ 0 + Cardinality(Ahead(j)) >= limit
    BY <1>2, <1>3 DEF Full
  <2>2. Ahead(j) = {} => Cardinality(Ahead(j)) = 0
    BY FS_EmptySet
  <2> QED BY <1>2, <2>1, <2>2
<1>5. Ahead(j) \subseteq 1..Len(order)
  BY <1>2 DEF Ahead
<1>6. PICK i \in Ahead(j) : \A l \in Ahead(j) : i =< l
  BY <1>2, <1>4, <1>5, LeastIs
<1>7. /\ i \in DOMAIN order /\ i \in 1..(j - 1) /\ Startable(order[i])
      /\ ~Replays(NextKey(order[i]))
  BY <1>2, <1>5, <1>6 DEF Ahead
<1>8. Ahead(i) = {}
  <2> SUFFICES ASSUME NEW l \in Ahead(i) PROVE FALSE
    OBVIOUS
  <2>1. l \in 1..(i - 1) /\ l \in Ahead(j)
    BY <1>2, <1>7 DEF Ahead
  <2> QED BY <1>2, <1>6, <1>7, <2>1
<1>9. ~Full(Active + Cardinality(Ahead(i)))
  <2>1. Cardinality(Ahead(i)) = 0
    BY <1>8, FS_EmptySet
  <2> QED BY <1>2, <1>4, <2>1 DEF Full
<1>10. order[i] \in ToStart
  BY <1>7, <1>9 DEF ToStart, Ahead
<1> QED BY <1>7, <1>10

(* A start takes the trigger it runs with.                                 *)
LEMMA StartsKeepGiven == ASSUME IInv, Schedule PROVE \A t \in Node : Given(t)' = Given(t)
<1> DEFINE E == ToStart
<1>1. Starts(E, {n \in E : Replays(NextKey(n))})
  BY ScheduleStarts
<1> HIDE DEF E
<1> SUFFICES ASSUME NEW t \in Node PROVE runs'[t] + Len(triggers'[t]) = runs[t] + Len(triggers[t])
  BY DEF Given
<1> DEFINE q == triggers[t]
<1>2. q \in Seq(SUBSET Key) /\ runs[t] \in Nat
  BY DEF IInv, TypeOK
<1>3. CASE t \in E
  <2>1. q # <<>> /\ triggers'[t] = Tail(q) /\ runs'[t] = runs[t] + 1
    BY <1>1, <1>3 DEF Starts
  <2> HIDE DEF q
  <2>2. Len(Tail(q)) + 1 = Len(q) /\ Len(q) \in Nat /\ Len(Tail(q)) \in Nat
    BY <1>2, <2>1
  <2>3. runs[t] + 1 + Len(Tail(q)) = runs[t] + Len(q)
    <3> DEFINE a == Len(Tail(q))
               b == Len(q)
               c == runs[t]
    <3>1. a + 1 = b /\ a \in Nat /\ c \in Nat
      BY <1>2, <2>2
    <3> HIDE DEF a, b, c
    <3>2. c + 1 + a = c + b
      BY <3>1
    <3> QED BY <3>2 DEF a, b, c
  <2> QED BY <2>1, <2>3 DEF q
<1>4. CASE t \notin E
  BY <1>1, <1>4 DEF Starts
<1> QED BY <1>3, <1>4

(* The runs that are started are those the events make due.                *)
LEMMA ScheduleKeepsWalk ==
  ASSUME IInv, WalkInv, JoinsKeepUp', TaskAgent = {}, Schedule PROVE WalkInv'
<1> DEFINE E == ToStart
           R == {n \in E : Replays(NextKey(n))}
           left == [n \in Node |-> IF n \in E THEN Tail(triggers[n]) ELSE triggers[n]]
<1>1. Starts(E, R)
  BY ScheduleStarts
<1>2. /\ triggers' = left
      /\ order' = Filter(order, {n \in Node : left[n] # <<>>})
      /\ outcome' = [n \in Node |-> IF n \in R THEN Recovered(NextKey(n)) ELSE outcome[n]]
      /\ pc' \in {"leave", "wait"} /\ ~error
  BY DEF Schedule
<1>3. \A n \in E : n \in Node /\ n \in ToSet(order) /\ Startable(n) /\ n \notin replayed
  BY ToStartAre
<1>4. ASSUME NEW n \in Node, Startable(n), triggers[n] # <<>>, n \notin E
      PROVE  ToSet(pending') \ replayed' # {}
  <2>1. n \in ToSet(order)
    BY <1>4 DEF WalkInv, AllQueued
  <2>2. \/ ToSet(pending) \ replayed # {}
        \/ \E m \in ToStart : ~Replays(NextKey(m))
    BY <1>4, <2>1, StartsAll
  <2>3. CASE ToSet(pending) \ replayed # {}
    <3>1. PICK m \in ToSet(pending) : m \notin replayed
      BY <2>3
    <3>2. m \in ToSet(pending') /\ m \notin R
      BY <1>1, <3>1 DEF Starts
    <3> QED BY <1>1, <3>1, <3>2 DEF Starts
  <2>4. CASE \E m \in ToStart : ~Replays(NextKey(m))
    <3>1. PICK m \in E : m \notin R
      BY <2>4
    <3> QED BY <1>1, <1>3, <3>1 DEF Starts
  <2> QED BY <2>2, <2>3, <2>4
<1> HIDE DEF E
<1>5. /\ E \subseteq Node /\ R \subseteq E /\ Now' = Now
      /\ session' = session /\ sequence' = sequence /\ arrivals' = arrivals /\ error' = error
      /\ ToSet(pending') = ToSet(pending) \cup E /\ replayed' = replayed \cup R
      /\ finished \subseteq finished'
      /\ \A n \in Node : runs[n] \in Nat /\ triggers[n] \in Seq(SUBSET Key)
  BY <1>1 DEF Starts, IInv, TypeOK, Now
<1>6. \A n \in E : /\ runs'[n] = runs[n] + 1 /\ runs[n] < MaxRuns /\ status'[n] = "RUNNING"
                   /\ task'[n] = IF n \in R THEN "held" ELSE "live"
                   /\ KeyOf(n)' = NextKey(n) /\ n \notin ToSet(pending)
                   /\ triggers[n] # <<>> /\ triggers'[n] = Tail(triggers[n])
  BY <1>1 DEF Starts, KeyOf, NextKey
<1>7. \A n \in Node \ E : /\ runs'[n] = runs[n] /\ status'[n] = status[n] /\ task'[n] = task[n]
                          /\ KeyOf(n)' = KeyOf(n) /\ triggers'[n] = triggers[n]
  BY <1>1 DEF Starts, KeyOf
<1> HIDE DEF R, left
<1>8. \A n \in E : NextKey(n) \in Run /\ NextKey(n).node = n /\ NextKey(n).run = runs[n] + 1
  <2>1. \A n \in E : runs[n] + 1 \in 1..MaxRuns
    BY <1>5, <1>6, BoundsAssumption
  <2> QED BY <1>5, <2>1 DEF NextKey, Run
<1>9. /\ Started \subseteq Started'
      /\ \A k \in Started' : k \in Started \/ (k.node \in E /\ k = NextKey(k.node))
  <2>1. \A k \in Run : k.node \in Node /\ k.run \in Nat /\ k = [node |-> k.node, run |-> k.run]
    BY DEF Run
  <2>2. ASSUME NEW k \in Run, k.run =< runs[k.node] PROVE k.run =< runs'[k.node]
    BY <1>5, <1>6, <1>7, <2>1, <2>2
  <2>3. ASSUME NEW k \in Run, k.run =< runs'[k.node], ~(k.run =< runs[k.node])
        PROVE  k.node \in E /\ k = NextKey(k.node)
    <3>1. k.node \in E
      BY <1>7, <2>1, <2>3
    <3>2. k.run = runs[k.node] + 1
      BY <1>5, <1>6, <2>1, <2>3, <3>1
    <3> QED BY <2>1, <3>1, <3>2 DEF NextKey
  <2> QED BY <2>2, <2>3 DEF Started
<1>10. Handled' = Handled
  <2>1. \A k \in Run : k.node \in Node /\ k.run \in Nat
    BY DEF Run
  <2>2. ASSUME NEW k \in Run
        PROVE  (/\ k.run =< runs'[k.node]
                /\ k.run < runs'[k.node] \/ k.node \notin ToSet(pending'))
               <=> (/\ k.run =< runs[k.node]
                    /\ k.run < runs[k.node] \/ k.node \notin ToSet(pending))
    <3>1. CASE k.node \in E
      <4>1. /\ k.node \in ToSet(pending') /\ k.node \notin ToSet(pending)
            /\ runs'[k.node] = runs[k.node] + 1 /\ runs[k.node] \in Nat /\ k.run \in Nat
        BY <1>5, <1>6, <2>1, <3>1
      <4> QED BY <4>1
    <3>2. CASE k.node \notin E
      BY <1>5, <1>7, <2>1, <3>2
    <3> QED BY <3>1, <3>2
  <2> QED BY <2>2 DEF Handled, Started
<1>11. \A t \in Node : Given(t)' = Given(t)
  BY StartsKeepGiven
<1>12. \A t, p : Feeds(t)' = Feeds(t) /\ FeedsOf(t, p)' = FeedsOf(t, p)
  BY <1>5, <1>10 DEF Feeds, FeedsOf
<1>13. EventsKnown' /\ Justified' /\ Placed' /\ Clean'
  BY <1>2, <1>5 DEF WalkInv, EventsKnown, Justified, Placed, Clean
<1>14. Reached'
  <2> SUFFICES ASSUME NEW K \in SUBSET Run, Walked(session, Now, K)
               PROVE  Started' \subseteq K
    BY <1>5 DEF Reached
  <2>1. Started \subseteq K /\ Handled \subseteq Started
    BY DEF WalkInv, Reached, Handled
  <2>2. ASSUME NEW n \in E PROVE NextKey(n) \in K
    <3> DEFINE k == NextKey(n)
    <3>2. Triggered(session, Now, K, k)
      <4>1. k.run =< Given(k.node)
        <5>1. triggers[n] \in Seq(SUBSET Key) /\ triggers[n] # <<>> /\ runs[n] \in Nat
          BY <1>5, <1>6
        <5>2. Len(triggers[n]) \in Nat /\ Len(triggers[n]) >= 1
          BY <5>1
        <5>3. runs[n] + 1 =< runs[n] + Len(triggers[n])
          BY <5>1, <5>2
        <5> QED BY <1>8, <5>3 DEF Given
      <4>2. Triggered(session, Now, Handled, k)
        BY <1>2, <1>8, <4>1, QueuedIsTriggered
      <4>3. session \in Seq(SessionEvent) /\ Now \in 1..(Len(session) + 1) /\ Handled \in SUBSET Run
        <5>1. session \in Seq(SessionEvent)
          BY DEF IInv, TypeOK
        <5>2. Len(session) \in Nat
          BY <5>1
        <5> QED BY <5>1, <5>2 DEF Now, Handled, Started
      <4> HIDE DEF k
      <4>4. k \in Run
        BY <1>8 DEF k
      <4> QED BY <2>1, <4>2, <4>3, <4>4, TriggeredGrows
    <3>3. k.run = 1 \/ (Before(k) \in K /\ OverBy(session, Now, Before(k)))
      <4> SUFFICES ASSUME k.run # 1 PROVE Before(k) \in K /\ OverBy(session, Now, Before(k))
        OBVIOUS
      <4>1. runs[n] \in 1..MaxRuns /\ runs[n] =< runs[n] /\ n \in Node
        BY <1>5, <1>6, <1>8, BoundsAssumption
      <4>2. Before(k) = KeyOf(n) /\ KeyOf(n) \in Run /\ KeyOf(n).node = n /\ KeyOf(n).run = runs[n]
        BY <1>8, <4>1 DEF Before, KeyOf, Run
      <4>3. KeyOf(n) \in Handled
        BY <1>6, <4>1, <4>2 DEF Handled, Started
      <4>4. status[n] # "INTERRUPTED"
        BY <1>3 DEF Startable
      <4> QED BY <1>2, <2>1, <4>2, <4>3, <4>4 DEF WalkInv, HandledOver
    <3> QED BY <1>8, <2>1, <3>2, <3>3 DEF Walked, Due
  <2> QED BY <1>9, <2>1, <2>2
<1>15. \A n \in E : status[n] # "INTERRUPTED"
  BY <1>3 DEF Startable
<1>16. HandledOver' /\ Asked'
  <2>1. \A k \in Handled : k.node \in Node
    BY DEF Handled, Started, Run
  <2>2. HandledOver'
    BY <1>2, <1>5, <1>7, <1>10, <1>15, <2>1 DEF WalkInv, HandledOver
  <2>3. Asked'
    BY <1>5, <1>6, <1>7 DEF WalkInv, Asked
  <2> QED BY <2>2, <2>3
<1>17. Join \subseteq Node
  BY GraphAssumption
<1>18. Counted'
  BY <1>2, <1>5, <1>11, <1>12 DEF WalkInv, Counted
<1>19. JoinsCounted'
  BY <1>2, <1>5, <1>11, <1>12, <1>17 DEF WalkInv, JoinsCounted
<1>20. Arrived'
  <2> SUFFICES ASSUME NEW j \in Join, NEW p \in arrivals[j]
               PROVE  p \in Others(j) /\ status'[p] = "COMPLETED"
    BY <1>5 DEF Arrived
  <2>1. p \in Node /\ p \notin E
    BY <1>5 DEF JoinsKeepUp, IInv, TypeOK
  <2> QED BY <1>7, <2>1 DEF WalkInv, Arrived
<1>21. AllQueued'
  <2> SUFFICES ASSUME NEW n \in Node, triggers'[n] # <<>> PROVE n \in ToSet(order')
    BY DEF AllQueued
  <2>1. n \in ToSet(order)
    BY <1>3, <1>7 DEF WalkInv, AllQueued
  <2>2. left[n] # <<>>
    BY <1>2
  <2>3. order \in Seq(Node)
    BY DEF IInv, TypeOK
  <2> QED BY <1>2, <2>1, <2>2, <2>3, FilterElements
<1>22. Exhausted'
  <2> SUFFICES ASSUME NEW n \in Node, triggers'[n] # <<>>, Startable(n)'
               PROVE  ToSet(pending') \ replayed' # {}
    BY DEF Exhausted
  <2>1. n \notin ToSet(pending') /\ n \notin E
    BY <1>5 DEF Startable
  <2>2. Startable(n) /\ triggers[n] # <<>>
    BY <1>5, <1>7, <2>1 DEF Startable
  <2> QED BY <1>4, <2>1, <2>2
<1>23. Ended'
  BY <1>5, <1>6, <1>7, <1>10 DEF WalkInv, Ended
<1>24. Outcomes'
  <2>1. \A n \in R : outcome'[n] = Recovered(NextKey(n)) /\ Replays(NextKey(n))
    BY <1>2, <1>5 DEF R
  <2>2. \A n \in Node \ R : outcome'[n] = outcome[n]
    BY <1>2
  <2>3. \A n \in E : /\ n \in R <=> n \in replayed'
                     /\ KeyOf(n)' = NextKey(n)
    BY <1>3, <1>5, <1>6
  <2>4. \A n \in Node \ E : n \in replayed' <=> n \in replayed
    BY <1>5
  <2>5. \A n \in E : Replays(KeyOf(n))' <=> Replays(NextKey(n))
    BY <1>5, <2>3 DEF Replays, Settled, RouteOf, LastEvent, EventsOf
  <2>6. \A n \in E : Recovered(KeyOf(n))' = Recovered(NextKey(n))
    BY <1>5, <2>3 DEF Recovered, RouteOf, LastEvent, EventsOf
  <2>7. ASSUME NEW n \in Node, n \notin E
        PROVE  /\ Replays(KeyOf(n))' <=> Replays(KeyOf(n))
               /\ Recovered(KeyOf(n))' = Recovered(KeyOf(n))
    <3>1. KeyOf(n)' = KeyOf(n) /\ session' = session
      BY <1>5, <1>7, <2>7
    <3>2. Replays(KeyOf(n))' <=> Replays(KeyOf(n))
      BY <3>1 DEF Replays, Settled, RouteOf, LastEvent, EventsOf
    <3>3. Recovered(KeyOf(n))' = Recovered(KeyOf(n))
      BY <3>1 DEF Recovered, RouteOf, LastEvent, EventsOf
    <3> QED BY <3>2, <3>3
  <2> SUFFICES ASSUME TRUE PROVE
      \A n \in Node :
        /\ task'[n] = "held" => n \in replayed'
        /\ task'[n] \in {"held", "done"} /\ n \in replayed' =>
             Replays(KeyOf(n))' /\ outcome'[n] = Recovered(KeyOf(n))'
        /\ task'[n] \in {"recorded", "done"} /\ n \notin replayed' =>
             /\ outcome'[n] \in Does[n][runs'[n]]
             /\ IF outcome'[n].kind = "result"
                THEN \E i \in DOMAIN session : /\ session[i].key = KeyOf(n)'
                                               /\ session[i].kind = "result"
                                               /\ session[i].route = outcome'[n].route
                ELSE \A i \in DOMAIN session : session[i].key = KeyOf(n)'
                                               => session[i].kind # "result"
    BY <1>5 DEF Outcomes
  <2> TAKE n \in Node
  <2>8. CASE n \in E
    BY <1>6, <2>1, <2>3, <2>5, <2>6, <2>8
  <2>9. CASE n \notin E
    <3>1. n \notin R /\ outcome'[n] = outcome[n] /\ task'[n] = task[n] /\ KeyOf(n)' = KeyOf(n)
          /\ runs'[n] = runs[n] /\ (n \in replayed' <=> n \in replayed)
      BY <1>5, <1>7, <2>2, <2>4, <2>9
    <3> QED BY <2>7, <2>9, <3>1, <1>5 DEF WalkInv, Outcomes
  <2> QED BY <2>8, <2>9
<1> QED BY <1>13, <1>14, <1>16, <1>18, <1>19, <1>20, <1>21, <1>22, <1>23, <1>24 DEF WalkInv

(* What the buffer does for each node that comes after n.                  *)
LEMMA BufferFeeds ==
  ASSUME IInv, NEW n \in Node, NEW route \in Routes, NEW stat, Buffer(n, route, stat)
  PROVE  /\ \A t \in Node \ Join :
              Len(triggers'[t]) = Len(triggers[t])
                                  + (IF t \in ToSet(NextNodes[n][route]) THEN 1 ELSE 0)
         /\ \A j \in Join : j \notin ToSet(NextNodes[n][route]) =>
              arrivals'[j] = arrivals[j] /\ Len(triggers'[j]) = Len(triggers[j])
         /\ \A j \in Join : j \in ToSet(NextNodes[n][route]) =>
              IF Fires(j, arrivals[j] \cup {n}, stat)
              THEN /\ arrivals'[j] = Consumed(j, arrivals[j] \cup {n})
                   /\ Len(triggers'[j]) = Len(triggers[j]) + 1
              ELSE arrivals'[j] = arrivals[j] \cup {n} /\ Len(triggers'[j]) = Len(triggers[j])
         /\ AllQueued => AllQueued'
<1> DEFINE targets == NextNodes[n][route]
           arrived == [j \in Join |-> IF j \in ToSet(targets) THEN arrivals[j] \cup {n}
                                                              ELSE arrivals[j]]
           fired == {t \in ToSet(targets) : t \in Join => Fires(t, arrived[t], stat)}
           given(t) == IF t \in Join THEN {Outputs(p) : p \in Predecessors(t)} ELSE {KeyOf(n)}
           new == Filter(targets, {t \in fired : triggers[t] = <<>>})
<1>1. /\ triggers' = [t \in Node |-> IF t \in fired THEN Append(triggers[t], given(t))
                                                   ELSE triggers[t]]
      /\ order' = order \o new
      /\ arrivals' = [j \in Join |-> IF j \in fired THEN Consumed(j, arrived[j]) ELSE arrived[j]]
  BY DEF Buffer
<1>2. targets \in Seq(Node) /\ order \in Seq(Node) /\ Join \subseteq Node
      /\ \A t \in Node : triggers[t] \in Seq(SUBSET Key)
  BY NextNodesAre, GraphAssumption DEF IInv, TypeOK
<1>3. \A t \in Node : given(t) \in SUBSET Key
  BY PredecessorsAre, OutputsAre, KeysAre
<1>4. \A t \in Node \ Join : t \in fired <=> t \in ToSet(targets)
  OBVIOUS
<1>5. \A j \in Join : j \in fired <=> j \in ToSet(targets) /\ Fires(j, arrivals[j] \cup {n}, stat)
  OBVIOUS
<1>6. \A j \in Join : arrived[j] = IF j \in ToSet(targets) THEN arrivals[j] \cup {n}
                                                           ELSE arrivals[j]
  OBVIOUS
<1>7. fired \subseteq ToSet(targets)
  OBVIOUS
<1> HIDE DEF targets, given, arrived, fired
<1>8. ASSUME NEW t \in Node
      PROVE  Len(triggers'[t]) = Len(triggers[t]) + (IF t \in fired THEN 1 ELSE 0)
  <2>1. triggers'[t] = IF t \in fired THEN Append(triggers[t], given(t)) ELSE triggers[t]
    BY <1>1
  <2>2. triggers[t] \in Seq(SUBSET Key) /\ given(t) \in SUBSET Key
    BY <1>2, <1>3
  <2> DEFINE s == triggers[t]
             g == given(t)
  <2>3. s \in Seq(SUBSET Key) /\ g \in SUBSET Key /\ triggers'[t] = IF t \in fired THEN Append(s, g)
                                                                                 ELSE s
    BY <2>1, <2>2
  <2> HIDE DEF s, g
  <2>4. Len(Append(s, g)) = Len(s) + 1 /\ Len(s) \in Nat
    BY <2>3
  <2>5. CASE t \in fired
    <3>1. Len(triggers'[t]) = Len(s) + 1
      BY <2>3, <2>4, <2>5
    <3> QED BY <2>5, <3>1 DEF s
  <2>6. CASE t \notin fired
    <3>1. Len(triggers'[t]) = Len(s) + 0
      BY <2>3, <2>4, <2>6
    <3> QED BY <2>6, <3>1 DEF s
  <2> QED BY <2>5, <2>6
<1>9. ASSUME AllQueued PROVE AllQueued'
  <2>1. new \in Seq(Node) /\ ToSet(new) = ToSet(targets) \cap {t \in fired : triggers[t] = <<>>}
    BY <1>2, FilterElements
  <2> HIDE DEF new
  <2>2. ToSet(order') = ToSet(order) \cup ToSet(new)
    BY <1>1, <1>2, <2>1, Elements
  <2>3. ASSUME NEW t \in Node, triggers'[t] # <<>> PROVE t \in ToSet(order')
    <3>1. CASE triggers[t] # <<>>
      BY <1>9, <2>2, <3>1 DEF AllQueued
    <3>2. CASE triggers[t] = <<>>
      <4>1. t \in fired
        BY <1>1, <2>3, <3>2
      <4> QED BY <1>7, <2>1, <2>2, <3>2, <4>1
    <3> QED BY <3>1, <3>2
  <2> QED BY <2>3 DEF AllQueued
<1>10. \A t \in Node : Len(triggers[t]) \in Nat
  BY <1>2
<1>11. \A j \in Join : arrivals'[j] = IF j \in fired THEN Consumed(j, arrived[j]) ELSE arrived[j]
  BY <1>1
<1>12. \A t \in Node \ Join :
         Len(triggers'[t]) = Len(triggers[t]) + (IF t \in ToSet(targets) THEN 1 ELSE 0)
  BY <1>4, <1>8
<1>13. ASSUME NEW j \in Join, j \notin ToSet(targets)
       PROVE  arrivals'[j] = arrivals[j] /\ Len(triggers'[j]) = Len(triggers[j])
  <2>1. j \in Node /\ j \notin fired
    BY <1>2, <1>5, <1>13
  <2>2. Len(triggers'[j]) = Len(triggers[j]) + 0 /\ Len(triggers[j]) \in Nat
    BY <1>8, <1>10, <2>1
  <2>3. arrivals'[j] = arrivals[j]
    BY <1>6, <1>11, <1>13, <2>1
  <2>4. Len(triggers'[j]) = Len(triggers[j])
    BY <2>2
  <2> QED BY <2>3, <2>4
<1>14. ASSUME NEW j \in Join, j \in ToSet(targets)
       PROVE  IF Fires(j, arrivals[j] \cup {n}, stat)
              THEN /\ arrivals'[j] = Consumed(j, arrivals[j] \cup {n})
                   /\ Len(triggers'[j]) = Len(triggers[j]) + 1
              ELSE arrivals'[j] = arrivals[j] \cup {n} /\ Len(triggers'[j]) = Len(triggers[j])
  <2>1. j \in Node /\ (j \in fired <=> Fires(j, arrivals[j] \cup {n}, stat))
    BY <1>2, <1>5, <1>14
  <2>2. arrivals'[j] = IF j \in fired THEN Consumed(j, arrivals[j] \cup {n})
                                      ELSE arrivals[j] \cup {n}
    BY <1>6, <1>11, <1>14
  <2>3. Len(triggers'[j]) = Len(triggers[j]) + (IF j \in fired THEN 1 ELSE 0)
    BY <1>8, <2>1
  <2>4. j \notin fired => Len(triggers'[j]) = Len(triggers[j])
    BY <1>10, <2>1, <2>3
  <2> QED BY <2>1, <2>2, <2>3, <2>4
<1> QED BY <1>9, <1>12, <1>13, <1>14 DEF targets

(* A node on a cycle has a predecessor on it.                              *)
LEMMA FedOnCycle == ASSUME NEW j \in Join, OnCycle(j) PROVE Fed(j) # {}
<1> SUFFICES ASSUME Predecessors(j) \cap Descendants[j] = {} PROVE FALSE
  BY DEF Fed
<1> DEFINE D == Descendants[j]
           R == D \ {j}
           Closed(S) == \A k \in S \cup {j} : ToSet(Targets(From[k])) \subseteq S
<1>1. j \in Node /\ D = {m \in Node : \A S \in SUBSET Node : Closed(S) => m \in S}
  BY GraphAssumption DEF Descendants
<1>2. ASSUME NEW k \in Node, NEW t \in ToSet(Targets(From[k]))
      PROVE  t \in Node /\ k \in Predecessors(t)
  <2> DEFINE f == From[k]
  <2>1. Edges \in Seq(EdgeType)
    BY GraphAssumption DEF EdgeType
  <2>2. f \in Seq(EdgeType) /\ \A e \in ToSet(f) : e \in ToSet(Edges) /\ e.from = k
    <3>1. f = Filter(Edges, {e \in ToSet(Edges) : e.from = k})
      BY DEF From
    <3>2. ToSet(f) = ToSet(Edges) \cap {e \in ToSet(Edges) : e.from = k}
      BY <2>1, <3>1, FilterElements
    <3> QED BY <3>2, FromIs
  <2> HIDE DEF f
  <2>3. PICK i \in DOMAIN Targets(f) : t = Targets(f)[i]
    BY <1>2 DEF ToSet, f
  <2>4. i \in DOMAIN f /\ t = f[i].to
    BY <2>3 DEF Targets
  <2>5. f[i] \in ToSet(f) /\ f[i] \in EdgeType
    BY <2>2, <2>4 DEF ToSet
  <2> QED BY <2>2, <2>4, <2>5 DEF Predecessors, EdgeType
<1>3. j \in D
  BY DEF OnCycle
<1>4. Closed(D)
  <2> SUFFICES ASSUME NEW k \in D \cup {j}, NEW t \in ToSet(Targets(From[k])) PROVE t \in D
    OBVIOUS
  <2>1. k \in Node /\ t \in Node
    BY <1>1, <1>2
  <2>2. ASSUME NEW S \in SUBSET Node, Closed(S) PROVE t \in S
    <3>1. k \in S \cup {j}
      BY <1>1, <2>2
    <3> QED BY <2>2, <3>1
  <2> QED BY <1>1, <2>1, <2>2
<1>5. Closed(R)
  <2> SUFFICES ASSUME NEW k \in R \cup {j}, NEW t \in ToSet(Targets(From[k])) PROVE t \in R
    OBVIOUS
  <2>1. k \in D /\ k \in Node /\ t \in D
    BY <1>1, <1>3, <1>4
  <2>2. t # j
    BY <1>2, <2>1
  <2> QED BY <2>1, <2>2
<1>6. R \in SUBSET Node
  BY <1>1
<1> HIDE DEF Closed, R
<1>7. j \in R
  BY <1>1, <1>3, <1>5, <1>6
<1> QED BY <1>7 DEF R

(* The output of a node that is not rerun with its answer.                 *)
Echo(n) == [kind |-> "result", key |-> KeyOf(n), route |-> NoRoute, input |-> input[n]]
Echoed(n) == n \in replayed /\ LastEvent(KeyOf(n)) = "answer"

(* What handling a task does, apart from the buffer.                       *)
LEMMA HandleIs ==
  ASSUME IInv, NEW n \in Node, Handle(n)
  PROVE  /\ pc' = pc /\ pc \in {"handle", "drain"} /\ task[n] = "done" /\ n \in ToSet(pending)
         /\ status[n] = "RUNNING" /\ runs[n] \in 1..MaxRuns /\ outcome[n] \in Outcome
         /\ ToSet(pending') = ToSet(pending) \ {n} /\ replayed' = replayed \ {n}
         /\ status'[n] = StatusOf(n, outcome[n]) /\ task'[n] = "none"
         /\ \A m \in Node \ {n} : status'[m] = status[m] /\ task'[m] = task[m]
         /\ error' = (error \/ status'[n] = "FAILED")
         /\ UNCHANGED <<sequence, runs, input, outcome, finished>>
         /\ IF status'[n] = "COMPLETED"
            THEN \E stat : stat = status' /\ Buffer(n, outcome[n].route, stat)
            ELSE UNCHANGED <<order, triggers, arrivals>>
         /\ \A m : KeyOf(m)' = KeyOf(m)
         /\ KeyOf(n) \in Run /\ KeyOf(n).node = n /\ KeyOf(n).run = runs[n]
         /\ Started' = Started /\ KeyOf(n) \in Started /\ KeyOf(n) \notin Handled
         /\ Handled' = Handled \cup {KeyOf(n)}
<1>1. /\ pc \in {"handle", "drain"} /\ task[n] = "done"
      /\ pending' = Filter(pending, Node \ {n}) /\ replayed' = replayed \ {n}
      /\ task' = [task EXCEPT ![n] = "none"]
      /\ status' = [status EXCEPT ![n] = StatusOf(n, outcome[n])]
      /\ error' = (error \/ status'[n] = "FAILED")
      /\ IF status'[n] = "COMPLETED"
         THEN \E stat : stat = status' /\ Buffer(n, outcome[n].route, stat)
         ELSE UNCHANGED <<order, triggers, arrivals>>
      /\ UNCHANGED <<turn, limit, sequence, runs, input, outcome, finished, aborted, pc, diverged>>
  BY DEF Handle
<1>2. /\ n \in ToSet(pending) /\ status[n] = "RUNNING" /\ runs[n] \in 1..MaxRuns
      /\ outcome[n] \in Outcome
  BY <1>1 DEF IInv, TypeOK, InFlight
<1>3. /\ status'[n] = StatusOf(n, outcome[n]) /\ task'[n] = "none"
      /\ \A m \in Node \ {n} : status'[m] = status[m] /\ task'[m] = task[m]
  BY <1>1 DEF IInv, TypeOK
<1>4. ToSet(pending') = ToSet(pending) \ {n}
  <2>1. pending \in Seq(Node)
    BY DEF IInv, TypeOK
  <2>2. ToSet(Filter(pending, Node \ {n})) = ToSet(pending) \cap (Node \ {n})
    BY <2>1, FilterElements
  <2>3. ToSet(pending) \subseteq Node
    BY <2>1, Elements
  <2> QED BY <1>1, <2>2, <2>3
<1>5. \A m : KeyOf(m)' = KeyOf(m)
  BY <1>1 DEF KeyOf
<1>6. KeyOf(n) \in Run /\ KeyOf(n).node = n /\ KeyOf(n).run = runs[n]
  BY <1>2 DEF KeyOf, Run
<1>7. Started' = Started
  BY <1>1 DEF Started
<1>8. \A k \in Started : k.node = n => k.run < runs[n] \/ k = KeyOf(n)
  BY <1>2 DEF Started, Run, KeyOf
<1>9. KeyOf(n) \in Started /\ KeyOf(n) \notin Handled
  BY <1>2, <1>6 DEF Started, Handled
<1>10. Handled' = Handled \cup {KeyOf(n)}
  <2>1. Handled' = {k \in Started : k.run < runs[k.node] \/ k.node \notin ToSet(pending) \ {n}}
    BY <1>1, <1>4, <1>7 DEF Handled
  <2> QED BY <1>2, <1>6, <1>8, <1>9, <2>1 DEF Handled
<1> QED BY <1>1, <1>2, <1>3, <1>4, <1>5, <1>6, <1>7, <1>9, <1>10

(* The output that an answer made is the only event it adds.               *)
LEMMA HandleAdds ==
  ASSUME IInv, NEW n \in Node, Handle(n)
  PROVE  /\ Grows(KeyOf(n))
         /\ \A i \in DOMAIN session' \ DOMAIN session :
              i = Now /\ Echoed(n) /\ session'[i] = Echo(n)
         /\ Echoed(n) => Now \in DOMAIN session' /\ session'[Now] = Echo(n)
         /\ ~Echoed(n) => session' = session
<1>1. session' = IF Echoed(n) THEN Append(session, Echo(n)) ELSE session
  BY DEF Handle, Echoed, Echo
<1>2. session \in Seq(SessionEvent) /\ Now = Len(session) + 1
  BY DEF IInv, TypeOK, Now
<1>3. Echo(n) \in SessionEvent /\ Echo(n).key = KeyOf(n)
  <2>1. KeyOf(n) \in Key /\ input[n] \in SUBSET Key /\ NoRoute \in Routes /\ "result" \in Kinds
    BY KeysAre DEF IInv, TypeOK, Routes, Kinds
  <2> QED BY <2>1 DEF SessionEvent, Echo
<1>4. CASE ~Echoed(n)
  <2>1. session' = session
    BY <1>1, <1>4
  <2> QED BY <1>2, <1>4, <2>1 DEF Grows
<1>5. CASE Echoed(n)
  <2>1. session' = Append(session, Echo(n))
    BY <1>1, <1>5
  <2>2. /\ session' \in Seq(SessionEvent) /\ DOMAIN session = 1..Len(session)
        /\ Len(session) \in Nat /\ DOMAIN session' = 1..(Len(session) + 1)
        /\ \A i \in DOMAIN session : session'[i] = session[i]
        /\ session'[Len(session) + 1] = Echo(n)
    BY <1>2, <1>3, <2>1
  <2>3. \A i \in DOMAIN session' \ DOMAIN session : i = Len(session) + 1
    BY <2>2
  <2>4. DOMAIN session \subseteq DOMAIN session' /\ Len(session) + 1 \in DOMAIN session'
    BY <2>2
  <2> QED BY <1>2, <1>3, <1>5, <2>2, <2>3, <2>4 DEF Grows
<1> QED BY <1>4, <1>5

(* Only a result has a route, so the route that is recovered is its own.   *)
LEMMA RecoveredRoute ==
  ASSUME IInv, WalkInv, NEW k, Replays(k)
  PROVE  /\ k \in Run /\ ~Silent(k)
         /\ LastEvent(k) = "result" =>
              /\ \E i \in DOMAIN session : session[i].key = k /\ session[i].kind = "result"
              /\ \A i \in DOMAIN session : session[i].key = k /\ session[i].kind = "result"
                   => session[i].route = Recovered(k).route
         /\ LastEvent(k) # "result" =>
              /\ \A i \in DOMAIN session : session[i].key = k => session[i].kind # "result"
              /\ Recovered(k).route = NoRoute
<1> DEFINE last == Latest(EventsOf(k))
           routed == {i \in EventsOf(k) : session[i].route # NoRoute}
<1>1. DOMAIN session = 1..Len(session) /\ Len(session) \in Nat
  BY DEF IInv, TypeOK
<1>2. EventsOf(k) # {} /\ EventsOf(k) \subseteq 1..Len(session)
      /\ LastEvent(k) \in {"result", "interrupt", "answer"}
  BY <1>1 DEF Replays, Settled, LastEvent, EventsOf
<1>3. last \in EventsOf(k) /\ LastEvent(k) = session[last].kind
  BY <1>1, <1>2, LatestIs DEF LastEvent
<1>4. last \in DOMAIN session /\ session[last].key = k
  BY <1>1, <1>2, <1>3 DEF EventsOf
<1>5. k \in Run /\ ~Silent(k)
  BY <1>2, <1>3, <1>4 DEF WalkInv, EventsKnown
<1>6. Recovered(k).route = IF routed = {} THEN NoRoute ELSE session[Latest(routed)].route
  BY DEF Recovered, RouteOf
<1>7. \A i \in routed : i \in DOMAIN session /\ session[i].key = k /\ session[i].kind = "result"
  BY DEF EventsOf, WalkInv, EventsKnown
<1>8. ASSUME LastEvent(k) # "result"
      PROVE  /\ \A i \in DOMAIN session : session[i].key = k => session[i].kind # "result"
             /\ Recovered(k).route = NoRoute
  <2>1. \A i \in DOMAIN session : session[i].key = k => session[i].kind # "result"
    BY <1>8, ResultReplays
  <2>2. routed = {}
    BY <1>7, <2>1
  <2> QED BY <1>6, <2>1, <2>2
<1>9. ASSUME LastEvent(k) = "result", NEW i \in DOMAIN session,
             session[i].key = k, session[i].kind = "result"
      PROVE  session[i].route = Recovered(k).route
  <2>1. \A j \in DOMAIN session : session[j].key = k /\ session[j].kind = "result" => j = i
    <3> SUFFICES ASSUME NEW j \in DOMAIN session, session[j].key = k, session[j].kind = "result"
                 PROVE  j = i
      OBVIOUS
    <3>1. i =< j /\ j =< i
      BY <1>9 DEF IInv, ResultsLast
    <3> QED BY <1>1, <3>1
  <2>2. CASE session[i].route = NoRoute
    <3>1. routed = {}
      BY <1>7, <2>1, <2>2
    <3> QED BY <1>6, <2>2, <3>1
  <2>3. CASE session[i].route # NoRoute
    <3>1. routed = {i}
      BY <1>7, <1>9, <2>1, <2>3 DEF EventsOf
    <3>2. Latest(routed) = i
      <4>1. Latest({i}) \in {i}
        BY <1>1, LatestIs
      <4> QED BY <3>1, <4>1
    <3> QED BY <1>6, <3>1, <3>2
  <2> QED BY <2>2, <2>3
<1> HIDE DEF last
<1> QED BY <1>3, <1>4, <1>5, <1>8, <1>9

NoResult(s, k) == \A i \in DOMAIN s : s[i].key = k => s[i].kind # "result"

(* What a run that did not fail has left in the session when it is handled.*)
LEMMA HandledEnds ==
  ASSUME Steady, IInv, WalkInv, NEW n \in Node, Handle(n), outcome[n].kind # "error"
  PROVE  \/ /\ outcome[n].kind = "result" /\ ~Silent(KeyOf(n))
            /\ \E i \in DOMAIN session' :
                 session'[i].key = KeyOf(n) /\ session'[i].kind = "result"
            /\ \A i \in DOMAIN session' :
                 session'[i].key = KeyOf(n) /\ session'[i].kind = "result"
                 => session'[i].route = outcome[n].route
         \/ /\ outcome[n].kind = "nothing" /\ outcome[n] \in Does[n][runs[n]]
            /\ NoResult(session', KeyOf(n))
            /\ \A o \in Does[n][runs[n]] : o.kind = "nothing" => o = outcome[n]
         \/ /\ outcome[n].kind = "interrupt" /\ ~Silent(KeyOf(n))
            /\ NoResult(session', KeyOf(n))
<1> DEFINE k == KeyOf(n)
           o == outcome[n]
<1>1. /\ task[n] = "done" /\ runs[n] \in 1..MaxRuns /\ o \in Outcome
      /\ k \in Run /\ k.node = n /\ k.run = runs[n]
  BY HandleIs
<1>2. CASE n \notin replayed
  <2>1. session' = session
    BY <1>2, HandleAdds DEF Echoed
  <2>2. /\ o \in Does[n][runs[n]]
        /\ IF o.kind = "result"
           THEN \E i \in DOMAIN session : /\ session[i].key = k /\ session[i].kind = "result"
                                          /\ session[i].route = o.route
           ELSE \A i \in DOMAIN session : session[i].key = k => session[i].kind # "result"
    BY <1>1, <1>2 DEF WalkInv, Outcomes
  <2>3. CASE o.kind = "result"
    <3>1. PICK i \in DOMAIN session : /\ session[i].key = k /\ session[i].kind = "result"
                                      /\ session[i].route = o.route
      BY <2>2, <2>3
    <3>2. ~Silent(k)
      BY <3>1 DEF WalkInv, EventsKnown
    <3>3. \A j \in DOMAIN session : session[j].key = k /\ session[j].kind = "result" => j = i
      <4>1. DOMAIN session = 1..Len(session)
        BY DEF IInv, TypeOK
      <4> SUFFICES ASSUME NEW j \in DOMAIN session, session[j].key = k, session[j].kind = "result"
                   PROVE  j = i
        OBVIOUS
      <4>2. i =< j /\ j =< i
        BY <3>1 DEF IInv, ResultsLast
      <4> QED BY <4>1, <4>2
    <3> QED BY <2>1, <2>3, <3>1, <3>2, <3>3
  <2>4. CASE o.kind = "nothing"
    <3>1. \A a \in Does[n][runs[n]] : a.kind = "nothing" => a = o
      BY <1>1, <2>2, <2>4 DEF Steady
    <3> QED BY <2>1, <2>2, <2>4, <3>1 DEF NoResult
  <2>5. CASE o.kind = "interrupt"
    <3>1. ~Silent(k)
      BY <1>1, <2>2, <2>5 DEF Steady, Silent
    <3> QED BY <2>1, <2>2, <2>5, <3>1 DEF NoResult
  <2> QED BY <1>1, <2>3, <2>4, <2>5 DEF Outcome, Kinds
<1>3. CASE n \in replayed
  <2>1. Replays(k) /\ o = Recovered(k)
    BY <1>1, <1>3 DEF WalkInv, Outcomes
  <2>2. ~Silent(k) /\ LastEvent(k) \in {"result", "interrupt", "answer"}
    BY <2>1, RecoveredRoute DEF Replays, Settled
  <2>3. o.kind = IF LastEvent(k) = "answer" THEN "result" ELSE LastEvent(k)
    BY <2>1 DEF Recovered
  <2>4. CASE LastEvent(k) = "result"
    <3>1. session' = session
      BY <2>4, HandleAdds DEF Echoed
    <3> QED BY <2>1, <2>2, <2>3, <2>4, <3>1, RecoveredRoute
  <2>5. CASE LastEvent(k) = "interrupt"
    <3>1. session' = session
      BY <2>5, HandleAdds DEF Echoed
    <3> QED BY <2>1, <2>2, <2>3, <2>5, <3>1, RecoveredRoute DEF NoResult
  <2>6. CASE LastEvent(k) = "answer"
    <3>1. Echoed(n) /\ o.kind = "result" /\ o.route = NoRoute
      BY <1>3, <2>1, <2>3, <2>6, RecoveredRoute DEF Echoed
    <3>2. /\ Now \in DOMAIN session' /\ session'[Now] = Echo(n)
          /\ \A i \in DOMAIN session' \ DOMAIN session : i = Now
      BY <3>1, HandleAdds
    <3>3. Echo(n).key = k /\ Echo(n).kind = "result" /\ Echo(n).route = NoRoute
      BY DEF Echo
    <3>4. \A i \in DOMAIN session : session[i].key = k => session[i].kind # "result"
      BY <2>1, <2>6, RecoveredRoute
    <3>5. \A i \in DOMAIN session : session'[i] = session[i]
      BY HandleAdds DEF Grows
    <3>6. \A i \in DOMAIN session' : session'[i].key = k /\ session'[i].kind = "result" => i = Now
      BY <3>2, <3>4, <3>5
    <3> QED BY <2>2, <3>1, <3>2, <3>3, <3>6
  <2> QED BY <2>2, <2>4, <2>5, <2>6
<1> QED BY <1>2, <1>3

(* So the events lead on from it as the buffer does.                       *)
LEMMA HandledLeads ==
  ASSUME Steady, IInv, WalkInv, NEW n \in Node, Handle(n), outcome[n].kind # "error"
  PROVE  /\ OverBy(session', Now', KeyOf(n)) <=> status'[n] # "INTERRUPTED"
         /\ \A t : LeadsTo(session', Now', KeyOf(n), t)
                   <=> (/\ status'[n] = "COMPLETED"
                        /\ t \in ToSet(NextNodes[n][outcome[n].route]))
<1> DEFINE k == KeyOf(n)
           o == outcome[n]
           s == session'
<1>1. /\ k.node = n /\ k.run = runs[n] /\ 1..(Now' - 1) = DOMAIN s /\ status'[n] = StatusOf(n, o)
  BY HandleIs, HandleAdds, GrowsIs
<1>2. /\ OverBy(s, Now', k) <=> \/ Silent(k)
                                \/ \E e \in DOMAIN s : s[e].key = k /\ s[e].kind = "result"
      /\ Silent(k) <=> \E a \in Does[n][runs[n]] : a.kind = "nothing"
  BY <1>1 DEF OverBy, Silent
<1>3. \A t : LeadsTo(s, Now', k, t) <=>
        \/ \E e \in DOMAIN s : /\ s[e].key = k /\ s[e].kind = "result"
                               /\ t \in ToSet(NextNodes[n][s[e].route])
        \/ \E a \in Does[n][runs[n]] : /\ a.kind = "nothing" /\ n \notin WaitsForOutput
                                       /\ t \in ToSet(NextNodes[n][a.route])
  BY <1>1 DEF LeadsTo
<1>4. CASE /\ o.kind = "result" /\ ~Silent(k)
           /\ \E i \in DOMAIN s : s[i].key = k /\ s[i].kind = "result"
           /\ \A i \in DOMAIN s : s[i].key = k /\ s[i].kind = "result" => s[i].route = o.route
  <2>1. status'[n] = "COMPLETED"
    BY <1>1, <1>4 DEF StatusOf
  <2>2. \A a \in Does[n][runs[n]] : a.kind # "nothing"
    BY <1>2, <1>4
  <2> HIDE DEF o, s, k
  <2> QED BY <1>2, <1>3, <1>4, <2>1, <2>2 DEF o, s, k
<1>5. CASE /\ o.kind = "nothing" /\ o \in Does[n][runs[n]] /\ NoResult(s, k)
           /\ \A a \in Does[n][runs[n]] : a.kind = "nothing" => a = o
  <2>1. status'[n] = IF n \in WaitsForOutput THEN "WAITING" ELSE "COMPLETED"
    BY <1>1, <1>5 DEF StatusOf
  <2>2. Silent(k)
    BY <1>2, <1>5
  <2> QED BY <1>2, <1>3, <1>5, <2>1, <2>2 DEF NoResult
<1>6. CASE o.kind = "interrupt" /\ ~Silent(k) /\ NoResult(s, k)
  <2>1. status'[n] = "INTERRUPTED"
    BY <1>1, <1>6 DEF StatusOf
  <2> QED BY <1>2, <1>3, <1>6, <2>1 DEF NoResult
<1> QED BY <1>4, <1>5, <1>6, HandledEnds

(* Whether the handling of n leads to t.                                   *)
LedTo(n, t) == status'[n] = "COMPLETED" /\ t \in ToSet(NextNodes[n][outcome[n].route])

(* The run that is handled feeds the nodes it leads to, once.              *)
LEMMA FeedsMove ==
  ASSUME Steady, IInv, WalkInv, NEW n \in Node, Handle(n), outcome[n].kind # "error", NEW t
  PROVE  /\ Feeds(t) \in Nat /\ Feeds(t)' = Feeds(t) + (IF LedTo(n, t) THEN 1 ELSE 0)
         /\ \A p : /\ FeedsOf(t, p) \in Nat
                   /\ FeedsOf(t, p)' = FeedsOf(t, p) + (IF p = n /\ LedTo(n, t) THEN 1 ELSE 0)
         /\ LedTo(n, t) => n \in Others(t)
<1> DEFINE k == KeyOf(n)
           F == Feed(session, Now, Handled, t)
           F1 == Feed(session', Now', Handled', t)
           G(p) == FeedOf(session, Now, Handled, t, p)
           G1(p) == FeedOf(session', Now', Handled', t, p)
<1>1. /\ k \in Run /\ k.node = n /\ k \notin Handled /\ Handled' = Handled \cup {k}
      /\ Handled \subseteq Run
  BY HandleIs DEF Handled, Started
<1>2. Grows(k) /\ session \in Seq(SessionEvent) /\ session' \in Seq(SessionEvent)
      /\ Now \in 1..(Len(session) + 1) /\ Now' \in 1..(Len(session') + 1)
  BY HandleAdds, GrowsIs DEF Grows
<1>3. \A x \in Handled : LeadsTo(session', Now', x, t) <=> LeadsTo(session, Now, x, t)
  BY <1>1, <1>2, GrowsKeeps
<1>4. LeadsTo(session', Now', k, t) <=> LedTo(n, t)
  BY HandledLeads DEF LedTo
<1>5. F1 = F \cup (IF LedTo(n, t) THEN {k} ELSE {}) /\ k \notin F
  BY <1>1, <1>3, <1>4 DEF Feed
<1>6. \A p : /\ G1(p) = G(p) \cup (IF p = n /\ LedTo(n, t) THEN {k} ELSE {})
             /\ k \notin G(p)
  BY <1>1, <1>3, <1>4 DEF FeedOf
<1>7. /\ IsFiniteSet(F) /\ Cardinality(F) \in Nat
      /\ \A p : IsFiniteSet(G(p)) /\ Cardinality(G(p)) \in Nat
  BY <1>1, <1>2, FeedIs
<1>8. LedTo(n, t) => n \in Others(t)
  <2>1. LedTo(n, t) => n \in Predecessors(t)
    BY <1>1, <1>2, <1>4, FeedIs
  <2> QED BY <2>1, GraphAssumption DEF Others
<1>9. Feeds(t) = Cardinality(F) /\ \A p : FeedsOf(t, p) = Cardinality(G(p))
  BY DEF Feeds, FeedsOf
<1>10. Feeds(t)' = Cardinality(F1) /\ \A p : FeedsOf(t, p)' = Cardinality(G1(p))
  BY DEF Feeds, FeedsOf
<1> HIDE DEF F, F1, G, G1, k
<1>11. Cardinality(F1) = Cardinality(F) + (IF LedTo(n, t) THEN 1 ELSE 0)
  <2>1. CASE LedTo(n, t)
    <3>1. F1 = F \cup {k}
      BY <1>5, <2>1
    <3>2. Cardinality(F \cup {k}) = Cardinality(F) + 1
      BY <1>5, <1>7, FS_AddElement
    <3> QED BY <2>1, <3>1, <3>2
  <2>2. CASE ~LedTo(n, t)
    <3>1. F1 = F
      BY <1>5, <2>2
    <3> QED BY <1>7, <2>2, <3>1
  <2> QED BY <2>1, <2>2
<1>12. ASSUME NEW p
       PROVE  Cardinality(G1(p)) = Cardinality(G(p)) + (IF p = n /\ LedTo(n, t) THEN 1 ELSE 0)
  <2> DEFINE A == G(p)
  <2>0. IsFiniteSet(A) /\ Cardinality(A) \in Nat /\ k \notin A
    BY <1>6, <1>7
  <2>1. CASE p = n /\ LedTo(n, t)
    <3>1. G1(p) = A \cup {k}
      BY <1>6, <2>1
    <3> HIDE DEF A
    <3>2. Cardinality(A \cup {k}) = Cardinality(A) + 1
      BY <2>0, FS_AddElement
    <3> QED BY <2>1, <3>1, <3>2 DEF A
  <2>2. CASE ~(p = n /\ LedTo(n, t))
    <3>1. G1(p) = G(p)
      BY <1>6, <2>2
    <3>2. Cardinality(G1(p)) = Cardinality(G(p)) + 0
      BY <2>0, <3>1
    <3> QED BY <2>2, <3>2
  <2> QED BY <2>1, <2>2
<1> QED BY <1>7, <1>8, <1>9, <1>10, <1>11, <1>12

(* What a handled run does to the counts of a join.                        *)
LEMMA HandleKeepsJoin ==
  ASSUME Steady, IInv, WalkInv, JoinsKeepUp, NEW n \in Node, Handle(n), ~error',
         NEW j \in Join
  PROVE  /\ Others(j) = {} => Given(j)' = Seed(j)
         /\ \A p \in Fed(j) :
              FeedsOf(j, p)' = Given(j)' + (IF p \in arrivals'[j] THEN 1 ELSE 0)
         /\ \A p \in Others(j) \ Fed(j) : /\ p \in arrivals'[j] <=> FeedsOf(j, p)' > 0
                                          /\ Given(j)' > 0 => p \in arrivals'[j]
         /\ Others(j) # {} => \E p \in Others(j) : p \notin arrivals'[j]
<1> DEFINE A == arrivals[j] \cup {n}
           route == outcome[n].route
           d(p) == IF p = n /\ LedTo(n, j) THEN 1 ELSE 0
<1>1. /\ n \in ToSet(pending) /\ outcome[n] \in Outcome /\ runs' = runs
      /\ status'[n] = StatusOf(n, outcome[n])
      /\ \A m \in Node \ {n} : status'[m] = status[m]
      /\ error' = (error \/ status'[n] = "FAILED")
      /\ IF status'[n] = "COMPLETED" THEN \E stat : stat = status' /\ Buffer(n, route, stat)
         ELSE UNCHANGED <<order, triggers, arrivals>>
  BY HandleIs
<1>2. ~error /\ outcome[n].kind # "error" /\ route \in Routes
  BY <1>1 DEF StatusOf, Outcome
<1>3. \A p : /\ FeedsOf(j, p) \in Nat
             /\ FeedsOf(j, p)' = FeedsOf(j, p) + d(p)
  BY <1>2, FeedsMove
<1>4. LedTo(n, j) => n \in Others(j)
  BY <1>2, FeedsMove
<1>5. /\ Others(j) = {} => Given(j) = Seed(j)
      /\ \A p \in Fed(j) : FeedsOf(j, p) = Given(j) + (IF p \in arrivals[j] THEN 1 ELSE 0)
      /\ \A p \in Others(j) \ Fed(j) : /\ p \in arrivals[j] <=> FeedsOf(j, p) > 0
                                       /\ Given(j) > 0 => p \in arrivals[j]
      /\ Others(j) # {} => \E p \in Others(j) : p \notin arrivals[j]
  BY <1>2 DEF WalkInv, JoinsCounted
<1>6. j \in Node /\ runs[j] \in Nat /\ triggers[j] \in Seq(SUBSET Key) /\ arrivals[j] \subseteq Node
  BY GraphAssumption DEF IInv, TypeOK
<1>7. Given(j) \in Nat /\ Given(j) = runs[j] + Len(triggers[j]) /\ Len(triggers[j]) \in Nat
  BY <1>6 DEF Given
<1>8. Given(j)' = runs[j] + Len(triggers'[j])
  BY <1>1 DEF Given
<1>9. n \notin arrivals[j]
  BY <1>1 DEF JoinsKeepUp
<1>10. Fed(j) \subseteq Others(j)
  BY FedAre, GraphAssumption DEF Others
<1> HIDE DEF d
<1>11. CASE ~LedTo(n, j)
  <2>1. arrivals'[j] = arrivals[j] /\ Len(triggers'[j]) = Len(triggers[j])
    <3>1. CASE status'[n] = "COMPLETED"
      <4>1. j \notin ToSet(NextNodes[n][route])
        BY <1>11, <3>1 DEF LedTo
      <4>2. PICK stat : Buffer(n, route, stat)
        BY <1>1, <3>1
      <4>3. \A i \in Join : i \notin ToSet(NextNodes[n][route]) =>
              arrivals'[i] = arrivals[i] /\ Len(triggers'[i]) = Len(triggers[i])
        <5> HIDE DEF route
        <5> QED BY <1>2, <4>2, BufferFeeds
      <4> QED BY <4>1, <4>3
    <3>2. CASE status'[n] # "COMPLETED"
      BY <1>1, <3>2
    <3> QED BY <3>1, <3>2
  <2>2. Given(j)' = Given(j)
    BY <1>7, <1>8, <2>1
  <2>3. \A p : FeedsOf(j, p)' = FeedsOf(j, p)
    BY <1>3, <1>11 DEF d
  <2> QED BY <1>5, <2>1, <2>2, <2>3
<1>12. CASE LedTo(n, j)
  <2>1. n \in Others(j) /\ status'[n] = "COMPLETED" /\ j \in ToSet(NextNodes[n][route])
    BY <1>4, <1>12 DEF LedTo
  <2>2. d(n) = 1 /\ \A p : p # n => d(p) = 0
    BY <1>12 DEF d
  <2>3. /\ Fires(j, A, status') =>
             arrivals'[j] = Consumed(j, A) /\ Len(triggers'[j]) = Len(triggers[j]) + 1
        /\ ~Fires(j, A, status') =>
             arrivals'[j] = A /\ Len(triggers'[j]) = Len(triggers[j])
    <3>1. PICK stat : stat = status' /\ Buffer(n, route, stat)
      BY <1>1, <2>1
    <3>2. /\ Fires(j, A, stat) =>
               arrivals'[j] = Consumed(j, A) /\ Len(triggers'[j]) = Len(triggers[j]) + 1
          /\ ~Fires(j, A, stat) =>
               arrivals'[j] = A /\ Len(triggers'[j]) = Len(triggers[j])
      <4> HIDE DEF route
      <4>0. Buffer(n, route, stat)
        BY <3>1
      <4>1. \A i \in Join : i \in ToSet(NextNodes[n][route]) =>
              IF Fires(i, arrivals[i] \cup {n}, stat)
              THEN /\ arrivals'[i] = Consumed(i, arrivals[i] \cup {n})
                   /\ Len(triggers'[i]) = Len(triggers[i]) + 1
              ELSE arrivals'[i] = arrivals[i] \cup {n} /\ Len(triggers'[i]) = Len(triggers[i])
        BY <1>2, <4>0, BufferFeeds
      <4> QED BY <2>1, <4>1
    <3> QED BY <3>1, <3>2
  <2>4. Fires(j, A, status') <=> Others(j) \subseteq A
    <3>1. \A p \in arrivals[j] : status[p] = "COMPLETED" /\ p \in Node /\ p # n
      BY <1>6, <1>9 DEF WalkInv, Arrived
    <3>2. \A p \in A : status'[p] = "COMPLETED"
      BY <1>1, <2>1, <3>1
    <3> QED BY <3>2 DEF Fires, Others
  <2>5. CASE ~(Others(j) \subseteq A)
    <3>1. arrivals'[j] = A /\ Given(j)' = Given(j)
      BY <1>7, <1>8, <2>3, <2>4, <2>5
    <3>2. \A p \in Fed(j) : FeedsOf(j, p)' = Given(j) + (IF p \in A THEN 1 ELSE 0)
      <4>1. ASSUME NEW p \in Fed(j), p = n PROVE FeedsOf(j, p)' = Given(j) + 1
        BY <1>3, <1>5, <1>7, <1>9, <2>2, <4>1
      <4>2. ASSUME NEW p \in Fed(j), p # n PROVE FeedsOf(j, p)' = FeedsOf(j, p)
        BY <1>3, <2>2, <4>2
      <4> QED BY <1>5, <4>1, <4>2
    <3>3. \A p \in Others(j) \ Fed(j) : /\ p \in A <=> FeedsOf(j, p)' > 0
                                        /\ Given(j) > 0 => p \in A
      <4>1. FeedsOf(j, n)' > 0
        BY <1>3, <2>2
      <4>2. \A p : p # n => FeedsOf(j, p)' = FeedsOf(j, p)
        BY <1>3, <2>2
      <4> QED BY <1>5, <4>1, <4>2
    <3> QED BY <2>1, <2>5, <3>1, <3>2, <3>3
  <2>6. CASE Others(j) \subseteq A
    <3>1. arrivals'[j] = Consumed(j, A) /\ Given(j)' = Given(j) + 1
      <4>1. arrivals'[j] = Consumed(j, A) /\ Len(triggers'[j]) = Len(triggers[j]) + 1
        BY <2>3, <2>4, <2>6
      <4>2. \A a, b \in Nat : a + (b + 1) = a + b + 1
        OBVIOUS
      <4> QED BY <1>6, <1>7, <1>8, <4>1, <4>2
    <3>2. \A p \in Fed(j) : p \notin arrivals'[j] /\ FeedsOf(j, p)' = Given(j) + 1
      <4>1. \A p \in Fed(j) : p \notin arrivals'[j] /\ p \in A
        BY <1>10, <2>6, <3>1 DEF Consumed, Fed
      <4>2. ASSUME NEW p \in Fed(j), p = n PROVE FeedsOf(j, p)' = Given(j) + 1
        BY <1>3, <1>5, <1>7, <1>9, <2>2, <4>2
      <4>3. ASSUME NEW p \in Fed(j), p # n PROVE FeedsOf(j, p)' = Given(j) + 1
        BY <1>3, <1>5, <2>2, <4>1, <4>3
      <4> QED BY <4>1, <4>2, <4>3
    <3>3. \A p \in Others(j) \ Fed(j) : p \in arrivals'[j] /\ FeedsOf(j, p)' > 0
      <4>1. \A p \in Others(j) \ Fed(j) : p \in arrivals'[j] /\ p \in A
        <5>1. ASSUME NEW p \in Others(j), p \notin Fed(j) PROVE OnCycle(j)
          BY <5>1 DEF Fed, Others
        <5>2. OnCycle(j) => arrivals'[j] = A \ Fed(j)
          BY <3>1 DEF Consumed, Fed
        <5> QED BY <2>6, <5>1, <5>2
      <4>2. FeedsOf(j, n)' > 0
        BY <1>3, <2>2
      <4>3. ASSUME NEW p \in Others(j) \ Fed(j), p # n PROVE FeedsOf(j, p)' > 0
        BY <1>3, <1>5, <2>2, <4>1, <4>3
      <4> QED BY <4>1, <4>2, <4>3
    <3>4. \E p \in Others(j) : p \notin arrivals'[j]
      <4>1. CASE OnCycle(j)
        BY <1>10, <3>2, <4>1, FedOnCycle
      <4>2. CASE ~OnCycle(j)
        BY <2>1, <3>1, <4>2 DEF Consumed
      <4> QED BY <4>1, <4>2
    <3>5. Given(j)' = Given(j)' + 0
      BY <1>7, <3>1
    <3> QED BY <2>1, <3>1, <3>2, <3>3, <3>4, <3>5
  <2> QED BY <2>5, <2>6
<1> QED BY <1>11, <1>12

(* The buffer is given what the events make due.                           *)
LEMMA HandleKeepsWalk ==
  ASSUME Steady, IInv, WalkInv, JoinsKeepUp, NEW n \in Node, Handle(n) PROVE WalkInv'
<1> DEFINE r == KeyOf(n)
           route == outcome[n].route
<1>1. /\ pc' = pc /\ pc \in {"handle", "drain"} /\ task[n] = "done" /\ n \in ToSet(pending)
      /\ outcome[n] \in Outcome /\ ToSet(pending') = ToSet(pending) \ {n}
      /\ replayed' = replayed \ {n}
      /\ status'[n] = StatusOf(n, outcome[n]) /\ task'[n] = "none"
      /\ \A m \in Node \ {n} : status'[m] = status[m] /\ task'[m] = task[m]
      /\ error' = (error \/ status'[n] = "FAILED")
      /\ sequence' = sequence /\ runs' = runs /\ outcome' = outcome /\ finished' = finished
      /\ \A m : KeyOf(m)' = KeyOf(m)
      /\ r \in Run /\ r.node = n /\ r.run = runs[n] /\ runs[n] \in 1..MaxRuns
      /\ Started' = Started /\ r \in Started /\ r \notin Handled /\ Handled' = Handled \cup {r}
  BY HandleIs
<1>2. IF status'[n] = "COMPLETED" THEN \E stat : stat = status' /\ Buffer(n, route, stat)
      ELSE UNCHANGED <<order, triggers, arrivals>>
  BY HandleIs
<1>3. /\ Grows(r)
      /\ \A i \in DOMAIN session' \ DOMAIN session :
           i = Now /\ Echoed(n) /\ session'[i] = Echo(n)
  BY HandleAdds
<1>4. Echoed(n) => ~Silent(r)
  BY <1>1, RecoveredRoute DEF Echoed, WalkInv, Outcomes
<1>5. /\ EventsKnown' /\ Justified' /\ Placed'
      /\ \A K \in SUBSET Run : Walked(session', Now', K) => Started \subseteq K
  <2>1. \A i \in DOMAIN session' \ DOMAIN session :
          /\ i = Now /\ (Silent(r) => session'[i].kind = "error")
          /\ session'[i].kind # "result" => session'[i].route = NoRoute
    BY <1>3, <1>4 DEF Echo
  <2> HIDE DEF r
  <2> QED BY <1>1, <1>3, <2>1, GrowsKeepsWalk
<1>6. Reached'
  BY <1>1, <1>5 DEF Reached
<1>7. \A m \in Node \ {n} : KeyOf(m) # r
  BY KeysAre
<1>8. outcome[n].kind = "error" <=> status'[n] = "FAILED"
  BY <1>1 DEF StatusOf
<1>9. outcome[n].kind # "error" => (OverBy(session', Now', r) <=> status'[n] # "INTERRUPTED")
  BY HandledLeads
<1>10. \A k : /\ OverBy(session, Now, k) => OverBy(session', Now', k)
              /\ k # r => (OverBy(session', Now', k) <=> OverBy(session, Now, k))
  BY <1>3, GrowsKeeps
<1>11. HandledOver'
  <2> SUFFICES ASSUME ~error', NEW k \in Handled \cup {r}
               PROVE  \/ OverBy(session', Now', k)
                      \/ k = KeyOf(k.node) /\ status'[k.node] = "INTERRUPTED"
    BY <1>1 DEF HandledOver
  <2>1. ~error /\ outcome[n].kind # "error"
    BY <1>1, <1>8
  <2>2. CASE k = r
    BY <1>1, <1>9, <2>1, <2>2
  <2>3. CASE k \in Handled
    <3>1. k.node \in Node /\ k # r
      BY <1>1, <2>3 DEF Handled, Started, Run
    <3>2. OverBy(session, Now, k) \/ (k = KeyOf(k.node) /\ status[k.node] = "INTERRUPTED")
      BY <2>1, <2>3 DEF WalkInv, HandledOver
    <3> QED BY <1>1, <1>10, <3>1, <3>2
  <2> QED BY <2>2, <2>3
<1>12. Asked'
  <2> SUFFICES ASSUME NEW m \in Node, status'[m] = "INTERRUPTED"
               PROVE  runs[m] >= 1 /\ ~OverBy(session', Now', KeyOf(m))
    BY <1>1 DEF Asked
  <2>1. CASE m = n
    BY <1>1, <1>8, <1>9, <2>1
  <2>2. CASE m # n
    <3>1. status[m] = "INTERRUPTED" /\ KeyOf(m) # r
      BY <1>1, <1>7, <2>2
    <3> QED BY <1>10, <3>1 DEF WalkInv, Asked
  <2> QED BY <2>1, <2>2
<1>13. Counted'
  <2> SUFFICES ASSUME ~error', NEW t \in Node \ Join PROVE Given(t)' = Seed(t) + Feeds(t)'
    BY DEF Counted
  <2>1. ~error /\ outcome[n].kind # "error"
    BY <1>1, <1>8
  <2>2. Feeds(t) \in Nat /\ Feeds(t)' = Feeds(t) + (IF LedTo(n, t) THEN 1 ELSE 0)
    BY <2>1, FeedsMove
  <2>3. Given(t) = Seed(t) + Feeds(t)
    BY <2>1 DEF WalkInv, Counted
  <2>4. Len(triggers'[t]) = Len(triggers[t]) + (IF LedTo(n, t) THEN 1 ELSE 0)
    <3>0. Len(triggers[t]) \in Nat
      <4>1. triggers[t] \in Seq(SUBSET Key)
        BY DEF IInv, TypeOK
      <4> QED BY <4>1
    <3>1. CASE status'[n] = "COMPLETED"
      <4>1. LedTo(n, t) <=> t \in ToSet(NextNodes[n][route])
        BY <3>1 DEF LedTo
      <4>2. PICK stat : Buffer(n, route, stat)
        BY <1>2, <3>1
      <4>3. route \in Routes
        BY <1>1 DEF Outcome
      <4> HIDE DEF route
      <4>4. \A u \in Node \ Join :
              Len(triggers'[u]) = Len(triggers[u])
                                  + (IF u \in ToSet(NextNodes[n][route]) THEN 1 ELSE 0)
        BY <4>2, <4>3, BufferFeeds
      <4> QED BY <4>1, <4>4
    <3>2. CASE status'[n] # "COMPLETED"
      <4>1. triggers' = triggers /\ ~LedTo(n, t)
        BY <1>2, <3>2 DEF LedTo
      <4> QED BY <3>0, <4>1
    <3> QED BY <3>1, <3>2
  <2> DEFINE a == Len(triggers[t])
             d == IF LedTo(n, t) THEN 1 ELSE 0
  <2>5. runs[t] \in Nat /\ a \in Nat /\ d \in Nat /\ Seed(t) \in Nat
    <3>1. triggers[t] \in Seq(SUBSET Key) /\ runs[t] \in Nat
      BY DEF IInv, TypeOK
    <3> QED BY <3>1 DEF Seed
  <2>6. Given(t)' = runs[t] + (a + d) /\ Given(t) = runs[t] + a
    BY <1>1, <2>4 DEF Given
  <2>7. Feeds(t)' = Feeds(t) + d
    BY <2>2
  <2> HIDE DEF a, d
  <2> QED BY <2>2, <2>3, <2>5, <2>6, <2>7
<1>14. JoinsCounted'
  <2> SUFFICES ASSUME ~error', NEW j \in Join
      PROVE  /\ Others(j) = {} => Given(j)' = Seed(j)
             /\ \A p \in Fed(j) :
                  FeedsOf(j, p)' = Given(j)' + (IF p \in arrivals'[j] THEN 1 ELSE 0)
             /\ \A p \in Others(j) \ Fed(j) : /\ p \in arrivals'[j] <=> FeedsOf(j, p)' > 0
                                              /\ Given(j)' > 0 => p \in arrivals'[j]
             /\ Others(j) # {} => \E p \in Others(j) : p \notin arrivals'[j]
    BY DEF JoinsCounted
  <2> QED BY HandleKeepsJoin
<1>15. Arrived'
  <2> SUFFICES ASSUME NEW j \in Join, NEW p \in arrivals'[j]
               PROVE  p \in Others(j) /\ status'[p] = "COMPLETED"
    BY DEF Arrived
  <2>1. ASSUME p \in arrivals[j] PROVE p \in Others(j) /\ status'[p] = "COMPLETED"
    <3>1. p \in Node /\ p # n
      BY <1>1, <2>1 DEF JoinsKeepUp, IInv, TypeOK
    <3> QED BY <1>1, <2>1, <3>1 DEF WalkInv, Arrived
  <2>2. ASSUME p \notin arrivals[j] PROVE p = n /\ status'[n] = "COMPLETED" /\ n \in Others(j)
    <3>1. status'[n] = "COMPLETED"
      BY <1>2, <2>2
    <3>2. PICK stat : Buffer(n, route, stat)
      BY <1>2, <3>1
    <3>3. route \in Routes
      BY <1>1 DEF Outcome
    <3> HIDE DEF route
    <3>4. \A i \in Join : i \notin ToSet(NextNodes[n][route]) =>
            arrivals'[i] = arrivals[i] /\ Len(triggers'[i]) = Len(triggers[i])
      BY <3>2, <3>3, BufferFeeds
    <3>5. \A i \in Join : i \in ToSet(NextNodes[n][route]) =>
            IF Fires(i, arrivals[i] \cup {n}, stat)
            THEN /\ arrivals'[i] = Consumed(i, arrivals[i] \cup {n})
                 /\ Len(triggers'[i]) = Len(triggers[i]) + 1
            ELSE arrivals'[i] = arrivals[i] \cup {n} /\ Len(triggers'[i]) = Len(triggers[i])
      BY <3>2, <3>3, BufferFeeds
    <3>6. j \in ToSet(NextNodes[n][route]) /\ arrivals'[j] \subseteq arrivals[j] \cup {n}
      BY <2>2, <3>4, <3>5 DEF Consumed
    <3>7. n \in Others(j)
      BY <3>3, <3>6, NextArePreceded, GraphAssumption DEF Others
    <3> QED BY <2>2, <3>1, <3>6, <3>7
  <2> QED BY <2>1, <2>2
<1>16. AllQueued'
  <2>0. AllQueued
    BY DEF WalkInv
  <2>1. CASE status'[n] = "COMPLETED"
    <3>1. PICK stat : Buffer(n, route, stat)
      BY <1>2, <2>1
    <3>2. route \in Routes
      BY <1>1 DEF Outcome
    <3> HIDE DEF route
    <3> QED BY <2>0, <3>1, <3>2, BufferFeeds
  <2>2. CASE status'[n] # "COMPLETED"
    BY <1>2, <2>0, <2>2 DEF AllQueued
  <2> QED BY <2>1, <2>2
<1>17. Exhausted' /\ Clean'
  BY <1>1 DEF Exhausted, Clean
<1>18. Ended'
  <2>1. r \in finished
    BY <1>1 DEF WalkInv, Ended
  <2>2. \A m \in Node : task'[m] = "done" => KeyOf(m) \in finished
    BY <1>1 DEF WalkInv, Ended
  <2> QED BY <1>1, <2>1, <2>2 DEF WalkInv, Ended
<1>19. Outcomes'
  <2> SUFFICES ASSUME TRUE PROVE
      \A m \in Node :
        /\ task'[m] = "held" => m \in replayed'
        /\ task'[m] \in {"held", "done"} /\ m \in replayed' =>
             Replays(KeyOf(m))' /\ outcome[m] = Recovered(KeyOf(m))'
        /\ task'[m] \in {"recorded", "done"} /\ m \notin replayed' =>
             /\ outcome[m] \in Does[m][runs[m]]
             /\ IF outcome[m].kind = "result"
                THEN \E i \in DOMAIN session' : /\ session'[i].key = KeyOf(m)
                                                /\ session'[i].kind = "result"
                                                /\ session'[i].route = outcome[m].route
                ELSE \A i \in DOMAIN session' : session'[i].key = KeyOf(m)
                                                => session'[i].kind # "result"
    BY <1>1 DEF Outcomes
  <2> TAKE m \in Node
  <2>1. CASE m = n
    BY <1>1, <2>1
  <2>2. CASE m # n
    <3>1. /\ task'[m] = task[m] /\ KeyOf(m) # r /\ KeyOf(m)' = KeyOf(m)
          /\ m \in replayed' <=> m \in replayed
      BY <1>1, <1>7, <2>2
    <3>2. Replays(KeyOf(m))' = Replays(KeyOf(m)) /\ Recovered(KeyOf(m))' = Recovered(KeyOf(m))
      <4> HIDE DEF r
      <4> QED BY <1>3, <3>1, GrowsKeepsRuns
    <3>3. \A i \in DOMAIN session' : session'[i].key = KeyOf(m)
            => i \in DOMAIN session /\ session'[i] = session[i]
      BY <1>3, <3>1 DEF Grows
    <3>4. \A i \in DOMAIN session : i \in DOMAIN session' /\ session'[i] = session[i]
      BY <1>3 DEF Grows
    <3> QED BY <3>1, <3>2, <3>3, <3>4 DEF WalkInv, Outcomes
  <2> QED BY <2>1, <2>2
<1> QED BY <1>5, <1>6, <1>11, <1>12, <1>13, <1>14, <1>15, <1>16, <1>17, <1>18, <1>19 DEF WalkInv

-----------------------------------------------------------------------------
(* Every step keeps to the walk.                                           *)

LEMMA FinalizeKeepsWalk == ASSUME WalkInv, Finalize PROVE WalkInv'
<1>1. CASE ~aborted /\ Waiting = {} /\ Cardinality(TerminalOutputs) =< 1
  <2>1. /\ pc = "leave" /\ pc' = "completed" /\ error' = error
        /\ UNCHANGED <<session, sequence, order, triggers, arrivals, runs, status, pending,
                       replayed, task, outcome, finished>>
    BY <1>1 DEF Finalize, loopVars, taskVars
  <2> QED BY <2>1, MovesKeepWalk
<1>2. CASE ~(~aborted /\ Waiting = {} /\ Cardinality(TerminalOutputs) =< 1)
  <2>1. PICK how \in {"aborted", "interrupted", "failed"} : Return(how)
    BY <1>2 DEF Finalize
  <2>2. how \in Over \ {"completed"}
    BY DEF Over
  <2> QED BY <2>1, <2>2, ReturnKeepsWalk
<1> QED BY <1>1, <1>2

LEMMA TaskStepKeepsWalk ==
  ASSUME Steady, IInv, WalkInv, NEW n \in Node, TaskStep(n) PROVE WalkInv'
<1>1. CASE Execute(n)
  BY <1>1, ExecuteKeepsWalk
<1>2. CASE Finish(n) \/ Replay(n)
  BY <1>2, TaskEndKeepsWalk DEF Finish, Replay
<1>3. CASE TimeOut(n)
  BY <1>3, TaskEndKeepsWalk DEF TimeOut
<1> QED BY <1>1, <1>2, <1>3 DEF TaskStep

LEMMA StepKeepsWalk ==
  ASSUME Steady, TaskAgent = {}, IInv, WalkInv, JoinsKeepUp, JoinsKeepUp', [Next]_vars
  PROVE  WalkInv'
<1>1. CASE Schedule
  BY <1>1, ScheduleKeepsWalk
<1>2. CASE \E n \in Node : Handle(n)
  BY <1>2, HandleKeepsWalk
<1>3. CASE Wake \/ Drain \/ SeeAbort \/ Abort \/ UNCHANGED vars \/ \E n \in Node : HandleRaised(n)
  <2>1. /\ error => error'
        /\ UNCHANGED <<session, sequence, order, triggers, arrivals, runs, status, pending,
                       replayed, task, outcome, finished>>
    BY <1>3 DEF Wake, Drain, SeeAbort, Abort, HandleRaised, vars, loopVars, taskVars
  <2>2. /\ pc' = "wait" => pc = "wait"
        /\ pc' \in {"wait", "leave", "completed"} =>
             pc \in {"wait", "leave", "completed"} /\ error' = error
    BY <1>3 DEF Wake, Drain, SeeAbort, Abort, HandleRaised, vars
  <2> QED BY <2>1, <2>2, MovesKeepWalk
<1>4. CASE Cleanup
  <2>1. (IF error THEN "failed" ELSE "aborted") \in Over \ {"completed"}
    BY DEF Over
  <2> QED BY <1>4, <2>1, ReturnKeepsWalk DEF Cleanup
<1>5. CASE Finalize
  BY <1>5, FinalizeKeepsWalk
<1>6. CASE \E n \in Node : TaskStep(n)
  BY <1>6, TaskStepKeepsWalk
<1>7. CASE Resume
  BY <1>7, ResumeKeepsWalk
<1>8. CASE Crash
  <2>1. "crashed" \in Over \ {"completed"}
    BY DEF Over
  <2> QED BY <1>8, <2>1, ReturnKeepsWalk DEF Crash
<1> QED BY <1>1, <1>2, <1>3, <1>4, <1>5, <1>6, <1>7, <1>8 DEF Next, Loop

(* Every turn walks the graph the way the events tell, as long as no join  *)
(* is overtaken by a predecessor.                                          *)
LEMMA WalkedAgain ==
  ASSUME Steady, TaskAgent = {} PROVE Spec /\ []JoinsKeepUp => []WalkInv
<1>1. IInv /\ JoinsKeepUp /\ JoinsKeepUp' /\ WalkInv /\ [Next]_vars => WalkInv'
  BY StepKeepsWalk
<1> QED BY InitWalkInv, <1>1, InductiveInvariant, PTL DEF Spec

-----------------------------------------------------------------------------
(* Why a replay does not wait for ever, and an end leaves nothing open.    *)

(* The other way round: a run that is due has been given its trigger.      *)
LEMMA TriggeredIsGiven ==
  ASSUME IInv, WalkInv, ~error, NEW k \in Run, Triggered(session, Now, Handled, k)
  PROVE  k.run =< Given(k.node)
<1> DEFINE n == k.node
           g == Given(n)
<1>1. /\ n \in Node /\ k.run \in Nat /\ k.run >= 1 /\ g \in Nat
      /\ session \in Seq(SessionEvent) /\ Now \in 1..(Len(session) + 1)
      /\ Handled \in SUBSET Run
  <2>1. n \in Node /\ k.run \in 1..MaxRuns
    BY DEF Run
  <2>2. runs[n] \in Nat /\ triggers[n] \in Seq(SUBSET Key) /\ session \in Seq(SessionEvent)
    BY <2>1 DEF IInv, TypeOK
  <2>3. Len(triggers[n]) \in Nat /\ Len(session) \in Nat
    BY <2>2
  <2> QED BY <2>1, <2>2, <2>3 DEF Given, Now, Handled, Started
<1>2. Seed(n) \in Nat /\ (n \in Join /\ Others(n) # {} => Seed(n) = 0)
  BY <1>1, SeedIs
<1>3. Feeds(n) \in Nat /\ \A p : FeedsOf(n, p) \in Nat
  BY <1>1, FeedIs DEF Feeds, FeedsOf
<1> HIDE DEF g
<1>4. CASE n \notin Join
  <2>1. g = Seed(n) + Feeds(n)
    BY <1>1, <1>4 DEF WalkInv, Counted, g
  <2>2. k.run =< Seed(n) \/ k.run =< Seed(n) + Feeds(n)
    BY <1>4 DEF Triggered, Feeds
  <2>3. k.run =< g
    BY <1>1, <1>2, <1>3, <2>1, <2>2
  <2> QED BY <2>3 DEF g
<1>5. CASE n \in Join /\ Others(n) = {}
  <2>1. g = Seed(n)
    BY <1>5 DEF WalkInv, JoinsCounted, g
  <2>2. k.run =< Seed(n)
    BY <1>5 DEF Triggered
  <2> QED BY <2>1, <2>2 DEF g
<1>6. CASE n \in Join /\ Others(n) # {}
  <2>1. \A p \in Others(n) : Share(n, p, k.run) =< FeedsOf(n, p)
    BY <1>1, <1>2, <1>6 DEF Triggered, FeedsOf
  <2>2. PICK p \in Others(n) : p \notin arrivals[n]
    BY <1>6 DEF WalkInv, JoinsCounted
  <2>3. CASE p \in Fed(n)
    <3>1. FeedsOf(n, p) = g + 0
      BY <1>6, <2>2, <2>3 DEF WalkInv, JoinsCounted, g
    <3>2. Share(n, p, k.run) = k.run
      BY <2>3 DEF Share
    <3>3. k.run =< g
      BY <1>1, <2>1, <3>1, <3>2
    <3> QED BY <3>3 DEF g
  <2>4. CASE p \notin Fed(n)
    <3>1. ~(FeedsOf(n, p) > 0)
      BY <1>6, <2>2, <2>4 DEF WalkInv, JoinsCounted
    <3>2. Share(n, p, k.run) = 1
      BY <2>4 DEF Share
    <3> QED BY <1>3, <2>1, <3>1, <3>2
  <2> QED BY <2>3, <2>4
<1> QED BY <1>4, <1>5, <1>6

(* When nothing is left to start, the turn has come as far as the events   *)
(* before i lead, if it has gone through the runs that are over by then.   *)
LEMMA Rewalked ==
  ASSUME IInv, WalkInv, ~error, NEW i \in 1..Now,
         \A k \in Started : OverBy(session, i, k) => k \in Handled,
         \A n \in Node : triggers[n] # <<>> => ~Startable(n)
  PROVE  Walked(session, i, Started)
<1> SUFFICES ASSUME NEW k \in Run, Due(session, i, Started, k), k \notin Started PROVE FALSE
  BY DEF Walked
<1> DEFINE t == k.node
<1>1. /\ t \in Node /\ k.run \in Nat /\ k.run >= 1 /\ runs[t] \in Nat /\ runs[t] < k.run
      /\ k.run \in 1..MaxRuns
  <2>1. t \in Node /\ k.run \in 1..MaxRuns
    BY DEF Run
  <2>2. runs[t] \in Nat /\ ~(k.run =< runs[t])
    BY <2>1 DEF IInv, TypeOK, Started
  <2> QED BY <2>1, <2>2
<1>2. /\ session \in Seq(SessionEvent) /\ Len(session) \in Nat
      /\ i \in 1..(Len(session) + 1) /\ Now \in 1..(Len(session) + 1) /\ i =< Now
      /\ 1..(i - 1) \subseteq 1..(Now - 1) /\ Started \in SUBSET Run /\ Handled \in SUBSET Run
  <2>1. session \in Seq(SessionEvent)
    BY DEF IInv, TypeOK
  <2>2. Len(session) \in Nat
    BY <2>1
  <2> QED BY <2>1, <2>2 DEF Now, Started, Handled
<1>3. \A x : OverBy(session, i, x) => OverBy(session, Now, x)
  BY <1>2 DEF OverBy
<1>4. \A x : LeadsTo(session, i, x, t) => LeadsTo(session, Now, x, t)
  BY <1>2 DEF LeadsTo
<1>5. \A x \in Started : LeadsTo(session, i, x, t) => x \in Handled /\ LeadsTo(session, Now, x, t)
  <2>1. \A x \in Run : LeadsTo(session, i, x, t) => OverBy(session, i, x)
    BY <1>2, FeedIs
  <2> QED BY <1>2, <1>4, <2>1
<1>6. Triggered(session, Now, Handled, k)
  BY <1>2, <1>5, TriggeredGrows DEF Due
<1>7. k.run =< Given(t)
  BY <1>6, TriggeredIsGiven
<1>8. triggers[t] # <<>>
  <2>1. triggers[t] = <<>> => Given(t) = runs[t] + 0
    BY DEF Given
  <2> QED BY <1>1, <1>7, <2>1
<1>9. CASE runs[t] = 0
  <2>1. t \notin ToSet(pending) /\ status[t] # "RUNNING"
    BY <1>1, <1>9 DEF IInv, InFlight
  <2>2. status[t] # "INTERRUPTED"
    BY <1>1, <1>9 DEF WalkInv, Asked
  <2> QED BY <1>1, <1>8, <2>1, <2>2 DEF Startable
<1>10. CASE runs[t] # 0
  <2>1. k.run # 1
    BY <1>1, <1>10
  <2>2. Before(k) \in Started /\ OverBy(session, i, Before(k))
    BY <2>1 DEF Due
  <2>3. Before(k).node = t /\ Before(k).run = k.run - 1
    BY DEF Before
  <2>4. k.run - 1 =< runs[t]
    BY <2>2, <2>3 DEF Started
  <2>5. runs[t] = k.run - 1
    BY <1>1, <2>4
  <2>6. Before(k) = KeyOf(t) /\ Before(k) \in Handled
    BY <2>2, <2>5 DEF Before, KeyOf
  <2>7. t \notin ToSet(pending)
    BY <1>1, <2>3, <2>5, <2>6 DEF Handled
  <2>8. status[t] # "RUNNING"
    BY <1>1, <2>7 DEF IInv, InFlight
  <2>9. status[t] # "INTERRUPTED"
    BY <1>1, <1>3, <2>2, <2>6 DEF WalkInv, Asked
  <2> QED BY <1>1, <1>8, <2>7, <2>8, <2>9 DEF Startable
<1> QED BY <1>9, <1>10

(* The run that is first among those a barrier waits for executes: if none *)
(* did, the runs before it would have been gone through, and the turn      *)
(* would have come to it.                                                  *)
LEMMA TimeOutIsSlow == ASSUME IInv, WalkInv, NEW n \in Node, TimeOut(n) PROVE Running # {}
<1> SUFFICES ASSUME Running = {} PROVE FALSE
  OBVIOUS
<1> DEFINE S == {p.at : p \in {q \in sequence : q.key \notin finished}}
<1>1. \A m \in ToSet(pending) : m \in Node /\ task[m] = "held" /\ ~Released(KeyOf(m))
  <2>1. ToSet(pending) \subseteq Node
    <3>1. pending \in Seq(Node)
      BY DEF IInv, TypeOK
    <3> QED BY <3>1, Elements
  <2> QED BY <2>1 DEF TimeOut, Running
<1>2. pc = "wait" /\ ~error
  BY DEF TimeOut, WalkInv, Clean
<1>3. ~Released(KeyOf(n))
  BY DEF TimeOut
<1>4. DOMAIN session = 1..Len(session) /\ Len(session) \in Nat
  BY DEF IInv, TypeOK
<1>5. S \subseteq 1..Len(session) /\ S # {}
  BY <1>3, <1>4 DEF Released, WalkInv, Placed
<1>6. PICK i \in S : \A j \in S : i =< j
  BY <1>4, <1>5, LeastIs
<1>7. PICK q \in sequence : q.key \notin finished /\ q.at = i
  BY <1>6
<1>8. i \in 1..Len(session) /\ i \in 1..Now
  BY <1>4, <1>5, <1>6 DEF Now
<1>9. \A z \in sequence : z.at \in Nat /\ (z.at < i => z.key \in finished)
  <2> SUFFICES ASSUME NEW z \in sequence PROVE z.at \in Nat /\ (z.at < i => z.key \in finished)
    OBVIOUS
  <2>1. z.at \in DOMAIN session
    BY DEF WalkInv, Placed
  <2>2. z.key \notin finished => i =< z.at
    BY <1>6
  <2> QED BY <1>4, <1>8, <2>1, <2>2
<1> HIDE DEF S
<1>10. ASSUME NEW p \in sequence, p.at =< i PROVE Released(p.key)
  <2> SUFFICES ASSUME NEW x \in sequence, x.key = p.key, NEW z \in sequence, z.at < x.at
               PROVE  z.key \in finished
    BY DEF Released
  <2>1. x = p
    BY DEF IInv, OnePlace
  <2>2. z.at < i
    BY <1>8, <1>9, <1>10, <2>1
  <2> QED BY <1>9, <2>2
<1>11. ASSUME NEW k \in Started, k \notin Handled
       PROVE  k = KeyOf(k.node) /\ k.node \in ToSet(pending) /\ k.node \in Node
  <2>1. /\ k.node \in Node /\ k.run =< runs[k.node] /\ ~(k.run < runs[k.node])
        /\ k.node \in ToSet(pending) /\ k.run \in Nat /\ k = [node |-> k.node, run |-> k.run]
    BY <1>11 DEF Started, Handled, Run
  <2>2. runs[k.node] \in Nat
    BY <2>1 DEF IInv, TypeOK
  <2>3. k.run = runs[k.node]
    BY <2>1, <2>2
  <2> QED BY <2>1, <2>3 DEF KeyOf
<1>12. ASSUME NEW k \in Started, OverBy(session, i, k) PROVE k \in Handled
  <2> SUFFICES ASSUME k \notin Handled PROVE FALSE
    OBVIOUS
  <2>1. k = KeyOf(k.node) /\ k.node \in ToSet(pending) /\ k.node \in Node
    BY <1>11
  <2>2. ~Released(k)
    BY <1>1, <2>1
  <2>3. Replays(k)
    BY <1>1, <2>1 DEF WalkInv, Outcomes
  <2>4. ~Silent(k)
    BY <2>3, RecoveredRoute
  <2>5. PICK e \in 1..(i - 1) : session[e].key = k /\ session[e].kind = "result"
    BY <1>12, <2>4 DEF OverBy
  <2>6. PICK p \in sequence : p.at = e /\ p.key = k
    BY <1>7, <2>5 DEF WalkInv, Placed
  <2>7. p.at =< i
    BY <1>8, <2>6
  <2> QED BY <1>10, <2>2, <2>6, <2>7
<1>13. \A m \in Node : triggers[m] # <<>> => ~Startable(m)
  <2>1. ToSet(pending) \ replayed = {}
    BY <1>1 DEF WalkInv, Outcomes
  <2> QED BY <1>2, <2>1 DEF WalkInv, Exhausted
<1>14. Walked(session, i, Started)
  BY <1>2, <1>8, <1>12, <1>13, Rewalked
<1>15. q.key \in Started
  <2>1. /\ i \in DOMAIN session /\ session[i].key = q.key
        /\ session[i].kind \in {"result", "interrupt"}
    BY <1>7 DEF WalkInv, Placed
  <2>2. Started \in SUBSET Run
    BY DEF Started
  <2> QED BY <1>14, <2>1, <2>2 DEF WalkInv, Justified
<1>16. q.key \notin Handled
  BY <1>7 DEF WalkInv, Ended
<1>17. q.key = KeyOf(q.key.node) /\ q.key.node \in ToSet(pending)
  BY <1>11, <1>15, <1>16
<1>18. ~Released(q.key)
  BY <1>1, <1>17
<1> QED BY <1>7, <1>8, <1>10, <1>18

(* When no predecessor of a join runs again before the join has fired, a   *)
(* replayed run never waits for one that nothing will start: the loop that *)
(* fast-forwards and the barrier that holds it back                        *)
(* (ReplaySequenceBarrier.wait_for_turn) agree on what comes first.        *)
THEOREM NeverStuckIfJoinsKeepUp ==
  ASSUME Steady, TaskAgent = {} PROVE Spec /\ []JoinsKeepUp => []NeverStuck
<1>1. Init => NeverStuck
  BY DEF Init, NeverStuck
<1>2. IInv /\ WalkInv /\ NeverStuck /\ [Next]_vars => NeverStuck'
  <2> SUFFICES ASSUME IInv, WalkInv, NeverStuck, [Next]_vars PROVE NeverStuck'
    OBVIOUS
  <2>1. CASE \E n \in Node : TimeOut(n)
    BY <2>1, TimeOutIsSlow DEF TimeOut, NeverStuck
  <2>2. CASE ~\E n \in Node : TimeOut(n)
    <3>1. diverged' \in {diverged, "no"}
      BY <2>2 DEF Next, Loop, TaskStep, vars, Schedule, Wake, Handle, HandleRaised, Drain,
                  SeeAbort, Cleanup, Finalize, Execute, Finish, Replay, Resume, Abort, Crash,
                  Return, Fresh
    <3> QED BY <3>1 DEF NeverStuck
  <2> QED BY <2>1, <2>2
<1> QED BY <1>1, <1>2, InductiveInvariant, WalkedAgain, PTL DEF Spec

(* And a workflow that records its end (_finalize) leaves no trigger in    *)
(* the buffer and no question of its nodes open in the session.            *)
THEOREM DrainedIfJoinsKeepUp ==
  ASSUME Steady, TaskAgent = {} PROVE Spec /\ []JoinsKeepUp => []CompletedMeansDrained
<1>1. IInv /\ WalkInv => CompletedMeansDrained
  <2> SUFFICES ASSUME IInv, WalkInv, pc = "completed" PROVE order = <<>> /\ Open = {}
    BY DEF CompletedMeansDrained
  <2>1. order = <<>> /\ pending = <<>> /\ Waiting = {} /\ ~error
    BY DEF IInv, OutOfWork, WalkInv, Clean
  <2>2. \A n \in Node : triggers[n] = <<>>
    BY <2>1 DEF WalkInv, AllQueued, ToSet
  <2>3. Handled = Started
    BY <2>1 DEF Handled, ToSet
  <2> SUFFICES ASSUME NEW i \in Open PROVE FALSE
    BY <2>1
  <2> DEFINE k == session[i].key
  <2>4. /\ i \in DOMAIN session /\ session[i].kind = "interrupt" /\ i = Latest(EventsOf(k))
        /\ i \in EventsOf(k) /\ i \in 1..Now
    <3>1. DOMAIN session = 1..Len(session) /\ Len(session) \in Nat
      BY DEF IInv, TypeOK
    <3>2. i \in DOMAIN session /\ session[i].kind = "interrupt" /\ i = Latest(EventsOf(k))
      BY DEF Open
    <3>3. i \in 1..Now
      BY <3>1, <3>2 DEF Now
    <3> QED BY <3>2, <3>3 DEF EventsOf
  <2>5. Walked(session, i, Started)
    BY <2>1, <2>2, <2>3, <2>4, Rewalked
  <2>6. k \in Handled
    <3>1. Started \in SUBSET Run
      BY DEF Started
    <3> QED BY <2>3, <2>4, <2>5, <3>1 DEF WalkInv, Justified
  <2>7. OverBy(session, Now, k)
    <3>1. k.node \in Node
      BY <2>6 DEF Handled, Started, Run
    <3> QED BY <2>1, <2>6, <3>1 DEF WalkInv, HandledOver, Waiting
  <2>8. ~Silent(k)
    BY <2>4 DEF WalkInv, EventsKnown
  <2>9. LastEvent(k) = "interrupt"
    BY <2>4 DEF LastEvent
  <2>10. PICK e \in 1..(Now - 1) : session[e].key = k /\ session[e].kind = "result"
    BY <2>7, <2>8 DEF OverBy
  <2>11. e \in DOMAIN session
    <3>1. DOMAIN session = 1..Len(session) /\ Len(session) \in Nat
      BY DEF IInv, TypeOK
    <3> QED BY <3>1 DEF Now
  <2> QED BY <2>9, <2>10, <2>11, ResultReplays
<1> QED BY <1>1, InductiveInvariant, WalkedAgain, PTL

-----------------------------------------------------------------------------
(* In which graphs the joins keep up.                                      *)

(* A node is given no more triggers than there are runs of the one it      *)
(* follows; so those around a join are at most one run ahead of it.        *)
GivenBy == ~error => \A t \in Node :
  /\ Others(t) = {} => Given(t) = Seed(t)
  /\ \A q \in Node : Follows(t, q) => Given(t) =< Seed(t) + runs[q]
Bounded == ~error => \A j \in Join : \A once, behind, ahead \in SUBSET Node :
  InStep(j, once, behind, ahead) =>
    /\ \A t \in once : Given(t) =< 1
    /\ \A t \in behind : Given(t) =< Given(j)
    /\ \A t \in ahead : Given(t) =< Given(j) + 1

(* A node feeds another at most once in each of its runs.                  *)
LEMMA FeedsAtMost ==
  ASSUME IInv, NEW q \in Node, NEW t
  PROVE  FeedsOf(t, q) \in Nat /\ FeedsOf(t, q) =< runs[q]
<1> DEFINE r == runs[q]
           R == {k \in Run : k.node = q /\ k.run =< r}
           D == {i \in 1..MaxRuns : i =< r}
           f == [i \in D |-> [node |-> q, run |-> i]]
<1>1. r \in Nat /\ MaxRuns \in Nat
  BY BoundsAssumption DEF IInv, TypeOK
<1>2. \A k \in R : k.run \in D /\ k = [node |-> q, run |-> k.run]
  BY DEF Run
<1>3. \A i \in D : f[i] \in R
  BY DEF Run
<1>4. \A k \in R : \E i \in D : f[i] = k
  <2> SUFFICES ASSUME NEW k \in R PROVE \E i \in D : f[i] = k
    OBVIOUS
  <2>1. k.run \in D /\ f[k.run] = [node |-> q, run |-> k.run]
    BY <1>2
  <2> QED BY <1>2, <2>1
<1>5. f \in Surjection(D, R)
  BY <1>3, <1>4 DEF Surjection
<1>6. D \in SUBSET (1..r) /\ IsFiniteSet(1..r) /\ Cardinality(1..r) = r
  <2>1. IsFiniteSet(1..r) /\ Cardinality(1..r) = r
    <3>1. /\ IsFiniteSet(1..r)
          /\ Cardinality(1..r) = IF 1 > r THEN 0 ELSE r - 1 + 1
      <4> HIDE DEF r
      <4> QED BY <1>1, FS_Interval
    <3> HIDE DEF r
    <3> QED BY <1>1, <3>1
  <2> QED BY <1>1, <2>1
<1> HIDE DEF D, f, r
<1>7. IsFiniteSet(D) /\ Cardinality(D) \in Nat /\ Cardinality(D) =< r
  BY <1>6, CardinalityGrows
<1> HIDE DEF R
<1>8. IsFiniteSet(R) /\ Cardinality(R) =< Cardinality(D)
  BY <1>5, <1>7, FS_Surjection
<1>9. FeedOf(session, Now, Handled, t, q) \in SUBSET R
  BY DEF FeedOf, Handled, Started, R, r
<1>10. FeedsOf(t, q) \in Nat /\ FeedsOf(t, q) =< Cardinality(R) /\ Cardinality(R) \in Nat
  BY <1>8, <1>9, CardinalityGrows DEF FeedsOf
<1> QED BY <1>1, <1>7, <1>8, <1>10 DEF r

LEMMA GivenByIs == IInv /\ WalkInv => GivenBy
<1> SUFFICES ASSUME IInv, WalkInv, ~error, NEW t \in Node
             PROVE  /\ Others(t) = {} => Given(t) = Seed(t)
                    /\ \A q \in Node : Follows(t, q) => Given(t) =< Seed(t) + runs[q]
  BY DEF GivenBy
<1>1. /\ session \in Seq(SessionEvent) /\ Now \in 1..(Len(session) + 1)
      /\ Handled \in SUBSET Run /\ Given(t) \in Nat /\ Seed(t) \in Nat
  <2>1. session \in Seq(SessionEvent) /\ runs[t] \in Nat /\ triggers[t] \in Seq(SUBSET Key)
    BY DEF IInv, TypeOK
  <2>2. Len(session) \in Nat /\ Len(triggers[t]) \in Nat
    BY <2>1
  <2> QED BY <2>1, <2>2 DEF Now, Given, Handled, Started, Seed
<1>2. \A k \in Feed(session, Now, Handled, t) : k.node \in Others(t) /\ k \in Handled
  <2>1. \A k \in Run : LeadsTo(session, Now, k, t) => k.node \in Predecessors(t)
    BY <1>1, FeedIs
  <2>2. \A k \in Run : k.node # Start
    BY GraphAssumption DEF Run
  <2> QED BY <1>1, <2>1, <2>2 DEF Feed, Others
<1>3. Others(t) = {} => Given(t) = Seed(t)
  <2> SUFFICES ASSUME Others(t) = {} PROVE Given(t) = Seed(t)
    OBVIOUS
  <2>1. CASE t \in Join
    BY <2>1 DEF WalkInv, JoinsCounted
  <2>2. CASE t \notin Join
    <3>1. Feeds(t) = 0
      <4>1. Feed(session, Now, Handled, t) = {}
        BY <1>2
      <4> QED BY <4>1, FS_EmptySet DEF Feeds
    <3>2. Given(t) = Seed(t) + Feeds(t)
      BY <2>2 DEF WalkInv, Counted
    <3> QED BY <1>1, <3>1, <3>2
  <2> QED BY <2>1, <2>2
<1>4. ASSUME NEW q \in Node, Follows(t, q) PROVE Given(t) =< Seed(t) + runs[q]
  <2>1. FeedsOf(t, q) \in Nat /\ FeedsOf(t, q) =< runs[q] /\ runs[q] \in Nat
    BY FeedsAtMost DEF IInv, TypeOK
  <2>2. CASE t \in Join
    <3>1. FeedsOf(t, q) = Given(t) + (IF q \in arrivals[t] THEN 1 ELSE 0)
      BY <1>4, <2>2 DEF WalkInv, JoinsCounted, Follows
    <3> QED BY <1>1, <2>1, <3>1
  <2>3. CASE t \notin Join
    <3>1. Others(t) = {q}
      BY <1>4, <2>3 DEF Follows
    <3>2. Feed(session, Now, Handled, t) = FeedOf(session, Now, Handled, t, q)
      BY <1>2, <3>1 DEF Feed, FeedOf
    <3>3. Given(t) = Seed(t) + FeedsOf(t, q)
      BY <2>3, <3>2 DEF WalkInv, Counted, Feeds, FeedsOf
    <3> QED BY <1>1, <2>1, <3>3
  <2> QED BY <2>2, <2>3
<1> QED BY <1>3, <1>4

LEMMA GivenByNext == ASSUME IInv', WalkInv' PROVE GivenBy'
BY GivenByIs, PTL

LEMMA GivenIsNat ==
  IInv => \A t \in Node : Given(t) \in Nat /\ runs[t] \in Nat /\ runs[t] =< Given(t)
<1> SUFFICES ASSUME IInv, NEW t \in Node
             PROVE  Given(t) \in Nat /\ runs[t] \in Nat /\ runs[t] =< Given(t)
  OBVIOUS
<1>1. runs[t] \in Nat /\ triggers[t] \in Seq(SUBSET Key)
  BY DEF IInv, TypeOK
<1>2. Len(triggers[t]) \in Nat
  BY <1>1
<1> QED BY <1>1, <1>2 DEF Given

(* A node that has arrived at a join has no trigger left.                  *)
LEMMA ArrivedRests ==
  ASSUME IInv, WalkInv, Bounded, ~error, LockStep, NEW j \in Join,
         NEW n \in arrivals[j]
  PROVE  triggers[n] = <<>>
<1> SUFFICES ASSUME triggers[n] # <<>> PROVE FALSE
  OBVIOUS
<1>1. PICK once, behind, ahead \in SUBSET Node : InStep(j, once, behind, ahead)
  BY DEF LockStep
<1>2. n \in Others(j) /\ n \in Node /\ j \in Node
  BY GraphAssumption DEF WalkInv, Arrived, IInv, TypeOK
<1>3. Given(n) \in Nat /\ Given(j) \in Nat /\ runs[n] \in Nat /\ Given(n) > runs[n]
  <2>1. triggers[n] \in Seq(SUBSET Key) /\ runs[n] \in Nat
    BY <1>2 DEF IInv, TypeOK
  <2>2. Len(triggers[n]) \in Nat /\ Len(triggers[n]) > 0
    BY <2>1
  <2>3. Given(j) \in Nat
    BY <1>2, GivenIsNat
  <2> QED BY <2>1, <2>2, <2>3 DEF Given
<1>4. FeedsOf(j, n) \in Nat /\ FeedsOf(j, n) =< runs[n]
  BY <1>2, FeedsAtMost
<1>5. CASE n \in Fed(j)
  <2>1. FeedsOf(j, n) = Given(j) + 1
    BY <1>5 DEF WalkInv, JoinsCounted
  <2>2. Given(n) =< Given(j) + 1
    BY <1>1, <1>5 DEF Bounded, InStep
  <2> QED BY <1>3, <1>4, <2>1, <2>2
<1>6. CASE n \notin Fed(j)
  <2>1. FeedsOf(j, n) > 0
    BY <1>2, <1>6 DEF WalkInv, JoinsCounted
  <2>2. n \in once
    BY <1>1, <1>2, <1>6 DEF InStep
  <2>3. Given(n) =< 1
    BY <1>1, <2>2 DEF Bounded
  <2> QED BY <1>3, <1>4, <2>1, <2>3
<1> QED BY <1>5, <1>6

LEMMA SameGivenKeepsBounded ==
  ASSUME Bounded, \A t \in Node : Given(t)' = Given(t), error => error' PROVE Bounded'
<1>1. Join \subseteq Node
  BY GraphAssumption
<1> QED BY <1>1 DEF Bounded

LEMMA FreshBounded == FreshTurn => Bounded /\ JoinsKeepUp
<1> SUFFICES ASSUME FreshTurn PROVE Bounded /\ JoinsKeepUp
  OBVIOUS
<1>1. JoinsKeepUp
  BY DEF FreshTurn, JoinsKeepUp
<1>2. \A t \in Node : Given(t) = Seed(t) /\ Seed(t) \in {0, 1}
  <2> SUFFICES ASSUME NEW t \in Node PROVE Given(t) = Seed(t) /\ Seed(t) \in {0, 1}
    OBVIOUS
  <2>1. triggers[t] = Seeds[t] /\ runs[t] = 0
    BY DEF FreshTurn, Each
  <2>2. Len(Seeds[t]) = Seed(t) /\ Seed(t) \in {0, 1}
    BY SeedIs DEF Seed
  <2> QED BY <2>1, <2>2 DEF Given
<1>3. Bounded
  <2> SUFFICES ASSUME NEW j \in Join, NEW once \in SUBSET Node, NEW behind \in SUBSET Node,
                      NEW ahead \in SUBSET Node, InStep(j, once, behind, ahead)
               PROVE  /\ \A t \in once : Given(t) =< 1
                      /\ \A t \in behind : Given(t) =< Given(j)
                      /\ \A t \in ahead : Given(t) =< Given(j) + 1
    BY DEF Bounded
  <2>1. j \in Node
    BY GraphAssumption
  <2>2. \A t \in behind : t = j \/ Seed(t) = 0
    BY DEF InStep
  <2> QED BY <1>2, <2>1, <2>2
<1> QED BY <1>1, <1>3

LEMMA FreshBoundedStep == ASSUME FreshTurn' PROVE Bounded' /\ JoinsKeepUp'
BY FreshBounded, PTL

(* The run that is handled may arrive at a join and give it a trigger.     *)
LEMMA HandleArrives ==
  ASSUME IInv, NEW n \in Node, Handle(n), NEW j \in Join
  PROVE  arrivals'[j] \subseteq arrivals[j] \cup {n} /\ Given(j) =< Given(j)'
<1> DEFINE route == outcome[n].route
<1>1. /\ outcome[n] \in Outcome /\ runs' = runs
      /\ IF status'[n] = "COMPLETED" THEN \E stat : stat = status' /\ Buffer(n, route, stat)
         ELSE UNCHANGED <<order, triggers, arrivals>>
  BY HandleIs
<1>2. runs[j] \in Nat /\ Len(triggers[j]) \in Nat
  <2>1. triggers[j] \in Seq(SUBSET Key) /\ runs[j] \in Nat
    BY GraphAssumption DEF IInv, TypeOK
  <2> QED BY <2>1
<1>3. /\ arrivals'[j] \subseteq arrivals[j] \cup {n}
      /\ Len(triggers'[j]) \in {Len(triggers[j]), Len(triggers[j]) + 1}
  <2>1. CASE status'[n] = "COMPLETED"
    <3>1. PICK stat : Buffer(n, route, stat)
      BY <1>1, <2>1
    <3>2. route \in Routes
      BY <1>1 DEF Outcome
    <3> HIDE DEF route
    <3>3. \A i \in Join : i \notin ToSet(NextNodes[n][route]) =>
            arrivals'[i] = arrivals[i] /\ Len(triggers'[i]) = Len(triggers[i])
      BY <3>1, <3>2, BufferFeeds
    <3>4. \A i \in Join : i \in ToSet(NextNodes[n][route]) =>
            IF Fires(i, arrivals[i] \cup {n}, stat)
            THEN /\ arrivals'[i] = Consumed(i, arrivals[i] \cup {n})
                 /\ Len(triggers'[i]) = Len(triggers[i]) + 1
            ELSE arrivals'[i] = arrivals[i] \cup {n} /\ Len(triggers'[i]) = Len(triggers[i])
      BY <3>1, <3>2, BufferFeeds
    <3> QED BY <3>3, <3>4 DEF Consumed
  <2>2. CASE status'[n] # "COMPLETED"
    BY <1>1, <2>2
  <2> QED BY <2>1, <2>2
<1> QED BY <1>1, <1>2, <1>3 DEF Given

(* One more run of a node lets those that follow it have one more.         *)
LEMMA HandleKeepsBounded ==
  ASSUME IInv, IInv', WalkInv', Bounded, NEW n \in Node, Handle(n) PROVE Bounded'
<1> SUFFICES ASSUME ~error', NEW j \in Join, NEW once \in SUBSET Node, NEW behind \in SUBSET Node,
                    NEW ahead \in SUBSET Node, InStep(j, once, behind, ahead)
             PROVE  /\ \A t \in once : Given(t)' =< 1
                    /\ \A t \in behind : Given(t)' =< Given(j)'
                    /\ \A t \in ahead : Given(t)' =< Given(j)' + 1
  BY DEF Bounded
<1>1. ~error /\ runs' = runs /\ j \in Node
  BY HandleIs, GraphAssumption
<1>2. GivenBy'
  BY GivenByNext
<1>3. \A t \in Node : Given(t) \in Nat /\ runs[t] \in Nat /\ runs[t] =< Given(t)
  BY GivenIsNat
<1>4. \A t \in Node : Given(t)' \in Nat
  <2>1. (\A t \in Node : Given(t) \in Nat /\ runs[t] \in Nat /\ runs[t] =< Given(t))'
    BY GivenIsNat, PTL
  <2> QED BY <2>1
<1>5. /\ \A t \in once : Given(t) =< 1
      /\ \A t \in behind : Given(t) =< Given(j)
      /\ \A t \in ahead : Given(t) =< Given(j) + 1
  BY <1>1 DEF Bounded
<1>6. Given(j) =< Given(j)'
  BY HandleArrives
<1>7. \A t \in Node : /\ Others(t) = {} => Given(t)' = Seed(t)
                      /\ \A q \in Node : Follows(t, q) => Given(t)' =< Seed(t) + Given(q)
  <2> SUFFICES ASSUME NEW t \in Node
               PROVE  /\ Others(t) = {} => Given(t)' = Seed(t)
                      /\ \A q \in Node : Follows(t, q) => Given(t)' =< Seed(t) + Given(q)
    OBVIOUS
  <2>1. Others(t) = {} => Given(t)' = Seed(t)
    BY <1>2 DEF GivenBy
  <2>2. ASSUME NEW q \in Node, Follows(t, q) PROVE Given(t)' =< Seed(t) + Given(q)
    <3>1. Given(t)' =< Seed(t) + runs[q]
      BY <1>1, <1>2, <2>2 DEF GivenBy
    <3>2. Seed(t) \in Nat
      BY DEF Seed
    <3> QED BY <1>3, <1>4, <3>1, <3>2
  <2> QED BY <2>1, <2>2
<1>8. \A t : Seed(t) \in {0, 1}
  BY DEF Seed
<1>9. ASSUME NEW t \in once PROVE Given(t)' =< 1
  <2>1. CASE Others(t) = {}
    BY <1>7, <1>8, <2>1
  <2>2. CASE Others(t) # {}
    <3>1. PICK q \in once : Seed(t) = 0 /\ Follows(t, q)
      BY <2>2 DEF InStep
    <3>2. Given(t)' =< 0 + Given(q) /\ Given(q) =< 1
      BY <1>5, <1>7, <3>1
    <3> QED BY <1>3, <1>4, <3>2
  <2> QED BY <2>1, <2>2
<1>10. ASSUME NEW t \in behind PROVE Given(t)' =< Given(j)'
  <2>1. CASE t = j
    BY <1>1, <1>4, <2>1
  <2>2. CASE t # j
    <3>1. PICK q \in behind : Seed(t) = 0 /\ Follows(t, q)
      BY <2>2 DEF InStep
    <3>2. Given(t)' =< 0 + Given(q) /\ Given(q) =< Given(j)
      BY <1>5, <1>7, <3>1
    <3> QED BY <1>1, <1>3, <1>4, <1>6, <3>2
  <2> QED BY <2>1, <2>2
<1>11. ASSUME NEW t \in ahead PROVE Given(t)' =< Given(j)' + 1
  <2>1. CASE Others(t) = {}
    <3>1. Given(t)' =< 1
      BY <1>7, <1>8, <2>1
    <3> QED BY <1>1, <1>4, <3>1
  <2>2. CASE Seed(t) = 0 /\ \E q \in ahead : Follows(t, q)
    <3>1. PICK q \in ahead : Follows(t, q)
      BY <2>2
    <3>2. Given(t)' =< 0 + Given(q) /\ Given(q) =< Given(j) + 1
      BY <1>5, <1>7, <2>2, <3>1
    <3> QED BY <1>1, <1>3, <1>4, <1>6, <3>2
  <2>3. CASE \E q \in behind : Follows(t, q)
    <3>1. PICK q \in behind : Follows(t, q)
      BY <2>3
    <3>2. Given(t)' =< Seed(t) + Given(q) /\ Given(q) =< Given(j)
      BY <1>5, <1>7, <3>1
    <3> QED BY <1>1, <1>3, <1>4, <1>6, <1>8, <3>2
  <2> QED BY <2>1, <2>2, <2>3 DEF InStep
<1> QED BY <1>9, <1>10, <1>11

(* What is started has a trigger, and what has arrived has none.           *)
LEMMA ScheduleKeepsUp ==
  ASSUME IInv, WalkInv, Bounded, JoinsKeepUp, LockStep, Schedule PROVE JoinsKeepUp'
<1> SUFFICES ASSUME NEW j \in Join, NEW n \in arrivals'[j], n \in ToSet(pending') PROVE FALSE
  BY DEF JoinsKeepUp
<1>1. /\ arrivals' = arrivals /\ ToSet(pending') = ToSet(pending) \cup ToStart
      /\ \A m \in ToStart : triggers[m] # <<>>
  BY ScheduleStarts DEF Starts
<1>2. triggers[n] = <<>>
  BY <1>1, ArrivedRests DEF Schedule
<1> QED BY <1>1, <1>2 DEF JoinsKeepUp

LEMMA HandleKeepsUp ==
  ASSUME IInv, JoinsKeepUp, NEW n \in Node, Handle(n) PROVE JoinsKeepUp'
BY HandleIs, HandleArrives DEF JoinsKeepUp

(* The steps but those of Schedule and Handle.                             *)
LEMMA OtherStepsKeepUp ==
  ASSUME Bounded, JoinsKeepUp, [Next]_vars, ~Schedule, ~\E n \in Node : Handle(n)
  PROVE  Bounded' /\ JoinsKeepUp'
<1>1. FreshTurn' \/ (UNCHANGED <<runs, triggers, arrivals, pending>> /\ (error => error'))
  <2>1. CASE Cleanup \/ Resume \/ Crash
    BY <2>1 DEF Cleanup, Resume, Crash, Return, Fresh, FreshTurn
  <2>2. CASE Finalize
    BY <2>2 DEF Finalize, Return, Fresh, FreshTurn, loopVars
  <2>3. CASE Wake \/ Drain \/ SeeAbort \/ Abort \/ UNCHANGED vars \/ \E n \in Node : HandleRaised(n)
    BY <2>3 DEF Wake, Drain, SeeAbort, Abort, HandleRaised, vars, loopVars
  <2>4. CASE \E n \in Node : TaskStep(n)
    BY <2>4 DEF TaskStep, Execute, Finish, Replay, TimeOut, loopVars
  <2> QED BY <2>1, <2>2, <2>3, <2>4 DEF Next, Loop
<1>2. CASE FreshTurn'
  BY <1>2, FreshBoundedStep
<1>3. CASE UNCHANGED <<runs, triggers, arrivals, pending>> /\ (error => error')
  <2>1. \A t \in Node : Given(t)' = Given(t)
    BY <1>3 DEF Given
  <2> QED BY <1>3, <2>1, SameGivenKeepsBounded DEF JoinsKeepUp
<1> QED BY <1>1, <1>2, <1>3

LEMMA StepKeepsUp ==
  ASSUME Steady, TaskAgent = {}, LockStep, IInv, IInv', WalkInv, Bounded, JoinsKeepUp, [Next]_vars
  PROVE  WalkInv' /\ Bounded' /\ JoinsKeepUp'
<1>1. JoinsKeepUp'
  BY ScheduleKeepsUp, HandleKeepsUp, OtherStepsKeepUp
<1>2. WalkInv'
  BY <1>1, StepKeepsWalk
<1>3. Bounded'
  <2>1. CASE Schedule
    <3>1. error' = error
      BY <2>1 DEF Schedule
    <3> QED BY <2>1, <3>1, StartsKeepGiven, SameGivenKeepsBounded
  <2>2. CASE \E n \in Node : Handle(n)
    BY <1>2, <2>2, HandleKeepsBounded
  <2>3. CASE ~Schedule /\ ~\E n \in Node : Handle(n)
    BY <2>3, OtherStepsKeepUp
  <2> QED BY <2>1, <2>2, <2>3
<1> QED BY <1>1, <1>2, <1>3

(* Where what a join waits for follows the join itself around its loop, or *)
(* runs once, none of it is started again (_schedule_ready_nodes) between  *)
(* its arrival at the join and the join's firing.                          *)
THEOREM JoinsKeepUpHolds ==
  ASSUME Steady, TaskAgent = {}, LockStep PROVE Spec => []JoinsKeepUp
<1>1. Init => Bounded /\ JoinsKeepUp
  <2>1. Init => FreshTurn
    BY DEF Init, FreshTurn
  <2> QED BY <2>1, FreshBounded
<1>2. IInv /\ IInv' /\ WalkInv /\ Bounded /\ JoinsKeepUp /\ [Next]_vars
      => WalkInv' /\ Bounded' /\ JoinsKeepUp'
  BY StepKeepsUp
<1> QED BY <1>1, <1>2, InitWalkInv, InductiveInvariant, PTL DEF Spec

(* In such a graph, of any size and over any number of turns, crashes,     *)
(* aborts and answers, no replay waits at the barrier for a run that       *)
(* nothing will start.                                                     *)
THEOREM NeverStuckHolds ==
  ASSUME Steady, TaskAgent = {}, LockStep PROVE Spec => []NeverStuck
BY JoinsKeepUpHolds, NeverStuckIfJoinsKeepUp, PTL

(* And in such a graph the end-of-agent marker is not written while a      *)
(* trigger or an interrupt of the invocation is open.                      *)
THEOREM CompletedMeansDrainedHolds ==
  ASSUME Steady, TaskAgent = {}, LockStep PROVE Spec => []CompletedMeansDrained
BY JoinsKeepUpHolds, DrainedIfJoinsKeepUp, PTL
=============================================================================
