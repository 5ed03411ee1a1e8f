----------------------- MODULE McpSessionPool_proofs -----------------------
(***************************************************************************)
(* Proofs about the safety of McpSessionPool for any callers, closers,     *)
(* loops, keys and sessions.  The inductive invariant says that a session  *)
(* belongs to one key, in the pool and in the hands of tasks alike, that   *)
(* the use count of a key is the number of callers that are calling under  *)
(* it, whichever session they call on, and that a sweep which has counted  *)
(* no call under a key will find none on its own loop either when it       *)
(* forgets the key.                                                        *)
(***************************************************************************)
EXTENDS McpSessionPool, FiniteSetTheorems, TLAPS

Places == AtAwait \cup Running

\* A call is counted from its beginning until its caller has left it
InFlight == {"call", "drop"}

\* The callers that have a call in flight under a key
CallsOf(k) == {c \in Caller : pc[c] \in InFlight /\ my[c].key = k}

Types ==
    /\ home \in [Task -> Loop]
    /\ pc \in [Task -> Places]
    /\ my \in [Task -> Frame]
    /\ runs \in [Caller \ Lister -> Nat]
    /\ todo \in [Task -> SUBSET Key]
    /\ st \in [Session -> States]
    /\ loop \in [Session -> Loop \cup {None}]
    /\ pool \in [Key -> Session \cup {None}]
    /\ idle \in [Key -> BOOLEAN]
    /\ uses \in [Key -> Int]
    /\ holder \in [Loop -> Task \cup {None}]
    /\ mishaps \in 0..MaxMishaps

BeforeCall == {"idle", "lock", "sweep", "count", "grip", "evict", "pick", "forget",
               "replace", "create", "use"}

CloserPlaces == {"idle", "lock", "close", "forget", "wait", "done", "failed"}

\* Where a task can stand, and what its frame holds there
Stands(t) ==
    /\ t \in Caller => pc[t] \in BeforeCall \cup InFlight \cup {"done"}
    /\ t \in Closer => pc[t] \in CloserPlaces
    /\ t \in Caller /\ pc[t] \notin {"idle", "done"} => my[t].key \in Key
    /\ pc[t] \in {"forget", "replace", "create", "use", "wait"} \cup InFlight
       => my[t].key \in Key /\ my[t].mine \in Session
    /\ pc[t] \in {"count", "grip", "evict"} => my[t].aim \in Key
    /\ pc[t] = "evict" => my[t].entry \in Session
    /\ pc[t] \notin {"evict", "drop"} => my[t].entry = None
    /\ pc[t] = "drop" => my[t].entry \in {None, my[t].mine}

Placed == \A t \in Task : Stands(t)

\* A session belongs to one key
OneKey ==
    /\ \A k, j \in Key : pool[k] # None /\ pool[k] = pool[j] => k = j
    /\ \A k \in Key, t \in Task :
          /\ pool[k] # None /\ my[t].mine = pool[k] => my[t].key = k
          /\ pool[k] # None /\ my[t].entry = pool[k] => my[t].aim = k
    /\ \A t, u \in Task :
          /\ my[t].mine # None /\ my[t].mine = my[u].mine => my[t].key = my[u].key
          /\ my[t].mine # None /\ my[t].mine = my[u].entry => my[t].key = my[u].aim

Counted == \A k \in Key : uses[k] = Cardinality(CallsOf(k))

InHand == {"create", "use"} \cup InFlight

AtHome == \A c \in Caller : pc[c] \in InHand => loop[my[c].mine] = home[c]

\* A session that the server may know, or come to know
Fresh == {"starting", "open"}

\* What a caller drops is not fresh
Dropped == \A c \in Caller : pc[c] = "drop" => st[my[c].mine] \notin Fresh

\* A call that can still be made has not been run
Once(c) ==
    /\ runs[c] \in {0, 1}
    /\ pc[c] \in BeforeCall \cup {"drop"} => runs[c] = 0
    /\ pc[c] = "call" /\ ~ my[c].ran => runs[c] = 0

RunOnce == \A c \in Caller \ Lister : Once(c)

\* No caller of the same loop calls under a key that is about to be forgotten
Deferred ==
    \A c, d \in Caller :
        /\ home[c] = home[d]
        /\ pc[c] \in InFlight
        /\ pc[d] \in {"grip", "evict"}
        => my[c].key # my[d].aim

IInv == /\ Types /\ Placed /\ OneKey /\ Counted /\ AtHome /\ Dropped
        /\ RunOnce /\ Deferred

USE TasksApart, NoneApart

-----------------------------------------------------------------------------
(* Lemmas                                                                  *)

\* The calls of a key are finitely many, so that they can be counted.
LEMMA CallsFinite ==
    \A k \in Key : IsFiniteSet(CallsOf(k)) /\ Cardinality(CallsOf(k)) \in Nat
BY CallersFinite, FS_Subset, FS_CardinalityType DEF CallsOf

\* A step of one task leaves the others where they stand.
Moved(t) ==
    /\ home' = home
    /\ pc' \in [Task -> Places]
    /\ my' \in [Task -> Frame]
    /\ \A u \in Task \ {t} : pc'[u] = pc[u] /\ my'[u] = my[u]

LEMMA NoFrameType == NoFrame \in Frame
BY DEF NoFrame, Frame

\* What a step does to the frame and the place of its task.
LEMMA MovedTo ==
    ASSUME Types, NEW t \in Task, NEW f \in Frame, NEW where \in Places,
           Goes(t, where, f), home' = home
    PROVE  /\ Moved(t)
           /\ pc'[t] = where
           /\ my'[t] = IF where \in {"done", "failed"} THEN NoFrame ELSE f
BY NoFrameType DEF Types, Goes, Moved

\* A step of a task that neither begins nor ends a call leaves the counts right.
LEMMA CountKept ==
    ASSUME Counted, NEW t \in Task, Moved(t), uses' = uses,
           \/ pc[t] \notin InFlight /\ pc'[t] \notin InFlight
           \/ /\ pc[t] \in InFlight /\ pc'[t] \in InFlight
              /\ my'[t].key = my[t].key
    PROVE  Counted'
<1>1. \A k \in Key : CallsOf(k)' = CallsOf(k)
  BY DEF CallsOf, Task, Moved
<1> QED
  BY <1>1 DEF Counted

\* A call that begins is counted under its key.
LEMMA CountBegins ==
    ASSUME Types, Counted, NEW c \in Caller, NEW k \in Key, my[c].key = k,
           uses' = [uses EXCEPT ![k] = @ + 1],
           pc[c] \notin InFlight, pc'[c] \in InFlight, my'[c].key = k, Moved(c)
    PROVE  Counted'
<1>1. CallsOf(k)' = CallsOf(k) \cup {c} /\ c \notin CallsOf(k)
  BY DEF CallsOf, Task, Moved
<1>2. \A j \in Key \ {k} : CallsOf(j)' = CallsOf(j)
  BY DEF CallsOf, Task, Moved
<1>3. Cardinality(CallsOf(k)') = Cardinality(CallsOf(k)) + 1
  BY <1>1, CallsFinite, FS_AddElement
<1> QED
  BY <1>2, <1>3 DEF Counted, Types

\* One that ends is not counted any longer.
LEMMA CountEnds ==
    ASSUME Types, Counted, NEW c \in Caller, NEW k \in Key, my[c].key = k,
           uses' = [uses EXCEPT ![k] = @ - 1],
           pc[c] \in InFlight, pc'[c] \notin InFlight, Moved(c)
    PROVE  Counted'
<1>1. CallsOf(k)' = CallsOf(k) \ {c} /\ c \in CallsOf(k)
  BY DEF CallsOf, Task, Moved
<1>2. \A j \in Key \ {k} : CallsOf(j)' = CallsOf(j)
  BY DEF CallsOf, Task, Moved
<1>3. Cardinality(CallsOf(k)') = Cardinality(CallsOf(k)) - 1
  <2>1. IsFiniteSet(CallsOf(k))
    BY CallsFinite
  <2>2. Cardinality(CallsOf(k) \ {c}) = Cardinality(CallsOf(k)) - 1
    BY <1>1, <2>1, FS_RemoveElement
  <2> QED BY <1>1, <2>2
<1> QED
  BY <1>2, <1>3 DEF Counted, Types

\* What does not touch tasks or counts leaves them right.
LEMMA CountStays ==
    ASSUME Counted, uses' = uses, pc' = pc, my' = my
    PROVE  Counted'
BY DEF Counted, CallsOf

\* A key under which no call is counted has none in flight.
LEMMA CountZero ==
    ASSUME Counted, NEW c \in Caller, my[c].key \in Key, uses[my[c].key] = 0
    PROVE  pc[c] \notin InFlight
<1>1. IsFiniteSet(CallsOf(my[c].key)) /\ Cardinality(CallsOf(my[c].key)) = 0
  BY CallsFinite DEF Counted
<1>2. CallsOf(my[c].key) = {}
  BY <1>1, FS_EmptySet
<1> QED
  BY <1>2 DEF CallsOf

LEMMA NewUnused ==
    ASSUME \E u \in Session : Unused(u)
    PROVE  NewSession \in Session /\ Unused(NewSession)
BY DEF NewSession

\* What a step of a task t may do to the pool and to its frame: the frame drops
\* a session, keeps it, takes the one pooled under its key or a new one; the pool
\* drops sessions, or gets the one in the frame.
Keyed(t) ==
    /\ \/ my'[t].mine = None
       \/ my'[t].mine = my[t].mine /\ my'[t].key = my[t].key
       \/ my'[t].key \in Key /\ my'[t].mine = pool[my'[t].key]
       \/ Unused(my'[t].mine) /\ my'[t].entry \in {None, my[t].entry}
    /\ \/ my'[t].entry = None
       \/ my'[t].entry = my[t].entry /\ my'[t].aim = my[t].aim
       \/ my'[t].aim \in Key /\ my'[t].entry = pool[my'[t].aim]
    /\ \A k \in Key : \/ pool'[k] \in {None, pool[k]}
                      \/ k = my[t].key /\ pool'[k] = my[t].mine

\* Under such a step every session still belongs to one key.
LEMMA OneKeyStep ==
    ASSUME Types, OneKey, NEW t \in Task, Moved(t), Keyed(t)
    PROVE  OneKey'
<1> USE DEF Keyed, Moved
<1>1. \A k, j \in Key : pool'[k] # None /\ pool'[k] = pool'[j] => k = j
  BY DEF OneKey
<1>2. \A k \in Key, u \in Task :
         pool'[k] # None /\ my'[u].mine = pool'[k] => my'[u].key = k
  <2> SUFFICES ASSUME NEW k \in Key, NEW u \in Task,
                      pool'[k] # None, my'[u].mine = pool'[k]
               PROVE  my'[u].key = k
    OBVIOUS
  <2>1. CASE u # t
    BY <2>1 DEF OneKey
  <2>2. CASE u = t
    BY <2>2 DEF OneKey, Unused
  <2> QED
    BY <2>1, <2>2
<1>3. \A k \in Key, u \in Task :
         pool'[k] # None /\ my'[u].entry = pool'[k] => my'[u].aim = k
  <2> SUFFICES ASSUME NEW k \in Key, NEW u \in Task,
                      pool'[k] # None, my'[u].entry = pool'[k]
               PROVE  my'[u].aim = k
    OBVIOUS
  <2>1. CASE u # t
    BY <2>1 DEF OneKey
  <2>2. CASE u = t
    BY <2>2 DEF OneKey
  <2> QED
    BY <2>1, <2>2
<1>4. \A u, v \in Task :
         my'[u].mine # None /\ my'[u].mine = my'[v].mine => my'[u].key = my'[v].key
  <2>1. \A u \in Task \ {t} :
           my'[u].mine # None /\ my'[u].mine = my'[t].mine
           => my'[u].key = my'[t].key
    BY DEF OneKey, Unused
  <2> QED
    BY <2>1 DEF OneKey
<1>5. \A u, v \in Task :
         my'[u].mine # None /\ my'[u].mine = my'[v].entry => my'[u].key = my'[v].aim
  <2> SUFFICES ASSUME NEW u \in Task, NEW v \in Task,
                      my'[u].mine # None, my'[u].mine = my'[v].entry
               PROVE  my'[u].key = my'[v].aim
    OBVIOUS
  <2>1. CASE u # t /\ v # t
    BY <2>1 DEF OneKey
  <2>2. CASE u # t /\ v = t
    BY <2>2 DEF OneKey
  <2>3. CASE u = t /\ v # t
    BY <2>3 DEF OneKey, Unused
  <2>4. CASE u = t /\ v = t
    BY <2>4 DEF OneKey, Unused
  <2> QED
    BY <2>1, <2>2, <2>3, <2>4
<1> QED
  BY <1>1, <1>2, <1>3, <1>4, <1>5 DEF OneKey

\* What a step of a task t may do to the sessions, to the runs of calls and to a
\* key that is about to be forgotten.
Orderly(t) ==
    /\ \A s \in Session :
          \/ Unused(s)
          \/ loop'[s] = loop[s] /\ (st'[s] \in Fresh => st[s] \in Fresh)
    /\ pc'[t] \in InHand => loop'[my'[t].mine] = home[t]
    /\ pc'[t] = "drop" => st'[my'[t].mine] \notin Fresh
    /\ \A c \in Caller \ Lister : c # t => runs'[c] = runs[c]
    /\ t \in Caller \ Lister => Once(t)'
    /\ pc'[t] \in {"grip", "evict"}
       => \/ pc[t] \in {"grip", "evict"} /\ my'[t].aim = my[t].aim
          \/ my'[t].aim \in Key /\ uses[my'[t].aim] = 0
    /\ \/ Turn(t)
       \/ /\ pc'[t] = pc[t]
          /\ my'[t].key = my[t].key /\ my'[t].aim = my[t].aim

\* A step of one task keeps the invariant, if it keeps to this.
LEMMA OneStep ==
    ASSUME IInv, NEW t \in Task, Moved(t), Types', Stands(t)', Keyed(t), Counted',
           Orderly(t)
    PROVE  IInv'
<1> USE DEF IInv
<1>1. Placed'
  BY DEF Placed, Stands, Moved
<1>2. OneKey'
  BY OneKeyStep
<1>3. \A c \in Caller \ {t} :
         pc[c] \in InHand => ~ Unused(my[c].mine) /\ my[c].mine \in Session
  BY DEF Placed, Stands, Task, Unused, InHand, InFlight
<1>4. AtHome'
  BY <1>3 DEF AtHome, Moved, Orderly, Task
<1>5. Dropped'
  BY <1>3 DEF Dropped, Moved, Orderly, Task, InHand, InFlight
<1>6. RunOnce'
  BY DEF RunOnce, Once, Moved, Orderly, Task
<1>7. Deferred'
  <2> SUFFICES ASSUME NEW c \in Caller, NEW d \in Caller, home[c] = home[d],
                      pc'[c] \in InFlight, pc'[d] \in {"grip", "evict"}
               PROVE  my'[c].key # my'[d].aim
    BY DEF Deferred, Moved
  <2>1. c \in Task /\ d \in Task /\ c # d
    BY DEF Task, InFlight
  <2>2. CASE c # t /\ d # t
    BY <2>1, <2>2 DEF Deferred, Moved
  <2>3. CASE c = t
    BY <2>1, <2>3 DEF Deferred, Moved, Orderly, Turn, Running
  <2>4. CASE d = t
    <3>1. pc'[c] = pc[c] /\ my'[c] = my[c]
      BY <2>1, <2>4 DEF Moved
    <3>2. CASE my'[d].aim \in Key /\ uses[my'[d].aim] = 0
      BY <3>1, <3>2, CountZero
    <3>3. CASE pc[d] \in {"grip", "evict"} /\ my'[d].aim = my[d].aim
      BY <3>1, <3>3 DEF Deferred
    <3> QED
      BY <2>4, <3>2, <3>3 DEF Orderly
  <2> QED
    BY <2>2, <2>3, <2>4
<1> QED
  BY <1>1, <1>2, <1>4, <1>5, <1>6, <1>7

-----------------------------------------------------------------------------
(* Every action keeps the invariant                                        *)

\* A call begins.
LEMMA StartSafe ==
    ASSUME IInv, NEW c \in Caller, Turn(c), NEW k \in Key, Start(c, k)
    PROVE  IInv'
<1> USE DEF IInv
<1>1. /\ c \in Task
      /\ pc[c] = "idle"
      /\ my[c].entry = None
  BY DEF Start, Placed, Stands, Task, BeforeCall, InFlight
<1> DEFINE f == [NoFrame EXCEPT !.key = k, !.tries = TRUE]
<1>2. f \in Frame /\ f.key = k /\ f.mine = None /\ f.entry = None
  BY <1>1, NoFrameType DEF Types, Frame, NoFrame
<1>3. Goes(c, "lock", f)
  BY <1>1 DEF Start
<1> HIDE DEF f
<1>4. /\ Moved(c) /\ pc'[c] = "lock"
      /\ my'[c] = f
  BY <1>1, <1>2, <1>3, MovedTo DEF Start, Places, AtAwait, Running
<1>5. Types'
  BY <1>1, <1>2, <1>4 DEF Start, Types, Moved, sessions, pooled
<1>6. Stands(c)'
  BY <1>1, <1>2, <1>4 DEF Stands, NoFrame, BeforeCall, InFlight, Types, Task
<1>7. Keyed(c)
  BY <1>1, <1>2, <1>4 DEF Start, Keyed, NoFrame, Types, pooled
<1>8. Counted'
  BY <1>1, <1>2, <1>4, CountKept DEF Start, InFlight, pooled
<1>9. Orderly(c)
  BY <1>1, <1>2, <1>4 DEF Start, Orderly, NoFrame, InHand, InFlight, Fresh,
     Once, RunOnce, AtHome, Types, Task, BeforeCall, sessions, pooled
<1> QED
  BY <1>1, <1>4, <1>5, <1>6, <1>7, <1>8, <1>9, OneStep

\* A caller gets the lock.
LEMMA SweepBeginsSafe ==
    ASSUME IInv, NEW c \in Caller, Turn(c), SweepBegins(c)
    PROVE  IInv'
<1> USE DEF IInv
<1>1. /\ c \in Task
      /\ pc[c] = "lock"
      /\ my[c].key \in Key
      /\ my[c].entry = None
  BY DEF SweepBegins, Locked, Placed, Stands, Task, BeforeCall, InFlight
<1>2. my[c] \in Frame
  BY <1>1 DEF Types
<1> DEFINE f == my[c]
<1>3. f \in Frame /\ f = my[c]
  BY <1>1, <1>2 DEF Frame
<1>4. Goes(c, "sweep", f)
  BY <1>1, <1>2 DEF SweepBegins, Pooled
<1> HIDE DEF f
<1>5. /\ Moved(c) /\ pc'[c] = "sweep"
      /\ my'[c] = f
  BY <1>1, <1>3, <1>4, MovedTo DEF SweepBegins, Places, AtAwait, Running
<1>6. Types'
  BY <1>1, <1>3, <1>5 DEF SweepBegins, Locked, Pooled, Types, Moved, Takes,
     sessions, pooled
<1>7. Stands(c)'
  BY <1>1, <1>3, <1>5 DEF Stands, BeforeCall, InFlight, Types, Task
<1>8. Keyed(c)
  BY <1>1, <1>3, <1>5 DEF SweepBegins, Locked, Pooled, Keyed, Types, pooled
<1>9. Counted'
  BY <1>1, <1>3, <1>5, CountKept DEF SweepBegins, Locked, Pooled, InFlight,
     pooled
<1>10. Orderly(c)
  BY <1>1, <1>3, <1>5 DEF SweepBegins, Locked, Pooled, Orderly, InHand,
     InFlight, Fresh, Once, RunOnce, AtHome, Types, Task, BeforeCall, sessions,
     pooled
<1> QED
  BY <1>1, <1>5, <1>6, <1>7, <1>8, <1>9, <1>10, OneStep

\* The sweep looks at a key.
LEMMA LooksSafe ==
    ASSUME IInv, NEW c \in Caller, Turn(c), Looks(c)
    PROVE  IInv'
<1> USE DEF IInv
<1>1. c \in Task /\ pc[c] = "sweep" /\ my[c].key \in Key /\ my[c].entry = None
  BY DEF Looks, Placed, Stands, Task, BeforeCall, InFlight
<1>2. PICK k \in todo[c] :
         /\ todo' = [todo EXCEPT ![c] = @ \ {k}]
         /\ IF pool[k] # None /\ idle[k]
            THEN Goes(c, "count", [my[c] EXCEPT !.aim = k])
            ELSE UNCHANGED <<pc, my>>
  BY DEF Looks
<1> DEFINE f == [my[c] EXCEPT !.aim = k]
<1>3. k \in Key /\ f \in Frame /\ f.aim = k
      /\ f.key = my[c].key /\ f.mine = my[c].mine /\ f.entry = None
  <2>1. k \in Key /\ my[c] \in Frame
    BY <1>1 DEF Types
  <2> QED
    BY <1>1, <2>1 DEF Frame
<1>4. CASE Goes(c, "count", f)
  <2> HIDE DEF f
  <2>1. Moved(c) /\ pc'[c] = "count" /\ my'[c] = f
    BY <1>1, <1>3, <1>4, MovedTo DEF Looks, Places, AtAwait, Running
  <2>2. Types'
    BY <1>1, <1>2, <2>1 DEF Looks, Types, Moved, sessions, pooled
  <2>3. Stands(c)'
    BY <1>1, <1>3, <2>1 DEF Stands, BeforeCall, InFlight, Task
  <2>4. Keyed(c)
    BY <1>1, <1>3, <2>1 DEF Looks, Keyed, Types, pooled
  <2>5. Counted'
    BY <1>1, <1>3, <2>1, CountKept DEF Looks, InFlight, pooled
  <2>6. Orderly(c)
    BY <1>1, <1>3, <2>1 DEF Looks, Orderly, InHand, InFlight, Once, RunOnce,
       BeforeCall, Task, Types, sessions
  <2> QED
    BY <1>1, <2>1, <2>2, <2>3, <2>4, <2>5, <2>6, OneStep
<1>5. CASE UNCHANGED <<pc, my>>
  <2>1. Moved(c)
    BY <1>5 DEF Looks, Moved, Types
  <2>2. Types'
    BY <1>1, <1>2, <1>5 DEF Looks, Types, sessions, pooled
  <2>3. Stands(c)' /\ Keyed(c) /\ Orderly(c)
    BY <1>1, <1>5 DEF Looks, Placed, Stands, Keyed, Orderly, InHand, InFlight,
       Once, RunOnce, BeforeCall, sessions, pooled
  <2>4. Counted'
    BY <1>1, <1>5, <2>1, CountKept DEF Looks, InFlight, pooled
  <2> QED
    BY <1>1, <2>1, <2>2, <2>3, <2>4, OneStep
<1> QED
  BY <1>2, <1>4, <1>5

\* It counts the calls under it.
LEMMA CountsSafe ==
    ASSUME IInv, NEW c \in Caller, Turn(c), Counts(c)
    PROVE  IInv'
<1> USE DEF IInv
<1>1. /\ c \in Task
      /\ pc[c] = "count"
      /\ my[c].key \in Key
      /\ my[c].aim \in Key
      /\ my[c].entry = None
  BY DEF Counts, Placed, Stands, Task, BeforeCall, InFlight
<1>2. my[c] \in Frame
  BY <1>1 DEF Types
<1> DEFINE there == IF uses[my[c].aim] = 0 THEN "grip" ELSE "sweep"
<1> DEFINE f == IF uses[my[c].aim] = 0 THEN my[c] ELSE [my[c] EXCEPT !.aim = None]
<1>3. /\ f \in Frame /\ f.key = my[c].key /\ f.mine = my[c].mine
      /\ f.entry = None /\ (uses[my[c].aim] = 0 => f = my[c])
  BY <1>1, <1>2 DEF Frame
<1>4. there \in {"grip", "sweep"} /\ (there = "grip" => uses[my[c].aim] = 0)
  BY <1>1
<1>5. Goes(c, there, f)
  BY <1>1, <1>2, <1>4 DEF Counts
<1> HIDE DEF f, there
<1>6. /\ Moved(c) /\ pc'[c] = there
      /\ my'[c] = IF there = "done" THEN NoFrame ELSE f
  BY <1>1, <1>3, <1>4, <1>5, MovedTo DEF Counts, Places, AtAwait, Running
<1>7. Types'
  BY <1>1, <1>3, <1>4, <1>6 DEF Counts, Types, Moved, sessions, pooled
<1>8. Stands(c)'
  BY <1>1, <1>3, <1>4, <1>6 DEF Stands, BeforeCall, InFlight, Types, Task
<1>9. Keyed(c)
  BY <1>1, <1>3, <1>4, <1>6 DEF Counts, Keyed, Types, pooled
<1>10. Counted'
  BY <1>1, <1>3, <1>4, <1>6, CountKept DEF Counts, InFlight, pooled
<1>11. Orderly(c)
  BY <1>1, <1>3, <1>4, <1>6 DEF Counts, Orderly, InHand, InFlight, Fresh, Once,
     RunOnce, AtHome, Types, Task, BeforeCall, sessions, pooled
<1> QED
  BY <1>1, <1>6, <1>7, <1>8, <1>9, <1>10, <1>11, OneStep

\* It reads the entry.
LEMMA GripsSafe ==
    ASSUME IInv, NEW c \in Caller, Turn(c), Grips(c)
    PROVE  IInv'
<1> USE DEF IInv
<1>1. /\ c \in Task
      /\ pc[c] = "grip"
      /\ my[c].key \in Key
      /\ my[c].aim \in Key
      /\ pool[my[c].aim] \in Session \cup {None}
      /\ my[c].entry = None
  BY DEF Grips, Placed, Stands, Task, Types, BeforeCall, InFlight
<1>2. my[c] \in Frame
  BY <1>1 DEF Types
<1> DEFINE there == IF pool[my[c].aim] = None THEN "sweep" ELSE "evict"
<1> DEFINE f == IF pool[my[c].aim] = None THEN [my[c] EXCEPT !.aim = None]
                 ELSE [my[c] EXCEPT !.entry = pool[my[c].aim]]
<1>3. /\ f \in Frame /\ f.key = my[c].key /\ f.mine = my[c].mine
      /\ (pool[my[c].aim] # None => f.aim = my[c].aim /\ f.entry = pool[my[c].aim])
      /\ (pool[my[c].aim] = None => f.entry = None)
  BY <1>1, <1>2 DEF Frame
<1>4. there = IF pool[my[c].aim] = None THEN "sweep" ELSE "evict"
  BY <1>1
<1>5. Goes(c, there, f)
  BY <1>1, <1>2, <1>4 DEF Grips
<1> HIDE DEF f, there
<1>6. /\ Moved(c) /\ pc'[c] = there
      /\ my'[c] = IF there = "done" THEN NoFrame ELSE f
  BY <1>1, <1>3, <1>4, <1>5, MovedTo DEF Grips, Places, AtAwait, Running
<1>7. Types'
  BY <1>1, <1>3, <1>4, <1>6 DEF Grips, Types, Moved, sessions, pooled
<1>8. Stands(c)'
  BY <1>1, <1>3, <1>4, <1>6 DEF Stands, BeforeCall, InFlight, Types, Task
<1>9. Keyed(c)
  BY <1>1, <1>3, <1>4, <1>6 DEF Grips, Keyed, Types, pooled
<1>10. Counted'
  BY <1>1, <1>3, <1>4, <1>6, CountKept DEF Grips, InFlight, pooled
<1>11. Orderly(c)
  BY <1>1, <1>3, <1>4, <1>6 DEF Grips, Orderly, InHand, InFlight, Fresh, Once,
     RunOnce, AtHome, Types, Task, BeforeCall, sessions, pooled
<1> QED
  BY <1>1, <1>6, <1>7, <1>8, <1>9, <1>10, <1>11, OneStep

\* It forgets the key.
LEMMA EvictsSafe ==
    ASSUME IInv, NEW c \in Caller, Turn(c), Evicts(c)
    PROVE  IInv'
<1> USE DEF IInv
<1>1. /\ c \in Task
      /\ pc[c] = "evict"
      /\ my[c].key \in Key
      /\ my[c].aim \in Key
      /\ my[c].entry \in Session
  BY DEF Evicts, Placed, Stands, Task, BeforeCall, InFlight
<1>2. my[c] \in Frame
  BY <1>1 DEF Types
<1> DEFINE f == [my[c] EXCEPT !.aim = None, !.entry = None]
<1>3. /\ f \in Frame /\ f.key = my[c].key /\ f.mine = my[c].mine
      /\ f.entry = None
  BY <1>1, <1>2 DEF Frame
<1>4. Goes(c, "sweep", f)
  BY <1>1, <1>2 DEF Evicts, Forget, Closing
<1> HIDE DEF f
<1>5. /\ Moved(c) /\ pc'[c] = "sweep"
      /\ my'[c] = f
  BY <1>1, <1>3, <1>4, MovedTo DEF Evicts, Places, AtAwait, Running
<1>6. Types'
  BY <1>1, <1>3, <1>5 DEF Evicts, Forget, Closing, Types, Moved, States, Alive
<1>7. Stands(c)'
  BY <1>1, <1>3, <1>5 DEF Stands, BeforeCall, InFlight, Types, Task
<1>8. Keyed(c)
  BY <1>1, <1>3, <1>5 DEF Evicts, Forget, Closing, Keyed, Types
<1>9. Counted'
  BY <1>1, <1>3, <1>5, CountKept DEF Evicts, Forget, Closing, InFlight
<1>10. Orderly(c)
  BY <1>1, <1>3, <1>5 DEF Evicts, Forget, Closing, Orderly, InHand, InFlight,
     Fresh, Once, RunOnce, AtHome, Types, Task, BeforeCall, Alive
<1> QED
  BY <1>1, <1>5, <1>6, <1>7, <1>8, <1>9, <1>10, OneStep

\* There is a pooled session.
LEMMA FindsSafe ==
    ASSUME IInv, NEW c \in Caller, Turn(c), Finds(c)
    PROVE  IInv'
<1> USE DEF IInv
<1>1. /\ c \in Task
      /\ pc[c] = "sweep"
      /\ my[c].key \in Key
      /\ my[c].entry = None
  BY DEF Finds, Swept, Placed, Stands, Task, BeforeCall, InFlight
<1>2. my[c] \in Frame
  BY <1>1 DEF Types
<1> DEFINE f == my[c]
<1>3. f \in Frame /\ f = my[c]
  BY <1>1, <1>2 DEF Frame
<1>4. Goes(c, "pick", f)
  BY <1>1, <1>2 DEF Finds, Swept
<1> HIDE DEF f
<1>5. /\ Moved(c) /\ pc'[c] = "pick"
      /\ my'[c] = f
  BY <1>1, <1>3, <1>4, MovedTo DEF Finds, Places, AtAwait, Running
<1>6. Types'
  BY <1>1, <1>3, <1>5 DEF Finds, Swept, Types, Moved, sessions, pooled
<1>7. Stands(c)'
  BY <1>1, <1>3, <1>5 DEF Stands, BeforeCall, InFlight, Types, Task
<1>8. Keyed(c)
  BY <1>1, <1>3, <1>5 DEF Finds, Swept, Keyed, Types, pooled
<1>9. Counted'
  BY <1>1, <1>3, <1>5, CountKept DEF Finds, Swept, InFlight, pooled
<1>10. Orderly(c)
  BY <1>1, <1>3, <1>5 DEF Finds, Swept, Orderly, InHand, InFlight, Fresh, Once,
     RunOnce, AtHome, Types, Task, BeforeCall, sessions, pooled
<1> QED
  BY <1>1, <1>5, <1>6, <1>7, <1>8, <1>9, <1>10, OneStep

\* It has gone.
LEMMA PickMissingSafe ==
    ASSUME IInv, NEW c \in Caller, Turn(c), PickMissing(c)
    PROVE  IInv'
<1> USE DEF IInv
<1>1. /\ c \in Task
      /\ pc[c] = "pick"
      /\ my[c].key \in Key
      /\ my[c].entry = None
  BY DEF PickMissing, Placed, Stands, Task, BeforeCall, InFlight
<1>2. my[c] \in Frame
  BY <1>1 DEF Types
<1> DEFINE f == [my[c] EXCEPT !.tries = FALSE]
<1>3. /\ f \in Frame /\ f.key = my[c].key /\ f.mine = my[c].mine
      /\ f.aim = my[c].aim /\ f.entry = None
  BY <1>1, <1>2 DEF Frame
<1>4. Repeated(c) \in {"lock", "done"}
  BY DEF Repeated
<1>5. Goes(c, Repeated(c), f)
  BY <1>1, <1>2, <1>4 DEF PickMissing
<1> HIDE DEF f
<1>6. /\ Moved(c) /\ pc'[c] = Repeated(c)
      /\ my'[c] = IF Repeated(c) = "done" THEN NoFrame ELSE f
  BY <1>1, <1>3, <1>4, <1>5, MovedTo DEF PickMissing, Places, AtAwait, Running
<1>7. Types'
  BY <1>1, <1>3, <1>4, <1>6 DEF PickMissing, Types, Moved, Release, sessions,
     pooled
<1>8. Stands(c)'
  BY <1>1, <1>3, <1>4, <1>6 DEF Stands, NoFrame, BeforeCall, InFlight, Types,
     Task
<1>9. Keyed(c)
  BY <1>1, <1>3, <1>4, <1>6 DEF PickMissing, Keyed, NoFrame, Types, pooled
<1>10. Counted'
  BY <1>1, <1>3, <1>4, <1>6, CountKept DEF PickMissing, InFlight, pooled
<1>11. Orderly(c)
  BY <1>1, <1>3, <1>4, <1>6 DEF PickMissing, Orderly, NoFrame, InHand, InFlight,
     Fresh, Once, RunOnce, AtHome, Types, Task, BeforeCall, sessions, pooled
<1> QED
  BY <1>1, <1>6, <1>7, <1>8, <1>9, <1>10, <1>11, OneStep

\* A pooled session is handed out.
LEMMA ReuseSafe ==
    ASSUME IInv, NEW c \in Caller, Turn(c), Reuse(c)
    PROVE  IInv'
<1> USE DEF IInv
<1>1. /\ c \in Task
      /\ pc[c] = "pick"
      /\ my[c].key \in Key
      /\ pool[my[c].key] \in Session
      /\ my[c].entry = None
  BY DEF Reuse, Placed, Stands, Task, Types, BeforeCall, InFlight
<1>2. my[c] \in Frame
  BY <1>1 DEF Types
<1> DEFINE f == [my[c] EXCEPT !.mine = pool[my[c].key]]
<1>3. /\ f \in Frame /\ f.key = my[c].key /\ f.mine = pool[my[c].key]
      /\ f.aim = my[c].aim /\ f.entry = None
  BY <1>1, <1>2 DEF Frame
<1>4. Goes(c, "use", f)
  BY <1>1, <1>2 DEF Reuse, Reusable
<1> HIDE DEF f
<1>5. /\ Moved(c) /\ pc'[c] = "use"
      /\ my'[c] = f
  BY <1>1, <1>3, <1>4, MovedTo DEF Reuse, Places, AtAwait, Running
<1>6. Types'
  BY <1>1, <1>3, <1>5 DEF Reuse, Reusable, Types, Moved, Release, sessions
<1>7. Stands(c)'
  BY <1>1, <1>3, <1>5 DEF Stands, BeforeCall, InFlight, Types, Task
<1>8. Keyed(c)
  BY <1>1, <1>3, <1>5 DEF Reuse, Reusable, Keyed, Types
<1>9. Counted'
  BY <1>1, <1>3, <1>5, CountKept DEF Reuse, Reusable, InFlight
<1>10. Orderly(c)
  BY <1>1, <1>3, <1>5 DEF Reuse, Reusable, Orderly, InHand, InFlight, Fresh,
     Once, RunOnce, AtHome, Types, Task, BeforeCall, sessions
<1> QED
  BY <1>1, <1>5, <1>6, <1>7, <1>8, <1>9, <1>10, OneStep

\* A pooled session is told to close.
LEMMA ReplaceSafe ==
    ASSUME IInv, NEW c \in Caller, Turn(c), Replace(c)
    PROVE  IInv'
<1> USE DEF IInv
<1>1. /\ c \in Task
      /\ pc[c] = "pick"
      /\ my[c].key \in Key
      /\ pool[my[c].key] \in Session
      /\ my[c].entry = None
  BY DEF Replace, Placed, Stands, Task, Types, BeforeCall, InFlight
<1>2. my[c] \in Frame
  BY <1>1 DEF Types
<1> DEFINE there == IF loop[pool[my[c].key]] = home[c] THEN "replace" ELSE "forget"
<1> DEFINE f == [my[c] EXCEPT !.mine = pool[my[c].key]]
<1>3. /\ f \in Frame /\ f.key = my[c].key /\ f.mine = pool[my[c].key]
      /\ f.aim = my[c].aim /\ f.entry = None
  BY <1>1, <1>2 DEF Frame
<1>4. there \in {"replace", "forget"}
  BY <1>1
<1>5. Goes(c, there, f)
  BY <1>1, <1>2, <1>4 DEF Replace, Closing
<1> HIDE DEF f, there
<1>6. /\ Moved(c) /\ pc'[c] = there
      /\ my'[c] = IF there = "done" THEN NoFrame ELSE f
  BY <1>1, <1>3, <1>4, <1>5, MovedTo DEF Replace, Places, AtAwait, Running
<1>7. Types'
  BY <1>1, <1>3, <1>4, <1>6 DEF Replace, Closing, Types, Moved, States, Alive,
     pooled
<1>8. Stands(c)'
  BY <1>1, <1>3, <1>4, <1>6 DEF Stands, BeforeCall, InFlight, Types, Task
<1>9. Keyed(c)
  BY <1>1, <1>3, <1>4, <1>6 DEF Replace, Closing, Keyed, Types, pooled
<1>10. Counted'
  BY <1>1, <1>3, <1>4, <1>6, CountKept DEF Replace, Closing, InFlight, pooled
<1>11. Orderly(c)
  BY <1>1, <1>3, <1>4, <1>6 DEF Replace, Closing, Orderly, InHand, InFlight,
     Fresh, Once, RunOnce, AtHome, Types, Task, BeforeCall, Alive, pooled
<1> QED
  BY <1>1, <1>6, <1>7, <1>8, <1>9, <1>10, <1>11, OneStep

\* A session is begun.
LEMMA MakeSafe ==
    ASSUME IInv, NEW c \in Caller, Turn(c), Make(c)
    PROVE  IInv'
<1> USE DEF IInv
<1>1. /\ c \in Task
      /\ pc[c] = "sweep"
      /\ my[c].key \in Key
      /\ NewSession \in Session /\ Unused(NewSession)
      /\ my[c].entry = None
  BY NewUnused DEF Make, Begins, Swept, Placed, Stands, Task, BeforeCall,
     InFlight
<1>2. my[c] \in Frame
  BY <1>1 DEF Types
<1> DEFINE f == [my[c] EXCEPT !.mine = NewSession]
<1>3. /\ f \in Frame /\ f.key = my[c].key /\ f.mine = NewSession
      /\ f.aim = my[c].aim /\ f.entry = None
  BY <1>1, <1>2 DEF Frame
<1>4. Goes(c, "create", f)
  BY <1>1, <1>2 DEF Make, Begins, Swept
<1> HIDE DEF f
<1>5. /\ Moved(c) /\ pc'[c] = "create"
      /\ my'[c] = f
  BY <1>1, <1>3, <1>4, MovedTo DEF Make, Places, AtAwait, Running
<1>6. Types'
  BY <1>1, <1>3, <1>5 DEF Make, Begins, Swept, Types, Moved, States, pooled
<1>7. Stands(c)'
  BY <1>1, <1>3, <1>5 DEF Stands, BeforeCall, InFlight, Types, Task
<1>8. Keyed(c)
  BY <1>1, <1>3, <1>5 DEF Make, Begins, Swept, Keyed, Types, pooled
<1>9. Counted'
  BY <1>1, <1>3, <1>5, CountKept DEF Make, Begins, Swept, InFlight, pooled
<1>10. Orderly(c)
  BY <1>1, <1>3, <1>5 DEF Make, Begins, Swept, Orderly, InHand, InFlight, Fresh,
     Once, RunOnce, AtHome, Types, Task, BeforeCall, pooled
<1> QED
  BY <1>1, <1>5, <1>6, <1>7, <1>8, <1>9, <1>10, OneStep

\* A session is begun in the place of another.
LEMMA ReplacedSafe ==
    ASSUME IInv, NEW c \in Caller, Turn(c), Replaced(c)
    PROVE  IInv'
<1> USE DEF IInv
<1>1. /\ c \in Task
      /\ pc[c] \in {"forget", "replace"}
      /\ my[c].key \in Key
      /\ NewSession \in Session /\ Unused(NewSession)
      /\ my[c].entry = None
  BY NewUnused DEF Replaced, Begins, HasClosed, Placed, Stands, Task,
     BeforeCall, InFlight
<1>2. my[c] \in Frame
  BY <1>1 DEF Types
<1> DEFINE f == [my[c] EXCEPT !.mine = NewSession]
<1>3. /\ f \in Frame /\ f.key = my[c].key /\ f.mine = NewSession
      /\ f.aim = my[c].aim /\ f.entry = None
  BY <1>1, <1>2 DEF Frame
<1>4. Goes(c, "create", f)
  BY <1>1, <1>2 DEF Replaced, Begins, HasClosed, Forget
<1> HIDE DEF f
<1>5. /\ Moved(c) /\ pc'[c] = "create"
      /\ my'[c] = f
  BY <1>1, <1>3, <1>4, MovedTo DEF Replaced, Places, AtAwait, Running
<1>6. Types'
  BY <1>1, <1>3, <1>5 DEF Replaced, Begins, HasClosed, Forget, Types, Moved,
     States
<1>7. Stands(c)'
  BY <1>1, <1>3, <1>5 DEF Stands, BeforeCall, InFlight, Types, Task
<1>8. Keyed(c)
  BY <1>1, <1>3, <1>5 DEF Replaced, Begins, HasClosed, Forget, Keyed, Types
<1>9. Counted'
  BY <1>1, <1>3, <1>5, CountKept DEF Replaced, Begins, HasClosed, Forget,
     InFlight
<1>10. Orderly(c)
  BY <1>1, <1>3, <1>5 DEF Replaced, Begins, HasClosed, Forget, Orderly, InHand,
     InFlight, Fresh, Once, RunOnce, AtHome, Types, Task, BeforeCall
<1> QED
  BY <1>1, <1>5, <1>6, <1>7, <1>8, <1>9, <1>10, OneStep

\* A session is pooled.
LEMMA CreatedSafe ==
    ASSUME IInv, NEW c \in Caller, Turn(c), Created(c)
    PROVE  IInv'
<1> USE DEF IInv
<1>1. /\ c \in Task
      /\ pc[c] = "create"
      /\ my[c].key \in Key
      /\ my[c].mine \in Session
      /\ my[c].entry = None
  BY DEF Created, Placed, Stands, Task, BeforeCall, InFlight
<1>2. my[c] \in Frame
  BY <1>1 DEF Types
<1> DEFINE f == my[c]
<1>3. f \in Frame /\ f = my[c]
  BY <1>1, <1>2 DEF Frame
<1>4. Goes(c, "use", f)
  BY <1>1, <1>2 DEF Created
<1> HIDE DEF f
<1>5. /\ Moved(c) /\ pc'[c] = "use"
      /\ my'[c] = f
  BY <1>1, <1>3, <1>4, MovedTo DEF Created, Places, AtAwait, Running
<1>6. Types'
  BY <1>1, <1>3, <1>5 DEF Created, Types, Moved, Release, Alive, sessions
<1>7. Stands(c)'
  BY <1>1, <1>3, <1>5 DEF Stands, BeforeCall, InFlight, Types, Task
<1>8. Keyed(c)
  BY <1>1, <1>3, <1>5 DEF Created, Keyed, Types
<1>9. Counted'
  BY <1>1, <1>3, <1>5, CountKept DEF Created, InFlight
<1>10. Orderly(c)
  BY <1>1, <1>3, <1>5 DEF Created, Orderly, InHand, InFlight, Fresh, Once,
     RunOnce, AtHome, Types, Task, BeforeCall, Alive, sessions
<1> QED
  BY <1>1, <1>5, <1>6, <1>7, <1>8, <1>9, <1>10, OneStep

\* A creation fails.
LEMMA CreateFailsSafe ==
    ASSUME IInv, NEW c \in Caller, Turn(c), CreateFails(c)
    PROVE  IInv'
<1> USE DEF IInv
<1>1. /\ c \in Task
      /\ pc[c] = "create"
      /\ my[c].key \in Key
      /\ my[c].mine \in Session
      /\ my[c].entry = None
  BY DEF CreateFails, Placed, Stands, Task, BeforeCall, InFlight
<1>2. my[c] \in Frame
  BY <1>1 DEF Types
<1> DEFINE f == [my[c] EXCEPT !.tries = FALSE, !.mine = None]
<1>3. /\ f \in Frame /\ f.key = my[c].key /\ f.mine = None /\ f.aim = my[c].aim
      /\ f.entry = None
  BY <1>1, <1>2 DEF Frame
<1>4. Repeated(c) \in {"lock", "done"}
  BY DEF Repeated
<1>5. Goes(c, Repeated(c), f)
  BY <1>1, <1>2, <1>4 DEF CreateFails
<1> HIDE DEF f
<1>6. /\ Moved(c) /\ pc'[c] = Repeated(c)
      /\ my'[c] = IF Repeated(c) = "done" THEN NoFrame ELSE f
  BY <1>1, <1>3, <1>4, <1>5, MovedTo DEF CreateFails, Places, AtAwait, Running
<1>7. Types'
  BY <1>1, <1>3, <1>4, <1>6 DEF CreateFails, Types, Moved, Release, States,
     pooled
<1>8. Stands(c)'
  BY <1>1, <1>3, <1>4, <1>6 DEF Stands, NoFrame, BeforeCall, InFlight, Types,
     Task
<1>9. Keyed(c)
  BY <1>1, <1>3, <1>4, <1>6 DEF CreateFails, Keyed, NoFrame, Types, pooled
<1>10. Counted'
  BY <1>1, <1>3, <1>4, <1>6, CountKept DEF CreateFails, InFlight, pooled
<1>11. Orderly(c)
  BY <1>1, <1>3, <1>4, <1>6 DEF CreateFails, Orderly, NoFrame, InHand, InFlight,
     Fresh, Once, RunOnce, AtHome, Types, Task, BeforeCall, pooled
<1> QED
  BY <1>1, <1>6, <1>7, <1>8, <1>9, <1>10, <1>11, OneStep

\* A call begins.
LEMMA BeginUseSafe ==
    ASSUME IInv, NEW c \in Caller, Turn(c), BeginUse(c)
    PROVE  IInv'
<1> USE DEF IInv
<1>1. /\ c \in Task
      /\ pc[c] = "use"
      /\ my[c].key \in Key
      /\ my[c].mine \in Session
      /\ my[c].entry = None
  BY DEF BeginUse, Placed, Stands, Task, BeforeCall, InFlight
<1>2. my[c] \in Frame
  BY <1>1 DEF Types
<1> DEFINE f == [my[c] EXCEPT !.ran = FALSE]
<1>3. /\ f \in Frame /\ f.key = my[c].key /\ f.mine = my[c].mine
      /\ f.aim = my[c].aim /\ f.entry = None /\ ~ f.ran
  BY <1>1, <1>2 DEF Frame
<1>4. Goes(c, "call", f)
  BY <1>1, <1>2 DEF BeginUse
<1> HIDE DEF f
<1>5. /\ Moved(c) /\ pc'[c] = "call"
      /\ my'[c] = f
  BY <1>1, <1>3, <1>4, MovedTo DEF BeginUse, Places, AtAwait, Running
<1>6. Types'
  BY <1>1, <1>3, <1>5 DEF BeginUse, Types, Moved, sessions
<1>7. Stands(c)'
  BY <1>1, <1>3, <1>5 DEF Stands, BeforeCall, InFlight, Types, Task
<1>8. Keyed(c)
  BY <1>1, <1>3, <1>5 DEF BeginUse, Keyed, Types
<1>9. Counted'
  BY <1>1, <1>3, <1>5, CountBegins DEF BeginUse, InFlight
<1>10. Orderly(c)
  BY <1>1, <1>3, <1>5 DEF BeginUse, Orderly, InHand, InFlight, Fresh, Once,
     RunOnce, AtHome, Types, Task, BeforeCall, sessions
<1> QED
  BY <1>1, <1>5, <1>6, <1>7, <1>8, <1>9, <1>10, OneStep

\* The server runs a call.
LEMMA ServerRunsSafe ==
    ASSUME IInv, NEW c \in Caller, ServerRuns(c)
    PROVE  IInv'
<1> USE DEF IInv
<1>1. c \in Task /\ pc[c] = "call" /\ my[c].key \in Key /\ my[c].mine \in Session
      /\ my[c].entry = None
  BY DEF ServerRuns, Placed, Stands, Task, InFlight
<1> DEFINE f == [my[c] EXCEPT !.ran = TRUE]
<1>2. f \in Frame /\ f.key = my[c].key /\ f.mine = my[c].mine
      /\ f.aim = my[c].aim /\ f.entry = None /\ f.ran
  <2>1. my[c] \in Frame
    BY <1>1 DEF Types
  <2> QED
    BY <1>1, <2>1 DEF Frame
<1> HIDE DEF f
<1>3. my' = [my EXCEPT ![c] = f] /\ pc' = pc /\ home' = home
  BY <1>1 DEF ServerRuns, f, Types
<1>4. Moved(c) /\ my'[c] = f
  BY <1>1, <1>2, <1>3 DEF Moved, Types
<1>5. Types'
  BY <1>1, <1>3, <1>4 DEF ServerRuns, Types, Moved, sessions, pooled
<1>6. Stands(c)'
  BY <1>1, <1>2, <1>3, <1>4 DEF Stands, Task, InFlight
<1>7. Keyed(c)
  BY <1>1, <1>2, <1>4 DEF ServerRuns, Keyed, pooled
<1>8. Counted'
  BY <1>1, <1>2, <1>3, <1>4, CountKept DEF ServerRuns, InFlight, pooled
<1>9. Orderly(c)
  BY <1>1, <1>2, <1>3, <1>4 DEF ServerRuns, Orderly, InHand, InFlight, AtHome,
     Once, RunOnce, BeforeCall, Types, sessions
<1> QED
  BY <1>1, <1>4, <1>5, <1>6, <1>7, <1>8, <1>9, OneStep

\* A call is answered.
LEMMA AnsweredSafe ==
    ASSUME IInv, NEW c \in Caller, Turn(c), Answered(c)
    PROVE  IInv'
<1> USE DEF IInv
<1>1. /\ c \in Task
      /\ pc[c] = "call"
      /\ my[c].key \in Key
      /\ my[c].entry = None
  BY DEF Answered, Placed, Stands, Task, BeforeCall, InFlight
<1>2. my[c] \in Frame
  BY <1>1 DEF Types
<1> DEFINE f == [my[c] EXCEPT !.mine = None, !.aim = None, !.entry = None]
<1>3. f \in Frame
  BY <1>1, <1>2 DEF Frame
<1>4. Goes(c, "done", f)
  BY <1>1, <1>2 DEF Answered, Leave, ClockStarts
<1> HIDE DEF f
<1>5. /\ Moved(c) /\ pc'[c] = "done"
      /\ my'[c] = NoFrame
  BY <1>1, <1>3, <1>4, MovedTo DEF Answered, Places, AtAwait, Running
<1>6. Types'
  BY <1>1, <1>3, <1>5 DEF Answered, Leave, ClockStarts, Types, Moved, sessions
<1>7. Stands(c)'
  BY <1>1, <1>3, <1>5 DEF Stands, NoFrame, BeforeCall, InFlight, Types, Task
<1>8. Keyed(c)
  BY <1>1, <1>3, <1>5 DEF Answered, Leave, ClockStarts, Keyed, NoFrame, Types
<1>9. Counted'
  BY <1>1, <1>3, <1>5, CountEnds DEF Answered, Leave, ClockStarts, InFlight
<1>10. Orderly(c)
  BY <1>1, <1>3, <1>5 DEF Answered, Leave, ClockStarts, Orderly, NoFrame,
     InHand, InFlight, Fresh, Once, RunOnce, AtHome, Types, Task, BeforeCall,
     sessions
<1> QED
  BY <1>1, <1>5, <1>6, <1>7, <1>8, <1>9, <1>10, OneStep

\* A call is rejected.
LEMMA TerminatedSafe ==
    ASSUME IInv, NEW c \in Caller, Turn(c), Terminated(c)
    PROVE  IInv'
<1> USE DEF IInv
<1>1. /\ c \in Task
      /\ pc[c] = "call"
      /\ my[c].key \in Key
      /\ my[c].mine \in Session
      /\ my[c].entry = None
  BY DEF Terminated, Placed, Stands, Task, BeforeCall, InFlight
<1>2. \/ Discarded(c) = None
      \/ Discarded(c) = my[c].mine /\ pool[my[c].key] = my[c].mine
  BY DEF Discarded
<1>3. my[c] \in Frame
  BY <1>1 DEF Types
<1> DEFINE f == [my[c] EXCEPT !.aim = my[c].key, !.entry = Discarded(c)]
<1>4. /\ f \in Frame /\ f.key = my[c].key /\ f.mine = my[c].mine
      /\ f.aim = my[c].key /\ f.entry = Discarded(c) /\ f.ran = my[c].ran
  BY <1>1, <1>2, <1>3 DEF Frame
<1>5. Goes(c, "drop", f)
  BY <1>1, <1>2, <1>3 DEF Terminated
<1> HIDE DEF f
<1>6. /\ Moved(c) /\ pc'[c] = "drop"
      /\ my'[c] = f
  BY <1>1, <1>2, <1>4, <1>5, MovedTo DEF Terminated, Places, AtAwait, Running
<1>7. Types'
  BY <1>1, <1>2, <1>4, <1>6 DEF Terminated, Types, Moved, sessions, pooled
<1>8. Stands(c)'
  BY <1>1, <1>2, <1>4, <1>6 DEF Stands, BeforeCall, InFlight, Types, Task
<1>9. Keyed(c)
  BY <1>1, <1>2, <1>4, <1>6 DEF Terminated, Keyed, Types, pooled
<1>10. Counted'
  BY <1>1, <1>2, <1>4, <1>6, CountKept DEF Terminated, InFlight, pooled
<1>11. Orderly(c)
  BY <1>1, <1>2, <1>4, <1>6 DEF Terminated, Orderly, InHand, InFlight, Fresh,
     Once, RunOnce, AtHome, Types, Task, BeforeCall, sessions, pooled
<1> QED
  BY <1>1, <1>6, <1>7, <1>8, <1>9, <1>10, <1>11, OneStep

\* Its session is dropped.
LEMMA DropsSafe ==
    ASSUME IInv, NEW c \in Caller, Turn(c), Drops(c)
    PROVE  IInv'
<1> USE DEF IInv
<1>1. /\ c \in Task
      /\ pc[c] = "drop"
      /\ my[c].key \in Key
      /\ my[c].mine \in Session
      /\ my[c].entry \in {None, my[c].mine}
  BY DEF Drops, Placed, Stands, Task, BeforeCall, InFlight
<1>2. my[c] \in Frame
  BY <1>1 DEF Types
<1> DEFINE f == [[my[c] EXCEPT !.again = TRUE, !.tries = c \notin Lister]
                 EXCEPT !.mine = None, !.aim = None, !.entry = None]
<1>3. f \in Frame /\ f.key = my[c].key /\ f.mine = None /\ f.entry = None
  BY <1>1, <1>2 DEF Frame
<1>4. AfterRejection(c) \in {"lock", "done"}
  BY DEF AfterRejection, Repeated
<1>5. Goes(c, AfterRejection(c), f)
  BY <1>1, <1>2, <1>4 DEF Drops, Leave, Forget, ClockStarts, Closing
<1> HIDE DEF f
<1>6. /\ Moved(c) /\ pc'[c] = AfterRejection(c)
      /\ my'[c] = IF AfterRejection(c) = "done" THEN NoFrame ELSE f
  BY <1>1, <1>3, <1>4, <1>5, MovedTo DEF Drops, Places, AtAwait, Running
<1>7. Types'
  <2>1. /\ st' \in [Session -> States]
        /\ pool' \in [Key -> Session \cup {None}]
        /\ idle' \in [Key -> BOOLEAN]
    <3>1. CASE my[c].entry = None \/ pool[my[c].key] = None
      BY <1>1, <3>1 DEF Drops, ClockStarts, Types
    <3>2. CASE ~ (my[c].entry = None \/ pool[my[c].key] = None)
      <4>1. Forget(my[c].key) /\ st' = Closing(my[c].entry)
        BY <3>2 DEF Drops
      <4>2. st' \in [Session -> States]
        BY <1>1, <4>1 DEF Closing, Types, States
      <4> QED
        BY <1>1, <4>1, <4>2 DEF Forget, Types
    <3> QED
      BY <3>1, <3>2
  <2>2. /\ uses' \in [Key -> Int]
        /\ UNCHANGED <<home, runs, todo, loop, holder, mishaps>>
    BY <1>1 DEF Drops, Leave, Types
  <2> QED
    BY <1>6, <2>1, <2>2 DEF Types, Moved
<1>8. Stands(c)'
  BY <1>1, <1>3, <1>4, <1>6 DEF Stands, NoFrame, BeforeCall, InFlight, Types,
     Task
<1>9. Keyed(c)
  BY <1>1, <1>3, <1>4, <1>6 DEF Drops, Leave, Forget, ClockStarts, Closing,
     Keyed, NoFrame, Types
<1>10. Counted'
  BY <1>1, <1>3, <1>4, <1>6, CountEnds DEF Drops, Leave, Forget, ClockStarts,
     Closing, InFlight
<1>11. Orderly(c)
  BY <1>1, <1>3, <1>4, <1>6 DEF Drops, Leave, Forget, ClockStarts, Closing,
     Orderly, NoFrame, InHand, InFlight, Fresh, Once, RunOnce, AtHome, Types,
     Task, BeforeCall, Alive
<1> QED
  BY <1>1, <1>6, <1>7, <1>8, <1>9, <1>10, <1>11, OneStep

\* A call fails.
LEMMA CallFailsSafe ==
    ASSUME IInv, NEW c \in Caller, Turn(c), CallFails(c)
    PROVE  IInv'
<1> USE DEF IInv
<1>1. /\ c \in Task
      /\ pc[c] = "call"
      /\ my[c].key \in Key
      /\ my[c].mine \in Session
      /\ my[c].entry = None
  BY DEF CallFails, Placed, Stands, Task, BeforeCall, InFlight
<1>2. my[c] \in Frame
  BY <1>1 DEF Types
<1> DEFINE f == [[my[c] EXCEPT !.tries = FALSE] EXCEPT !.mine = None, !.aim = None, !.entry = None]
<1>3. f \in Frame /\ f.key = my[c].key /\ f.mine = None /\ f.entry = None
  BY <1>1, <1>2 DEF Frame
<1>4. /\ AfterFailure(c) \in {"lock", "done"}
      /\ c \notin Lister => AfterFailure(c) = "done"
  BY DEF AfterFailure, Repeated
<1>5. Goes(c, AfterFailure(c), f)
  BY <1>1, <1>2, <1>4 DEF CallFails, Leave, ClockStarts
<1> HIDE DEF f
<1>6. /\ Moved(c) /\ pc'[c] = AfterFailure(c)
      /\ my'[c] = IF AfterFailure(c) = "done" THEN NoFrame ELSE f
  BY <1>1, <1>3, <1>4, <1>5, MovedTo DEF CallFails, Places, AtAwait, Running
<1>7. Types'
  BY <1>1, <1>3, <1>4, <1>6 DEF CallFails, Leave, ClockStarts, Types, Moved,
     sessions
<1>8. Stands(c)'
  BY <1>1, <1>3, <1>4, <1>6 DEF Stands, NoFrame, BeforeCall, InFlight, Types,
     Task
<1>9. Keyed(c)
  BY <1>1, <1>3, <1>4, <1>6 DEF CallFails, Leave, ClockStarts, Keyed, NoFrame,
     Types
<1>10. Counted'
  BY <1>1, <1>3, <1>4, <1>6, CountEnds DEF CallFails, Leave, ClockStarts,
     InFlight
<1>11. Orderly(c)
  BY <1>1, <1>3, <1>4, <1>6 DEF CallFails, Leave, ClockStarts, Orderly, NoFrame,
     InHand, InFlight, Fresh, Once, RunOnce, AtHome, Types, Task, BeforeCall,
     sessions
<1> QED
  BY <1>1, <1>6, <1>7, <1>8, <1>9, <1>10, <1>11, OneStep

\* A caller is cancelled while it waits for the lock.
LEMMA CancelWaitingSafe ==
    ASSUME IInv, NEW c \in Caller, Turn(c), CancelWaiting(c)
    PROVE  IInv'
<1> USE DEF IInv
<1>1. /\ c \in Task
      /\ pc[c] = "lock"
  BY DEF CancelWaiting, Placed, Stands, Task, BeforeCall, InFlight
<1> DEFINE f == NoFrame
<1>2. f \in Frame
  BY <1>1, NoFrameType DEF Types, Frame, NoFrame
<1>3. Goes(c, "done", f)
  BY <1>1 DEF CancelWaiting
<1> HIDE DEF f
<1>4. /\ Moved(c) /\ pc'[c] = "done"
      /\ my'[c] = NoFrame
  BY <1>1, <1>2, <1>3, MovedTo DEF CancelWaiting, Places, AtAwait, Running
<1>5. Types'
  BY <1>1, <1>4, BoundKnown DEF CancelWaiting, Types, Moved, Mishap, sessions,
     pooled
<1>6. Stands(c)'
  BY <1>1, <1>4 DEF Stands, NoFrame, BeforeCall, InFlight, Types, Task
<1>7. Keyed(c)
  BY <1>1, <1>4 DEF CancelWaiting, Keyed, NoFrame, Types, pooled
<1>8. Counted'
  BY <1>1, <1>4, CountKept DEF CancelWaiting, InFlight, pooled
<1>9. Orderly(c)
  BY <1>1, <1>4 DEF CancelWaiting, Orderly, NoFrame, InHand, InFlight, Fresh,
     Once, RunOnce, AtHome, Types, Task, BeforeCall, sessions, pooled
<1> QED
  BY <1>1, <1>4, <1>5, <1>6, <1>7, <1>8, <1>9, OneStep

\* A caller is cancelled while its session closes.
LEMMA CancelReplacingSafe ==
    ASSUME IInv, NEW c \in Caller, CancelReplacing(c)
    PROVE  IInv'
<1> USE DEF IInv
<1>1. c \in Task /\ pc[c] = "replace" /\ my[c].key \in Key /\ my[c].mine \in Session
      /\ my[c].entry = None
  BY DEF CancelReplacing, Placed, Stands, Task, InFlight
<1> DEFINE f == [my[c] EXCEPT !.cancelled = TRUE]
<1>2. f \in Frame /\ f.key = my[c].key /\ f.mine = my[c].mine
      /\ f.aim = my[c].aim /\ f.entry = None
  <2>1. my[c] \in Frame
    BY <1>1 DEF Types
  <2> QED
    BY <1>1, <2>1 DEF Frame
<1> HIDE DEF f
<1>3. my' = [my EXCEPT ![c] = f] /\ pc' = pc /\ home' = home
  BY <1>1 DEF CancelReplacing, f, Types
<1>4. Moved(c) /\ my'[c] = f
  BY <1>1, <1>2, <1>3 DEF Moved, Types
<1>5. Types'
  BY <1>1, <1>3, <1>4 DEF CancelReplacing, Types, Moved, States, pooled
<1>6. Stands(c)'
  BY <1>1, <1>2, <1>3, <1>4 DEF Stands, Task, BeforeCall, InFlight
<1>7. Keyed(c)
  BY <1>1, <1>2, <1>4 DEF CancelReplacing, Keyed, pooled
<1>8. Counted'
  BY <1>1, <1>2, <1>3, <1>4, CountKept DEF CancelReplacing, InFlight, pooled
<1>9. Orderly(c)
  BY <1>1, <1>2, <1>3, <1>4 DEF CancelReplacing, Orderly, InHand, InFlight, Fresh,
     Once, RunOnce, BeforeCall, Types
<1> QED
  BY <1>1, <1>4, <1>5, <1>6, <1>7, <1>8, <1>9, OneStep

\* ... while its session starts.
LEMMA CancelCreatingSafe ==
    ASSUME IInv, NEW c \in Caller, Turn(c), CancelCreating(c)
    PROVE  IInv'
<1> USE DEF IInv
<1>1. /\ c \in Task
      /\ pc[c] = "create"
  BY DEF CancelCreating, Placed, Stands, Task, BeforeCall, InFlight
<1> DEFINE f == NoFrame
<1>2. f \in Frame
  BY <1>1, NoFrameType DEF Types, Frame, NoFrame
<1>3. Goes(c, "done", f)
  BY <1>1 DEF CancelCreating
<1> HIDE DEF f
<1>4. /\ Moved(c) /\ pc'[c] = "done"
      /\ my'[c] = NoFrame
  BY <1>1, <1>2, <1>3, MovedTo DEF CancelCreating, Places, AtAwait, Running
<1>5. Types'
  BY <1>1, <1>4, BoundKnown DEF CancelCreating, Types, Moved, Release, Mishap,
     sessions, pooled
<1>6. Stands(c)'
  BY <1>1, <1>4 DEF Stands, NoFrame, BeforeCall, InFlight, Types, Task
<1>7. Keyed(c)
  BY <1>1, <1>4 DEF CancelCreating, Keyed, NoFrame, Types, pooled
<1>8. Counted'
  BY <1>1, <1>4, CountKept DEF CancelCreating, InFlight, pooled
<1>9. Orderly(c)
  BY <1>1, <1>4 DEF CancelCreating, Orderly, NoFrame, InHand, InFlight, Fresh,
     Once, RunOnce, AtHome, Types, Task, BeforeCall, sessions, pooled
<1> QED
  BY <1>1, <1>4, <1>5, <1>6, <1>7, <1>8, <1>9, OneStep

\* ... during its call.
LEMMA CancelCallSafe ==
    ASSUME IInv, NEW c \in Caller, Turn(c), CancelCall(c)
    PROVE  IInv'
<1> USE DEF IInv
<1>1. /\ c \in Task
      /\ pc[c] = "call"
      /\ my[c].key \in Key
      /\ my[c].entry = None
  BY DEF CancelCall, Placed, Stands, Task, BeforeCall, InFlight
<1>2. my[c] \in Frame
  BY <1>1 DEF Types
<1> DEFINE f == [my[c] EXCEPT !.mine = None, !.aim = None, !.entry = None]
<1>3. f \in Frame
  BY <1>1, <1>2 DEF Frame
<1>4. Goes(c, "done", f)
  BY <1>1, <1>2 DEF CancelCall, Leave, ClockStarts
<1> HIDE DEF f
<1>5. /\ Moved(c) /\ pc'[c] = "done"
      /\ my'[c] = NoFrame
  BY <1>1, <1>3, <1>4, MovedTo DEF CancelCall, Places, AtAwait, Running
<1>6. Types'
  BY <1>1, <1>3, <1>5, BoundKnown DEF CancelCall, Leave, ClockStarts, Types,
     Moved, Mishap, sessions
<1>7. Stands(c)'
  BY <1>1, <1>3, <1>5 DEF Stands, NoFrame, BeforeCall, InFlight, Types, Task
<1>8. Keyed(c)
  BY <1>1, <1>3, <1>5 DEF CancelCall, Leave, ClockStarts, Keyed, NoFrame, Types
<1>9. Counted'
  BY <1>1, <1>3, <1>5, CountEnds DEF CancelCall, Leave, ClockStarts, InFlight
<1>10. Orderly(c)
  BY <1>1, <1>3, <1>5 DEF CancelCall, Leave, ClockStarts, Orderly, NoFrame,
     InHand, InFlight, Fresh, Once, RunOnce, AtHome, Types, Task, BeforeCall,
     sessions
<1> QED
  BY <1>1, <1>5, <1>6, <1>7, <1>8, <1>9, <1>10, OneStep

\* A closer begins to wait.
LEMMA CloseAskedSafe ==
    ASSUME IInv, NEW x \in Closer, Turn(x), CloseAsked(x)
    PROVE  IInv'
<1> USE DEF IInv
<1>1. /\ x \in Task
      /\ pc[x] = "idle"
  BY DEF CloseAsked, Placed, Stands, Task, InFlight, CloserPlaces
<1> DEFINE f == NoFrame
<1>2. f \in Frame /\ f = NoFrame
  BY <1>1, NoFrameType DEF Types, Frame, NoFrame
<1>3. Goes(x, "lock", f)
  BY <1>1 DEF CloseAsked
<1> HIDE DEF f
<1>4. /\ Moved(x) /\ pc'[x] = "lock"
      /\ my'[x] = f
  BY <1>1, <1>2, <1>3, MovedTo DEF CloseAsked, Places, AtAwait, Running
<1>5. Types'
  BY <1>1, <1>2, <1>4 DEF CloseAsked, Types, Moved, sessions, pooled
<1>6. Stands(x)'
  BY <1>1, <1>2, <1>4 DEF Stands, NoFrame, InFlight, CloserPlaces, Types, Task
<1>7. Keyed(x)
  BY <1>1, <1>2, <1>4 DEF CloseAsked, Keyed, NoFrame, Types, pooled
<1>8. Counted'
  BY <1>1, <1>2, <1>4, CountKept DEF CloseAsked, InFlight, pooled
<1>9. Orderly(x)
  BY <1>1, <1>2, <1>4 DEF CloseAsked, Orderly, NoFrame, InHand, InFlight, Fresh,
     Types, Task, sessions, pooled
<1> QED
  BY <1>1, <1>4, <1>5, <1>6, <1>7, <1>8, <1>9, OneStep

\* It gets the lock.
LEMMA CloseBeginsSafe ==
    ASSUME IInv, NEW x \in Closer, Turn(x), CloseBegins(x)
    PROVE  IInv'
<1> USE DEF IInv
<1>1. /\ x \in Task
      /\ pc[x] = "lock"
  BY DEF CloseBegins, Locked, Placed, Stands, Task, InFlight, CloserPlaces
<1> DEFINE f == NoFrame
<1>2. f \in Frame /\ f = NoFrame
  BY <1>1, NoFrameType DEF Types, Frame, NoFrame
<1>3. Goes(x, "close", f)
  BY <1>1 DEF CloseBegins, Pooled
<1> HIDE DEF f
<1>4. /\ Moved(x) /\ pc'[x] = "close"
      /\ my'[x] = f
  BY <1>1, <1>2, <1>3, MovedTo DEF CloseBegins, Places, AtAwait, Running
<1>5. Types'
  BY <1>1, <1>2, <1>4 DEF CloseBegins, Locked, Pooled, Types, Moved, Takes,
     sessions, pooled
<1>6. Stands(x)'
  BY <1>1, <1>2, <1>4 DEF Stands, NoFrame, InFlight, CloserPlaces, Types, Task
<1>7. Keyed(x)
  BY <1>1, <1>2, <1>4 DEF CloseBegins, Locked, Pooled, Keyed, NoFrame, Types,
     pooled
<1>8. Counted'
  BY <1>1, <1>2, <1>4, CountKept DEF CloseBegins, Locked, Pooled, InFlight,
     pooled
<1>9. Orderly(x)
  BY <1>1, <1>2, <1>4 DEF CloseBegins, Locked, Pooled, Orderly, NoFrame, InHand,
     InFlight, Fresh, Types, Task, sessions, pooled
<1> QED
  BY <1>1, <1>4, <1>5, <1>6, <1>7, <1>8, <1>9, OneStep

\* It has a session closed.
LEMMA CloseKeySafe ==
    ASSUME IInv, NEW x \in Closer, Turn(x), CloseKey(x)
    PROVE  IInv'
<1> USE DEF IInv
<1>1. /\ x \in Task
      /\ pc[x] = "close"
  BY DEF CloseKey, Placed, Stands, Task, InFlight, CloserPlaces
<1>2. PICK k \in Key :
         /\ pool[k] \in Session
         /\ st' = Closing(pool[k])
         /\ Goes(x, IF loop[pool[k]] = home[x] THEN "wait" ELSE "forget",
                 [NoFrame EXCEPT !.key = k, !.mine = pool[k]])
  BY <1>1 DEF CloseKey, Types
<1> DEFINE there == IF loop[pool[k]] = home[x] THEN "wait" ELSE "forget"
<1> DEFINE f == [NoFrame EXCEPT !.key = k, !.mine = pool[k]]
<1>3. f \in Frame /\ f.key = k /\ f.mine = pool[k] /\ f.entry = None
  BY <1>1, <1>2, NoFrameType DEF Types, Frame, NoFrame
<1>4. there \in {"wait", "forget"}
  BY <1>1
<1>5. Goes(x, there, f)
  BY <1>1, <1>2, <1>4 DEF CloseKey, Closing
<1> HIDE DEF f, there
<1>6. /\ Moved(x) /\ pc'[x] = there
      /\ my'[x] = IF there = "done" THEN NoFrame ELSE f
  BY <1>1, <1>2, <1>3, <1>4, <1>5, MovedTo DEF CloseKey, Places, AtAwait,
     Running
<1>7. Types'
  BY <1>1, <1>2, <1>3, <1>4, <1>6 DEF CloseKey, Closing, Types, Moved, States,
     Alive, pooled
<1>8. Stands(x)'
  BY <1>1, <1>2, <1>3, <1>4, <1>6 DEF Stands, NoFrame, InFlight, CloserPlaces,
     Types, Task
<1>9. Keyed(x)
  BY <1>1, <1>2, <1>3, <1>4, <1>6 DEF CloseKey, Closing, Keyed, NoFrame, Types,
     pooled
<1>10. Counted'
  BY <1>1, <1>2, <1>3, <1>4, <1>6, CountKept DEF CloseKey, Closing, InFlight,
     pooled
<1>11. Orderly(x)
  BY <1>1, <1>2, <1>3, <1>4, <1>6 DEF CloseKey, Closing, Orderly, NoFrame,
     InHand, InFlight, Fresh, Types, Task, Alive, pooled
<1> QED
  BY <1>1, <1>6, <1>7, <1>8, <1>9, <1>10, <1>11, OneStep

\* It finds a key gone.
LEMMA CloseMissingSafe ==
    ASSUME IInv, NEW x \in Closer, Turn(x), CloseMissing(x)
    PROVE  IInv'
<1> USE DEF IInv
<1>1. /\ x \in Task
      /\ pc[x] = "close"
  BY DEF CloseMissing, Placed, Stands, Task, InFlight, CloserPlaces
<1> DEFINE f == NoFrame
<1>2. f \in Frame
  BY <1>1, NoFrameType DEF Types, Frame, NoFrame
<1>3. Goes(x, "failed", f)
  BY <1>1 DEF CloseMissing
<1> HIDE DEF f
<1>4. /\ Moved(x) /\ pc'[x] = "failed"
      /\ my'[x] = NoFrame
  BY <1>1, <1>2, <1>3, MovedTo DEF CloseMissing, Places, AtAwait, Running
<1>5. Types'
  BY <1>1, <1>4 DEF CloseMissing, Types, Moved, Release, sessions, pooled
<1>6. Stands(x)'
  BY <1>1, <1>4 DEF Stands, NoFrame, InFlight, CloserPlaces, Types, Task
<1>7. Keyed(x)
  BY <1>1, <1>4 DEF CloseMissing, Keyed, NoFrame, Types, pooled
<1>8. Counted'
  BY <1>1, <1>4, CountKept DEF CloseMissing, InFlight, pooled
<1>9. Orderly(x)
  BY <1>1, <1>4 DEF CloseMissing, Orderly, NoFrame, InHand, InFlight, Fresh,
     Types, Task, sessions, pooled
<1> QED
  BY <1>1, <1>4, <1>5, <1>6, <1>7, <1>8, <1>9, OneStep

\* It forgets a key.
LEMMA ClosedSafe ==
    ASSUME IInv, NEW x \in Closer, Turn(x), Closed(x)
    PROVE  IInv'
<1> USE DEF IInv
<1>1. /\ x \in Task
      /\ pc[x] \in {"wait", "forget"}
      /\ my[x].key \in Key
  BY DEF Closed, HasClosed, Placed, Stands, Task, InFlight, CloserPlaces
<1> DEFINE f == NoFrame
<1>2. f \in Frame /\ f = NoFrame
  BY <1>1, NoFrameType DEF Types, Frame, NoFrame
<1>3. Goes(x, "close", f)
  BY <1>1 DEF Closed, HasClosed, Forget
<1> HIDE DEF f
<1>4. /\ Moved(x) /\ pc'[x] = "close"
      /\ my'[x] = f
  BY <1>1, <1>2, <1>3, MovedTo DEF Closed, Places, AtAwait, Running
<1>5. Types'
  BY <1>1, <1>2, <1>4 DEF Closed, HasClosed, Forget, Types, Moved, sessions
<1>6. Stands(x)'
  BY <1>1, <1>2, <1>4 DEF Stands, NoFrame, InFlight, CloserPlaces, Types, Task
<1>7. Keyed(x)
  BY <1>1, <1>2, <1>4 DEF Closed, HasClosed, Forget, Keyed, NoFrame, Types
<1>8. Counted'
  BY <1>1, <1>2, <1>4, CountKept DEF Closed, HasClosed, Forget, InFlight
<1>9. Orderly(x)
  BY <1>1, <1>2, <1>4 DEF Closed, HasClosed, Forget, Orderly, NoFrame, InHand,
     InFlight, Fresh, Types, Task, sessions
<1> QED
  BY <1>1, <1>4, <1>5, <1>6, <1>7, <1>8, <1>9, OneStep

\* It is done.
LEMMA CloseEndsSafe ==
    ASSUME IInv, NEW x \in Closer, Turn(x), CloseEnds(x)
    PROVE  IInv'
<1> USE DEF IInv
<1>1. /\ x \in Task
      /\ pc[x] = "close"
  BY DEF CloseEnds, Placed, Stands, Task, InFlight, CloserPlaces
<1> DEFINE f == NoFrame
<1>2. f \in Frame
  BY <1>1, NoFrameType DEF Types, Frame, NoFrame
<1>3. Goes(x, "done", f)
  BY <1>1 DEF CloseEnds
<1> HIDE DEF f
<1>4. /\ Moved(x) /\ pc'[x] = "done"
      /\ my'[x] = NoFrame
  BY <1>1, <1>2, <1>3, MovedTo DEF CloseEnds, Places, AtAwait, Running
<1>5. Types'
  BY <1>1, <1>4 DEF CloseEnds, Types, Moved, Release, sessions, pooled
<1>6. Stands(x)'
  BY <1>1, <1>4 DEF Stands, NoFrame, InFlight, CloserPlaces, Types, Task
<1>7. Keyed(x)
  BY <1>1, <1>4 DEF CloseEnds, Keyed, NoFrame, Types, pooled
<1>8. Counted'
  BY <1>1, <1>4, CountKept DEF CloseEnds, InFlight, pooled
<1>9. Orderly(x)
  BY <1>1, <1>4 DEF CloseEnds, Orderly, NoFrame, InHand, InFlight, Fresh, Types,
     Task, sessions, pooled
<1> QED
  BY <1>1, <1>4, <1>5, <1>6, <1>7, <1>8, <1>9, OneStep

\* The environment changes the state of a session, the idle flag of a key, or lets
\* the server run a call.
LEMMA EnvironmentSafe ==
    ASSUME IInv, Environment
    PROVE  IInv'
<1> USE DEF IInv
<1>1. CASE \E s \in Session : SessionTask(s) \/ (~ Unused(s) /\ Fault(s))
  <2>1. /\ UNCHANGED <<home, pc, my, todo, runs, loop, pool, idle, uses, holder>>
        /\ st' \in [Session -> States]
        /\ mishaps' \in 0..MaxMishaps
    BY <1>1, BoundKnown DEF SessionTask, Connected, Fault, Unwound, Mishap, Types,
       States, Alive, tasks, pooled
  <2>2. \A s \in Session : st'[s] \in Fresh => st[s] \in Fresh
    BY <1>1 DEF SessionTask, Connected, Fault, Unwound, Types, Fresh, Alive
  <2>3. Types' /\ Placed' /\ OneKey' /\ AtHome' /\ RunOnce' /\ Deferred'
    BY <2>1 DEF Types, Placed, Stands, OneKey, AtHome, RunOnce, Once, Deferred
  <2>4. Dropped'
    BY <2>1, <2>2 DEF Dropped, Placed, Stands, InFlight, Task
  <2> QED
    BY <2>1, <2>3, <2>4, CountStays
<1>2. CASE \E k \in Key : GrowsIdle(k)
  <2>1. /\ UNCHANGED <<home, pc, my, todo, runs, loop, st, pool, uses, holder>>
        /\ idle' \in [Key -> BOOLEAN]
        /\ mishaps' \in 0..MaxMishaps
    BY <1>2, BoundKnown DEF GrowsIdle, Mishap, Types, tasks, sessions
  <2> QED
    BY <2>1, CountStays DEF Types, Placed, Stands, OneKey, AtHome, Dropped, RunOnce,
       Once, Deferred
<1> QED
  BY <1>1, <1>2, ServerRunsSafe DEF Environment

-----------------------------------------------------------------------------
(* Theorems                                                                *)

\* A step of one task leaves the others where they stand.
LEMMA OthersStand ==
    ASSUME IInv, NEW t \in Task, NEW u \in Task, t # u,
           \/ t \in Caller /\ Calling(t)
           \/ t \in Closer /\ ClosingAll(t)
    PROVE  pc'[u] = pc[u]
<1>1. ASSUME NEW where, NEW f, Goes(t, where, f)
      PROVE  pc'[u] = pc[u]
  BY <1>1 DEF Goes, IInv, Types
<1>2. CASE t \in Caller /\ Calling(t)
  <2>1. (\E where, f : Goes(t, where, f)) \/ pc' = pc
    <3>1. CASE (\E k \in Key : Start(t, k)) \/ SweepBegins(t)
      BY <3>1 DEF Start, SweepBegins
    <3>2. CASE Sweeping(t)
      BY <3>2 DEF Sweeping, Looks, Counts, Grips, Evicts
    <3>3. CASE Picking(t)
      BY <3>3 DEF Picking, Finds, PickMissing, Reuse, Replace, Make, Replaced, Begins
    <3>4. CASE Creating(t) \/ BeginUse(t) \/ Terminated(t)
      BY <3>4 DEF Creating, Created, CreateFails, BeginUse, Terminated
    <3>5. CASE Answered(t) \/ Drops(t) \/ CallFails(t)
      BY <3>5 DEF Answered, Drops, CallFails, Leave
    <3>6. CASE Cancelled(t)
      BY <3>6 DEF Cancelled, CancelWaiting, CancelReplacing, CancelCreating,
         CancelCall, Leave
    <3> QED
      BY <1>2, <3>1, <3>2, <3>3, <3>4, <3>5, <3>6 DEF Calling
  <2> QED
    BY <1>1, <2>1
<1>3. CASE t \in Closer /\ ClosingAll(t)
  <2>1. \E where, f : Goes(t, where, f)
    BY <1>3 DEF ClosingAll, CloseAsked, CloseBegins, Closes, CloseKey, CloseMissing,
       Closed, CloseEnds
  <2> QED
    BY <1>1, <2>1
<1> QED
  BY <1>2, <1>3

LEMMA InitSafe == Init => IInv
<1> SUFFICES ASSUME Init PROVE IInv
  OBVIOUS
<1>1. \A k \in Key : CallsOf(k) = {}
  BY DEF Init, CallsOf, Task, InFlight
<1>2. Counted
  BY <1>1, FS_EmptySet DEF Init, Counted
<1>3. Types
  BY NoFrameType, HomesKnown, BoundKnown DEF Init, Types, States, Places, AtAwait
<1>4. Placed /\ OneKey
  BY DEF Init, Placed, Stands, BeforeCall, InFlight, CloserPlaces, OneKey, NoFrame,
     Task
<1>5. AtHome /\ Dropped /\ RunOnce /\ Deferred
  BY DEF Init, AtHome, Dropped, RunOnce, Once, Deferred, InHand, InFlight, Task
<1> QED
  BY <1>2, <1>3, <1>4, <1>5 DEF IInv

LEMMA NextSafe == IInv /\ [Next]_vars => IInv'
<1> SUFFICES ASSUME IInv, [Next]_vars PROVE IInv'
  OBVIOUS
<1>1. ASSUME NEW c \in Caller, Turn(c), Calling(c) PROVE IInv'
  <2>1. CASE (\E k \in Key : Start(c, k)) \/ SweepBegins(c) \/ Sweeping(c)
    BY <1>1, <2>1, StartSafe, SweepBeginsSafe, LooksSafe, CountsSafe, GripsSafe,
       EvictsSafe DEF Sweeping
  <2>2. CASE Picking(c)
    BY <1>1, <2>2, FindsSafe, PickMissingSafe, ReuseSafe, ReplaceSafe, MakeSafe,
       ReplacedSafe DEF Picking
  <2>3. CASE Creating(c) \/ BeginUse(c) \/ Answered(c) \/ Terminated(c)
    BY <1>1, <2>3, CreatedSafe, CreateFailsSafe, BeginUseSafe, AnsweredSafe,
       TerminatedSafe DEF Creating
  <2>4. CASE Drops(c) \/ CallFails(c) \/ Cancelled(c)
    BY <1>1, <2>4, DropsSafe, CallFailsSafe, CancelWaitingSafe,
       CancelReplacingSafe, CancelCreatingSafe, CancelCallSafe DEF Cancelled
  <2> QED
    BY <1>1, <2>1, <2>2, <2>3, <2>4 DEF Calling
<1>2. ASSUME NEW x \in Closer, Turn(x), ClosingAll(x) PROVE IInv'
  BY <1>2, CloseAskedSafe, CloseBeginsSafe, CloseKeySafe, CloseMissingSafe,
     ClosedSafe, CloseEndsSafe DEF ClosingAll, Closes
<1>3. CASE UNCHANGED vars
  BY <1>3, CountStays DEF vars, tasks, sessions, pooled, IInv, Types, Placed, Stands,
     OneKey, AtHome, Dropped, RunOnce, Once, Deferred
<1> QED
  BY <1>1, <1>2, <1>3, EnvironmentSafe DEF Next

\* The invariant holds of every behaviour of the pool.
THEOREM Invariant == Spec => []IInv
BY InitSafe, NextSafe, PTL DEF Spec

\* Types, and with them that no use count falls below zero: every use that ends
\* has begun.
THEOREM TypesHold == Spec => []TypeOK
<1>1. IInv => TypeOK
  <2> SUFFICES ASSUME IInv PROVE TypeOK
    OBVIOUS
  <2>1. \A k \in Key : uses[k] \in Nat
    BY CallsFinite DEF IInv, Counted
  <2> QED
    BY <2>1 DEF IInv, Types, TypeOK, Places
<1> QED
  BY <1>1, Invariant, PTL

\* A caller calls on a session of its own event loop (create_session's check of
\* the stored loop, whatever other loops do to the pool meanwhile).
THEOREM NeverForeignHolds == Spec => []NeverForeign
<1>1. IInv => NeverForeign
  BY DEF IInv, AtHome, NeverForeign, InHand, InFlight
<1> QED
  BY <1>1, Invariant, PTL

\* The server runs a tool call at most once (no retry after a failure that may
\* have followed its execution).
THEOREM AtMostOnceHolds == Spec => []AtMostOnce
<1>1. IInv => AtMostOnce
  BY DEF IInv, RunOnce, Once, AtMostOnce
<1> QED
  BY <1>1, Invariant, PTL

\* A call that ends closes no session that the server still knows
\* (_discard_session compares the session, not only the key, and closes what it
\* has read, whatever is pooled when it pops the entry).
THEOREM DiscardSparesLiveHolds == Spec => DiscardSparesLive
<1>1. ASSUME IInv, [Next]_vars, NEW c \in Caller, NEW s \in Session,
             pc[c] \in InFlight, pc'[c] # pc[c], st[s] = "open"
      PROVE  st'[s] = "open"
  <2>1. CASE Drops(c)
    <3>1. my[c].entry # s
      BY <1>1, <2>1 DEF Drops, IInv, Placed, Stands, Dropped, Fresh, Task
    <3> QED
      BY <1>1, <2>1, <3>1 DEF Drops, Closing, IInv, Types
  <2>2. CASE Terminated(c) \/ Answered(c) \/ CallFails(c) \/ CancelCall(c)
    BY <1>1, <2>2 DEF Terminated, Answered, CallFails, CancelCall, sessions
  <2>3. ASSUME NEW t \in Task, \/ t \in Caller /\ Calling(t)
                               \/ t \in Closer /\ ClosingAll(t)
        PROVE  t = c
    BY <1>1, <2>3, OthersStand DEF Task
  <2>4. ASSUME Calling(c)
        PROVE  \/ Drops(c) \/ Terminated(c) \/ Answered(c) \/ CallFails(c)
               \/ CancelCall(c)
    <3>1. ~ Sweeping(c) /\ ~ SweepBegins(c) /\ ~ \E k \in Key : Start(c, k)
      BY <1>1 DEF InFlight, Sweeping, Looks, Counts, Grips, Evicts, SweepBegins,
         Locked, Start
    <3>2. ~ Picking(c)
      BY <1>1 DEF InFlight, Picking, Finds, PickMissing, Reuse, Replace, Make,
         Replaced, Swept, HasClosed
    <3>3. ~ Creating(c) /\ ~ BeginUse(c)
      BY <1>1 DEF InFlight, Creating, Created, CreateFails, BeginUse
    <3>4. ~ CancelWaiting(c) /\ ~ CancelReplacing(c) /\ ~ CancelCreating(c)
      BY <1>1 DEF InFlight, CancelWaiting, CancelReplacing, CancelCreating
    <3> QED
      BY <2>4, <3>1, <3>2, <3>3, <3>4 DEF Calling, Cancelled
  <2>5. CASE Environment \/ UNCHANGED vars
    BY <1>1, <2>5 DEF Environment, SessionTask, Connected, Fault, Unwound, GrowsIdle,
       ServerRuns, vars, tasks
  <2>6. CASE \E d \in Caller : Calling(d)
    BY <2>1, <2>2, <2>3, <2>4, <2>6 DEF Task
  <2>7. CASE \E x \in Closer : ClosingAll(x)
    BY <1>1, <2>3, <2>7 DEF Task
  <2> QED
    BY <1>1, <2>5, <2>6, <2>7 DEF Next
<1>2. IInv /\ [Next]_vars
      => [\A c \in Caller, s \in Session :
            /\ pc[c] \in {"call", "drop"} /\ pc'[c] # pc[c] /\ st[s] = "open"
            => st'[s] = "open"]_vars
  BY <1>1 DEF InFlight
<1> QED
  BY <1>2, Invariant, PTL DEF Spec, DiscardSparesLive

\* What a caller of one key does never closes the session that a caller of
\* another key calls on, a sweep of another loop excepted (_evict_idle_sessions
\* skips keys in use, and nothing else runs on its loop until it has forgotten
\* the key).
THEOREM SweepSparesCallsHolds == Spec => SweepSparesCalls
<1>1. ASSUME IInv, [Next]_vars, NEW c \in Caller, NEW d \in Caller,
             pc[c] = "call", st[my[c].mine] \in Alive,
             pc[d] # pc'[d], my[d].key # my[c].key,
             pc[d] = "evict" => home[d] = home[c]
      PROVE  st'[my[c].mine] # "closing"
  <2> DEFINE s == my[c].mine
  <2>1. s \in Session /\ my[c].key \in Key /\ c \in Task /\ d \in Task /\ s # None
    BY <1>1 DEF IInv, Placed, Stands, Task, InFlight
  <2>2. ASSUME NEW u, u # s PROVE Closing(u)[s] # "closing"
    BY <1>1, <2>1, <2>2 DEF Closing, IInv, Types, Alive
  <2>3. my[d].mine # s
    BY <1>1, <2>1 DEF IInv, OneKey
  <2>4. my[d].key \in Key => pool[my[d].key] # s
    BY <1>1, <2>1 DEF IInv, OneKey
  <2>5. NewSession # s \/ ~ \E u \in Session : Unused(u)
    BY <2>1, NewUnused DEF Unused
  <2>6. ASSUME Calling(d) PROVE st'[s] # "closing"
    <3>1. CASE Evicts(d)
      <4>1. my[c].key # my[d].aim
        BY <1>1, <3>1 DEF Evicts, IInv, Deferred, InFlight
      <4>2. my[d].entry # s
        BY <1>1, <2>1, <4>1 DEF IInv, OneKey
      <4> QED
        BY <2>2, <3>1, <4>2 DEF Evicts
    <3>2. CASE Looks(d) \/ Counts(d) \/ Grips(d) \/ SweepBegins(d)
               \/ \E k \in Key : Start(d, k)
      BY <1>1, <3>2 DEF Looks, Counts, Grips, SweepBegins, Start, sessions, Alive
    <3>3. CASE Replace(d)
      <4>1. my[d].key \in Key
        BY <2>1, <3>3, <1>1 DEF Replace, IInv, Placed, Stands
      <4> QED
        BY <2>2, <2>4, <3>3, <4>1 DEF Replace
    <3>4. CASE Finds(d) \/ PickMissing(d) \/ Reuse(d)
      BY <1>1, <3>4 DEF Finds, PickMissing, Reuse, sessions, Alive
    <3>5. CASE Make(d) \/ Replaced(d)
      BY <1>1, <2>1, <2>5, <3>5 DEF Make, Replaced, Begins, IInv, Types, Alive
    <3>6. CASE Created(d) \/ BeginUse(d) \/ Terminated(d) \/ Answered(d) \/ CallFails(d)
      BY <1>1, <3>6 DEF Created, BeginUse, Terminated, Answered, CallFails, sessions,
         Alive
    <3>7. CASE CreateFails(d)
      BY <1>1, <2>1, <2>3, <3>7 DEF CreateFails, IInv, Types, Alive
    <3>8. CASE Drops(d)
      <4>1. my[d].entry # s
        BY <1>1, <2>1, <2>3, <3>8 DEF Drops, IInv, Placed, Stands
      <4> QED
        BY <1>1, <2>2, <3>8, <4>1 DEF Drops, Alive
    <3>9. CASE Cancelled(d)
      BY <1>1, <3>9 DEF Cancelled, CancelWaiting, CancelReplacing, CancelCreating,
         CancelCall, sessions, Alive
    <3> QED
      BY <2>6, <3>1, <3>2, <3>3, <3>4, <3>5, <3>6, <3>7, <3>8, <3>9
      DEF Calling, Sweeping, Picking, Creating
  <2>7. ASSUME NEW t \in Task, \/ t \in Caller /\ Calling(t)
                               \/ t \in Closer /\ ClosingAll(t)
        PROVE  t = d
    BY <1>1, <2>1, <2>7, OthersStand
  <2>8. CASE Environment \/ UNCHANGED vars
    BY <1>1, <2>8 DEF Environment, SessionTask, Connected, Fault, Unwound, GrowsIdle,
       ServerRuns, vars, tasks
  <2>9. CASE \E t \in Caller : Calling(t)
    BY <2>6, <2>7, <2>9 DEF Task
  <2>10. CASE \E x \in Closer : ClosingAll(x)
    BY <1>1, <2>7, <2>10 DEF Task
  <2> QED
    BY <1>1, <2>8, <2>9, <2>10 DEF Next
<1>2. IInv /\ [Next]_vars
      => [\A c, d \in Caller :
            /\ pc[c] = "call" /\ st[my[c].mine] \in Alive
            /\ pc[d] # pc'[d] /\ my[d].key # my[c].key
            /\ pc[d] = "evict" => home[d] = home[c]
            => st'[my[c].mine] # "closing"]_vars
  BY <1>1
<1> QED
  BY <1>2, Invariant, PTL DEF Spec, SweepSparesCalls

=============================================================================
