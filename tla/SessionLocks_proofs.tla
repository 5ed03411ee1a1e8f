------------------------- MODULE SessionLocks_proofs -------------------------
(***************************************************************************)
(* Proofs about SessionLocks, for any set of tasks, keys and lock objects. *)
(* The inductive invariant says that every open _with_lock frame of a key  *)
(* refers to the one lock the registry has for it, and that the reference  *)
(* count is the number of those frames.                                    *)
(***************************************************************************)
EXTENDS SessionLocks, FiniteSetTheorems, TLAPS

Refs(k) == {t \in Task : k \in Entered(t)}

FramesAgree == \A t \in Task, k \in Key :
                 frame[t][k] # NoLock => frame[t][k] = locks[k]
LocksDistinct == \A j, k \in Key : locks[j] = locks[k] /\ locks[k] # NoLock => j = k
CountsExact == \A k \in Key : refCount[k] = Cardinality(Refs(k))
EntriesInUse == \A k \in Key : locks[k] # NoLock => Refs(k) # {}
OwnersInside == \A l \in Lock : owner[l] # NoTask =>
                  \E k \in Key : frame[owner[l]][k] = l

IInv == /\ TypeOK
        /\ FramesAgree
        /\ LocksDistinct
        /\ CountsExact
        /\ EntriesInUse
        /\ OwnersInside

-----------------------------------------------------------------------------
(* What opening a frame does to the count: a set of tasks gains a member.  *)
LEMMA GainOne ==
  ASSUME NEW S, NEW T, IsFiniteSet(S), NEW x, x \notin S, T = S \cup {x}
  PROVE  IsFiniteSet(T) /\ Cardinality(T) = Cardinality(S) + 1
BY FS_AddElement

LEMMA RefsFinite == \A k \in Key : IsFiniteSet(Refs(k)) /\ IsFiniteSet(Refs(k)')
<1>1. \A k \in Key : Refs(k) \subseteq Task /\ Refs(k)' \subseteq Task
  BY DEF Refs
<1> QED BY <1>1, FS_Subset, TaskAssumption

(* The registered lock is a lock object; a new one is nobody's.            *)
LEMMA LockForKind ==
  ASSUME TypeOK, NEW k \in Key, NEW l \in LockFor(k)
  PROVE  /\ l \in Lock
         /\ \/ locks[k] = l /\ l # NoLock
            \/ /\ locks[k] = NoLock
               /\ l \in Unreferenced
<1>1. CASE locks[k] # NoLock
  BY <1>1, LockAssumption DEF LockFor, TypeOK
<1>2. CASE locks[k] = NoLock
  <2>1. Unreferenced # {} /\ l = (CHOOSE x \in Unreferenced : TRUE)
    BY <1>2 DEF LockFor
  <2>2. l \in Unreferenced
    BY <2>1
  <2> QED BY <1>2, <2>2 DEF Unreferenced
<1> QED BY <1>1, <1>2

-----------------------------------------------------------------------------
LEMMA InitIInv == Init => IInv
<1> SUFFICES ASSUME Init PROVE IInv OBVIOUS
<1>1. TypeOK
  BY DEF Init, TypeOK, PC
<1>2. \A k \in Key : Refs(k) = {}
  BY DEF Init, Refs, Entered
<1>3. CountsExact
  BY <1>2, FS_EmptySet DEF Init, CountsExact
<1> QED
  BY <1>1, <1>2, <1>3 DEF IInv, Init, FramesAgree, LocksDistinct, EntriesInUse, OwnersInside

LEMMA CallsLockKeys == \A keys \in Calls : keys \subseteq Key
<1>1. \A u \in UserKey : \A shared \in SharedStateKeys(u) : shared \subseteq Key
  BY DEF SharedStateKeys, Key
<1>2. \A keys \in CreateKeys : keys \subseteq Key
  BY <1>1 DEF CreateKeys
<1>3. \A s \in SessionKey : UserOf[s] \in UserKey
  BY KeyAssumption
<1>4. \A keys \in AppendKeys : keys \subseteq Key
  BY <1>1, <1>3 DEF AppendKeys, Key
<1> QED BY <1>2, <1>4, CallsAssumption

LEMMA TypeStep == IInv /\ [Next]_vars => TypeOK'
<1> SUFFICES ASSUME IInv, TypeOK, [Next]_vars PROVE TypeOK'
  BY DEF IInv
<1>1. CASE UNCHANGED vars
  BY <1>1 DEF vars, TypeOK
<1>2. ASSUME NEW t \in Task, Call(t) PROVE TypeOK'
  BY <1>2, CallsLockKeys DEF Call, Goto, TypeOK, PC
<1>3. ASSUME NEW t \in Task, Enter(t) PROVE TypeOK'
  BY <1>3, LockForKind DEF Enter, Goto, TypeOK, PC
<1>4. ASSUME NEW t \in Task, Acquire(t) PROVE TypeOK'
  <2>1. PICK k \in Key :
          LET l == frame[t][k] IN
          /\ IsInnermost(t, k)
          /\ \/ owner' = [owner EXCEPT ![l] = t] /\ Goto(t, "enter") /\ UNCHANGED waiters
             \/ /\ waiters' = [waiters EXCEPT ![l] = Append(@, t)]
                /\ Goto(t, "wait") /\ UNCHANGED owner
    BY <1>4 DEF Acquire
  <2>2. frame[t][k] \in Lock
    BY <2>1 DEF IsInnermost, Entered, TypeOK
  <2>3. Append(waiters[frame[t][k]], t) \in Seq(Task)
    BY <2>2 DEF TypeOK
  <2>4. owner' \in [Lock -> Task \cup {NoTask}] /\ waiters' \in [Lock -> Seq(Task)]
    BY <2>1, <2>2, <2>3 DEF TypeOK
  <2>5. pc' \in [Task -> PC]
    BY <2>1 DEF Goto, TypeOK, PC
  <2> QED BY <1>4, <2>4, <2>5 DEF Acquire, TypeOK
<1>5. ASSUME NEW t \in Task, Granted(t) PROVE TypeOK'
  BY <1>5 DEF Granted, IsInnermost, Entered, Goto, TypeOK, PC
<1>6. ASSUME NEW t \in Task, Cancel(t) PROVE TypeOK'
  <2>1. PICK k \in Key : /\ IsInnermost(t, k)
                         /\ \E i \in DOMAIN waiters[frame[t][k]] : waiters' =
                              [waiters EXCEPT ![frame[t][k]] = RemoveAt(@, i)]
    BY <1>6 DEF Cancel
  <2>2. frame[t][k] \in Lock
    BY <2>1 DEF IsInnermost, Entered, TypeOK
  <2>3. \A i \in DOMAIN waiters[frame[t][k]] :
          RemoveAt(waiters[frame[t][k]], i) \in Seq(Task)
    BY <2>2 DEF RemoveAt, TypeOK
  <2>4. waiters' \in [Lock -> Seq(Task)]
    BY <2>1, <2>2, <2>3 DEF TypeOK
  <2> QED BY <1>6, <2>4 DEF Cancel, Goto, TypeOK, PC
<1>7. ASSUME NEW t \in Task, Finish(t) PROVE TypeOK'
  BY <1>7 DEF Finish, Goto, TypeOK, PC
<1>8. ASSUME NEW t \in Task, Release(t) PROVE TypeOK'
  BY <1>8 DEF Release, TypeOK
<1>9. ASSUME NEW t \in Task, Leave(t) PROVE TypeOK'
  <2>1. PICK k \in Key :
          /\ t \in Refs(k)
          /\ \/ refCount' = [refCount EXCEPT ![k] = 0]
             \/ refCount' = [refCount EXCEPT ![k] = @ - 1]
          /\ locks' = locks \/ locks' = [locks EXCEPT ![k] = NoLock]
          /\ frame' = [frame EXCEPT ![t][k] = NoLock]
    BY <1>9 DEF Leave, IsInnermost, Refs
  <2>2. refCount[k] # 0
    BY <2>1, RefsFinite, FS_EmptySet DEF IInv, CountsExact
  <2>3. refCount[k] \in Nat /\ refCount[k] - 1 \in Nat
    BY <2>2 DEF TypeOK
  <2>4. refCount' \in [Key -> Nat]
    BY <2>1, <2>3 DEF TypeOK
  <2>5. locks' \in [Key -> Lock \cup {NoLock}]
    BY <2>1 DEF TypeOK
  <2>6. frame' \in [Task -> [Key -> Lock \cup {NoLock}]]
    BY <2>1 DEF TypeOK
  <2> QED BY <1>9, <2>4, <2>5, <2>6 DEF Leave, TypeOK
<1>10. ASSUME NEW t \in Task, Return(t) PROVE TypeOK'
  BY <1>10 DEF Return, Goto, TypeOK, PC
<1> QED
  BY <1>1, <1>2, <1>3, <1>4, <1>5, <1>6, <1>7, <1>8, <1>9, <1>10 DEF Next, Step

(* The steps that leave registry, frames and owners alone, or give a lock  *)
(* to a task that has a frame for it, or take it away.                     *)
LEMMA FrameStep ==
  ASSUME IInv, TypeOK', UNCHANGED <<locks, refCount, frame>>,
         \A l \in Lock : owner'[l] # NoTask /\ owner'[l] # owner[l] =>
           \E k \in Key : frame[owner'[l]][k] = l
  PROVE  IInv'
<1>1. \A k \in Key : Refs(k)' = Refs(k)
  BY DEF Refs, Entered
<1>2. FramesAgree' /\ LocksDistinct'
  BY DEF IInv, FramesAgree, LocksDistinct
<1>3. CountsExact' /\ EntriesInUse'
  BY <1>1 DEF IInv, CountsExact, EntriesInUse
<1>4. OwnersInside'
  BY DEF IInv, OwnersInside
<1> QED BY <1>2, <1>3, <1>4 DEF IInv

LEMMA EnterStep == ASSUME IInv, TypeOK', NEW t \in Task, Enter(t) PROVE IInv'
<1>0. PICK k \in Key :
        /\ IsNext(t, k)
        /\ \E l \in LockFor(k) : /\ locks' = [locks EXCEPT ![k] = l]
                                 /\ frame' = [frame EXCEPT ![t][k] = l]
        /\ refCount' = [refCount EXCEPT ![k] = @ + 1]
        /\ owner' = owner
  BY DEF Enter
<1>1. PICK l \in LockFor(k) :
        /\ k \notin Entered(t)
        /\ locks' = [locks EXCEPT ![k] = l]
        /\ frame' = [frame EXCEPT ![t][k] = l]
        /\ refCount' = [refCount EXCEPT ![k] = @ + 1]
        /\ owner' = owner
  BY <1>0 DEF IsNext, Missing
<1> USE DEF IInv, TypeOK
<1>2. /\ l \in Lock /\ l # NoLock
      /\ \/ locks[k] = l
         \/ locks[k] = NoLock /\ l \in Unreferenced
  BY LockForKind, LockAssumption
<1>3. frame[t][k] = NoLock
  BY <1>1 DEF Entered
<1>4. /\ \A u \in Task, j \in Key : 
           frame'[u][j] = IF u = t /\ j = k THEN l ELSE frame[u][j]
      /\ \A j \in Key : locks'[j] = IF j = k THEN l ELSE locks[j]
  BY <1>1
<1>5. /\ Refs(k)' = Refs(k) \cup {t} /\ t \notin Refs(k)
      /\ \A j \in Key \ {k} : Refs(j)' = Refs(j)
  BY <1>1, <1>2, <1>3, <1>4 DEF Refs, Entered
<1>6. FramesAgree'
  <2> SUFFICES ASSUME NEW u \in Task, NEW j \in Key, frame'[u][j] # NoLock
               PROVE  frame'[u][j] = locks'[j]
    BY DEF FramesAgree
  <2>1. CASE u = t /\ j = k
    BY <2>1, <1>4
  <2>2. CASE ~(u = t /\ j = k)
    BY <2>2, <1>2, <1>4 DEF FramesAgree
  <2> QED BY <2>1, <2>2
<1>7. LocksDistinct'
  <2> SUFFICES ASSUME NEW i \in Key, NEW j \in Key, locks'[i] = locks'[j],
                      locks'[j] # NoLock, i # j
               PROVE  FALSE
    BY DEF LocksDistinct
  <2>1. \A m \in Key \ {k} : locks[m] # l
    BY <1>2 DEF LocksDistinct, Unreferenced
  <2> QED BY <2>1, <1>4 DEF LocksDistinct
<1>8. CountsExact'
  <2>1. Cardinality(Refs(k)') = Cardinality(Refs(k)) + 1
    BY <1>5, GainOne, RefsFinite
  <2>2. refCount'[k] = refCount[k] + 1 /\ \A j \in Key \ {k} : refCount'[j] = refCount[j]
    BY <1>1
  <2> QED BY <1>5, <2>1, <2>2 DEF CountsExact
<1>9. EntriesInUse'
  BY <1>4, <1>5 DEF EntriesInUse
<1>10. OwnersInside'
  <2> SUFFICES ASSUME NEW m \in Lock, owner[m] # NoTask
               PROVE  \E j \in Key : frame'[owner[m]][j] = m
    BY <1>1 DEF OwnersInside
  <2>1. PICK j \in Key : frame[owner[m]][j] = m
    BY DEF OwnersInside
  <2>2. ~(owner[m] = t /\ j = k)
    BY <2>1, <1>3, LockAssumption
  <2> QED BY <2>1, <2>2, <1>4
<1> QED BY <1>6, <1>7, <1>8, <1>9, <1>10

LEMMA LeaveStep == ASSUME IInv, TypeOK', NEW t \in Task, Leave(t) PROVE IInv'
<1>1. PICK k \in Key :
        /\ k \in Entered(t)
        /\ owner[frame[t][k]] # t
        /\ IF Drops(k, frame[t][k])
           THEN /\ locks' = [locks EXCEPT ![k] = NoLock]
                /\ refCount' = [refCount EXCEPT ![k] = 0]
           ELSE /\ refCount' = [refCount EXCEPT ![k] = @ - 1]
                /\ locks' = locks
        /\ frame' = [frame EXCEPT ![t][k] = NoLock]
        /\ owner' = owner
  BY DEF Leave, IsInnermost
<1> DEFINE l == frame[t][k]
<1> USE DEF IInv, TypeOK
<1>2. l \in Lock /\ l # NoLock /\ locks[k] = l
  BY <1>1, LockAssumption DEF Entered, FramesAgree
<1>3. \A u \in Task, j \in Key :
        frame'[u][j] = IF u = t /\ j = k THEN NoLock ELSE frame[u][j]
  BY <1>1
<1>4. /\ Refs(k)' = Refs(k) \ {t} /\ t \in Refs(k)
      /\ \A j \in Key \ {k} : Refs(j)' = Refs(j)
  BY <1>1, <1>3 DEF Refs, Entered
<1>5. /\ Cardinality(Refs(k)') = refCount[k] - 1
      /\ Cardinality(Refs(k)') \in Nat
      /\ Cardinality(Refs(k)') = 0 <=> Refs(k)' = {}
  <2>1. IsFiniteSet(Refs(k)) /\ refCount[k] = Cardinality(Refs(k))
    BY RefsFinite DEF CountsExact
  <2>2. /\ IsFiniteSet(Refs(k) \ {t})
        /\ Cardinality(Refs(k) \ {t}) = Cardinality(Refs(k)) - 1
    BY <1>4, <2>1, FS_RemoveElement
  <2>3. /\ Cardinality(Refs(k)') = Cardinality(Refs(k)) - 1
        /\ IsFiniteSet(Refs(k)')
    BY <1>4, <2>2
  <2>4. /\ Cardinality(Refs(k)') \in Nat
        /\ Cardinality(Refs(k)') = 0 <=> Refs(k)' = {}
    BY <2>3, FS_CardinalityType, FS_EmptySet
  <2> QED BY <2>1, <2>3, <2>4
<1>6. (* the last reference is to a lock nobody holds *)
      Refs(k)' = {} => owner[l] = NoTask
  <2> SUFFICES ASSUME Refs(k)' = {}, owner[l] # NoTask PROVE FALSE
    OBVIOUS
  <2>1. owner[l] \in Task
    BY <1>2
  <2>2. PICK j \in Key : frame[owner[l]][j] = l
    BY <1>2 DEF OwnersInside
  <2>3. locks[j] = l
    BY <2>1, <2>2, <1>2 DEF FramesAgree
  <2>4. j = k
    BY <2>3, <1>2 DEF LocksDistinct
  <2>5. owner[l] \in Refs(k)
    BY <2>1, <2>2, <2>4, <1>2 DEF Refs, Entered
  <2> QED BY <2>5, <1>1, <1>4
<1>7. Drops(k, l) <=> Refs(k)' = {}
  BY <1>5, <1>6 DEF Drops
<1>8. CountsExact'
  <2> SUFFICES ASSUME NEW j \in Key PROVE refCount'[j] = Cardinality(Refs(j)')
    BY DEF CountsExact
  <2>1. CASE j = k
    <3>1. refCount'[k] = IF Refs(k)' = {} THEN 0 ELSE refCount[k] - 1
      BY <1>1, <1>7
    <3> QED BY <2>1, <3>1, <1>5
  <2>2. CASE j # k
    <3>1. refCount'[j] = refCount[j] /\ Refs(j)' = Refs(j)
      BY <2>2, <1>1, <1>4
    <3> QED BY <3>1 DEF CountsExact
  <2> QED BY <2>1, <2>2
<1>9. /\ \A j \in Key \ {k} : locks'[j] = locks[j]
      /\ locks'[k] = IF Refs(k)' = {} THEN NoLock ELSE l
  BY <1>1, <1>2, <1>7
<1>10. EntriesInUse'
  BY <1>4, <1>9 DEF EntriesInUse
<1>11. FramesAgree'
  <2> SUFFICES ASSUME NEW u \in Task, NEW j \in Key, frame'[u][j] # NoLock
               PROVE  frame'[u][j] = locks'[j]
    BY DEF FramesAgree
  <2>1. CASE j = k
    <3>1. u \in Refs(k)'
      BY <2>1 DEF Refs, Entered
    <3> QED BY <2>1, <3>1, <1>2, <1>3, <1>9 DEF FramesAgree
  <2>2. CASE j # k
    BY <2>2, <1>3, <1>9 DEF FramesAgree
  <2> QED BY <2>1, <2>2
<1>12. LocksDistinct'
  <2> SUFFICES ASSUME NEW i \in Key, NEW j \in Key, locks'[i] = locks'[j],
                      locks'[j] # NoLock
               PROVE  i = j
    BY DEF LocksDistinct
  <2>1. locks'[i] = locks[i] /\ locks'[j] = locks[j]
    BY <1>2, <1>9
  <2> QED BY <2>1 DEF LocksDistinct
<1>13. OwnersInside'
  <2> SUFFICES ASSUME NEW m \in Lock, owner[m] # NoTask
               PROVE  \E j \in Key : frame'[owner[m]][j] = m
    BY <1>1 DEF OwnersInside
  <2>1. PICK j \in Key : frame[owner[m]][j] = m
    BY DEF OwnersInside
  <2>2. ~(owner[m] = t /\ j = k)
    BY <2>1, <1>1
  <2> QED BY <2>1, <2>2, <1>3
<1> QED BY <1>8, <1>10, <1>11, <1>12, <1>13

LEMMA IInvStep == IInv /\ [Next]_vars => IInv'
<1> SUFFICES ASSUME IInv, [Next]_vars PROVE IInv' OBVIOUS
<1>0. TypeOK'
  BY TypeStep
<1>1. CASE UNCHANGED vars
  BY <1>0, <1>1, FrameStep DEF vars
<1>2. ASSUME NEW t \in Task, Call(t) PROVE IInv'
  BY <1>0, <1>2, FrameStep DEF Call
<1>3. ASSUME NEW t \in Task, Enter(t) PROVE IInv'
  BY <1>0, <1>3, EnterStep
<1>4. ASSUME NEW t \in Task, Acquire(t) PROVE IInv'
  BY <1>0, <1>4, FrameStep DEF Acquire, IInv, TypeOK
<1>5. ASSUME NEW t \in Task, Granted(t) PROVE IInv'
  BY <1>0, <1>5, FrameStep DEF Granted, IInv, TypeOK
<1>6. ASSUME NEW t \in Task, Cancel(t) PROVE IInv'
  BY <1>0, <1>6, FrameStep DEF Cancel
<1>7. ASSUME NEW t \in Task, Finish(t) PROVE IInv'
  BY <1>0, <1>7, FrameStep DEF Finish
<1>8. ASSUME NEW t \in Task, Release(t) PROVE IInv'
  BY <1>0, <1>8, FrameStep DEF Release, IInv, TypeOK
<1>9. ASSUME NEW t \in Task, Leave(t) PROVE IInv'
  BY <1>0, <1>9, LeaveStep
<1>10. ASSUME NEW t \in Task, Return(t) PROVE IInv'
  BY <1>0, <1>10, FrameStep DEF Return
<1> QED
  BY <1>1, <1>2, <1>3, <1>4, <1>5, <1>6, <1>7, <1>8, <1>9, <1>10 DEF Next, Step

(* Every reachable state satisfies the inductive invariant of _with_lock.  *)
THEOREM InductiveInvariant == Spec => []IInv
BY InitIInv, IInvStep, PTL DEF Spec

(* The types of the lock registry and of its users.                        *)
THEOREM TypeCorrect == Spec => []TypeOK
BY InductiveInvariant, PTL DEF IInv

(* At most one task is inside the section of a key: _with_lock.            *)
THEOREM MutualExclusionHolds == Spec => []MutualExclusion
<1>1. IInv => MutualExclusion
  BY DEF IInv, MutualExclusion, FramesAgree, Inside, Entered
<1> QED BY <1>1, InductiveInvariant, PTL

(* The registry has an entry exactly for the keys in use: _with_lock.      *)
THEOREM RegistryExactHolds == Spec => []RegistryExact
<1>1. ASSUME IInv PROVE RegistryExact
  <2> SUFFICES ASSUME NEW k \in Key
               PROVE  /\ refCount[k] = Cardinality(Refs(k))
                      /\ locks[k] # NoLock <=> refCount[k] # 0
    BY DEF RegistryExact, Refs
  <2>1. refCount[k] = Cardinality(Refs(k))
    BY <1>1 DEF IInv, CountsExact
  <2>2. Cardinality(Refs(k)) = 0 <=> Refs(k) = {}
    BY RefsFinite, FS_EmptySet
  <2>3. locks[k] # NoLock <=> Refs(k) # {}
    BY <1>1 DEF IInv, EntriesInUse, FramesAgree, Refs, Entered
  <2> QED BY <2>1, <2>2, <2>3
<1> QED BY <1>1, InductiveInvariant, PTL

-----------------------------------------------------------------------------
(* The registry implements a mutex per key.  A key is held by the task     *)
(* that is inside its section.                                             *)
HolderBar == [k \in Key |-> Holder(k)]

HolderInside == \A k \in Key :
  /\ \A t \in Task : Inside(t, k) => Holder(k) = t
  /\ (\A t \in Task : ~Inside(t, k)) => Holder(k) = NoTask

LEMMA HolderIsInside == IInv => HolderInside
<1> SUFFICES ASSUME IInv, NEW k \in Key
             PROVE  /\ \A t \in Task : Inside(t, k) => Holder(k) = t
                    /\ (\A t \in Task : ~Inside(t, k)) => Holder(k) = NoTask
  BY DEF HolderInside
<1>1. \A t, u \in Task : Inside(t, k) /\ Inside(u, k) => t = u
  BY DEF IInv, FramesAgree, Inside, Entered
<1>2. ASSUME NEW t \in Task, Inside(t, k) PROVE Holder(k) = t
  <2>1. Holder(k) = CHOOSE u \in Task : Inside(u, k)
    BY <1>2 DEF Holder
  <2>2. Holder(k) \in Task /\ Inside(Holder(k), k)
    BY <1>2, <2>1
  <2> QED BY <1>1, <1>2, <2>2
<1>3. ASSUME \A t \in Task : ~Inside(t, k) PROVE Holder(k) = NoTask
  BY <1>3 DEF Holder
<1> QED BY <1>2, <1>3

(* A step that changes nobody's place in a section changes no holder.      *)
LEMMA SameHolders ==
  ASSUME HolderInside, HolderInside',
         \A k \in Key, t \in Task : Inside(t, k)' <=> Inside(t, k)
  PROVE  HolderBar' = HolderBar
<1> SUFFICES ASSUME NEW k \in Key PROVE Holder(k)' = Holder(k)
  BY DEF HolderBar
<1>1. CASE \E t \in Task : Inside(t, k)
  BY <1>1 DEF HolderInside
<1>2. CASE \A t \in Task : ~Inside(t, k)
  BY <1>2 DEF HolderInside
<1> QED BY <1>1, <1>2

(* A step by which one task takes the free section of one key.             *)
LEMMA TakeHolder ==
  ASSUME HolderInside, HolderInside', NEW k \in Key, NEW t \in Task,
         \A u \in Task : ~Inside(u, k), Inside(t, k)',
         \A j \in Key \ {k}, u \in Task : Inside(u, j)' <=> Inside(u, j)
  PROVE  Mutex!Take(t, k)
<1>1. Holder(k) = NoTask /\ Holder(k)' = t
  BY DEF HolderInside
<1>2. ASSUME NEW j \in Key \ {k} PROVE Holder(j)' = Holder(j)
  <2>1. CASE \E u \in Task : Inside(u, j)
    BY <1>2, <2>1 DEF HolderInside
  <2>2. CASE \A u \in Task : ~Inside(u, j)
    BY <1>2, <2>2 DEF HolderInside
  <2> QED BY <2>1, <2>2
<1> QED BY <1>1, <1>2 DEF Mutex!Take

(* A step by which the task inside the section of a key leaves it.         *)
LEMMA GiveHolder ==
  ASSUME HolderInside, HolderInside', NEW k \in Key, NEW t \in Task,
         Inside(t, k), \A u \in Task : ~Inside(u, k)',
         \A j \in Key \ {k}, u \in Task : Inside(u, j)' <=> Inside(u, j)
  PROVE  Mutex!Give(t, k)
<1>1. Holder(k) = t /\ Holder(k)' = NoTask
  BY DEF HolderInside
<1>2. ASSUME NEW j \in Key \ {k} PROVE Holder(j)' = Holder(j)
  <2>1. CASE \E u \in Task : Inside(u, j)
    BY <1>2, <2>1 DEF HolderInside
  <2>2. CASE \A u \in Task : ~Inside(u, j)
    BY <1>2, <2>2 DEF HolderInside
  <2> QED BY <2>1, <2>2
<1> QED BY <1>1, <1>2 DEF Mutex!Give

(* Giving the free lock of its innermost frame to a task.                  *)
LEMMA OwnerTakes ==
  ASSUME IInv, HolderInside, HolderInside', NEW k \in Key, NEW t \in Task,
         k \in Entered(t), owner[frame[t][k]] = NoTask,
         owner' = [owner EXCEPT ![frame[t][k]] = t], frame' = frame
  PROVE  Mutex!Take(t, k)
<1>1. frame[t][k] = locks[k] /\ locks[k] \in Lock /\ locks[k] # NoLock
  BY LockAssumption DEF IInv, TypeOK, FramesAgree, Entered
<1>2. \A u \in Task : ~Inside(u, k)
  BY <1>1, TaskAssumption DEF IInv, TypeOK, FramesAgree, Inside, Entered
<1>3. Inside(t, k)'
  BY <1>1 DEF IInv, TypeOK, Inside, Entered
<1>4. ASSUME NEW j \in Key \ {k}, NEW u \in Task
      PROVE  Inside(u, j)' <=> Inside(u, j)
  <2>1. j \in Entered(u) => frame[u][j] # locks[k]
    BY <1>1 DEF IInv, FramesAgree, LocksDistinct, Entered
  <2> QED BY <1>1, <2>1 DEF IInv, TypeOK, Inside, Entered
<1> QED BY <1>2, <1>3, <1>4, TakeHolder

LEMMA InsideUnchanged ==
  ASSUME UNCHANGED <<owner, frame>>
  PROVE  \A k \in Key, t \in Task : Inside(t, k)' <=> Inside(t, k)
BY DEF Inside, Entered

LEMMA StepMutex ==
  IInv /\ IInv' /\ HolderInside /\ HolderInside' /\ [Next]_vars
    => [Mutex!Next]_HolderBar
<1> SUFFICES ASSUME IInv, IInv', HolderInside, HolderInside', [Next]_vars
             PROVE  [Mutex!Next]_HolderBar
  OBVIOUS
<1>1. CASE UNCHANGED vars
  BY <1>1, InsideUnchanged, SameHolders DEF vars
<1>2. ASSUME NEW t \in Task, Call(t) \/ Cancel(t) \/ Finish(t) \/ Return(t)
      PROVE  [Mutex!Next]_HolderBar
  BY <1>2, InsideUnchanged, SameHolders DEF Call, Cancel, Finish, Return
<1>3. ASSUME NEW t \in Task, Enter(t) PROVE HolderBar' = HolderBar
  <2>1. PICK k \in Key :
          /\ k \notin Entered(t)
          /\ \E l \in LockFor(k) : /\ frame' = [frame EXCEPT ![t][k] = l]
                                   /\ locks' = [locks EXCEPT ![k] = l]
          /\ owner' = owner
    BY <1>3 DEF Enter, IsNext, Missing
  <2>2. PICK l \in LockFor(k) : /\ frame' = [frame EXCEPT ![t][k] = l]
                                /\ locks' = [locks EXCEPT ![k] = l]
    BY <2>1
  <2>3. \A u \in Task, j \in Key :
          frame'[u][j] = IF u = t /\ j = k THEN l ELSE frame[u][j]
    BY <2>2 DEF IInv, TypeOK
  <2>4. l \in Lock
    BY LockForKind DEF IInv
  <2>5. owner[l] # t
    <3> SUFFICES ASSUME owner[l] = t PROVE FALSE OBVIOUS
    <3>1. PICK j \in Key : frame[t][j] = l
      BY <2>4, TaskAssumption DEF IInv, OwnersInside
    <3>2. j # k
      BY <2>1, <2>4, <3>1, LockAssumption DEF Entered
    <3>3. locks'[j] = l /\ locks'[k] = l
      BY <2>2, <2>3, <2>4, <3>1, <3>2, LockAssumption DEF IInv, TypeOK, FramesAgree
    <3> QED BY <2>4, <3>2, <3>3, LockAssumption DEF IInv, LocksDistinct
  <2>6. \A j \in Key, u \in Task : Inside(u, j)' <=> Inside(u, j)
    BY <2>1, <2>3, <2>5 DEF Inside, Entered
  <2> QED BY <2>6, SameHolders
<1>4. ASSUME NEW t \in Task, Acquire(t) PROVE [Mutex!Next]_HolderBar
  <2>1. CASE owner' = owner
    BY <1>4, <2>1, InsideUnchanged, SameHolders DEF Acquire
  <2>2. CASE owner' # owner
    <3>1. PICK k \in Key : /\ k \in Entered(t) /\ owner[frame[t][k]] = NoTask
                           /\ owner' = [owner EXCEPT ![frame[t][k]] = t]
                           /\ frame' = frame
      BY <1>4, <2>2 DEF Acquire, IsInnermost
    <3> QED BY <3>1, OwnerTakes DEF Mutex!Next
  <2> QED BY <2>1, <2>2
<1>5. ASSUME NEW t \in Task, Granted(t) PROVE [Mutex!Next]_HolderBar
  <2>1. PICK k \in Key : /\ k \in Entered(t) /\ owner[frame[t][k]] = NoTask
                         /\ owner' = [owner EXCEPT ![frame[t][k]] = t]
                         /\ frame' = frame
    BY <1>5 DEF Granted, IsInnermost
  <2> QED BY <2>1, OwnerTakes DEF Mutex!Next
<1>6. ASSUME NEW t \in Task, Release(t) PROVE [Mutex!Next]_HolderBar
  <2>1. PICK k \in Key : /\ k \in Entered(t) /\ owner[frame[t][k]] = t
                         /\ owner' = [owner EXCEPT ![frame[t][k]] = NoTask]
                         /\ frame' = frame
    BY <1>6 DEF Release, IsInnermost
  <2>2. frame[t][k] = locks[k] /\ locks[k] \in Lock /\ locks[k] # NoLock
    BY <2>1, LockAssumption DEF IInv, TypeOK, FramesAgree, Entered
  <2>3. Inside(t, k)
    BY <2>1 DEF Inside
  <2>4. \A u \in Task : ~Inside(u, k)'
    BY <2>1, <2>2, TaskAssumption DEF IInv, TypeOK, FramesAgree, Inside, Entered
  <2>5. ASSUME NEW j \in Key \ {k}, NEW u \in Task
        PROVE  Inside(u, j)' <=> Inside(u, j)
    <3>1. j \in Entered(u) => frame[u][j] # locks[k]
      BY <2>2 DEF IInv, FramesAgree, LocksDistinct, Entered
    <3> QED BY <2>1, <2>2, <3>1 DEF IInv, TypeOK, Inside, Entered
  <2>6. Mutex!Give(t, k)
    BY <2>3, <2>4, <2>5, GiveHolder
  <2> QED BY <2>6 DEF Mutex!Next
<1>7. ASSUME NEW t \in Task, Leave(t) PROVE HolderBar' = HolderBar
  <2>1. PICK k \in Key : /\ k \in Entered(t) /\ owner[frame[t][k]] # t
                         /\ frame' = [frame EXCEPT ![t][k] = NoLock]
                         /\ owner' = owner
    BY <1>7 DEF Leave, IsInnermost
  <2>2. \A u \in Task, j \in Key :
          frame'[u][j] = IF u = t /\ j = k THEN NoLock ELSE frame[u][j]
    BY <2>1 DEF IInv, TypeOK
  <2>3. \A j \in Key, u \in Task : Inside(u, j)' <=> Inside(u, j)
    BY <2>1, <2>2 DEF Inside, Entered
  <2> QED BY <2>3, SameHolders
<1> QED
  BY <1>1, <1>2, <1>3, <1>4, <1>5, <1>6, <1>7 DEF Next, Step

LEMMA InitMutex == Init => Mutex!Init
<1> SUFFICES ASSUME Init PROVE Mutex!Init OBVIOUS
<1>1. \A k \in Key : Holder(k) = NoTask
  BY DEF Init, Holder, Inside, Entered
<1> QED BY <1>1 DEF Mutex!Init

(* The lock registry of DatabaseSessionService implements one mutex per    *)
(* lock key, whatever lock objects come and go.                            *)
THEOREM MutexRefinement == Spec => ImplementsMutex
<1>1. IInv => HolderInside
  BY HolderIsInside
<1>2. Mutex!Spec <=> Mutex!Init /\ [][Mutex!Next]_HolderBar
  BY DEF Mutex!Spec, HolderBar
<1> QED
  BY <1>1, <1>2, InductiveInvariant, InitMutex, StepMutex, PTL DEF Spec, ImplementsMutex
=============================================================================
