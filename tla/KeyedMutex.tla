----------------------------- MODULE KeyedMutex -----------------------------
(***************************************************************************)
(* What the in-process locks of DatabaseSessionService promise: for every  *)
(* lock key at most one task is inside, and only the task that is inside   *)
(* leaves.  No lock object, no registry and no reference count appears     *)
(* here; SessionLocks shows that the code keeps this promise with them.    *)
(***************************************************************************)
CONSTANTS Task, Key, NoTask

VARIABLE holder

Init == holder = [k \in Key |-> NoTask]

Take(t, k) == /\ holder[k] = NoTask
              /\ holder' = [holder EXCEPT ![k] = t]

Give(t, k) == /\ holder[k] = t
              /\ holder' = [holder EXCEPT ![k] = NoTask]

Next == \E t \in Task, k \in Key : Take(t, k) \/ Give(t, k)

Spec == Init /\ [][Next]_holder
=============================================================================
