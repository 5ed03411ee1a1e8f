-------------------------- MODULE Invocation_proofs --------------------------
(***************************************************************************)
(* Proofs about the safety of Invocation for any set of nodes and any      *)
(* number of events.  The inductive invariant follows each item a node     *)
(* waits for through queue, hand and log.                                  *)
(***************************************************************************)
EXTENDS Invocation, TLAPS

Closed == consumer = "closed"
Blocking(x) == x.kind \in {"event", "barrier"}
Queued(x) == \E i \in DOMAIN queue : queue[i] = x
UnderWay(x) == Queued(x) \/ hand = x

(* What a parked node waits for.                                           *)
Owed(n) == IF stage[n] = "retry" THEN Item("barrier", n) ELSE Event(n, count[n])

(* The main loop and the run go together.                                  *)
InStep == /\ phase # "consume" <=> Closed
          /\ consumer \in {"have", "yielded"} <=> hand # NoItem
          /\ consumer = "yielded" => hand.kind \in {"event", "partial"}
          /\ consumer = "yielded" /\ hand.kind = "event" => InLog(hand)
          /\ root \in {"returned", "raised"} =>
               \A n \in Node : node[n] = "stopped" \/ n \in loose
          /\ consumer = "grace" => aborted

(* No item that somebody waits for is there twice, and a node that has not *)
(* ended has none on its way but the one it is parked on.                  *)
Single == /\ \A i, j \in DOMAIN queue : Blocking(queue[i]) /\ queue[i] = queue[j] => i = j
          /\ Blocking(hand) => ~Queued(hand)
OwnOnly == \A x \in Items : Blocking(x) /\ UnderWay(x) =>
             /\ x.kind = "event" => x.seq =< count[x.node]
             /\ node[x.node] # "stopped" => node[x.node] = "parked" /\ x = Owed(x.node)

(* The events of a node before the one it waits for are in the session.    *)
Earlier == \A n \in Node : node[n] # "stopped" =>
             \A k \in 1..count[n] :
               InLog(Event(n, k)) \/ (node[n] = "parked" /\ Event(n, k) = Owed(n))

(* Until the main loop stops nothing that was put is lost, and what was    *)
(* put before a barrier is before it on the queue.                         *)
NothingLost == ~Closed => \A e \in PutSoFar : InLog(e) \/ UnderWay(e)
InOrder == ~Closed => \A n \in Node :
  At(n, "parked", "retry") => \A e \in before[n] :
    \/ InLog(e)
    \/ hand = e
    \/ /\ hand # Item("barrier", n)
       /\ \E i \in DOMAIN queue : /\ queue[i] = e
                                  /\ \A j \in 1..i : queue[j] # Item("barrier", n)

(* The sentinel is put when the root task ends, and behind it there is     *)
(* only what nodes say that nobody waits for.                              *)
Rooted == root \in {"returned", "raised"}
Loose(x) == x.kind = "event" => x.node \in loose
SentinelPut == Queued(Sentinel) \/ hand = Sentinel => Rooted
SentinelLast ==
  /\ hand = Sentinel => \A i \in DOMAIN queue : Loose(queue[i])
  /\ \A i, j \in DOMAIN queue : queue[i] = Sentinel /\ i < j => Loose(queue[j])
OwnEnd == phase # "consume" /\ ending = "normal" /\ ~aborted => Rooted

(* A seal is in the log only when the flag is set, and an aborted run gets *)
(* to its end through the sealing.                                         *)
SealFlagged == (\E i \in DOMAIN log : log[i] = Seal) => synthesized
SealThere == synthesized /\ broken = "no" => InLog(Seal)
SealedWhenAborted == phase \in {"after", "end"} /\ aborted => synthesized

IInv == /\ TypeOK
        /\ InStep
        /\ Single
        /\ OwnOnly
        /\ Earlier
        /\ NothingLost
        /\ InOrder
        /\ RetrySeesSiblings
        /\ SentinelPut
        /\ SentinelLast
        /\ OwnEnd
        /\ EverythingSaid
        /\ SealFlagged
        /\ SealThere
        /\ SealedWhenAborted
        /\ SealedAtMostOnce

-----------------------------------------------------------------------------
(* Items, and what Append and Tail do to a sequence.                       *)

LEMMA ItemFacts ==
  /\ NoItem.kind = "none" /\ NoItem \notin Items /\ ~Blocking(NoItem) /\ Sentinel \in Items
  /\ Sentinel.kind = "done"
  /\ \A x \in Items : x.kind = "event" => /\ x \in Events /\ x.node \in Node
                                          /\ x.seq \in 1..MaxEvents[x.node]
                                          /\ x = Event(x.node, x.seq)
  /\ \A x \in Items : x.kind = "barrier" => x.node \in Node /\ x = Item("barrier", x.node)
  /\ \A x \in Events : /\ x \in Items /\ x.kind = "event" /\ x.node \in Node
                       /\ x.seq \in 1..MaxEvents[x.node]
                       /\ x = Event(x.node, x.seq) /\ x # Seal
  /\ \A n \in Node : /\ Item("barrier", n) \in Items /\ Item("partial", n) \in Items
                     /\ \A k \in 1..MaxEvents[n] : Event(n, k) \in Events
<1>1. \A x \in Events : /\ x.kind = "event" /\ x.node \in Node
                        /\ x.seq \in 1..MaxEvents[x.node]
                        /\ x = Event(x.node, x.seq) /\ x # Seal
  BY DEF Events, Event, Seal
<1>2. \A n \in Node : \A k \in 1..MaxEvents[n] : Event(n, k) \in Events
  BY DEF Events
<1>3. \A x \in Items : x.kind = "event" => x \in Events
  BY DEF Items, Item, Sentinel
<1>4. \A x \in Items : x.kind = "barrier" => x.node \in Node /\ x = Item("barrier", x.node)
  BY <1>1 DEF Items, Item, Sentinel
<1>5. \A n \in Node : Item("barrier", n) \in Items /\ Item("partial", n) \in Items
  BY DEF Items
<1>6. Events \subseteq Items /\ Sentinel \in Items
  BY DEF Items
<1>7. NoItem.kind = "none" /\ ~Blocking(NoItem) /\ Sentinel.kind = "done"
  BY DEF NoItem, Sentinel, Item, Blocking
<1>8. \A x \in Items : x.kind # "none"
  BY <1>1 DEF Items, Item, Sentinel
<1> QED BY <1>1, <1>2, <1>3, <1>4, <1>5, <1>6, <1>7, <1>8

LEMMA Appended ==
  ASSUME NEW S, NEW s \in Seq(S), NEW x \in S, NEW t, t = Append(s, x)
  PROVE  /\ t \in Seq(S) /\ Len(s) \in Nat
         /\ DOMAIN s = 1..Len(s) /\ DOMAIN t = 1..(Len(s) + 1)
         /\ \A i \in DOMAIN s : i \in DOMAIN t /\ t[i] = s[i]
         /\ \A i \in DOMAIN t : i \in DOMAIN s \/ i = Len(s) + 1
         /\ Len(s) + 1 \in DOMAIN t /\ t[Len(s) + 1] = x
OBVIOUS

LEMMA Taken ==
  ASSUME NEW S, NEW s \in Seq(S), s # <<>>, NEW t, t = Tail(s)
  PROVE  /\ t \in Seq(S) /\ Head(s) \in S /\ Head(s) = s[1] /\ Len(s) \in Nat
         /\ DOMAIN s = 1..Len(s) /\ DOMAIN t = 1..(Len(s) - 1) /\ 1 \in DOMAIN s
         /\ \A i \in DOMAIN t : i + 1 \in DOMAIN s /\ t[i] = s[i + 1]
         /\ \A i \in DOMAIN s : i = 1 \/ (i - 1 \in DOMAIN t /\ t[i - 1] = s[i])
OBVIOUS

(* What Put and Take do to the items on the queue.                         *)
LEMMA PutQueued ==
  ASSUME queue \in Seq(Items), NEW x \in Items, Put(x)
  PROVE  /\ queue' \in Seq(Items)
         /\ \A y : Queued(y)' <=> Queued(y) \/ y = x
<1>1. queue' = Append(queue, x)
  BY DEF Put
<1> QED BY <1>1, Appended DEF Queued

LEMMA TakeQueued ==
  ASSUME queue \in Seq(Items), Take
  PROVE  /\ queue' \in Seq(Items) /\ hand' \in Items
         /\ \A y : Queued(y) <=> Queued(y)' \/ y = hand'
<1>1. queue # <<>> /\ queue' = Tail(queue) /\ hand' = Head(queue)
  BY DEF Take
<1>2. /\ queue' \in Seq(Items) /\ hand' \in Items /\ hand' = queue[1] /\ 1 \in DOMAIN queue
      /\ \A i \in DOMAIN queue' : i + 1 \in DOMAIN queue /\ queue'[i] = queue[i + 1]
      /\ \A i \in DOMAIN queue : i = 1 \/ (i - 1 \in DOMAIN queue' /\ queue'[i - 1] = queue[i])
  BY <1>1, Taken
<1> QED BY <1>2 DEF Queued

LEMMA LogAppended ==
  ASSUME log \in Seq(Events \cup {Seal}),
         NEW x \in Events \cup {Seal}, log' = Append(log, x)
  PROVE  /\ log' \in Seq(Events \cup {Seal})
         /\ \A y : InLog(y)' <=> InLog(y) \/ y = x
BY Appended DEF InLog

-----------------------------------------------------------------------------
(* TypeOK in three parts, which different steps disturb.                   *)
NodesTyped ==
  /\ node \in [Node -> {"run", "parked", "acked", "stopped"}]
  /\ stage \in [Node -> {"loop", "failed", "retry", "final"}]
  /\ count \in [Node -> Nat] /\ \A n \in Node : count[n] =< MaxEvents[n]
  /\ before \in [Node -> SUBSET Events]
  /\ loose \subseteq Detached
LoopTyped ==
  /\ queue \in Seq(Items)
  /\ root \in {"run", "cancelled", "returned", "raised"}
  /\ aborted \in BOOLEAN
  /\ consumer \in {"top", "get", "grace", "have", "yielded", "closed"}
  /\ hand \in Items \cup {NoItem}
  /\ log \in Seq(Events \cup {Seal})
RunTyped ==
  /\ phase \in {"consume", "join", "sealing", "exit", "exit sealing", "after", "end"}
  /\ ending \in {"normal", "closed", "cancelled", "error"}
  /\ synthesized \in BOOLEAN
  /\ broken \in {"no", "first", "last"}

LEMMA TypeParts == TypeOK <=> NodesTyped /\ LoopTyped /\ RunTyped
BY Zenon DEF TypeOK, NodesTyped, LoopTyped, RunTyped

LEMMA TypePartsNext == TypeOK' <=> NodesTyped' /\ LoopTyped' /\ RunTyped'
BY Zenon DEF TypeOK, NodesTyped, LoopTyped, RunTyped

LEMMA PartsKept ==
  /\ NodesTyped /\ UNCHANGED nodeVars => NodesTyped'
  /\ LoopTyped /\ UNCHANGED <<queue, root, aborted, consumer, hand, log>> => LoopTyped'
  /\ RunTyped /\ UNCHANGED runVars => RunTyped'
BY DEF NodesTyped, LoopTyped, RunTyped, nodeVars, runVars

LEMMA InitIInv == Init => IInv
<1> SUFFICES ASSUME Init PROVE IInv OBVIOUS
<1> USE DEF Init
<1>1. TypeOK
  <2>1. NodesTyped
    BY MaxEventsAssumption DEF NodesTyped
  <2>2. queue \in Seq(Items) /\ log \in Seq(Events \cup {Seal})
    OBVIOUS
  <2>3. LoopTyped
    BY <2>2 DEF LoopTyped
  <2>4. RunTyped
    BY DEF RunTyped
  <2> QED BY <2>1, <2>3, <2>4, TypeParts
<1>2. \A x : ~Queued(x) /\ ~InLog(x)
  BY DEF Queued, InLog
<1>3. InStep
  BY DEF InStep, Closed, NoItem, Item
<1>4. Single /\ OwnOnly
  BY <1>2, ItemFacts DEF Single, OwnOnly, UnderWay
<1>5. \A n \in Node : 1..count[n] = {}
  OBVIOUS
<1>6. Earlier
  BY <1>5 DEF Earlier
<1>7. PutSoFar = {}
  BY ItemFacts DEF PutSoFar
<1>8. NothingLost /\ InOrder /\ RetrySeesSiblings
  BY <1>7 DEF NothingLost, InOrder, At, RetrySeesSiblings
<1>9. SealFlagged /\ SealThere /\ SealedWhenAborted /\ SealedAtMostOnce
  BY DEF SealFlagged, SealThere, SealedWhenAborted, SealedAtMostOnce
<1>10. hand # Sentinel
  BY DEF NoItem, Sentinel, Item
<1>11. SentinelPut /\ SentinelLast /\ OwnEnd /\ EverythingSaid
  BY <1>2, <1>10 DEF SentinelPut, SentinelLast, OwnEnd, EverythingSaid
<1> QED BY <1>1, <1>3, <1>4, <1>6, <1>8, <1>9, <1>11 DEF IInv

-----------------------------------------------------------------------------
LEMMA ParkTypes ==
  ASSUME NodesTyped, LoopTyped, NEW n \in Node, PutAndPark(n)
  PROVE  /\ queue' \in Seq(Items) /\ Event(n, count[n] + 1) \in Events
         /\ node' \in [Node -> {"run", "parked", "acked", "stopped"}]
         /\ count' \in [Node -> Nat] /\ \A m \in Node : count'[m] =< MaxEvents[m]
<1>1. count[n] \in Nat /\ MaxEvents[n] \in Nat /\ count[n] < MaxEvents[n]
  BY MaxEventsAssumption DEF NodesTyped, PutAndPark
<1>2. Event(n, count[n] + 1) \in Events /\ Event(n, count[n] + 1) \in Items
  BY <1>1, ItemFacts
<1>3. queue' \in Seq(Items)
  BY <1>2, PutQueued DEF PutAndPark, LoopTyped
<1>4. count' = [count EXCEPT ![n] = count[n] + 1]
  BY DEF PutAndPark
<1>5. count' \in [Node -> Nat] /\ \A m \in Node : count'[m] =< MaxEvents[m]
  BY <1>1, <1>4 DEF NodesTyped
<1> QED BY <1>2, <1>3, <1>5 DEF NodesTyped, PutAndPark

LEMMA CloseTypes ==
  ASSUME LoopTyped, RunTyped, NEW how \in {"normal", "closed", "cancelled", "error"},
         Close(how)
  PROVE  /\ consumer' \in {"closed"} /\ hand' \in Items \cup {NoItem}
         /\ root' \in {"run", "cancelled", "returned", "raised"}
         /\ RunTyped'
BY DEF LoopTyped, RunTyped, Close

LEMMA NodeTypes ==
  ASSUME TypeOK, NEW n \in Node, NodeStep(n) \/ Cancelled(n) PROVE TypeOK'
<1>0. NodesTyped /\ LoopTyped /\ RunTyped
  BY TypeParts
<1>1. UNCHANGED runVars
  BY DEF NodeStep, Yield, YieldPartial, Fail, Barrier, Resume, EndLoop, Flush, Stop, Cancelled
<1>2. CASE Yield(n) \/ Fail(n) \/ Flush(n)
  <2>1. PutAndPark(n) /\ stage' \in [Node -> {"loop", "failed", "retry", "final"}]
        /\ UNCHANGED <<before, loose, root, aborted, consumer, hand, log>>
    BY <1>0, <1>2 DEF NodesTyped, Yield, Fail, Flush, Enter
  <2>2. NodesTyped' /\ LoopTyped'
    BY <1>0, <2>1, ParkTypes DEF NodesTyped, LoopTyped
  <2> QED BY <1>0, <1>1, <2>2, PartsKept, TypePartsNext
<1>3. CASE YieldPartial(n)
  <2>1. NodesTyped'
    BY <1>0, <1>3 DEF NodesTyped, YieldPartial, Enter
  <2>2. LoopTyped'
    BY <1>0, <1>3, PutQueued, ItemFacts DEF LoopTyped, YieldPartial
  <2> QED BY <1>0, <1>1, <2>1, <2>2, PartsKept, TypePartsNext
<1>4. CASE Barrier(n)
  <2>1. PutSoFar \in SUBSET Events
    BY DEF PutSoFar
  <2>2. NodesTyped'
    BY <1>0, <1>4, <2>1 DEF NodesTyped, Barrier, Enter
  <2>3. LoopTyped'
    BY <1>0, <1>4, PutQueued, ItemFacts DEF LoopTyped, Barrier
  <2> QED BY <1>0, <1>1, <2>2, <2>3, PartsKept, TypePartsNext
<1>5. CASE Resume(n) \/ EndLoop(n) \/ Stop(n) \/ Cancelled(n)
  <2>1. stage' \in [Node -> {"loop", "failed", "retry", "final"}]
    BY <1>0, <1>5 DEF NodesTyped, Resume, EndLoop, Stop, Cancelled, Enter
  <2>2. NodesTyped'
    BY <1>0, <1>5, <2>1 DEF NodesTyped, Resume, EndLoop, Stop, Cancelled
  <2>3. UNCHANGED <<queue, root, aborted, consumer, hand, log>>
    BY <1>5 DEF Resume, EndLoop, Stop, Cancelled
  <2> QED BY <1>0, <1>1, <2>2, <2>3, PartsKept, TypePartsNext
<1> QED BY <1>2, <1>3, <1>4, <1>5 DEF NodeStep

LEMMA LeftTypes == ASSUME TypeOK, NEW n \in Node, LeftBehind(n) PROVE TypeOK'
<1>1. NodesTyped /\ LoopTyped /\ RunTyped
  BY TypeParts
<1>2. NodesTyped'
  BY <1>1 DEF NodesTyped, LeftBehind
<1>3. LoopTyped' /\ RunTyped'
  BY <1>1, PartsKept DEF LeftBehind
<1> QED BY <1>2, <1>3, TypePartsNext

LEMMA LoopTypes ==
  ASSUME TypeOK, InStep, RootEnds \/ Consume \/ Caller \/ CallerCancels PROVE TypeOK'
<1> NodesTyped /\ LoopTyped /\ RunTyped
  BY TypeParts
<1>0. ASSUME NEW n \in Node, Acknowledge(n), UNCHANGED <<stage, count, before, loose>>
      PROVE  NodesTyped'
  BY <1>0 DEF NodesTyped, Acknowledge
<1>1. CASE RootEnds
  <2>1. LoopTyped'
    BY <1>1, PutQueued, ItemFacts DEF LoopTyped, RootEnds
  <2> QED BY <1>1, <2>1, PartsKept, TypePartsNext DEF RootEnds
<1>2. CASE Top
  <2>1. CASE Take /\ UNCHANGED <<root, runVars>>
    <3>1. LoopTyped'
      BY <1>2, <2>1, TakeQueued DEF LoopTyped, Top, Take
    <3> QED BY <1>2, <2>1, <3>1, PartsKept, TypePartsNext DEF Top
  <2>2. CASE Close("normal") /\ UNCHANGED queue
    <3>1. LoopTyped' /\ RunTyped'
      BY <1>2, <2>2, CloseTypes DEF LoopTyped, Top
    <3> QED BY <1>2, <3>1, PartsKept, TypePartsNext DEF Top
  <2>3. CASE consumer' = "get" /\ UNCHANGED <<queue, hand, root, runVars>>
    <3>1. LoopTyped'
      BY <1>2, <2>3 DEF LoopTyped, Top
    <3> QED BY <1>2, <2>3, <3>1, PartsKept, TypePartsNext DEF Top
  <2> QED BY <1>2, <2>1, <2>2, <2>3 DEF Top
<1>3. CASE Got
  <2>1. LoopTyped'
    BY <1>3, TakeQueued DEF LoopTyped, Got, Take
  <2> QED BY <1>3, <2>1, PartsKept, TypePartsNext DEF Got
<1>4. CASE AbortSeen
  <2>1. LoopTyped'
    BY <1>4 DEF LoopTyped, AbortSeen
  <2> QED BY <1>4, <2>1, PartsKept, TypePartsNext DEF AbortSeen
<1>5. CASE GiveUp \/ EndOfStream \/ DeliverFails \/ CallerCloses
  <2>1. UNCHANGED <<queue, nodeVars, aborted, log>>
    BY <1>5 DEF GiveUp, EndOfStream, DeliverFails, CallerCloses
  <2>2. LoopTyped' /\ RunTyped'
    BY <1>5, <2>1, CloseTypes DEF LoopTyped, GiveUp, EndOfStream, DeliverFails, CallerCloses
  <2> QED BY <2>1, <2>2, PartsKept, TypePartsNext
<1>6. CASE PassBarrier
  <2>1. hand.node \in Node
    BY <1>6, ItemFacts DEF LoopTyped, PassBarrier
  <2>2. LoopTyped' /\ NodesTyped'
    BY <1>0, <1>6, <2>1 DEF LoopTyped, PassBarrier
  <2> QED BY <1>6, <2>2, PartsKept, TypePartsNext DEF PassBarrier
<1>7. CASE Deliver
  <2>1. hand.kind = "event" => hand \in Events
    BY <1>7, ItemFacts DEF LoopTyped
  <2>2. log' \in Seq(Events \cup {Seal})
    BY <1>7, <2>1, LogAppended DEF Deliver, LoopTyped
  <2>3. LoopTyped'
    BY <1>7, <2>2 DEF LoopTyped, Deliver
  <2> QED BY <1>7, <2>3, PartsKept, TypePartsNext DEF Deliver
<1>8. CASE NextEvent
  <2>1. hand.kind = "event" => hand.node \in Node
    BY <1>8, ItemFacts DEF LoopTyped
  <2>2. NodesTyped'
    BY <1>0, <1>8, <2>1, PartsKept DEF NextEvent, nodeVars
  <2>3. LoopTyped'
    BY <1>8 DEF LoopTyped, NextEvent
  <2> QED BY <1>8, <2>2, <2>3, PartsKept, TypePartsNext DEF NextEvent
<1>9. CASE CallerCancels
  <2>1. hand.kind = "event" => hand \in Events
    BY <1>9, ItemFacts DEF LoopTyped
  <2>2. log' \in Seq(Events \cup {Seal})
    BY <1>9, <2>1, LogAppended DEF CallerCancels, LoopTyped
  <2>3. LoopTyped' /\ RunTyped'
    BY <1>9, <2>2, CloseTypes DEF LoopTyped, CallerCancels
  <2> QED BY <1>9, <2>3, PartsKept, TypePartsNext DEF CallerCancels
<1> QED BY <1>1, <1>2, <1>3, <1>4, <1>5, <1>6, <1>7, <1>8, <1>9 DEF Consume, Caller

LEMMA EndTypes == ASSUME TypeOK, Abort \/ WindDown PROVE TypeOK'
<1> NodesTyped /\ LoopTyped /\ RunTyped
  BY TypeParts
<1>1. CASE Abort
  <2>1. LoopTyped'
    BY <1>1 DEF LoopTyped, Abort
  <2> QED BY <1>1, <2>1, PartsKept, TypePartsNext DEF Abort
<1>2. CASE WindDown
  <2>1. UNCHANGED nodeVars
    BY <1>2 DEF WindDown, Joined, Exit, Finish, SealSkipped, SealAppended, SealInterrupted
  <2>2. RunTyped'
    BY <1>2 DEF WindDown, RunTyped, Joined, Exit, Finish, SealSkipped, SealAppended,
       SealInterrupted, Sealed
  <2>3. CASE SealAppended
    <3>1. LoopTyped'
      BY <2>3, LogAppended DEF LoopTyped, SealAppended
    <3> QED BY <2>1, <2>2, <3>1, PartsKept, TypePartsNext
  <2>4. CASE ~SealAppended
    <3>1. LoopTyped'
      BY <1>2, <2>4 DEF LoopTyped, WindDown, Joined, Exit, Finish, SealSkipped, SealInterrupted
    <3> QED BY <2>1, <2>2, <3>1, PartsKept, TypePartsNext
  <2> QED BY <2>3, <2>4
<1> QED BY <1>1, <1>2

-----------------------------------------------------------------------------
(* What an unchanged or a longer log means for the parts about it.         *)
LEMMA LogParts ==
  ASSUME TypeOK, UNCHANGED <<synthesized, broken>>,
         \/ log' = log
         \/ \E e \in Events : log' = Append(log, e)
  PROVE  /\ \A y : InLog(y) => InLog(y)'
         /\ SealFlagged => SealFlagged'
         /\ SealThere => SealThere'
         /\ SealedAtMostOnce => SealedAtMostOnce'
<1>1. CASE log' = log
  BY <1>1 DEF InLog, SealFlagged, SealThere, SealedAtMostOnce
<1>2. ASSUME NEW e \in Events, log' = Append(log, e)
      PROVE  /\ \A y : InLog(y) => InLog(y)'
             /\ \A i \in DOMAIN log' : log'[i] = Seal => i \in DOMAIN log /\ log[i] = Seal
  <2>1. log \in Seq(Events \cup {Seal}) /\ e # Seal
    BY ItemFacts DEF TypeOK
  <2> QED BY <1>2, <2>1, Appended DEF InLog
<1> QED BY <1>1, <1>2 DEF SealFlagged, SealThere, SealedAtMostOnce

(* Put and Take, and the items somebody waits for.                         *)
LEMMA PutSingle ==
  ASSUME TypeOK, Single, NEW x \in Items, Put(x), hand' = hand,
         Blocking(x) => ~UnderWay(x)
  PROVE  Single'
<1>1. queue \in Seq(Items) /\ queue' = Append(queue, x)
  BY DEF TypeOK, Put
<1>2. /\ \A i \in DOMAIN queue : i \in DOMAIN queue' /\ queue'[i] = queue[i]
      /\ \A i \in DOMAIN queue' : i \in DOMAIN queue \/ (i = Len(queue) + 1 /\ queue'[i] = x)
  BY <1>1, Appended
<1>3. \A y : Queued(y)' <=> Queued(y) \/ y = x
  BY <1>1, PutQueued
<1> QED BY <1>2, <1>3 DEF Single, UnderWay, Queued

LEMMA PutInOrder ==
  ASSUME TypeOK, NEW x \in Items, Put(x)
  PROVE  \A i \in DOMAIN queue : /\ i \in DOMAIN queue' /\ queue'[i] = queue[i]
                                 /\ \A j \in 1..i : queue'[j] = queue[j]
<1>1. queue \in Seq(Items) /\ queue' = Append(queue, x)
  BY DEF TypeOK, Put
<1> QED BY <1>1, Appended

LEMMA TakeSingle ==
  ASSUME TypeOK, Single, Take, ~Blocking(hand)
  PROVE  Single'
<1>1. queue \in Seq(Items) /\ queue # <<>> /\ queue' = Tail(queue) /\ hand' = Head(queue)
  BY DEF TypeOK, Take
<1>2. /\ 1 \in DOMAIN queue /\ hand' = queue[1] /\ DOMAIN queue' = 1..(Len(queue) - 1)
      /\ Len(queue) \in Nat
      /\ \A i \in DOMAIN queue' : i + 1 \in DOMAIN queue /\ queue'[i] = queue[i + 1]
  BY <1>1, Taken
<1>3. \A i, j \in DOMAIN queue' : Blocking(queue'[i]) /\ queue'[i] = queue'[j] => i = j
  BY <1>2 DEF Single
<1>4. \A i \in DOMAIN queue' : i + 1 # 1
  BY <1>2
<1>5. Blocking(hand') => ~\E i \in DOMAIN queue' : queue'[i] = hand'
  BY <1>2, <1>4 DEF Single
<1> QED BY <1>3, <1>5 DEF Single, Queued, Blocking

-----------------------------------------------------------------------------
(* The sentinel, and what is put behind it.                                *)
LEMMA PutSentinel ==
  ASSUME TypeOK, SentinelPut, SentinelLast, NEW x \in Items, Put(x),
         UNCHANGED <<hand, loose>>, Rooted => Rooted' /\ Loose(x), x = Sentinel => Rooted'
  PROVE  SentinelPut' /\ SentinelLast'
<1>1. queue \in Seq(Items) /\ queue' = Append(queue, x)
  BY DEF TypeOK, Put
<1>2. /\ Len(queue) \in Nat /\ DOMAIN queue = 1..Len(queue)
      /\ DOMAIN queue' = 1..(Len(queue) + 1)
      /\ \A i \in DOMAIN queue : queue'[i] = queue[i]
      /\ \A i \in DOMAIN queue' : i \in DOMAIN queue \/ (i = Len(queue) + 1 /\ queue'[i] = x)
  BY <1>1, Appended
<1>3. \A y : Loose(y)' <=> Loose(y)
  BY DEF Loose
<1>4. \A y : Queued(y)' <=> Queued(y) \/ y = x
  BY <1>1, PutQueued
<1>5. SentinelPut'
  BY <1>4 DEF SentinelPut
<1>6. hand = Sentinel \/ Queued(Sentinel) => Loose(x)
  BY DEF SentinelPut
<1>7. ASSUME hand = Sentinel, NEW i \in DOMAIN queue' PROVE Loose(queue'[i])
  BY <1>2, <1>6, <1>7 DEF SentinelLast
<1>8. ASSUME NEW i \in DOMAIN queue', NEW j \in DOMAIN queue', queue'[i] = Sentinel, i < j
      PROVE  Loose(queue'[j])
  <2>1. i \in DOMAIN queue /\ queue[i] = Sentinel
    BY <1>2, <1>8
  <2>2. CASE j \in DOMAIN queue
    BY <1>2, <1>8, <2>1, <2>2 DEF SentinelLast
  <2>3. CASE j \notin DOMAIN queue
    BY <1>2, <1>6, <2>1, <2>3 DEF Queued
  <2> QED BY <2>2, <2>3
<1> HIDE DEF Loose
<1>9. SentinelLast'
  BY <1>3, <1>7, <1>8 DEF SentinelLast, Sentinel
<1> QED BY <1>5, <1>9

LEMMA TakeSentinel ==
  ASSUME TypeOK, SentinelPut, SentinelLast, Take, UNCHANGED <<loose, root>>
  PROVE  SentinelPut' /\ SentinelLast'
<1>1. queue \in Seq(Items) /\ queue # <<>> /\ queue' = Tail(queue) /\ hand' = Head(queue)
  BY DEF TypeOK, Take
<1>2. /\ 1 \in DOMAIN queue /\ hand' = queue[1] /\ DOMAIN queue' = 1..(Len(queue) - 1)
      /\ Len(queue) \in Nat
      /\ \A i \in DOMAIN queue' : i + 1 \in DOMAIN queue /\ queue'[i] = queue[i + 1]
  BY <1>1, Taken
<1>3. \A y : Queued(y) <=> Queued(y)' \/ y = hand'
  BY <1>1, TakeQueued
<1>4. SentinelPut'
  BY <1>3 DEF SentinelPut, Rooted, Sentinel
<1>5. ASSUME hand' = Sentinel, NEW i \in DOMAIN queue' PROVE Loose(queue'[i])
  <2>1. 1 < i + 1 /\ queue[1] = Sentinel /\ i + 1 \in DOMAIN queue
    BY <1>2, <1>5
  <2>2. Loose(queue[i + 1]) /\ queue'[i] = queue[i + 1]
    BY <1>2, <2>1 DEF SentinelLast
  <2> QED BY <2>2
<1>6. ASSUME NEW i \in DOMAIN queue', NEW j \in DOMAIN queue', queue'[i] = Sentinel, i < j
      PROVE  Loose(queue'[j])
  <2>1. i + 1 < j + 1
    BY <1>2, <1>6
  <2>2. queue[i + 1] = Sentinel /\ i + 1 \in DOMAIN queue /\ j + 1 \in DOMAIN queue
    BY <1>2, <1>6
  <2>3. Loose(queue[j + 1]) /\ queue'[j] = queue[j + 1]
    BY <1>2, <2>1, <2>2 DEF SentinelLast
  <2> QED BY <2>3
<1>7. \A y : Loose(y)' <=> Loose(y)
  BY DEF Loose
<1>8. SentinelLast'
  BY <1>5, <1>6, <1>7 DEF SentinelLast, Sentinel
<1> QED BY <1>4, <1>8

LEMMA SameSentinel ==
  ASSUME SentinelPut, SentinelLast, queue' = queue, hand' \in {hand, NoItem},
         loose \subseteq loose', Rooted => Rooted'
  PROVE  SentinelPut' /\ SentinelLast'
<1>1. NoItem # Sentinel
  BY DEF NoItem, Sentinel, Item
<1>2. Queued(Sentinel)' <=> Queued(Sentinel)
  BY DEF Queued, Sentinel
<1>3. SentinelPut'
  BY <1>1, <1>2 DEF SentinelPut
<1>4. \A y : Loose(y) => Loose(y)'
  BY DEF Loose
<1>5. SentinelLast'
  BY <1>1, <1>4 DEF SentinelLast, Sentinel
<1> QED BY <1>3, <1>5

(* A run that has ended by itself stays so, and only nodes that nobody     *)
(* waits for have more to say.                                             *)
LEMMA SaidStep ==
  ASSUME IInv, TypeOK', loose \subseteq loose', Rooted => Rooted',
         \A y : InLog(y) => InLog(y)',
         \A n \in Node : count'[n] = count[n] \/ ~Rooted \/ n \in loose,
         phase' # "consume" /\ ending' = "normal" /\ ~aborted' =>
           phase # "consume" /\ ending = "normal" /\ ~aborted
  PROVE  OwnEnd' /\ EverythingSaid'
<1>1. OwnEnd'
  BY DEF IInv, OwnEnd
<1>2. ASSUME phase' # "consume", ending' = "normal", ~aborted', NEW e \in PutSoFar'
      PROVE  InLog(e)' \/ e.node \in loose'
  <2>1. e \in Events /\ e.node \in Node /\ e.seq =< count'[e.node]
    BY ItemFacts DEF PutSoFar
  <2>2. Rooted
    BY <1>2 DEF IInv, OwnEnd
  <2>3. CASE count'[e.node] = count[e.node]
    <3>1. e \in PutSoFar
      BY <2>1, <2>3 DEF PutSoFar
    <3> QED BY <1>2, <3>1 DEF IInv, EverythingSaid
  <2>4. CASE e.node \in loose
    BY <2>4
  <2> QED BY <2>1, <2>2, <2>3, <2>4
<1>3. EverythingSaid'
  BY <1>2 DEF EverythingSaid
<1> QED BY <1>1, <1>3

-----------------------------------------------------------------------------
(* A node puts what it then waits for: an event, or its barrier.           *)
LEMMA ParkStep ==
  ASSUME IInv, TypeOK', NEW n \in Node, node[n] \in {"run", "acked"},
         NEW x \in Items, x.node = n, Blocking(x), x = Owed(n)', Put(x),
         node' = [node EXCEPT ![n] = "parked"],
         UNCHANGED <<loose, root, aborted, consumer, hand, log, runVars>>,
         \A m \in Node \ {n} : /\ stage'[m] = stage[m] /\ count'[m] = count[m]
                               /\ before'[m] = before[m],
         \/ /\ x.kind = "event" /\ count'[n] = count[n] + 1
            /\ stage'[n] # "retry" /\ before'[n] = before[n]
         \/ /\ x.kind = "barrier" /\ count'[n] = count[n]
            /\ stage'[n] = "retry" /\ before'[n] = PutSoFar
  PROVE  IInv'
<1> TypeOK /\ InStep /\ Single /\ OwnOnly
  BY DEF IInv
<1>1. /\ node'[n] = "parked" /\ \A m \in Node \ {n} : node'[m] = node[m]
      /\ count[n] \in Nat /\ count'[n] \in Nat
  BY DEF TypeOK
<1>2. ~UnderWay(x) /\ \A y \in Items : Blocking(y) /\ UnderWay(y) => y.node # n
  BY DEF OwnOnly
<1>3. \A y : UnderWay(y)' <=> UnderWay(y) \/ y = x
  <2>1. \A y : Queued(y)' <=> Queued(y) \/ y = x
    BY PutQueued DEF TypeOK
  <2> QED BY <2>1 DEF UnderWay
<1>4. \A y : InLog(y)' <=> InLog(y)
  BY DEF InLog
<1>5. InStep'
  <2>1. Rooted => \A m \in Node : node'[m] = "stopped" \/ m \in loose
    BY <1>1 DEF InStep, Rooted
  <2> QED BY <1>4, <2>1 DEF InStep, Closed, runVars, Rooted
<1>6. Single'
  BY <1>2, PutSingle
<1>7. OwnOnly'
  <2> SUFFICES ASSUME NEW y \in Items, Blocking(y), UnderWay(y)'
               PROVE  /\ y.kind = "event" => y.seq =< count'[y.node]
                      /\ node'[y.node] # "stopped" =>
                           node'[y.node] = "parked" /\ y = Owed(y.node)'
    BY DEF OwnOnly, Blocking
  <2>1. CASE y = x
    <3>1. y.kind = "event" => y.seq = count'[n]
      BY <2>1 DEF Owed, Event, Item
    <3> QED BY <1>1, <2>1, <3>1
  <2>2. CASE y # x
    <3>1. UnderWay(y) /\ y.node \in Node \ {n}
      BY <1>2, <1>3, <2>2, ItemFacts DEF Blocking
    <3> QED BY <1>1, <3>1 DEF OwnOnly, Owed
  <2> QED BY <2>1, <2>2
<1>8. Earlier'
  <2> SUFFICES ASSUME NEW m \in Node, node'[m] # "stopped", NEW k \in 1..count'[m]
               PROVE  InLog(Event(m, k)) \/ (node'[m] = "parked" /\ Event(m, k) = Owed(m)')
    BY <1>4 DEF Earlier, Event
  <2>1. CASE m # n
    BY <1>1, <2>1 DEF IInv, Earlier, Owed
  <2>2. CASE m = n /\ k =< count[n]
    BY <1>1, <2>2 DEF IInv, Earlier
  <2>3. CASE m = n /\ ~(k =< count[n])
    <3>1. k = count[n] + 1 /\ k = count'[n] /\ stage'[n] # "retry"
      BY <1>1, <2>3
    <3> QED BY <1>1, <2>3, <3>1 DEF Owed
  <2> QED BY <2>1, <2>2, <2>3
<1>9. NothingLost'
  <2> SUFFICES ASSUME ~Closed, NEW e \in PutSoFar' PROVE InLog(e) \/ UnderWay(e) \/ e = x
    BY <1>3, <1>4 DEF NothingLost, Closed
  <2>1. e \in Events /\ e.seq =< count'[e.node] /\ e.node \in Node /\ e.seq \in Nat
    BY ItemFacts DEF PutSoFar
  <2>2. CASE e.seq =< count[e.node]
    BY <2>1, <2>2 DEF IInv, NothingLost, PutSoFar
  <2>3. CASE ~(e.seq =< count[e.node])
    <3>1. e.node = n /\ e.seq = count'[n] /\ stage'[n] # "retry"
      BY <1>1, <2>1, <2>3
    <3> QED BY <2>1, <3>1, ItemFacts DEF Owed
  <2> QED BY <2>2, <2>3
<1>10. InOrder'
  <2> SUFFICES ASSUME ~Closed, NEW m \in Node, node'[m] = "parked", stage'[m] = "retry",
                      NEW e \in before'[m]
               PROVE  \/ InLog(e)
                      \/ hand = e
                      \/ /\ hand # Item("barrier", m)
                         /\ \E i \in DOMAIN queue' :
                              /\ queue'[i] = e
                              /\ \A j \in 1..i : queue'[j] # Item("barrier", m)
    BY <1>4 DEF InOrder, At, Closed, Item
  <2>1. CASE m # n
    <3>1. At(m, "parked", "retry") /\ e \in before[m]
      BY <1>1, <2>1 DEF At
    <3> QED BY <3>1, PutInOrder DEF IInv, InOrder
  <2>2. CASE m = n
    <3>1. e \in PutSoFar
      BY <2>2
    <3>2. Item("barrier", n) \in Items /\ Blocking(Item("barrier", n))
          /\ Item("barrier", n).node = n
      BY ItemFacts DEF Item, Blocking
    <3>3. ~UnderWay(Item("barrier", n))
      BY <1>2, <3>2
    <3>4. CASE InLog(e) \/ hand = e
      BY <3>4
    <3>5. ASSUME NEW i \in DOMAIN queue, queue[i] = e
          PROVE  \A j \in 1..i : j \in DOMAIN queue
      <4>1. queue \in Seq(Items)
        BY DEF TypeOK
      <4> QED BY <4>1
    <3>6. CASE Queued(e)
      BY <2>2, <3>3, <3>5, <3>6, PutInOrder DEF Queued, UnderWay
    <3> QED BY <3>1, <3>4, <3>6 DEF IInv, NothingLost, UnderWay
  <2> QED BY <2>1, <2>2
<1>11. RetrySeesSiblings'
  <2> SUFFICES ASSUME NEW m \in Node, node'[m] # "stopped",
                      ~(node'[m] = "parked" /\ stage'[m] = "retry"), NEW e \in before'[m]
               PROVE  InLog(e)
    BY <1>4 DEF RetrySeesSiblings, At
  <2>1. CASE m # n
    BY <1>1, <2>1 DEF IInv, RetrySeesSiblings, At
  <2>2. CASE m = n
    BY <1>1, <2>2 DEF IInv, RetrySeesSiblings, At
  <2> QED BY <2>1, <2>2
<1>12. SealFlagged' /\ SealThere' /\ SealedAtMostOnce' /\ SealedWhenAborted'
  BY LogParts DEF IInv, runVars, SealedWhenAborted
<1>13. SentinelPut' /\ SentinelLast'
  <2>1. Rooted => n \in loose
    BY DEF InStep, Rooted
  <2>2. x # Sentinel
    BY DEF Sentinel, Item, Blocking
  <2> QED BY <2>1, <2>2, PutSentinel DEF IInv, Loose, Rooted
<1>14. OwnEnd' /\ EverythingSaid'
  <2>1. \A m \in Node : count'[m] = count[m] \/ ~Rooted \/ m \in loose
    BY DEF InStep, Rooted
  <2> QED BY <1>4, <2>1, SaidStep DEF Rooted, runVars
<1> QED BY <1>5, <1>6, <1>7, <1>8, <1>9, <1>10, <1>11, <1>12, <1>13, <1>14 DEF IInv

(* Something nobody waits for is put: a partial event, or the sentinel.    *)
LEMMA PutOtherStep ==
  ASSUME IInv, TypeOK', NEW x \in Items, ~Blocking(x), Put(x),
         UNCHANGED <<node, count, before, loose, aborted, consumer, hand, log, runVars>>,
         \A m \in Node : \/ stage'[m] = stage[m]
                         \/ node[m] = "run" /\ stage'[m] # "retry",
         \/ root' = root /\ x # Sentinel
         \/ /\ ~Rooted /\ Rooted'
            /\ \A m \in Node : node[m] = "stopped" \/ m \in loose
  PROVE  IInv'
<1> TypeOK /\ InStep /\ Single /\ OwnOnly
  BY DEF IInv
<1>1. \A y : Blocking(y) => (UnderWay(y)' <=> UnderWay(y))
  <2>1. \A y : Queued(y)' <=> Queued(y) \/ y = x
    BY PutQueued DEF TypeOK
  <2> QED BY <2>1 DEF UnderWay, Blocking
<1>2. \A y : InLog(y)' <=> InLog(y)
  BY DEF InLog
<1>3. InStep'
  <2>1. CASE root' = root
    BY <1>2, <2>1 DEF InStep, Closed, runVars
  <2>2. CASE \A m \in Node : node[m] = "stopped" \/ m \in loose
    BY <1>2, <2>2 DEF InStep, Closed, runVars
  <2> QED BY <2>1, <2>2
<1>4. Single'
  BY PutSingle
<1>5. \A m \in Node : node[m] = "parked" => Owed(m)' = Owed(m)
  BY DEF Owed
<1>6. OwnOnly'
  <2> SUFFICES ASSUME NEW y \in Items, Blocking(y), UnderWay(y), node[y.node] # "stopped"
               PROVE  node[y.node] = "parked" /\ y = Owed(y.node)'
    BY <1>1 DEF OwnOnly, Blocking
  <2>1. y.node \in Node
    BY ItemFacts DEF Blocking
  <2> QED BY <1>5, <2>1 DEF OwnOnly
<1>7. Earlier'
  <2> SUFFICES ASSUME NEW m \in Node, node[m] # "stopped", NEW k \in 1..count[m]
               PROVE  InLog(Event(m, k)) \/ (node[m] = "parked" /\ Event(m, k) = Owed(m)')
    BY <1>2 DEF Earlier, Event
  <2> QED BY <1>5 DEF IInv, Earlier
<1>8. NothingLost'
  <2>1. PutSoFar' = PutSoFar /\ \A e \in Events : Blocking(e)
    BY ItemFacts DEF PutSoFar, Blocking
  <2> QED BY <1>1, <1>2, <2>1 DEF IInv, NothingLost, Closed, PutSoFar
<1>9. InOrder'
  <2> SUFFICES ASSUME ~Closed, NEW m \in Node, node[m] = "parked", stage'[m] = "retry",
                      NEW e \in before[m]
               PROVE  \/ InLog(e)
                      \/ hand = e
                      \/ /\ hand # Item("barrier", m)
                         /\ \E i \in DOMAIN queue' :
                              /\ queue'[i] = e
                              /\ \A j \in 1..i : queue'[j] # Item("barrier", m)
    BY <1>2 DEF InOrder, At, Closed, Item
  <2>1. At(m, "parked", "retry")
    BY DEF At
  <2> QED BY <2>1, PutInOrder DEF IInv, InOrder
<1>10. RetrySeesSiblings'
  <2>1. \A m \in Node : At(m, "parked", "retry") => At(m, "parked", "retry")'
    BY DEF At
  <2> QED BY <1>2, <2>1 DEF IInv, RetrySeesSiblings
<1>11. SealFlagged' /\ SealThere' /\ SealedAtMostOnce' /\ SealedWhenAborted'
  BY LogParts DEF IInv, runVars, SealedWhenAborted
<1>12. SentinelPut' /\ SentinelLast'
  <2>1. Rooted => Rooted'
    BY DEF Rooted
  <2> QED BY <2>1, PutSentinel DEF IInv, Loose, Blocking
<1>13. OwnEnd' /\ EverythingSaid'
  BY <1>2, SaidStep DEF Rooted, runVars
<1> QED BY <1>3, <1>4, <1>6, <1>7, <1>8, <1>9, <1>10, <1>11, <1>12, <1>13 DEF IInv

(* A node goes on or ends, and neither queue nor session changes.          *)
LEMMA MoveStep ==
  ASSUME IInv, TypeOK', NEW n \in Node, node[n] # "stopped",
         UNCHANGED <<queue, count, before, loose, root, aborted, consumer, hand, log, runVars>>,
         \A m \in Node \ {n} : node'[m] = node[m] /\ stage'[m] = stage[m],
         \/ node'[n] = "stopped"
         \/ node[n] \in {"run", "acked"} /\ node'[n] # "parked"
  PROVE  IInv'
<1> TypeOK /\ InStep /\ Single /\ OwnOnly
  BY DEF IInv
<1>1. \A y : (UnderWay(y)' <=> UnderWay(y)) /\ (InLog(y)' <=> InLog(y))
  BY DEF UnderWay, Queued, InLog
<1>2. InStep'
  BY <1>1 DEF InStep, Closed, runVars, TypeOK
<1>3. Single'
  BY DEF Single, Queued, Blocking
<1>4. OwnOnly'
  <2> SUFFICES ASSUME NEW y \in Items, Blocking(y), UnderWay(y)
               PROVE  /\ y.kind = "event" => y.seq =< count[y.node]
                      /\ node'[y.node] # "stopped" =>
                           node'[y.node] = "parked" /\ y = Owed(y.node)'
    BY <1>1 DEF OwnOnly, Blocking
  <2>1. y.node \in Node
    BY ItemFacts DEF Blocking
  <2> QED BY <2>1 DEF OwnOnly, Owed
<1>5. Earlier'
  <2> SUFFICES ASSUME NEW m \in Node, node'[m] # "stopped", NEW k \in 1..count[m]
               PROVE  InLog(Event(m, k)) \/ (node'[m] = "parked" /\ Event(m, k) = Owed(m)')
    BY <1>1 DEF Earlier, Event
  <2> QED BY DEF IInv, Earlier, Owed
<1>6. NothingLost'
  BY <1>1 DEF IInv, NothingLost, Closed, PutSoFar
<1>7. InOrder'
  <2>1. \A m \in Node : At(m, "parked", "retry")' => At(m, "parked", "retry")
    BY DEF At
  <2> QED BY <1>1, <2>1 DEF IInv, InOrder, Closed
<1>8. RetrySeesSiblings'
  <2> SUFFICES ASSUME NEW m \in Node, node'[m] # "stopped", ~At(m, "parked", "retry")'
               PROVE  node[m] # "stopped" /\ ~At(m, "parked", "retry")
    BY <1>1 DEF IInv, RetrySeesSiblings
  <2> QED BY DEF At
<1>9. SealFlagged' /\ SealThere' /\ SealedAtMostOnce' /\ SealedWhenAborted'
  BY LogParts DEF IInv, runVars, SealedWhenAborted
<1>10. SentinelPut' /\ SentinelLast'
  BY SameSentinel DEF IInv, Rooted
<1>11. OwnEnd' /\ EverythingSaid'
  BY <1>1, SaidStep DEF Rooted, runVars
<1> QED BY <1>2, <1>3, <1>4, <1>5, <1>6, <1>7, <1>8, <1>9, <1>10, <1>11 DEF IInv

(* The main loop takes the next item.                                      *)
LEMMA TakeStep ==
  ASSUME IInv, TypeOK', Take, consumer \in {"top", "get", "grace"},
         UNCHANGED <<nodeVars, root, aborted, log, runVars>>
  PROVE  IInv'
<1> TypeOK /\ InStep /\ Single /\ OwnOnly
  BY DEF IInv
<1>1. hand = NoItem /\ ~Blocking(hand) /\ consumer' = "have" /\ hand' \in Items
  BY TakeQueued, ItemFacts DEF InStep, Take, TypeOK
<1>2. /\ \A y : InLog(y)' <=> InLog(y)
      /\ \A y \in Items : UnderWay(y)' <=> UnderWay(y)
  <2>1. \A y : Queued(y) <=> Queued(y)' \/ y = hand'
    BY TakeQueued DEF TypeOK
  <2>2. NoItem \notin Items
    BY ItemFacts
  <2> QED BY <1>1, <2>1, <2>2 DEF UnderWay, InLog
<1>3. InStep'
  <2>1. NoItem \notin Items
    BY ItemFacts
  <2> QED BY <1>1, <1>2, <2>1 DEF InStep, Closed, runVars, nodeVars
<1>4. Single'
  BY <1>1, TakeSingle
<1>5. OwnOnly'
  BY <1>2 DEF OwnOnly, Blocking, Owed, nodeVars
<1>6. Earlier'
  BY <1>2 DEF IInv, Earlier, Owed, nodeVars, Event
<1>7. NothingLost'
  <2>1. PutSoFar' = PutSoFar /\ ~Closed
    BY DEF PutSoFar, nodeVars, Closed
  <2> QED BY <1>2, <2>1, ItemFacts DEF IInv, NothingLost, PutSoFar
<1>8. InOrder'
  <2> SUFFICES ASSUME NEW m \in Node, At(m, "parked", "retry"), NEW e \in before[m]
               PROVE  \/ InLog(e)
                      \/ hand' = e
                      \/ /\ hand' # Item("barrier", m)
                         /\ \E i \in DOMAIN queue' :
                              /\ queue'[i] = e
                              /\ \A j \in 1..i : queue'[j] # Item("barrier", m)
    BY <1>2 DEF InOrder, At, nodeVars, Item
  <2>1. hand # e
    BY <1>1, ItemFacts DEF TypeOK
  <2>2. CASE InLog(e)
    BY <2>2
  <2>3. ASSUME NEW i \in DOMAIN queue, queue[i] = e,
               \A j \in 1..i : queue[j] # Item("barrier", m)
        PROVE  \/ hand' = e
               \/ /\ hand' # Item("barrier", m)
                  /\ \E k \in DOMAIN queue' :
                       /\ queue'[k] = e
                       /\ \A j \in 1..k : queue'[j] # Item("barrier", m)
    <3>1. queue \in Seq(Items) /\ queue # <<>> /\ queue' = Tail(queue) /\ hand' = Head(queue)
      BY DEF TypeOK, Take
    <3>2. /\ hand' = queue[1] /\ DOMAIN queue' = 1..(Len(queue) - 1) /\ Len(queue) \in Nat
          /\ DOMAIN queue = 1..Len(queue)
          /\ \A k \in DOMAIN queue' : queue'[k] = queue[k + 1]
      BY <3>1, Taken
    <3>3. CASE i = 1
      BY <2>3, <3>2, <3>3
    <3>4. CASE i # 1
      <4>1. i - 1 \in DOMAIN queue' /\ queue'[i - 1] = e
        BY <2>3, <3>2, <3>4
      <4>2. \A j \in 1..(i - 1) : queue'[j] = queue[j + 1] /\ j + 1 \in 1..i
        BY <3>2
      <4>3. hand' # Item("barrier", m)
        BY <2>3, <3>2
      <4> QED BY <2>3, <4>1, <4>2, <4>3
    <3> QED BY <3>3, <3>4
  <2>4. ~Closed
    BY DEF Closed
  <2> QED BY <2>1, <2>2, <2>3, <2>4 DEF IInv, InOrder
<1>9. RetrySeesSiblings'
  BY <1>2 DEF IInv, RetrySeesSiblings, At, nodeVars
<1>10. SealFlagged' /\ SealThere' /\ SealedAtMostOnce' /\ SealedWhenAborted'
  BY LogParts DEF IInv, runVars, SealedWhenAborted
<1>11. SentinelPut' /\ SentinelLast'
  BY TakeSentinel DEF IInv, nodeVars
<1>12. OwnEnd' /\ EverythingSaid'
  BY <1>2, SaidStep DEF Rooted, runVars, nodeVars
<1> QED BY <1>3, <1>4, <1>5, <1>6, <1>7, <1>8, <1>9, <1>10, <1>11, <1>12 DEF IInv

(* The main loop waits, or the abort is noted, or nothing happens.         *)
LEMMA WaitStep ==
  ASSUME IInv, TypeOK', loose \subseteq loose',
         UNCHANGED <<queue, node, stage, count, before, root, hand, log, runVars>>,
         \/ /\ consumer \in {"top", "get"} /\ consumer' \in {"get", "grace"}
            /\ aborted' = aborted /\ (consumer' = "grace" => aborted)
         \/ /\ consumer' = consumer
            /\ aborted' = aborted \/ (aborted' /\ phase \notin {"after", "end"})
  PROVE  IInv'
<1>1. \A y : (UnderWay(y)' <=> UnderWay(y)) /\ (InLog(y)' <=> InLog(y))
  BY DEF UnderWay, Queued, InLog
<1>2. Closed' <=> Closed
  BY DEF Closed
<1>3. InStep'
  BY <1>1, <1>2 DEF IInv, InStep, Closed, runVars, nodeVars
<1>4. Single' /\ OwnOnly'
  BY <1>1 DEF IInv, Single, OwnOnly, Queued, Blocking, Owed, nodeVars
<1>5. Earlier' /\ NothingLost'
  BY <1>1, <1>2 DEF IInv, Earlier, Owed, NothingLost, PutSoFar, nodeVars, Event
<1>6. InOrder' /\ RetrySeesSiblings'
  BY <1>1, <1>2 DEF IInv, InOrder, RetrySeesSiblings, At, nodeVars, Item
<1>7. SealFlagged' /\ SealThere' /\ SealedAtMostOnce' /\ SealedWhenAborted'
  BY LogParts DEF IInv, runVars, SealedWhenAborted
<1>8. SentinelPut' /\ SentinelLast'
  BY SameSentinel DEF IInv, Rooted
<1>9. OwnEnd' /\ EverythingSaid'
  BY <1>1, SaidStep DEF Rooted, runVars
<1> QED BY <1>3, <1>4, <1>5, <1>6, <1>7, <1>8, <1>9 DEF IInv

(* The main loop stops; an append it was waiting for may be done.          *)
LEMMA CloseStep ==
  ASSUME IInv, TypeOK', consumer # "closed",
         NEW how \in {"normal", "closed", "cancelled", "error"}, Close(how),
         how = "normal" => aborted \/ hand = Sentinel,
         UNCHANGED <<queue, nodeVars, aborted>>,
         log' = log \/ (hand.kind = "event" /\ log' = Append(log, hand))
  PROVE  IInv'
<1> TypeOK /\ InStep /\ Single /\ OwnOnly
  BY DEF IInv
<1>1. log' = log \/ \E e \in Events : log' = Append(log, e)
  <2>1. hand.kind = "event" => hand \in Events
    BY ItemFacts DEF TypeOK
  <2> QED BY <2>1
<1>2. /\ \A y : InLog(y) => InLog(y)'
      /\ SealFlagged' /\ SealThere' /\ SealedAtMostOnce'
  BY <1>1, LogParts DEF IInv, Close
<1>3. /\ Closed' /\ hand' = NoItem /\ phase' = "join"
      /\ \A y : Queued(y)' <=> Queued(y)
  BY DEF Close, Closed, Queued
<1>4. InStep'
  BY <1>3 DEF InStep, Close, Closed, nodeVars
<1>5. Single'
  BY <1>3, ItemFacts DEF Single, Blocking
<1>6. OwnOnly'
  <2>1. \A y \in Items : Blocking(y) /\ UnderWay(y)' => UnderWay(y)
    BY <1>3, ItemFacts DEF UnderWay
  <2> QED BY <2>1 DEF OwnOnly, Owed, nodeVars, Blocking
<1>7. Earlier'
  BY <1>2 DEF IInv, Earlier, Owed, nodeVars, Event
<1>8. NothingLost' /\ InOrder' /\ SealedWhenAborted'
  BY <1>3 DEF NothingLost, InOrder, SealedWhenAborted
<1>9. RetrySeesSiblings'
  BY <1>2 DEF IInv, RetrySeesSiblings, At, nodeVars
<1>10. Rooted => Rooted'
  BY DEF Close, Rooted
<1>11. SentinelPut' /\ SentinelLast'
  BY <1>3, <1>10, SameSentinel DEF IInv, nodeVars
<1>12. ASSUME ending' = "normal", ~aborted' PROVE Rooted' /\ EverythingSaid'
  <2>1. ~aborted /\ hand = Sentinel
    BY <1>12 DEF Close
  <2>2. Rooted'
    BY <1>10, <2>1 DEF IInv, SentinelPut
  <2>3. ASSUME NEW e \in PutSoFar PROVE InLog(e) \/ e.node \in loose
    <3>1. e \in Events /\ e.kind = "event" /\ e # Sentinel
      BY ItemFacts DEF PutSoFar
    <3>2. InLog(e) \/ Queued(e)
      BY <2>1, <3>1 DEF IInv, NothingLost, UnderWay, Closed
    <3>3. Queued(e) => Loose(e)
      BY <2>1 DEF IInv, SentinelLast, Queued
    <3> QED BY <3>1, <3>2, <3>3 DEF Loose
  <2>4. PutSoFar' = PutSoFar /\ loose' = loose
    BY DEF PutSoFar, nodeVars
  <2> QED BY <1>2, <2>2, <2>3, <2>4 DEF EverythingSaid
<1>13. OwnEnd' /\ EverythingSaid'
  BY <1>12 DEF OwnEnd, EverythingSaid
<1> QED BY <1>2, <1>4, <1>5, <1>6, <1>7, <1>8, <1>9, <1>11, <1>13 DEF IInv

(* The item in hand is delivered.                                          *)
LEMMA DeliverStep == ASSUME IInv, TypeOK', Deliver PROVE IInv'
<1> TypeOK /\ InStep /\ Single /\ OwnOnly
  BY DEF IInv
<1>1. hand.kind = "event" => hand \in Events
  BY ItemFacts DEF TypeOK
<1>2. log' = log \/ \E e \in Events : log' = Append(log, e)
  BY <1>1 DEF Deliver
<1>3. /\ \A y : InLog(y) => InLog(y)'
      /\ SealFlagged' /\ SealThere' /\ SealedAtMostOnce' /\ SealedWhenAborted'
  BY <1>2, LogParts DEF IInv, Deliver, runVars, SealedWhenAborted
<1>4. hand.kind = "event" => InLog(hand)'
  BY <1>1, LogAppended DEF Deliver, TypeOK
<1>5. \A y : UnderWay(y)' <=> UnderWay(y)
  BY DEF Deliver, UnderWay, Queued
<1>6. ~Closed /\ ~Closed'
  BY DEF Deliver, Closed
<1>7. InStep'
  <2>1. (hand.kind = "event")' => InLog(hand)'
    BY <1>4 DEF Deliver
  <2> QED BY <1>6, <2>1 DEF InStep, Deliver, Closed, runVars, nodeVars
<1>8. Single' /\ OwnOnly'
  BY <1>5 DEF Single, OwnOnly, Queued, Blocking, Owed, nodeVars, Deliver
<1>9. Earlier'
  BY <1>3 DEF IInv, Earlier, Owed, nodeVars, Event, Deliver
<1>10. NothingLost'
  <2>1. PutSoFar' = PutSoFar
    BY DEF PutSoFar, nodeVars, Deliver
  <2> QED BY <1>3, <1>5, <1>6, <2>1 DEF IInv, NothingLost, PutSoFar
<1>11. InOrder'
  BY <1>3, <1>6 DEF IInv, InOrder, At, nodeVars, Item, Deliver
<1>12. RetrySeesSiblings'
  BY <1>3 DEF IInv, RetrySeesSiblings, At, nodeVars, Deliver
<1>13. SentinelPut' /\ SentinelLast'
  BY SameSentinel DEF IInv, Rooted, Deliver, nodeVars
<1>14. OwnEnd' /\ EverythingSaid'
  BY <1>3, SaidStep DEF Rooted, runVars, nodeVars, Deliver
<1> QED BY <1>3, <1>7, <1>8, <1>9, <1>10, <1>11, <1>12, <1>13, <1>14 DEF IInv

(* The node that waits for the item in hand is woken.                      *)
LEMMA AckStep ==
  ASSUME IInv, TypeOK', consumer \in {"have", "yielded"},
         hand.kind = "event" => InLog(hand),
         hand' = NoItem, consumer' = "top",
         UNCHANGED <<queue, stage, count, before, loose, root, aborted, log, runVars>>,
         IF Blocking(hand) THEN Acknowledge(hand.node) ELSE node' = node
  PROVE  IInv'
<1> TypeOK /\ InStep /\ Single /\ OwnOnly
  BY DEF IInv
<1> DEFINE n == hand.node
           woken == Blocking(hand) /\ node[n] = "parked"
<1>1. hand \in Items /\ (Blocking(hand) => n \in Node) /\ ~Closed /\ ~Closed'
  BY ItemFacts DEF TypeOK, InStep, Blocking, Closed
<1>2. woken => hand = Owed(n)
  BY <1>1 DEF OwnOnly, UnderWay
<1>3. /\ woken => node'[n] = "acked" /\ \A m \in Node \ {n} : node'[m] = node[m]
      /\ ~woken => node' = node
  BY <1>1 DEF Acknowledge, TypeOK
<1>4. \A y : InLog(y)' <=> InLog(y)
  BY DEF InLog
<1>5. \A y \in Items : UnderWay(y)' => Queued(y) /\ UnderWay(y)
  BY ItemFacts DEF UnderWay, Queued
<1>6. InStep'
  <2>1. \A m \in Node : node[m] = "stopped" => node'[m] = "stopped"
    BY <1>1, <1>3
  <2> QED BY <1>1, <1>4, <2>1 DEF InStep, Closed, runVars
<1>7. Single'
  BY ItemFacts DEF Single, Queued, Blocking
<1>8. OwnOnly'
  <2> SUFFICES ASSUME NEW y \in Items, Blocking(y), UnderWay(y)'
               PROVE  /\ y.kind = "event" => y.seq =< count[y.node]
                      /\ node'[y.node] # "stopped" =>
                           node'[y.node] = "parked" /\ y = Owed(y.node)'
    BY DEF OwnOnly, Blocking
  <2>1. y.node \in Node /\ Queued(y) /\ UnderWay(y)
    BY <1>5, ItemFacts DEF Blocking
  <2>2. y # hand
    BY <2>1 DEF Single
  <2>3. y.node = n /\ woken => FALSE
    BY <1>2, <2>1, <2>2 DEF OwnOnly
  <2>4. node'[y.node] = node[y.node]
    BY <1>3, <2>1, <2>3
  <2> QED BY <2>1, <2>4 DEF OwnOnly, Owed
<1>9. Earlier'
  <2> SUFFICES ASSUME NEW m \in Node, node'[m] # "stopped", NEW k \in 1..count[m]
               PROVE  InLog(Event(m, k)) \/ (node'[m] = "parked" /\ Event(m, k) = Owed(m))
    BY <1>4 DEF Earlier, Event, Owed, Item
  <2>1. CASE woken /\ m = n
    <3>1. InLog(Event(n, k)) \/ Event(n, k) = hand
      BY <1>1, <1>2, <2>1 DEF IInv, Earlier
    <3>2. Event(n, k).kind = "event"
      BY DEF Event
    <3> QED BY <2>1, <3>1, <3>2
  <2>2. CASE ~(woken /\ m = n)
    BY <1>3, <2>2 DEF IInv, Earlier
  <2> QED BY <2>1, <2>2
<1>10. NothingLost'
  <2>1. PutSoFar' = PutSoFar
    BY DEF PutSoFar
  <2>2. \A e \in PutSoFar : UnderWay(e) => Queued(e) \/ InLog(e)
    BY ItemFacts DEF PutSoFar, UnderWay
  <2>3. \A y : Queued(y) => UnderWay(y)'
    BY DEF Queued, UnderWay
  <2> QED BY <1>1, <1>4, <2>1, <2>2, <2>3 DEF IInv, NothingLost, PutSoFar
<1>11. InOrder'
  <2> SUFFICES ASSUME NEW m \in Node, At(m, "parked", "retry")', NEW e \in before[m]
               PROVE  \/ InLog(e)
                      \/ \E i \in DOMAIN queue :
                           /\ queue[i] = e
                           /\ \A j \in 1..i : queue[j] # Item("barrier", m)
    BY <1>4, ItemFacts DEF InOrder, Item, NoItem
  <2>1. At(m, "parked", "retry")
    BY <1>1, <1>3 DEF At
  <2>2. hand = e => InLog(e)
    BY ItemFacts DEF TypeOK
  <2> QED BY <1>1, <2>1, <2>2 DEF IInv, InOrder
<1>12. RetrySeesSiblings'
  <2> SUFFICES ASSUME NEW m \in Node, node'[m] # "stopped", ~At(m, "parked", "retry")',
                      NEW e \in before[m]
               PROVE  InLog(e)
    BY <1>4 DEF RetrySeesSiblings
  <2>1. CASE At(m, "parked", "retry")
    <3>1. woken /\ m = n
      BY <1>3, <2>1 DEF At
    <3>2. hand = Item("barrier", m)
      BY <1>2, <2>1, <3>1 DEF At, Owed
    <3>3. e \in Events /\ e.kind = "event" /\ hand.kind = "barrier"
      BY <3>2, ItemFacts DEF TypeOK, Item
    <3> QED BY <1>1, <2>1, <3>2, <3>3 DEF IInv, InOrder
  <2>2. CASE ~At(m, "parked", "retry")
    BY <1>1, <1>3, <2>2 DEF IInv, RetrySeesSiblings
  <2> QED BY <2>1, <2>2
<1>13. SealFlagged' /\ SealThere' /\ SealedAtMostOnce' /\ SealedWhenAborted'
  BY LogParts DEF IInv, runVars, SealedWhenAborted
<1>14. SentinelPut' /\ SentinelLast'
  BY SameSentinel DEF IInv, Rooted
<1>15. OwnEnd' /\ EverythingSaid'
  BY <1>4, SaidStep DEF Rooted, runVars
<1> QED BY <1>6, <1>7, <1>8, <1>9, <1>10, <1>11, <1>12, <1>13, <1>14, <1>15 DEF IInv

(* The run winds down; only here is the seal appended.                     *)
LEMMA WindStep == ASSUME IInv, TypeOK', WindDown PROVE IInv'
<1> TypeOK /\ InStep
  BY DEF IInv
<1>0. WindDown
  OBVIOUS
<1>1. UNCHANGED <<queue, nodeVars, root, consumer, hand>>
  BY DEF WindDown, Joined, Exit, Finish, SealSkipped, SealAppended, SealInterrupted
<1>2. /\ phase # "consume" /\ phase' # "consume" /\ phase' # "join"
  BY DEF WindDown, Joined, Exit, Finish, SealSkipped, SealAppended, SealInterrupted,
     Sealing, Sealed
<1>3. Closed /\ Closed'
  BY <1>1, <1>2 DEF InStep, Closed
<1>4. InStep'
  BY <1>1, <1>2, <1>3 DEF InStep, Closed, nodeVars
<1>5. /\ \A y : InLog(y) => InLog(y)'
      /\ SealFlagged' /\ SealThere' /\ SealedAtMostOnce'
  <2>1. CASE SealAppended
    <3>1. log' = Append(log, Seal) /\ log \in Seq(Events \cup {Seal}) /\ synthesized'
          /\ ~synthesized
      BY <2>1 DEF SealAppended, TypeOK
    <3>2. \A i \in DOMAIN log : log[i] # Seal
      BY <3>1 DEF IInv, SealFlagged
    <3>3. \A i \in DOMAIN log' : i \in DOMAIN log \/ i = Len(log) + 1
      BY <3>1, Appended
    <3>4. \A i \in DOMAIN log : log'[i] = log[i]
      BY <3>1, Appended
    <3>5. SealedAtMostOnce'
      BY <3>2, <3>3, <3>4 DEF SealedAtMostOnce, Seal
    <3>6. \A y : InLog(y)' <=> InLog(y) \/ y = Seal
      BY <3>1, LogAppended
    <3>7. InLog(Seal)'
      BY <3>6
    <3> QED BY <3>1, <3>5, <3>6, <3>7 DEF SealFlagged, SealThere, Seal
  <2>2. CASE ~SealAppended
    <3>1. log' = log /\ (synthesized => synthesized')
          /\ (synthesized' /\ broken' = "no" => synthesized /\ broken = "no")
      <4>1. CASE Joined \/ Exit \/ Finish \/ SealSkipped
        <5>1. log' = log /\ synthesized' = synthesized /\ broken' = broken
          BY <4>1 DEF Joined, Exit, Finish, SealSkipped
        <5> QED BY <5>1
      <4>2. CASE SealInterrupted
        BY <4>2 DEF SealInterrupted
      <4> QED BY <1>0, <2>2, <4>1, <4>2 DEF WindDown
    <3>2. \A y : InLog(y)' <=> InLog(y)
      BY <3>1 DEF InLog
    <3> QED BY <3>1, <3>2 DEF IInv, SealFlagged, SealThere, SealedAtMostOnce, Seal
  <2> QED BY <2>1, <2>2
<1>6. Single' /\ OwnOnly'
  BY <1>1 DEF IInv, Single, OwnOnly, UnderWay, Queued, Blocking, Owed, nodeVars
<1>7. Earlier' /\ RetrySeesSiblings'
  BY <1>1, <1>5 DEF IInv, Earlier, RetrySeesSiblings, At, Owed, nodeVars, Event
<1>8. NothingLost' /\ InOrder'
  BY <1>3 DEF NothingLost, InOrder
<1>9. SealedWhenAborted'
  BY <1>0 DEF IInv, SealedWhenAborted, WindDown, Joined, Exit, Finish, SealSkipped,
     SealAppended, SealInterrupted, Sealing, Sealed
<1>10. SentinelPut' /\ SentinelLast'
  BY <1>1, SameSentinel DEF IInv, Rooted, nodeVars
<1>11. ending' = "normal" /\ ~aborted' => ending = "normal" /\ ~aborted
  BY <1>0 DEF WindDown, Joined, Exit, Finish, SealSkipped, SealAppended, SealInterrupted
<1>12. OwnEnd' /\ EverythingSaid'
  BY <1>1, <1>2, <1>5, <1>11, SaidStep DEF Rooted, nodeVars
<1> QED BY <1>4, <1>5, <1>6, <1>7, <1>8, <1>9, <1>10, <1>12 DEF IInv

-----------------------------------------------------------------------------
LEMMA NodeStepIInv ==
  ASSUME IInv, NEW n \in Node, NodeStep(n) \/ Cancelled(n) PROVE IInv'
<1>0. TypeOK /\ TypeOK' /\ NodesTyped /\ LoopTyped
  BY NodeTypes, TypeParts DEF IInv
<1>1. CASE Yield(n) \/ Fail(n) \/ Flush(n)
  <2> DEFINE x == Event(n, count[n] + 1)
  <2>1. /\ PutAndPark(n) /\ node[n] = "run" /\ stage'[n] # "retry"
        /\ UNCHANGED <<before, loose, root, aborted, consumer, hand, log, runVars>>
        /\ \A m \in Node \ {n} : stage'[m] = stage[m]
    BY <1>0, <1>1 DEF Yield, Fail, Flush, At, Enter, NodesTyped
  <2>2. x \in Items /\ x.node = n /\ x.kind = "event" /\ Blocking(x)
    BY <1>0, <2>1, ParkTypes, ItemFacts DEF Event, Blocking
  <2>3. /\ Put(x) /\ node' = [node EXCEPT ![n] = "parked"] /\ count'[n] = count[n] + 1
        /\ \A m \in Node \ {n} : count'[m] = count[m]
    BY <1>0, <2>1 DEF PutAndPark, NodesTyped
  <2>4. x = Owed(n)'
    BY <2>1, <2>3 DEF Owed, Event
  <2> QED BY <1>0, <2>1, <2>2, <2>3, <2>4, ParkStep
<1>2. CASE Barrier(n)
  <2> DEFINE x == Item("barrier", n)
  <2>1. x \in Items /\ x.node = n /\ x.kind = "barrier" /\ Blocking(x)
    BY ItemFacts DEF Item, Blocking
  <2>2. /\ node[n] = "acked" /\ Put(x) /\ node' = [node EXCEPT ![n] = "parked"]
        /\ UNCHANGED <<count, loose, root, aborted, consumer, hand, log, runVars>>
        /\ stage'[n] = "retry" /\ before'[n] = PutSoFar
        /\ \A m \in Node \ {n} : stage'[m] = stage[m] /\ before'[m] = before[m]
    BY <1>0, <1>2 DEF Barrier, At, Enter, NodesTyped
  <2>3. x = Owed(n)'
    BY <2>2 DEF Owed, Item
  <2> QED BY <1>0, <2>1, <2>2, <2>3, ParkStep
<1>3. CASE YieldPartial(n)
  <2> DEFINE x == Item("partial", n)
  <2>1. x \in Items /\ ~Blocking(x) /\ x # Sentinel
    BY ItemFacts DEF Item, Blocking, Sentinel
  <2>2. /\ Put(x)
        /\ UNCHANGED <<node, count, before, loose, root, aborted, consumer, hand, log, runVars>>
        /\ \A m \in Node : \/ stage'[m] = stage[m]
                           \/ node[m] = "run" /\ stage'[m] # "retry"
    BY <1>0, <1>3 DEF YieldPartial, At, Enter, NodesTyped
  <2> QED BY <1>0, <2>1, <2>2, PutOtherStep
<1>4. CASE Resume(n) \/ EndLoop(n) \/ Stop(n) \/ Cancelled(n)
  <2>1. /\ node[n] # "stopped"
        /\ UNCHANGED <<queue, count, before, loose, root, aborted, consumer, hand, log, runVars>>
        /\ \A m \in Node \ {n} : node'[m] = node[m] /\ stage'[m] = stage[m]
        /\ \/ node'[n] = "stopped"
           \/ node[n] \in {"run", "acked"} /\ node'[n] # "parked"
    BY <1>0, <1>4 DEF Resume, EndLoop, Stop, Cancelled, At, Enter, NodesTyped
  <2> QED BY <1>0, <2>1, MoveStep
<1> QED BY <1>1, <1>2, <1>3, <1>4 DEF NodeStep

LEMMA LoopStepIInv ==
  ASSUME IInv, RootEnds \/ Consume \/ Caller \/ CallerCancels PROVE IInv'
<1>0. TypeOK /\ TypeOK' /\ InStep
  BY LoopTypes DEF IInv
<1>1. CASE RootEnds
  <2>1. Sentinel \in Items /\ ~Blocking(Sentinel)
    BY ItemFacts DEF Blocking
  <2>2. ~Rooted /\ Rooted'
    BY <1>1 DEF RootEnds, Rooted
  <2> QED BY <1>0, <1>1, <2>1, <2>2, PutOtherStep DEF RootEnds, nodeVars
<1>2. CASE Top
  <2>1. CASE Take /\ UNCHANGED <<root, runVars>>
    BY <1>0, <1>2, <2>1, TakeStep DEF Top
  <2>2. CASE aborted /\ Close("normal") /\ UNCHANGED queue
    BY <1>0, <1>2, <2>2, CloseStep DEF Top
  <2>3. CASE consumer' = "get" /\ UNCHANGED <<queue, hand, root, runVars>>
    BY <1>0, <1>2, <2>3, WaitStep DEF Top, nodeVars
  <2> QED BY <1>2, <2>1, <2>2, <2>3 DEF Top
<1>3. CASE Got
  BY <1>0, <1>3, TakeStep DEF Got
<1>4. CASE AbortSeen
  BY <1>0, <1>4, WaitStep DEF AbortSeen, nodeVars
<1>5. CASE GiveUp \/ EndOfStream \/ DeliverFails \/ CallerCloses
  <2>1. /\ UNCHANGED <<queue, nodeVars, aborted, log>> /\ consumer # "closed"
        /\ \E how \in {"normal", "closed", "cancelled", "error"} :
             Close(how) /\ (how = "normal" => aborted \/ hand = Sentinel)
    BY <1>0, <1>5 DEF InStep, GiveUp, EndOfStream, DeliverFails, CallerCloses
  <2> QED BY <1>0, <2>1, CloseStep
<1>6. CASE PassBarrier
  BY <1>0, <1>6, AckStep DEF PassBarrier, Blocking
<1>7. CASE Deliver
  BY <1>0, <1>7, DeliverStep
<1>8. CASE NextEvent
  <2>1. hand.kind = "event" => InLog(hand)
    BY <1>0, <1>8 DEF NextEvent, InStep
  <2>2. Blocking(hand) <=> hand.kind = "event"
    BY <1>0, <1>8 DEF NextEvent, InStep, Blocking
  <2> QED BY <1>0, <1>8, <2>1, <2>2, AckStep DEF NextEvent
<1>9. CASE CallerCancels
  BY <1>0, <1>9, CloseStep DEF CallerCancels
<1> QED BY <1>1, <1>2, <1>3, <1>4, <1>5, <1>6, <1>7, <1>8, <1>9 DEF Consume, Caller

LEMMA IInvStep == IInv /\ [Next]_vars => IInv'
<1> SUFFICES ASSUME IInv, [Next]_vars PROVE IInv'
  OBVIOUS
<1>0. TypeOK
  BY DEF IInv
<1>1. CASE UNCHANGED vars
  <2>1. TypeOK'
    BY <1>0, <1>1, TypeParts, TypePartsNext, PartsKept DEF vars, runVars, nodeVars
  <2>2. UNCHANGED <<queue, nodeVars, root, hand, log, runVars, consumer, aborted>>
    BY <1>1 DEF vars
  <2> QED BY <2>1, <2>2, WaitStep DEF nodeVars
<1>2. ASSUME NEW n \in Node, NodeStep(n) \/ Cancelled(n) PROVE IInv'
  BY <1>2, NodeStepIInv
<1>3. CASE RootEnds \/ Consume \/ Caller \/ CallerCancels
  BY <1>3, LoopStepIInv
<1>4. CASE Abort
  <2>1. TypeOK'
    BY <1>0, <1>4, EndTypes
  <2> QED BY <1>4, <2>1, WaitStep DEF Abort, nodeVars
<1>5. CASE WindDown
  <2>1. TypeOK'
    BY <1>0, <1>5, EndTypes
  <2> QED BY <1>5, <2>1, WindStep
<1>6. ASSUME NEW n \in Node, LeftBehind(n) PROVE IInv'
  <2>1. TypeOK'
    BY <1>0, <1>6, LeftTypes
  <2> QED BY <1>6, <2>1, WaitStep DEF LeftBehind
<1> QED BY <1>1, <1>2, <1>3, <1>4, <1>5, <1>6 DEF Next

-----------------------------------------------------------------------------
(* The inductive invariant: where each item is that a node waits for.      *)
THEOREM InductiveInvariant == Spec => []IInv
<1> QED BY InitIInv, IInvStep, PTL DEF Spec

(* Types of the invocation's variables.                                    *)
THEOREM TypeCorrect == Spec => []TypeOK
<1>1. IInv => TypeOK
  BY DEF IInv
<1> QED BY <1>1, InductiveInvariant, PTL

(* A node that goes on finds its own events in the session, though the     *)
(* main loop, plugins and other nodes run in between (_enqueue_event).     *)
THEOREM NodesSeeTheirEventsHolds == Spec => []NodesSeeTheirEvents
<1>1. IInv => NodesSeeTheirEvents
  <2> SUFFICES ASSUME IInv, NEW n \in Node, node[n] \in {"run", "acked"}, NEW k \in 1..count[n]
               PROVE  InLog(Event(n, k))
    BY DEF NodesSeeTheirEvents
  <2> QED BY DEF IInv, Earlier
<1> QED BY <1>1, InductiveInvariant, PTL

(* A retry that has passed its barrier finds all that was put before it    *)
(* (NodeRunner._wait_for_enqueued_events).                                 *)
THEOREM RetrySeesSiblingsHolds == Spec => []RetrySeesSiblings
<1>1. IInv => RetrySeesSiblings
  BY DEF IInv
<1> QED BY <1>1, InductiveInvariant, PTL

(* The run and its lifecycle both seal, and only one seal is appended      *)
(* (Runner._synthesize_abort_events_if_needed).                            *)
THEOREM SealedAtMostOnceHolds == Spec => []SealedAtMostOnce
<1>1. IInv => SealedAtMostOnce
  BY DEF IInv
<1> QED BY <1>1, InductiveInvariant, PTL

(* However an aborted run ends, it is sealed unless the sealing itself was *)
(* interrupted (_run_invocation_lifecycle).                                *)
THEOREM AbortedIsSealedHolds == Spec => []AbortedIsSealed
<1>1. IInv => AbortedIsSealed
  BY DEF IInv, AbortedIsSealed, SealedWhenAborted, SealThere
<1> QED BY <1>1, InductiveInvariant, PTL

(* A run that ended by itself has lost nothing of the nodes it waited for: *)
(* the sentinel of _drive_root_node is behind their last events.           *)
THEOREM EverythingSaidHolds == Spec => []EverythingSaid
<1>1. IInv => EverythingSaid
  BY DEF IInv
<1> QED BY <1>1, InductiveInvariant, PTL
=============================================================================
