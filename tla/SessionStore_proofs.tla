------------------------- MODULE SessionStore_proofs -------------------------
(***************************************************************************)
(* Proofs about SessionStore for any clients, processes, sessions and      *)
(* stamps, over databases whose transactions are isolated (row locks, or a *)
(* SQLite file).  The inductive invariant says that an open append keeps   *)
(* its session's row, and the app's when it will write to it, as it has    *)
(* read them, and that the stamp of an event on its way is known nowhere   *)
(* else yet, so no copy can be taken for up to date by accident.           *)
(***************************************************************************)
EXTENDS SessionStore, TLAPS

Isolated == Dialects \subseteq {"rows", "file"}

Writes(c) == pc[c] \in {"checked", "flushed"}

ViewIsDisk == view = disk /\ dialect \in {"rows", "file"}
NoRowNoEvents == \A s \in Session : disk.marker[s] = 0 => disk.events[s] = {}
RowsHeld == \A c \in Client : Opened(c) => tx[c].marker = disk.marker[SessionOf[c]]
RowsExclusive ==
  \A c, d \in Client : Opened(c) /\ Opened(d) /\ c # d =>
    dialect = "rows" /\ SessionOf[c] # SessionOf[d]
WritersFresh ==
  \A c \in Client :
    /\ pc[c] \in Working => copy[c] # NoCopy
    /\ Writes(c) => tx[c].marker # 0 /\ copy[c].marker = tx[c].marker
AppHeld == \A c \in Client : Writes(c) /\ event[c].delta => tx[c].app = disk.app
AppExclusive ==
  \A c, d \in Client :
    Writes(c) /\ event[c].delta /\ Writes(d) /\ event[d].delta => c = d
StampsUsed ==
  /\ 0 \in used
  /\ \A s \in Session : disk.marker[s] \in used
  /\ \A c \in Client : /\ copy[c] # NoCopy => copy[c].marker \in used
                       /\ tx[c].marker \in used
                       /\ event[c].stamp \in used
EventsNew ==
  \A c \in Client : pc[c] \in Working =>
    /\ event[c].stamp # 0
    /\ \A s \in Session : disk.marker[s] # event[c].stamp
    /\ \A d \in Client : /\ copy[d] # NoCopy => copy[d].marker # event[c].stamp
                         /\ tx[d].marker # event[c].stamp
                         /\ d # c => event[d].stamp # event[c].stamp
Quiet == \A c \in Client : pc[c] \notin Working => event[c] = NoEvent

IInv == /\ TypeOK
        /\ ViewIsDisk
        /\ NoRowNoEvents
        /\ RowsHeld
        /\ RowsExclusive
        /\ WritersFresh
        /\ AppHeld
        /\ AppExclusive
        /\ StampsUsed
        /\ EventsNew
        /\ Quiet
        /\ FreshCopiesAreComplete

-----------------------------------------------------------------------------
LEMMA InitIInv == Isolated /\ Init => IInv
<1> SUFFICES ASSUME Isolated, Init PROVE IInv OBVIOUS
<1> USE MaxStampAssumption, SessionOfAssumption DEF Init
<1>1. 0 \in Stamp
  BY DEF Stamp
<1>2. Empty \in Databases /\ NoTx \in [marker : Stamp, app : SUBSET Stamp]
      /\ NoEvent \in [stamp : Stamp, delta : BOOLEAN]
  BY <1>1 DEF Empty, Databases, NoTx, NoEvent
<1>3. TypeOK
  BY <1>1, <1>2 DEF TypeOK
<1>4. \A c \in Client : pc[c] = "idle" /\ copy[c] = NoCopy /\ event[c] = NoEvent /\ tx[c] = NoTx
  OBVIOUS
<1>5. \A s \in Session : disk.marker[s] = 0 /\ disk.events[s] = {}
  BY DEF Empty
<1>6. ViewIsDisk
  BY DEF ViewIsDisk, Isolated
<1>7. StampsUsed
  BY <1>4, <1>5 DEF StampsUsed, NoTx, NoEvent
<1> QED BY <1>3, <1>4, <1>5, <1>6, <1>7 DEF IInv, NoRowNoEvents, RowsHeld, RowsExclusive,
     WritersFresh, AppHeld, AppExclusive, EventsNew, Quiet, FreshCopiesAreComplete,
     Opened, Writes, Working

-----------------------------------------------------------------------------
(* One lemma per action; <1>2 says what the step changes.                  *)
LEMMA GetRowStep == ASSUME IInv, NEW c \in Client, GetRow(c) PROVE IInv'
<1> USE DEF IInv, GetRow, Goto
<1>0. SessionOf[c] \in Session /\ disk.marker[SessionOf[c]] \in Stamp
  BY SessionOfAssumption DEF TypeOK, Databases
<1>1. TypeOK'
  BY <1>0 DEF TypeOK, Working, ViewIsDisk
<1>2. /\ disk' = disk /\ view' = view /\ dialect' = dialect /\ used' = used
      /\ copy' = copy /\ event' = event
      /\ \A d \in Client : d # c => pc'[d] = pc[d] /\ tx'[d] = tx[d]
      /\ pc'[c] = "loading" /\ tx'[c].marker = disk.marker[SessionOf[c]]
      /\ pc[c] = "idle"
  BY DEF TypeOK, ViewIsDisk
<1>3. ViewIsDisk' /\ NoRowNoEvents'
  BY <1>2 DEF ViewIsDisk, NoRowNoEvents
<1>4. RowsHeld' /\ RowsExclusive'
  BY <1>2 DEF RowsHeld, RowsExclusive, Opened
<1>5. WritersFresh' /\ AppHeld' /\ AppExclusive' /\ Quiet'
  BY <1>2 DEF WritersFresh, AppHeld, AppExclusive, Quiet, Writes, Working
<1>6. StampsUsed' /\ EventsNew'
  BY <1>0, <1>2 DEF StampsUsed, EventsNew, Working
<1>7. FreshCopiesAreComplete'
  BY <1>2 DEF FreshCopiesAreComplete
<1> QED BY <1>1, <1>3, <1>4, <1>5, <1>6, <1>7

LEMMA GetNoneStep == ASSUME IInv, NEW c \in Client, GetNone(c) PROVE IInv'
<1> USE DEF IInv, GetNone
<1>1. TypeOK'
  BY DEF TypeOK
<1>2. /\ disk' = disk /\ view' = view /\ dialect' = dialect /\ used' = used
      /\ pc' = pc /\ event' = event /\ tx' = tx
      /\ \A d \in Client : d # c => copy'[d] = copy[d]
      /\ copy'[c] = NoCopy /\ pc[c] = "idle"
  BY DEF TypeOK
<1>3. ViewIsDisk' /\ NoRowNoEvents' /\ RowsHeld' /\ RowsExclusive'
  BY <1>2 DEF ViewIsDisk, NoRowNoEvents, RowsHeld, RowsExclusive, Opened
<1>4. WritersFresh' /\ AppHeld' /\ AppExclusive' /\ Quiet'
  BY <1>2 DEF WritersFresh, AppHeld, AppExclusive, Quiet, Writes, Working
<1>5. StampsUsed' /\ EventsNew'
  BY <1>2 DEF StampsUsed, EventsNew
<1>6. FreshCopiesAreComplete'
  BY <1>2 DEF FreshCopiesAreComplete
<1> QED BY <1>1, <1>3, <1>4, <1>5, <1>6

LEMMA GetEventsStep == ASSUME IInv, NEW c \in Client, GetEvents(c) PROVE IInv'
<1> USE DEF IInv, GetEvents, Goto
<1>0. disk.events[SessionOf[c]] \in SUBSET Stamp /\ 0 \in Stamp
  <2>1. disk.events[SessionOf[c]] \in SUBSET Stamp
    BY SessionOfAssumption DEF TypeOK, Databases
  <2> QED BY <2>1, MaxStampAssumption DEF Stamp
<1>1. TypeOK'
  <2>1. copy' \in [Client -> Copies \cup {NoCopy}]
    BY <1>0 DEF TypeOK, Copies, ViewIsDisk
  <2> QED BY <1>0, <2>1 DEF TypeOK, Working, NoTx
<1>2. /\ disk' = disk /\ view' = view /\ dialect' = dialect /\ used' = used
      /\ event' = event
      /\ \A d \in Client : d # c => pc'[d] = pc[d] /\ tx'[d] = tx[d] /\ copy'[d] = copy[d]
      /\ pc[c] = "loading" /\ pc'[c] = "idle" /\ tx'[c].marker = 0
      /\ copy'[c].marker = tx[c].marker /\ copy'[c].events = disk.events[SessionOf[c]]
  BY DEF TypeOK, NoTx, ViewIsDisk
<1>3. ViewIsDisk' /\ NoRowNoEvents' /\ RowsHeld' /\ RowsExclusive'
  BY <1>2 DEF ViewIsDisk, NoRowNoEvents, RowsHeld, RowsExclusive, Opened
<1>4. WritersFresh' /\ AppHeld' /\ AppExclusive' /\ Quiet'
  BY <1>2 DEF WritersFresh, AppHeld, AppExclusive, Quiet, Writes, Working
<1>5. StampsUsed' /\ EventsNew'
  BY <1>2 DEF StampsUsed, EventsNew, Working
<1>6. FreshCopiesAreComplete'
  BY <1>2 DEF FreshCopiesAreComplete
<1> QED BY <1>1, <1>3, <1>4, <1>5, <1>6

LEMMA CreateStep == ASSUME IInv, NEW c \in Client, Create(c) PROVE IInv'
<1> DEFINE s == SessionOf[c]
<1> USE DEF IInv
<1>0. PICK now \in Stamp \ used :
        /\ used' = used \cup {now}
        /\ view' = [view EXCEPT !.marker[s] = now]
        /\ copy' = [copy EXCEPT ![c] = [marker |-> now, events |-> {}]]
  BY DEF Create
<1>1. s \in Session /\ disk' = [disk EXCEPT !.marker[s] = now] /\ disk \in Databases
      /\ [marker |-> now, events |-> {}] \in Copies
  BY <1>0, SessionOfAssumption DEF Create, ViewIsDisk, TypeOK, Copies
<1>2. /\ view' = disk' /\ dialect' = dialect
      /\ pc' = pc /\ event' = event /\ tx' = tx
      /\ \A d \in Client : d # c => copy'[d] = copy[d]
      /\ copy'[c].marker = now /\ copy'[c].events = {}
      /\ pc[c] = "idle" /\ disk.marker[s] = 0
      /\ disk'.marker = [disk.marker EXCEPT ![s] = now]
      /\ disk'.events = disk.events /\ disk'.app = disk.app
  BY <1>0, <1>1 DEF Create, TypeOK, Databases, ViewIsDisk
<1>3. TypeOK'
  <2>1. disk' \in Databases
    BY <1>0, <1>1 DEF Databases
  <2> QED BY <1>0, <1>1, <1>2, <2>1 DEF TypeOK
<1>4. \A r \in Session : disk'.marker[r] = IF r = s THEN now ELSE disk.marker[r]
  BY <1>1, <1>2 DEF Databases
<1>5. \A d \in Client : Opened(d) => SessionOf[d] # s
  BY <1>2 DEF Create, RowFree, Opened, ViewIsDisk
<1>6. ViewIsDisk' /\ NoRowNoEvents'
  BY <1>0, <1>2, <1>4 DEF ViewIsDisk, NoRowNoEvents, StampsUsed
<1>7. RowsHeld' /\ RowsExclusive'
  BY <1>2, <1>4, <1>5, SessionOfAssumption DEF RowsHeld, RowsExclusive, Opened
<1>8. WritersFresh' /\ AppHeld' /\ AppExclusive' /\ Quiet'
  BY <1>2 DEF WritersFresh, AppHeld, AppExclusive, Quiet, Writes, Working
<1>9. StampsUsed' /\ EventsNew'
  BY <1>0, <1>2, <1>4 DEF StampsUsed, EventsNew, Working
<1>10. FreshCopiesAreComplete'
  <2> SUFFICES ASSUME NEW d \in Client, pc[d] # "loading", copy'[d] # NoCopy,
                      disk'.marker[SessionOf[d]] # 0,
                      copy'[d].marker = disk'.marker[SessionOf[d]]
               PROVE  copy'[d].events = disk'.events[SessionOf[d]]
    BY <1>2 DEF FreshCopiesAreComplete
  <2>1. SessionOf[d] \in Session
    BY SessionOfAssumption
  <2>2. CASE d = c
    BY <1>1, <1>2, <2>2 DEF NoRowNoEvents
  <2>3. CASE d # c
    <3>1. copy[d] # NoCopy /\ copy[d].marker \in used /\ copy'[d] = copy[d]
      BY <1>2, <2>3 DEF StampsUsed
    <3>2. SessionOf[d] # s
      BY <1>0, <1>4, <2>1, <3>1
    <3> QED BY <1>2, <1>4, <2>1, <3>1, <3>2 DEF FreshCopiesAreComplete
  <2> QED BY <2>2, <2>3
<1> QED BY <1>3, <1>6, <1>7, <1>8, <1>9, <1>10

LEMMA DeleteStep == ASSUME IInv, NEW c \in Client, Delete(c) PROVE IInv'
<1> DEFINE s == SessionOf[c]
<1> USE DEF IInv
<1>1. s \in Session /\ disk' = [disk EXCEPT !.marker[s] = 0, !.events[s] = {}]
      /\ disk \in Databases /\ 0 \in Stamp
  BY SessionOfAssumption, MaxStampAssumption DEF Delete, ViewIsDisk, TypeOK, Stamp
<1>2. /\ view' = disk' /\ dialect' = dialect /\ used' = used
      /\ pc' = pc /\ event' = event /\ tx' = tx /\ copy' = copy
      /\ disk'.marker = [disk.marker EXCEPT ![s] = 0]
      /\ disk'.events = [disk.events EXCEPT ![s] = {}] /\ disk'.app = disk.app
  BY <1>1 DEF Delete, Databases
<1>3. TypeOK'
  <2>1. disk' \in Databases
    BY <1>1 DEF Databases
  <2> QED BY <1>1, <1>2, <2>1 DEF TypeOK
<1>4. \A r \in Session : /\ disk'.marker[r] = IF r = s THEN 0 ELSE disk.marker[r]
                         /\ disk'.events[r] = IF r = s THEN {} ELSE disk.events[r]
  BY <1>1, <1>2 DEF Databases
<1>5. \A d \in Client : Opened(d) => SessionOf[d] # s \/ d = c
  BY <1>2 DEF Delete, RowFree, ViewIsDisk
<1>6. ~Opened(c)
  BY DEF Delete, Opened
<1>7. ViewIsDisk' /\ NoRowNoEvents'
  BY <1>2, <1>4 DEF ViewIsDisk, NoRowNoEvents
<1>8. RowsHeld' /\ RowsExclusive'
  BY <1>2, <1>4, <1>5, <1>6, SessionOfAssumption DEF RowsHeld, RowsExclusive, Opened
<1>9. WritersFresh' /\ AppHeld' /\ AppExclusive' /\ Quiet'
  BY <1>2 DEF WritersFresh, AppHeld, AppExclusive, Quiet, Writes, Working
<1>10. StampsUsed' /\ EventsNew'
  BY <1>2, <1>4 DEF StampsUsed, EventsNew
<1>11. FreshCopiesAreComplete'
  BY <1>2, <1>4, SessionOfAssumption DEF FreshCopiesAreComplete
<1> QED BY <1>3, <1>7, <1>8, <1>9, <1>10, <1>11

LEMMA CallStep == ASSUME IInv, NEW c \in Client, Call(c) PROVE IInv'
<1> USE DEF IInv
<1>0. PICK now \in Stamp \ used, delta \in BOOLEAN :
        /\ used' = used \cup {now}
        /\ event' = [event EXCEPT ![c] = [stamp |-> now, delta |-> delta]]
  BY DEF Call
<1>1. /\ disk' = disk /\ view' = view /\ dialect' = dialect
      /\ copy' = copy /\ tx' = tx
      /\ \A d \in Client : d # c => pc'[d] = pc[d] /\ event'[d] = event[d]
      /\ pc[c] = "idle" /\ pc'[c] = "called" /\ copy[c] # NoCopy
      /\ event'[c].stamp = now
  BY <1>0 DEF Call, Goto, TypeOK
<1>2. TypeOK'
  BY <1>0, <1>1 DEF Call, Goto, TypeOK, Working
<1>3. ViewIsDisk' /\ NoRowNoEvents' /\ RowsHeld' /\ RowsExclusive'
  BY <1>1 DEF ViewIsDisk, NoRowNoEvents, RowsHeld, RowsExclusive, Opened
<1>4. WritersFresh' /\ AppHeld' /\ AppExclusive' /\ Quiet'
  BY <1>1 DEF WritersFresh, AppHeld, AppExclusive, Quiet, Writes, Working
<1>5. StampsUsed'
  BY <1>0, <1>1 DEF StampsUsed
<1>6. EventsNew'
  BY <1>0, <1>1 DEF StampsUsed, EventsNew, Working
<1>7. FreshCopiesAreComplete'
  BY <1>1 DEF FreshCopiesAreComplete
<1> QED BY <1>2, <1>3, <1>4, <1>5, <1>6, <1>7

LEMMA LockStep == ASSUME IInv, NEW c \in Client, Lock(c) PROVE IInv'
<1> USE DEF IInv
<1>1. /\ disk' = disk /\ view' = view /\ dialect' = dialect /\ used' = used
      /\ copy' = copy /\ tx' = tx /\ event' = event
      /\ \A d \in Client : d # c => pc'[d] = pc[d]
      /\ pc[c] = "called" /\ pc'[c] = "locked"
  BY DEF Lock, Goto, TypeOK
<1>2. TypeOK'
  BY <1>1 DEF Lock, Goto, TypeOK, Working
<1>3. ViewIsDisk' /\ NoRowNoEvents' /\ RowsHeld' /\ RowsExclusive'
  BY <1>1 DEF ViewIsDisk, NoRowNoEvents, RowsHeld, RowsExclusive, Opened
<1>4. WritersFresh' /\ AppHeld' /\ AppExclusive' /\ Quiet'
  BY <1>1 DEF WritersFresh, AppHeld, AppExclusive, Quiet, Writes, Working
<1>5. StampsUsed' /\ EventsNew'
  BY <1>1 DEF StampsUsed, EventsNew, Working
<1>6. FreshCopiesAreComplete'
  BY <1>1 DEF FreshCopiesAreComplete
<1> QED BY <1>2, <1>3, <1>4, <1>5, <1>6

LEMMA ReadRowStep == ASSUME IInv, NEW c \in Client, ReadRow(c) PROVE IInv'
<1> USE DEF IInv
<1>0. SessionOf[c] \in Session /\ disk.marker[SessionOf[c]] \in Stamp
  BY SessionOfAssumption DEF TypeOK, Databases
<1>1. /\ disk' = disk /\ view' = view /\ dialect' = dialect /\ used' = used
      /\ copy' = copy /\ event' = event
      /\ \A d \in Client : d # c => pc'[d] = pc[d] /\ tx'[d] = tx[d]
      /\ pc[c] = "locked" /\ pc'[c] = "read"
      /\ tx'[c].marker = disk.marker[SessionOf[c]]
  BY DEF ReadRow, Goto, TypeOK, ViewIsDisk
<1>2. TypeOK'
  BY <1>0 DEF ReadRow, Goto, TypeOK, Working, ViewIsDisk
<1>3. \A d \in Client \ {c} : Opened(d) => dialect = "rows" /\ SessionOf[d] # SessionOf[c]
  BY DEF ReadRow, RowFree, ViewIsDisk
<1>4. ViewIsDisk' /\ NoRowNoEvents' /\ RowsHeld' /\ RowsExclusive'
  BY <1>1, <1>3 DEF ViewIsDisk, NoRowNoEvents, RowsHeld, RowsExclusive, Opened
<1>5. WritersFresh' /\ AppHeld' /\ AppExclusive' /\ Quiet'
  BY <1>1 DEF WritersFresh, AppHeld, AppExclusive, Quiet, Writes, Working
<1>6. StampsUsed' /\ EventsNew'
  BY <1>0, <1>1 DEF StampsUsed, EventsNew, Working
<1>7. FreshCopiesAreComplete'
  BY <1>1 DEF FreshCopiesAreComplete
<1> QED BY <1>2, <1>4, <1>5, <1>6, <1>7

LEMMA CheckStep == ASSUME IInv, NEW c \in Client, Check(c) PROVE IInv'
<1> USE DEF IInv
<1>0. disk.app \in SUBSET Stamp
  BY DEF TypeOK, Databases
<1>1. /\ disk' = disk /\ view' = view /\ dialect' = dialect /\ used' = used
      /\ copy' = copy /\ event' = event
      /\ \A d \in Client : d # c => pc'[d] = pc[d] /\ tx'[d] = tx[d]
      /\ pc[c] = "read" /\ pc'[c] = "checked"
      /\ tx'[c].marker = tx[c].marker /\ tx'[c].app = disk.app
      /\ tx[c].marker # 0 /\ copy[c].marker = tx[c].marker
  BY DEF Check, UpToDate, Goto, TypeOK, ViewIsDisk
<1>2. TypeOK'
  BY <1>0 DEF Check, Goto, TypeOK, Working, ViewIsDisk
<1>3. \A d \in Client \ {c} : event[c].delta /\ event[d].delta => ~Writes(d)
  <2> SUFFICES ASSUME NEW d \in Client \ {c}, event[c].delta, event[d].delta, Writes(d)
               PROVE FALSE
    OBVIOUS
  <2>1. Opened(c) /\ Opened(d)
    BY <1>1 DEF Opened, Writes
  <2>2. dialect = "rows"
    BY <2>1 DEF RowsExclusive
  <2> QED BY <2>2 DEF Check, AppFree, Writes
<1>4. ViewIsDisk' /\ NoRowNoEvents' /\ RowsHeld' /\ RowsExclusive'
  BY <1>1 DEF ViewIsDisk, NoRowNoEvents, RowsHeld, RowsExclusive, Opened
<1>5. WritersFresh' /\ AppHeld' /\ Quiet'
  BY <1>1 DEF WritersFresh, AppHeld, Quiet, Writes, Working
<1>6. AppExclusive'
  BY <1>1, <1>3 DEF AppExclusive, Writes
<1>7. StampsUsed' /\ EventsNew'
  BY <1>1 DEF StampsUsed, EventsNew, Working
<1>8. FreshCopiesAreComplete'
  BY <1>1 DEF FreshCopiesAreComplete
<1> QED BY <1>2, <1>4, <1>5, <1>6, <1>7, <1>8

LEMMA FlushStep == ASSUME IInv, NEW c \in Client, Flush(c) PROVE IInv'
<1> USE DEF IInv
<1>1. /\ disk' = disk /\ view' = view /\ dialect' = dialect /\ used' = used
      /\ copy' = copy /\ tx' = tx /\ event' = event
      /\ \A d \in Client : d # c => pc'[d] = pc[d]
      /\ pc[c] = "checked" /\ pc'[c] = "flushed"
  BY DEF Flush, Goto, TypeOK, ViewIsDisk
<1>2. TypeOK'
  BY <1>1 DEF Flush, Goto, TypeOK, Working
<1>3. ViewIsDisk' /\ NoRowNoEvents' /\ RowsHeld' /\ RowsExclusive'
  BY <1>1 DEF ViewIsDisk, NoRowNoEvents, RowsHeld, RowsExclusive, Opened
<1>4. WritersFresh' /\ AppHeld' /\ AppExclusive' /\ Quiet'
  BY <1>1 DEF WritersFresh, AppHeld, AppExclusive, Quiet, Writes, Working
<1>5. StampsUsed' /\ EventsNew'
  BY <1>1 DEF StampsUsed, EventsNew, Working
<1>6. FreshCopiesAreComplete'
  BY <1>1 DEF FreshCopiesAreComplete
<1> QED BY <1>2, <1>3, <1>4, <1>5, <1>6

(* What a commit writes, field by field.                                   *)
LEMMA WrittenRows ==
  ASSUME IInv, NEW c \in Client, pc[c] = "flushed", Committed(c), used' = used
  PROVE  /\ view' = disk' /\ disk' \in Databases /\ SessionOf[c] \in Session
         /\ \A r \in Session :
              /\ disk'.marker[r] = IF r = SessionOf[c] THEN event[c].stamp
                                   ELSE disk.marker[r]
              /\ disk'.events[r] = IF r = SessionOf[c]
                                   THEN disk.events[r] \cup {event[c].stamp}
                                   ELSE disk.events[r]
         /\ disk'.app = IF event[c].delta THEN disk.app \cup {event[c].stamp}
                        ELSE disk.app
<1> DEFINE s == SessionOf[c]
<1> USE DEF IInv
<1>1. s \in Session /\ disk \in Databases /\ event[c].stamp \in Stamp
  BY SessionOfAssumption DEF TypeOK
<1>2. disk' = Written(disk, c) /\ view' = disk'
  BY DEF Committed, ViewIsDisk
<1>3. event[c].delta => tx[c].app = disk.app
  BY DEF AppHeld, Writes
<1>4. /\ disk'.marker = [disk.marker EXCEPT ![s] = event[c].stamp]
      /\ disk'.events = [disk.events EXCEPT ![s] = @ \cup {event[c].stamp}]
      /\ disk'.app = IF event[c].delta THEN disk.app \cup {event[c].stamp} ELSE disk.app
  BY <1>1, <1>2, <1>3 DEF Written, Databases
<1>5. \A r \in Session :
        /\ disk'.marker[r] = IF r = s THEN event[c].stamp ELSE disk.marker[r]
        /\ disk'.events[r] = IF r = s THEN disk.events[r] \cup {event[c].stamp}
                             ELSE disk.events[r]
  BY <1>1, <1>4 DEF Databases
<1>6. disk' \in Databases
  <2>1. /\ disk'.marker \in [Session -> Stamp] /\ disk'.events \in [Session -> SUBSET Stamp]
        /\ disk'.app \in SUBSET Stamp
    BY <1>1, <1>4 DEF Databases
  <2> HIDE DEF s
  <2>2. disk' = [marker |-> disk'.marker, events |-> disk'.events, app |-> disk'.app]
    BY <1>1, <1>2 DEF Written, Databases
  <2> QED BY <2>1, <2>2 DEF Databases
<1> QED BY <1>1, <1>2, <1>4, <1>5, <1>6

(* The two commits differ in what they leave in the caller's copy.         *)
LEMMA CommittedStep ==
  ASSUME IInv, NEW c \in Client, pc[c] = "flushed", Committed(c), Finish(c),
         TypeOK', \A d \in Client : d # c => copy'[d] = copy[d],
         \/ copy'[c] = copy[c]
         \/ /\ copy'[c].marker = event[c].stamp
            /\ copy'[c].events = copy[c].events \cup {event[c].stamp}
  PROVE  IInv'
<1> DEFINE s == SessionOf[c]
           e == event[c].stamp
<1> USE DEF IInv
<1>1. /\ dialect' = dialect /\ used' = used
      /\ \A d \in Client : d # c => pc'[d] = pc[d] /\ tx'[d] = tx[d] /\ event'[d] = event[d]
      /\ pc'[c] = "idle" /\ tx'[c] = NoTx /\ event'[c] = NoEvent
  BY DEF Finish, Goto, TypeOK
<1>2. /\ view' = disk' /\ s \in Session
      /\ \A r \in Session :
           /\ disk'.marker[r] = IF r = s THEN e ELSE disk.marker[r]
           /\ disk'.events[r] = IF r = s THEN disk.events[r] \cup {e} ELSE disk.events[r]
      /\ disk'.app = IF event[c].delta THEN disk.app \cup {e} ELSE disk.app
  BY <1>1, WrittenRows
<1>3. /\ e \in used /\ e # 0
      /\ \A r \in Session : disk.marker[r] # e
      /\ \A d \in Client : (copy[d] # NoCopy => copy[d].marker # e) /\ tx[d].marker # e
      /\ \A d \in Client : d # c => event[d].stamp # e
  BY DEF EventsNew, StampsUsed, Working
<1>4. Opened(c) /\ Writes(c)
  BY DEF Opened, Writes
<1>5. \A d \in Client : d # c /\ Opened(d) => SessionOf[d] # s
  BY <1>4 DEF RowsExclusive
<1>6. \A d \in Client : d # c /\ Writes(d) => ~(event[c].delta /\ event[d].delta)
  BY <1>4 DEF AppExclusive
<1>7. ViewIsDisk' /\ NoRowNoEvents'
  <2>1. ViewIsDisk'
    BY <1>1, <1>2 DEF ViewIsDisk
  <2>2. ASSUME NEW r \in Session, disk'.marker[r] = 0
        PROVE  disk'.events[r] = {}
    <3>1. r # s
      BY <1>2, <1>3, <2>2
    <3>2. disk'.marker[r] = disk.marker[r] /\ disk'.events[r] = disk.events[r]
      BY <1>2, <3>1
    <3> QED BY <2>2, <3>2 DEF NoRowNoEvents
  <2> QED BY <2>1, <2>2 DEF NoRowNoEvents
<1>8. RowsHeld' /\ RowsExclusive'
  <2>1. \A d \in Client : SessionOf[d] \in Session
    BY SessionOfAssumption
  <2>2. \A d \in Client : pc'[d] \in {"read", "checked", "flushed"} => d # c /\ Opened(d)
    BY <1>1 DEF Opened
  <2>3. RowsHeld'
    <3> SUFFICES ASSUME NEW d \in Client, pc'[d] \in {"read", "checked", "flushed"}
                 PROVE  tx'[d].marker = disk'.marker[SessionOf[d]]
      BY DEF RowsHeld, Opened
    <3>1. d # c /\ Opened(d) /\ SessionOf[d] # s
      BY <1>5, <2>2
    <3>2. tx'[d] = tx[d] /\ tx[d].marker = disk.marker[SessionOf[d]]
      BY <1>1, <3>1 DEF RowsHeld
    <3>3. disk'.marker[SessionOf[d]] = disk.marker[SessionOf[d]]
      BY <1>2, <2>1, <3>1
    <3> QED BY <3>2, <3>3
  <2>4. RowsExclusive'
    BY <1>1, <2>2 DEF RowsExclusive, Opened
  <2> QED BY <2>3, <2>4
<1>9. WritersFresh' /\ AppHeld' /\ AppExclusive' /\ Quiet'
  BY <1>1, <1>2, <1>6 DEF WritersFresh, AppHeld, AppExclusive, Quiet, Writes, Working
<1>10. StampsUsed'
  <2>1. tx'[c].marker = 0 /\ event'[c].stamp = 0
    BY <1>1 DEF NoTx, NoEvent
  <2>2. \A r \in Session : disk'.marker[r] \in used
    BY <1>2, <1>3 DEF StampsUsed
  <2>3. \A d \in Client : /\ copy'[d] # NoCopy => copy'[d].marker \in used
                          /\ tx'[d].marker \in used /\ event'[d].stamp \in used
    BY <1>1, <1>3, <2>1 DEF StampsUsed
  <2> QED BY <1>1, <2>2, <2>3 DEF StampsUsed
<1>11. EventsNew'
  <2> SUFFICES ASSUME NEW d \in Client, pc'[d] \in Working
               PROVE  /\ event'[d].stamp # 0
                      /\ \A r \in Session : disk'.marker[r] # event'[d].stamp
                      /\ \A f \in Client :
                           /\ copy'[f] # NoCopy => copy'[f].marker # event'[d].stamp
                           /\ tx'[f].marker # event'[d].stamp
                           /\ f # d => event'[f].stamp # event'[d].stamp
    BY DEF EventsNew, Working
  <2>1. d # c /\ pc[d] \in Working /\ event'[d] = event[d] /\ event[d].stamp # e
    BY <1>1, <1>3 DEF Working
  <2>2. event[d].stamp # 0 /\ \A r \in Session : disk'.marker[r] # event[d].stamp
    <3>1. event[d].stamp # 0 /\ \A r \in Session : disk.marker[r] # event[d].stamp
      BY <2>1 DEF EventsNew
    <3> HIDE DEF IInv
    <3> QED BY <1>2, <2>1, <3>1
  <2>3. tx'[c].marker = 0 /\ event'[c].stamp = 0
    BY <1>1 DEF NoTx, NoEvent
  <2>4. \A f \in Client : copy'[f] # NoCopy => copy'[f].marker # event[d].stamp
    BY <2>1 DEF EventsNew
  <2>5. \A f \in Client : /\ tx'[f].marker # event[d].stamp
                          /\ f # d => event'[f].stamp # event[d].stamp
    BY <1>1, <2>1, <2>2, <2>3 DEF EventsNew
  <2> QED BY <2>1, <2>2, <2>4, <2>5
<1>12. FreshCopiesAreComplete'
  <2> SUFFICES ASSUME NEW d \in Client, pc'[d] # "loading", copy'[d] # NoCopy,
                      disk'.marker[SessionOf[d]] # 0,
                      copy'[d].marker = disk'.marker[SessionOf[d]]
               PROVE  copy'[d].events = disk'.events[SessionOf[d]]
    BY DEF FreshCopiesAreComplete
  <2>1. SessionOf[d] \in Session
    BY SessionOfAssumption
  <2>2. CASE d = c
    <3>1. copy'[c] # copy[c]
      BY <1>2, <1>3, <2>2
    <3>2. copy[c].events = disk.events[s]
      <4>1. /\ copy[c] # NoCopy /\ tx[c].marker # 0 /\ pc[c] # "loading"
            /\ copy[c].marker = tx[c].marker /\ tx[c].marker = disk.marker[s]
        BY <1>4 DEF WritersFresh, RowsHeld, Working
      <4> QED BY <4>1 DEF FreshCopiesAreComplete
    <3> QED BY <1>2, <2>2, <3>1, <3>2
  <2>3. CASE d # c
    <3>1. copy'[d] = copy[d] /\ pc'[d] = pc[d]
      BY <1>1, <2>3
    <3>2. SessionOf[d] # s
      BY <1>2, <1>3, <2>1, <3>1
    <3> QED BY <1>2, <2>1, <3>1, <3>2 DEF FreshCopiesAreComplete
  <2> QED BY <2>2, <2>3
<1> QED BY <1>7, <1>8, <1>9, <1>10, <1>11, <1>12

LEMMA CommitStep == ASSUME IInv, NEW c \in Client, Commit(c) PROVE IInv'
<1> USE DEF IInv
<1>1. used' = used /\ pc[c] = "flushed" /\ Committed(c) /\ Finish(c)
  BY DEF Commit, Finish
<1>2. view' = disk' /\ disk' \in Databases
  BY <1>1, WrittenRows
<1>3. copy[c] \in Copies /\ event[c].stamp \in Stamp
  BY <1>1 DEF TypeOK, WritersFresh, Working
<1>4. /\ copy'[c].marker = event[c].stamp
      /\ copy'[c].events = copy[c].events \cup {event[c].stamp}
      /\ \A d \in Client : d # c => copy'[d] = copy[d]
  BY DEF Commit, TypeOK
<1>5. copy' \in [Client -> Copies \cup {NoCopy}]
  BY <1>3 DEF Commit, TypeOK, Copies
<1>6. 0 \in Stamp
  BY MaxStampAssumption DEF Stamp
<1>7. TypeOK'
  BY <1>1, <1>2, <1>5, <1>6 DEF TypeOK, Finish, Goto, NoEvent, NoTx
<1> QED BY <1>1, <1>4, <1>7, CommittedStep

LEMMA CommitUnheardStep == ASSUME IInv, NEW c \in Client, CommitUnheard(c) PROVE IInv'
<1> USE DEF IInv
<1>1. used' = used /\ pc[c] = "flushed" /\ Committed(c) /\ Finish(c) /\ copy' = copy
  BY DEF CommitUnheard, Finish
<1>2. view' = disk' /\ disk' \in Databases
  BY <1>1, WrittenRows
<1>3. 0 \in Stamp
  BY MaxStampAssumption DEF Stamp
<1>4. TypeOK'
  BY <1>1, <1>2, <1>3 DEF TypeOK, Finish, Goto, NoEvent, NoTx
<1> QED BY <1>1, <1>4, CommittedStep

LEMMA FailStep == ASSUME IInv, NEW c \in Client, Fail(c) PROVE IInv'
<1> USE DEF IInv
<1>0. 0 \in Stamp
  BY MaxStampAssumption DEF Stamp
<1>1. /\ disk' = disk /\ view' = disk /\ dialect' = dialect /\ used' = used
      /\ copy' = copy
      /\ \A d \in Client : d # c => pc'[d] = pc[d] /\ tx'[d] = tx[d] /\ event'[d] = event[d]
      /\ pc[c] \in Working /\ pc'[c] = "idle" /\ tx'[c] = NoTx /\ event'[c] = NoEvent
  BY DEF Fail, Finish, Goto, TypeOK, ViewIsDisk
<1>2. TypeOK'
  BY <1>0, <1>1 DEF Fail, Finish, Goto, TypeOK, NoEvent, NoTx
<1>3. ViewIsDisk' /\ NoRowNoEvents' /\ RowsHeld' /\ RowsExclusive'
  BY <1>1 DEF ViewIsDisk, NoRowNoEvents, RowsHeld, RowsExclusive, Opened
<1>4. WritersFresh' /\ AppHeld' /\ AppExclusive' /\ Quiet'
  BY <1>1 DEF WritersFresh, AppHeld, AppExclusive, Quiet, Writes, Working
<1>5. StampsUsed' /\ EventsNew'
  BY <1>1 DEF StampsUsed, EventsNew, Working, NoTx, NoEvent
<1>6. FreshCopiesAreComplete'
  BY <1>1 DEF FreshCopiesAreComplete, Working
<1> QED BY <1>2, <1>3, <1>4, <1>5, <1>6

LEMMA IInvStep == IInv /\ [Next]_vars => IInv'
<1> SUFFICES ASSUME IInv, [Next]_vars PROVE IInv'
  OBVIOUS
<1>1. CASE UNCHANGED vars
  BY <1>1 DEF vars, IInv, TypeOK, ViewIsDisk, NoRowNoEvents, RowsHeld, RowsExclusive,
     WritersFresh, AppHeld, AppExclusive, StampsUsed, EventsNew, Quiet,
     FreshCopiesAreComplete, Opened, Writes
<1>2. ASSUME NEW c \in Client,
             \/ Load(c) \/ Create(c) \/ Delete(c)
             \/ Call(c) \/ Lock(c) \/ ReadRow(c) \/ Check(c)
             \/ Flush(c) \/ Commit(c) \/ CommitUnheard(c) \/ Fail(c)
      PROVE  IInv'
  BY <1>2, GetRowStep, GetNoneStep, GetEventsStep, CreateStep, DeleteStep, CallStep,
     LockStep, ReadRowStep, CheckStep, FlushStep, CommitStep, CommitUnheardStep,
     FailStep DEF Load
<1> QED BY <1>1, <1>2 DEF Next

-----------------------------------------------------------------------------
(* The inductive invariant: an open append keeps its rows as it read them, *)
(* and the stamp of an event on its way is nowhere yet.                    *)
THEOREM InductiveInvariant == ASSUME Isolated PROVE Spec => []IInv
<1>1. Init => IInv
  BY InitIInv
<1>2. IInv /\ [Next]_vars => IInv'
  BY IInvStep
<1> QED BY <1>1, <1>2, PTL DEF Spec

(* Types of the session store (SessionStore's variables).                  *)
THEOREM TypeCorrect == ASSUME Isolated PROVE Spec => []TypeOK
<1>1. IInv => TypeOK
  BY DEF IInv
<1> QED BY <1>1, InductiveInvariant, PTL

(* A loaded copy whose marker is the stored one has the stored events:     *)
(* get_session's two reads and append_event's update of the caller's copy. *)
THEOREM FreshCopies == ASSUME Isolated PROVE Spec => []FreshCopiesAreComplete
<1>1. IInv => FreshCopiesAreComplete
  BY DEF IInv
<1> QED BY <1>1, InductiveInvariant, PTL

-----------------------------------------------------------------------------
(* What a step does to storage: only a commit adds events or app keys.     *)
LEMMA OnlyCommitsAdd ==
  ASSUME IInv, NEW c \in Client, Next,
         ~\E d \in Client : pc[d] = "flushed" /\ Committed(d) /\ Finish(d)
  PROVE  disk'.app = disk.app /\ \A s \in Session : disk'.events[s] \subseteq disk.events[s]
<1> USE DEF IInv
<1>1. PICK d \in Client :
        \/ Load(d) \/ Create(d) \/ Delete(d)
        \/ Call(d) \/ Lock(d) \/ ReadRow(d) \/ Check(d)
        \/ Flush(d) \/ Commit(d) \/ CommitUnheard(d) \/ Fail(d)
  BY DEF Next
<1>2. disk \in Databases /\ view = disk
  BY DEF TypeOK, ViewIsDisk
<1>3. CASE Create(d)
  <2>1. disk'.app = disk.app /\ disk'.events = disk.events
    BY <1>2, <1>3 DEF Create, Databases
  <2> QED BY <2>1
<1>4. CASE Delete(d)
  <2>1. /\ disk'.app = disk.app
        /\ disk'.events = [disk.events EXCEPT ![SessionOf[d]] = {}]
    BY <1>2, <1>4 DEF Delete, Databases
  <2> QED BY <1>2, <2>1 DEF Databases
<1>5. CASE Load(d) \/ Call(d) \/ Lock(d) \/ ReadRow(d) \/ Check(d) \/ Flush(d) \/ Fail(d)
  BY <1>5 DEF Load, GetRow, GetNone, GetEvents, Call, Lock, ReadRow, Check, Flush, Fail
<1>6. CASE Commit(d) \/ CommitUnheard(d)
  BY <1>6 DEF Commit, CommitUnheard
<1> QED BY <1>1, <1>3, <1>4, <1>5, <1>6

(* An event enters storage only on top of the events its writer's copy     *)
(* has: the marker check of append_event, over what the row lock covers.   *)
THEOREM NoBlindAppendHolds == ASSUME Isolated PROVE Spec => NoBlindAppend
<1> DEFINE Sees == \A c \in Client :
                     LET s == SessionOf[c] IN
                     event[c].stamp \in disk'.events[s] \ disk.events[s]
                       => copy[c].events = disk.events[s]
<1>1. IInv /\ [Next]_vars => [Sees]_vars
  <2> SUFFICES ASSUME IInv, Next, NEW c \in Client,
                      event[c].stamp \in disk'.events[SessionOf[c]] \ disk.events[SessionOf[c]]
               PROVE  copy[c].events = disk.events[SessionOf[c]]
    OBVIOUS
  <2>1. SessionOf[c] \in Session
    BY SessionOfAssumption
  <2>2. PICK d \in Client : pc[d] = "flushed" /\ Committed(d) /\ Finish(d)
    BY <2>1, OnlyCommitsAdd
  <2>3. event[c].stamp = event[d].stamp
    <3>1. used' = used
      BY <2>2 DEF Finish
    <3>2. disk'.events[SessionOf[c]] \subseteq disk.events[SessionOf[c]] \cup {event[d].stamp}
      BY <2>1, <2>2, <3>1, WrittenRows
    <3> QED BY <3>2
  <2>4. event[d].stamp # 0
    BY <2>2 DEF IInv, EventsNew, StampsUsed, Working
  <2>5. c = d
    BY <2>2, <2>3 DEF IInv, EventsNew, Working
  <2>6. /\ copy[c] # NoCopy /\ tx[c].marker # 0 /\ pc[c] # "loading"
        /\ copy[c].marker = tx[c].marker /\ tx[c].marker = disk.marker[SessionOf[c]]
    BY <2>2, <2>5 DEF IInv, WritersFresh, RowsHeld, Opened, Writes, Working
  <2> QED BY <2>6 DEF IInv, FreshCopiesAreComplete
<1> QED BY <1>1, InductiveInvariant, PTL DEF Spec, NoBlindAppend

(* Commits keep the app's state: append_event merges into the row it has   *)
(* locked, not into one that another append is about to replace.           *)
THEOREM NoDeltaLostHolds == ASSUME Isolated PROVE Spec => NoDeltaLost
<1>1. IInv /\ [Next]_vars => [disk.app \subseteq disk'.app]_vars
  <2> SUFFICES ASSUME IInv, Next PROVE disk.app \subseteq disk'.app
    OBVIOUS
  <2>1. PICK c \in Client : TRUE
    BY DEF Next
  <2>2. CASE \E d \in Client : pc[d] = "flushed" /\ Committed(d) /\ Finish(d)
    BY <2>2, WrittenRows DEF Finish
  <2>3. CASE ~\E d \in Client : pc[d] = "flushed" /\ Committed(d) /\ Finish(d)
    BY <2>1, <2>3, OnlyCommitsAdd
  <2> QED BY <2>2, <2>3
<1> QED BY <1>1, InductiveInvariant, PTL DEF Spec, NoDeltaLost

=============================================================================
