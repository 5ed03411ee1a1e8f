---------------------------- MODULE SessionStore ----------------------------
(***************************************************************************)
(* DatabaseSessionService over a shared database: clients load a session   *)
(* (get_session), and append to it (append_event) as long as the revision  *)
(* marker of their copy is the one in storage; sessions are deleted and    *)
(* created again under the same id; transactions fail, and a commit may be *)
(* done though its caller is told it failed.                               *)
(*                                                                         *)
(* A step ends where the code awaits the database or a lock.  Of the state *)
(* deltas only those of the app are modelled: the user's row is handled    *)
(* alike.  Left out: copies without a marker, reads that filter events,    *)
(* deltas in create_session, table creation.                               *)
(***************************************************************************)
EXTENDS Integers

CONSTANTS
  Client,      \* the tasks that load and append
  ProcessOf,   \* where each client runs
  Session,     \* session ids
  SessionOf,   \* the session each client works on
  Dialects,    \* how the database isolates transactions
  NoCopy,      \* what a client has before it has loaded
  MaxStamp     \* bound: stamps given to sessions and events

(* "rows": FOR UPDATE locks rows (PostgreSQL, MySQL, MariaDB).  "file":    *)
(* BEGIN IMMEDIATE lets one transaction write (a SQLite file).  "shared":  *)
(* all transactions go through one connection (SQLite :memory:).           *)
ASSUME DialectsAssumption == Dialects \subseteq {"rows", "file", "shared"}
ASSUME SessionOfAssumption == SessionOf \in [Client -> Session]
ASSUME MaxStampAssumption == MaxStamp \in Nat

(* Stamps stand for event timestamps and, as update_time, for the revision *)
(* markers: they come from several machines' clocks, so not in order, but  *)
(* no two events or creations have the same one.  0: no row.               *)
Stamp == 0..MaxStamp

VARIABLES
  dialect, \* db_engine.dialect, and its pool
  used,    \* the stamps given so far
  disk,    \* what is committed: marker and events of each session, app state
  view,    \* what a statement sees: with one connection, flushed rows too
  copy,    \* each client's Session object: its events and marker
  pc,      \* where each client is
  event,   \* the event it appends: its stamp, and whether it has a delta
  tx       \* what its transaction has read: a marker, the app state

vars == <<dialect, used, disk, view, copy, pc, event, tx>>

Databases == [marker : [Session -> Stamp], events : [Session -> SUBSET Stamp],
              app : SUBSET Stamp]
Copies == [marker : Stamp, events : SUBSET Stamp]
Working == {"called", "locked", "read", "checked", "flushed"}

TypeOK ==
  /\ dialect \in Dialects
  /\ used \subseteq Stamp
  /\ disk \in Databases /\ view \in Databases
  /\ copy \in [Client -> Copies \cup {NoCopy}]
  /\ pc \in [Client -> {"idle", "loading"} \cup Working]
  /\ event \in [Client -> [stamp : Stamp, delta : BOOLEAN]]
  /\ tx \in [Client -> [marker : Stamp, app : SUBSET Stamp]]

NoEvent == [stamp |-> 0, delta |-> FALSE]
NoTx == [marker |-> 0, app |-> {}]
Empty == [marker |-> [s \in Session |-> 0], events |-> [s \in Session |-> {}], app |-> {}]

Init ==
  /\ dialect \in Dialects
  /\ used = {0}
  /\ disk = Empty /\ view = Empty
  /\ copy = [c \in Client |-> NoCopy]
  /\ pc = [c \in Client |-> "idle"]
  /\ event = [c \in Client |-> NoEvent]
  /\ tx = [c \in Client |-> NoTx]

-----------------------------------------------------------------------------
(* Locks.                                                                  *)

(* The in-process locks of append_event, held from "locked" on: its        *)
(* session's, and the app's when the event has a delta.                    *)
SameProcess(c, d) == dialect = "shared" \/ ProcessOf[c] = ProcessOf[d]
Conflict(c, d) == SessionOf[c] = SessionOf[d] \/ (event[c].delta /\ event[d].delta)
LocksFree(c) ==
  \A d \in Client \ {c} :
    SameProcess(c, d) /\ Conflict(c, d) => pc[d] \notin Working \ {"called"}

(* A transaction that has read the session's row holds it; in a file it    *)
(* holds everything, from its first statement on.                          *)
Opened(c) == pc[c] \in {"read", "checked", "flushed"}
RowFree(c, s) ==
  \A d \in Client \ {c} : Opened(d) =>
    \/ dialect = "rows" /\ SessionOf[d] # s
    \/ dialect = "shared"

(* A mutant: the app's row is read without a lock.                         *)
AppReadFree(c) == TRUE

(* The app's row is locked by a transaction that will write to it.         *)
AppFree(c) ==
  dialect = "rows" /\ event[c].delta =>
    \A d \in Client \ {c} : ~(event[d].delta /\ pc[d] \in {"checked", "flushed"})

Goto(c, where) == pc' = [pc EXCEPT ![c] = where]

-----------------------------------------------------------------------------
(* get_session: the row first, then the events; None when there is no row. *)

GetRow(c) ==
  /\ pc[c] = "idle"
  /\ view.marker[SessionOf[c]] # 0
  /\ tx' = [tx EXCEPT ![c].marker = view.marker[SessionOf[c]]]
  /\ Goto(c, "loading")
  /\ UNCHANGED <<dialect, used, disk, view, copy, event>>

GetNone(c) ==
  /\ pc[c] = "idle"
  /\ view.marker[SessionOf[c]] = 0
  /\ copy' = [copy EXCEPT ![c] = NoCopy]
  /\ UNCHANGED <<dialect, used, disk, view, pc, event, tx>>

GetEvents(c) ==
  /\ pc[c] = "loading"
  /\ copy' = [copy EXCEPT ![c] = [marker |-> tx[c].marker,
                                  events |-> view.events[SessionOf[c]]]]
  /\ tx' = [tx EXCEPT ![c] = NoTx]
  /\ Goto(c, "idle")
  /\ UNCHANGED <<dialect, used, disk, view, event>>

(* A mutant: the events first.                                             *)
EventsFirst(c) ==
  /\ pc[c] = "idle"
  /\ view.marker[SessionOf[c]] # 0
  /\ copy' = [copy EXCEPT ![c] = [marker |-> 0, events |-> view.events[SessionOf[c]]]]
  /\ Goto(c, "loading")
  /\ UNCHANGED <<dialect, used, disk, view, event, tx>>
RowLast(c) ==
  /\ pc[c] = "loading"
  /\ copy' = [copy EXCEPT ![c].marker = view.marker[SessionOf[c]]]
  /\ Goto(c, "idle")
  /\ UNCHANGED <<dialect, used, disk, view, event, tx>>

LoadEventsFirst(c) == EventsFirst(c) \/ RowLast(c) \/ GetNone(c)

Load(c) == GetRow(c) \/ GetNone(c) \/ GetEvents(c)

-----------------------------------------------------------------------------
(* create_session and delete_session; each is one transaction.             *)

Create(c) ==
  LET s == SessionOf[c] IN
  /\ pc[c] = "idle" /\ view.marker[s] = 0
  /\ RowFree(c, s)
  /\ \E now \in Stamp \ used :
       /\ used' = used \cup {now}
       /\ view' = [view EXCEPT !.marker[s] = now]
       /\ copy' = [copy EXCEPT ![c] = [marker |-> now, events |-> {}]]
  /\ disk' = view'
  /\ UNCHANGED <<dialect, pc, event, tx>>

Delete(c) ==
  LET s == SessionOf[c] IN
  /\ pc[c] = "idle" /\ view.marker[s] # 0
  /\ RowFree(c, s)
  /\ view' = [view EXCEPT !.marker[s] = 0, !.events[s] = {}]
  /\ disk' = view'
  /\ UNCHANGED <<dialect, used, copy, pc, event, tx>>

-----------------------------------------------------------------------------
(* append_event.                                                           *)

(* The event is stamped when it is made, before the append.                *)
Call(c) ==
  /\ pc[c] = "idle" /\ copy[c] # NoCopy
  /\ \E now \in Stamp \ used, delta \in BOOLEAN :
       /\ used' = used \cup {now}
       /\ event' = [event EXCEPT ![c] = [stamp |-> now, delta |-> delta]]
  /\ Goto(c, "called")
  /\ UNCHANGED <<dialect, disk, view, copy, tx>>

Lock(c) ==
  /\ pc[c] = "called" /\ LocksFree(c)
  /\ Goto(c, "locked")
  /\ UNCHANGED <<dialect, used, disk, view, copy, event, tx>>

ReadRow(c) ==
  /\ pc[c] = "locked" /\ RowFree(c, SessionOf[c])
  /\ tx' = [tx EXCEPT ![c].marker = view.marker[SessionOf[c]]]
  /\ Goto(c, "read")
  /\ UNCHANGED <<dialect, used, disk, view, copy, event>>

(* A mutant: a copy is out of date only when storage is ahead of it.       *)
NotBehind(c) == tx[c].marker # 0 /\ copy[c].marker >= tx[c].marker

(* The row is there, and the copy is of this revision.                     *)
UpToDate(c) == tx[c].marker # 0 /\ copy[c].marker = tx[c].marker

Check(c) ==
  /\ pc[c] = "read" /\ UpToDate(c) /\ AppFree(c)
  /\ tx' = [tx EXCEPT ![c].app = view.app]
  /\ Goto(c, "checked")
  /\ UNCHANGED <<dialect, used, disk, view, copy, event>>

(* The rows as the transaction leaves them.                                *)
Written(db, c) ==
  [db EXCEPT !.marker[SessionOf[c]] = event[c].stamp,
             !.events[SessionOf[c]] = @ \cup {event[c].stamp},
             !.app = IF event[c].delta THEN tx[c].app \cup {event[c].stamp} ELSE @]

(* commit: its UPDATEs and INSERT, then its COMMIT.  An UPDATE of a row    *)
(* that is gone fails.                                                     *)
Flush(c) ==
  /\ pc[c] = "checked" /\ view.marker[SessionOf[c]] # 0
  /\ view' = IF dialect = "shared" THEN Written(view, c) ELSE view
  /\ Goto(c, "flushed")
  /\ UNCHANGED <<dialect, used, disk, copy, event, tx>>

Committed(c) ==
  /\ disk' = IF dialect = "shared" THEN view ELSE Written(disk, c)
  /\ view' = disk'

Finish(c) ==
  /\ event' = [event EXCEPT ![c] = NoEvent]
  /\ tx' = [tx EXCEPT ![c] = NoTx]
  /\ Goto(c, "idle")
  /\ UNCHANGED <<dialect, used>>

Commit(c) ==
  /\ pc[c] = "flushed"
  /\ Committed(c)
  /\ copy' = [copy EXCEPT ![c] = [marker |-> event[c].stamp,
                                  events |-> copy[c].events \cup {event[c].stamp}]]
  /\ Finish(c)

(* The commit is done, but its answer is lost or its caller cancelled.     *)
CommitUnheard(c) ==
  /\ pc[c] = "flushed"
  /\ Committed(c)
  /\ Finish(c)
  /\ UNCHANGED copy

(* The session is missing or the copy out of date, or the database fails,  *)
(* or the caller is cancelled: the transaction, if it has begun, is rolled *)
(* back, with one connection whatever that connection has not committed.   *)
Fail(c) ==
  /\ pc[c] \in Working
  /\ view' = IF Opened(c) THEN disk ELSE view
  /\ Finish(c)
  /\ UNCHANGED <<disk, copy>>

-----------------------------------------------------------------------------
Next ==
  \E c \in Client :
    \/ Load(c) \/ Create(c) \/ Delete(c)
    \/ Call(c) \/ Lock(c) \/ ReadRow(c) \/ Check(c)
    \/ Flush(c) \/ Commit(c) \/ CommitUnheard(c) \/ Fail(c)

Spec == Init /\ [][Next]_vars

-----------------------------------------------------------------------------
(* Properties.                                                             *)

(* A copy with the marker in storage has the events in storage: what       *)
(* get_session reads in two statements, and what append_event leaves in    *)
(* the caller's hands, is a state the session has had.                     *)
FreshCopiesAreComplete ==
  \A c \in Client :
    LET s == SessionOf[c] IN
    pc[c] # "loading" /\ copy[c] # NoCopy /\ disk.marker[s] # 0
      /\ copy[c].marker = disk.marker[s]
      => copy[c].events = disk.events[s]

(* An event is stored only when its writer has seen every event before it, *)
(* whoever appended those and though the session was deleted and created   *)
(* anew in between: what the marker check of append_event is for.          *)
NoBlindAppend ==
  [][\A c \in Client :
       LET s == SessionOf[c] IN
       event[c].stamp \in disk'.events[s] \ disk.events[s]
         => copy[c].events = disk.events[s]]_vars

(* No commit takes a key out of the app's state: two writers that merge    *)
(* their deltas into the row they have read do not overwrite each other.   *)
NoDeltaLost == [][disk.app \subseteq disk'.app]_vars

(* A call that fails takes back its own writes only, never those another   *)
(* call has flushed and not yet committed.                                 *)
RollbacksAreOwn ==
  [][\A c \in Client : \A d \in Client \ {c} :
       /\ pc[c] \in Working /\ pc'[c] = "idle"
       /\ event[d].stamp \in view.events[SessionOf[d]]
       => event[d].stamp \in view'.events[SessionOf[d]]]_vars

=============================================================================
