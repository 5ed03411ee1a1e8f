------------------------------- MODULE LlmFlow -------------------------------
(***************************************************************************)
(* The step loop of an LLM agent over one invocation: model calls, batches *)
(* of tool calls run in parallel, long-running calls that the user answers *)
(* later, and calls that wait for the user's confirmation.  An invocation  *)
(* is run over several turns; all that a turn knows of the earlier ones is *)
(* the log of events in the session, from which the flow decides whether   *)
(* to run confirmed calls, to pause, to run calls again or to go on to the *)
(* model.  A turn can die between any two events.                          *)
(***************************************************************************)
EXTENDS Naturals, Sequences

CONSTANTS Plain,        \* calls of ordinary tools
          Long,         \* calls of long-running tools
          Gated,        \* calls of tools that require a confirmation
          MaxTurns,     \* turns of the invocation to explore
          MaxMishaps    \* crashes, aborts and failing tools to explore

Call == Plain \cup Long \cup Gated

ASSUME KindsApart == Plain \cap (Long \cup Gated) = {} /\ Long \cap Gated = {}
ASSUME BoundsKnown == MaxTurns \in Nat /\ MaxMishaps \in Nat

VARIABLES resumable,    \* ResumabilityConfig.is_resumable
          log,          \* the events of the invocation in the session
          pc,           \* where the turn stands; "off" between turns
          batch,        \* the calls that are being executed
          out,          \* events of the batch that are still to be yielded
          yielded,      \* what the last event of the step says of the loop
          runs,         \* how often the tool of a call has been run
          turns, mishaps

vars == <<resumable, log, pc, batch, out, yielded, runs, turns, mishaps>>

\* A gated call stands for the request for its confirmation, too: there is at
\* most one.  held: answered by the placeholder of the gate; sealed, dropped:
\* calls and requests that an abort has answered; yes, no: the user's decisions
Event == [by : {"user", "agent"}, text : BOOLEAN, calls : SUBSET Call,
          asks : SUBSET Gated, results : SUBSET Call, held : SUBSET Gated,
          sealed : SUBSET Call, dropped : SUBSET Gated,
          yes : SUBSET Gated, no : SUBSET Gated]

Blank == [by |-> "agent", text |-> FALSE, calls |-> {}, asks |-> {},
          results |-> {}, held |-> {}, sealed |-> {}, dropped |-> {},
          yes |-> {}, no |-> {}]

\* kind: "calls" as the model made them, or "confirmed" by the user; open: the
\* tools that are running
Batch == [kind : {"calls", "confirmed"}, open : SUBSET Call,
          done : SUBSET Call, held : SUBSET Gated]

NoBatch == [kind |-> "calls", open |-> {}, done |-> {}, held |-> {}]

TypeOK ==
    /\ resumable \in BOOLEAN
    /\ log \in Seq(Event)
    /\ pc \in {"off", "step", "decide", "model", "tools", "emit"}
    /\ batch \in Batch
    /\ out \in Seq(Event)
    /\ yielded \in {"nothing", "more", "final"}
    /\ runs \in [Call -> Nat]
    /\ turns \in 0..MaxTurns
    /\ mishaps \in 0..MaxMishaps

Init ==
    /\ resumable \in BOOLEAN
    /\ log = <<>>
    /\ pc = "off"
    /\ batch = NoBatch
    /\ out = <<>>
    /\ yielded = "nothing"
    /\ runs = [c \in Call |-> 0]
    /\ turns = 0
    /\ mishaps = 0

-----------------------------------------------------------------------------
(* What the log says. *)

\* A mutant: what an abort has answered does not count.
OwnResponses(e) == e.results \cup e.held

Responses(e) == e.results \cup e.held \cup e.sealed

Decisions(e) == e.yes \cup e.no \cup e.dropped

Answered(S) == UNION {Responses(log[i]) : i \in S}

Decided(S) == UNION {Decisions(log[i]) : i \in S}

Made == UNION {log[i].calls : i \in DOMAIN log}

Asked == UNION {log[i].asks : i \in DOMAIN log}

Recorded == UNION {log[i].results : i \in DOMAIN log}

Sealed == UNION {log[i].sealed : i \in DOMAIN log}

Latest(S) == CHOOSE i \in S : \A j \in S : j <= i

LastUser == Latest({i \in DOMAIN log : log[i].by = "user"})

\* Event.is_final_response
Final(e) == \/ e.asks # {} \/ e.calls \cap Long # {}
            \/ e.held # {} /\ e.results = {}

\* InvocationContext.should_pause_invocation
Pauses(e) == e.asks # {} \/ e.calls \cap Long # {}

-----------------------------------------------------------------------------
(* Confirmed calls, from the last message of the user. *)

Confirmed == log[LastUser].yes \cup log[LastUser].no

\* A mutant: only results after the last message of the user count.
ConsumedSince(c, j) ==
    log[j].by = "agent" /\ c \in Responses(log[j]) /\ j > LastUser

\* An answer of the agent to the call, after the user's first decision on it
ConsumedAt(c, j) ==
    /\ log[j].by = "agent" /\ c \in Responses(log[j])
    /\ \E i \in 1..(j - 1) : c \in log[i].yes \cup log[i].no

Consumed(c) == \E j \in DOMAIN log : ConsumedAt(c, j)

Fresh == {c \in Confirmed : ~ Consumed(c)}

\* Nothing but decisions that earlier turns have acted on
OnlyRepeats ==
    /\ Confirmed # {} /\ Fresh = {}
    /\ \A c \in Confirmed : \A j \in DOMAIN log : ConsumedAt(c, j) => j < LastUser
    /\ log[LastUser].results = {}

-----------------------------------------------------------------------------
(* decide_step_resume: how a step continues from the events it has. *)

Earlier == 1..(Len(log) - 1)

Last == log[Len(log)]

PausedByLast == resumable /\ Pauses(Last)

\* A mutant: a window of two events.
LeftByPrevious ==
    \E i \in Earlier : /\ i = Len(log) - 1 /\ Pauses(log[i])
                       /\ \/ ~ log[i].calls \subseteq Answered(DOMAIN log)
                          \/ ~ log[i].asks \subseteq Decided(DOMAIN log)

LeftUnanswered ==
    \E i \in Earlier : /\ Pauses(log[i])
                       /\ \/ ~ log[i].calls \subseteq Answered(DOMAIN log)
                          \/ ~ log[i].asks \subseteq Decided(DOMAIN log)

HeldByPause == resumable /\ ~ PausedByLast /\ LeftUnanswered

CallEvents == {i \in Earlier : log[i].calls # {}}

Target == Latest(CallEvents)

Later == (Target + 1)..Len(log)

Calls == log[Target].calls

LongCalls == UNION {log[i].calls \cap Long : i \in Target..Len(log)}

LongAsks == UNION {log[i].asks : i \in Target..Len(log)}

NothingAnswered ==
    /\ LongCalls \cap Answered(Later) = {}
    /\ LongAsks \cap Decided(Later) = {}
    /\ LongCalls \cup LongAsks = {} => Calls \cap Answered(Later) = {}

AnswerEvent ==
    log[Latest({i \in Later :
                  \/ Responses(log[i]) \cap (Calls \cup LongCalls) # {}
                  \/ Decisions(log[i]) \cap LongAsks # {}})]

NeedsReplay == \/ Decisions(AnswerEvent) # {}
               \/ ~ Responses(AnswerEvent) \subseteq Calls

\* The calls of the target that have never run, as far as the log can tell
Unexecuted(interrupted) ==
    {c \in Calls \ Answered(Later) :
       \/ interrupted
       \/ /\ c \notin Long
          /\ \A i \in Later : log[i].by = "agent" => log[i] = Blank}

Owed == IF CallEvents = {} \/ NothingAnswered THEN {}
        ELSE IF NeedsReplay THEN Unexecuted(TRUE)
        ELSE IF /\ LongCalls \subseteq Answered(Later)
                /\ LongAsks \subseteq Decided(Later) THEN Unexecuted(FALSE)
        ELSE {}

MustPause == \/ HeldByPause
             \/ /\ Owed = {}
                /\ \/ PausedByLast
                   \/ resumable /\ CallEvents # {} /\ NothingAnswered

\* A mutant: the calls of the last event are run again in any case.
ReplayLast == IF MustPause /\ Last.calls = {} THEN {}
              ELSE IF Owed # {} THEN Owed
              ELSE IF resumable THEN Last.calls
              ELSE {}

ToReplay == IF MustPause THEN {}
            ELSE IF Owed # {} THEN Owed
            ELSE IF resumable THEN Last.calls
            ELSE {}

-----------------------------------------------------------------------------
(* The user's messages start turns. *)

Turn(message) ==
    /\ pc = "off" /\ turns < MaxTurns
    /\ turns' = turns + 1
    /\ log' = log \o message
    /\ pc' = "step"
    /\ UNCHANGED <<resumable, batch, out, yielded, runs, mishaps>>

Open == log = <<>> /\ Turn(<<[Blank EXCEPT !.by = "user", !.text = TRUE]>>)

\* Answers to calls and requests of the log, first ones and repeated ones
Answer(results, yes, no) ==
    /\ results \cup yes \cup no # {} /\ yes \cap no = {}
    /\ results \subseteq Made \cap Long
    /\ yes \cup no \subseteq Asked
    /\ Turn(<<[Blank EXCEPT !.by = "user", !.results = results,
                            !.yes = yes, !.no = no]>>)

\* run_async with the invocation's id and no message, though it may have ended
Resume == log # <<>> /\ Turn(<<>>)

-----------------------------------------------------------------------------
(* The steps of a turn. *)

Run(kind, calls, done, held) ==
    /\ batch' = [kind |-> kind, open |-> calls, done |-> done, held |-> held]
    /\ runs' = [c \in Call |-> IF c \in calls THEN runs[c] + 1 ELSE runs[c]]

\* Calls as the model made them: the gate answers for those that require a
\* confirmation
RunCalls(calls) == Run("calls", calls \ Gated, {}, calls \cap Gated)

\* A mutant: a step that yields nothing is followed by another one.
StepEndsUnlessFinal ==
    /\ pc' = IF yielded = "final" THEN "off" ELSE "step"
    /\ yielded' = "nothing"

\* What a run_async loop does when a step has ended
StepEnds ==
    /\ pc' = IF yielded = "more" THEN "step" ELSE "off"
    /\ yielded' = "nothing"

RunConfirmed ==
    /\ pc = "step" /\ Fresh # {}
    /\ Run("confirmed", Fresh \cap log[LastUser].yes,
           Fresh \cap log[LastUser].no, {})
    /\ pc' = "tools"
    /\ UNCHANGED <<resumable, log, out, yielded, turns, mishaps>>

DropRepeats ==
    /\ pc = "step" /\ OnlyRepeats
    /\ pc' = "off"
    /\ UNCHANGED <<resumable, log, batch, out, yielded, runs, turns, mishaps>>

Preprocessed ==
    /\ pc = "step" /\ Fresh = {} /\ ~ OnlyRepeats
    /\ pc' = "decide"
    /\ UNCHANGED <<resumable, log, batch, out, yielded, runs, turns, mishaps>>

Pause ==
    /\ pc = "decide" /\ MustPause
    /\ StepEnds
    /\ UNCHANGED <<resumable, log, batch, out, runs, turns, mishaps>>

\* A mutant: a replay takes its calls for confirmed ones.
ReplayUngated ==
    /\ pc = "decide" /\ ToReplay # {}
    /\ Run("calls", ToReplay, {}, {})
    /\ pc' = "tools"
    /\ UNCHANGED <<resumable, log, out, yielded, turns, mishaps>>

Replay ==
    /\ pc = "decide" /\ ToReplay # {}
    /\ RunCalls(ToReplay)
    /\ pc' = "tools"
    /\ UNCHANGED <<resumable, log, out, yielded, turns, mishaps>>

CallModel ==
    /\ pc = "decide" /\ ~ MustPause /\ ToReplay = {}
    /\ pc' = "model"
    /\ UNCHANGED <<resumable, log, batch, out, yielded, runs, turns, mishaps>>

ModelAnswers ==
    /\ pc = "model"
    /\ log' = Append(log, [Blank EXCEPT !.text = TRUE])
    /\ pc' = "off" /\ yielded' = "nothing"
    /\ UNCHANGED <<resumable, batch, out, runs, turns, mishaps>>

ModelCalls(calls) ==
    /\ pc = "model"
    /\ calls # {} /\ calls \cap Made = {}
    /\ LET e == [Blank EXCEPT !.calls = calls]
       IN  /\ log' = Append(log, e)
           /\ yielded' = IF Final(e) THEN "final" ELSE "more"
    /\ RunCalls(calls)
    /\ pc' = "tools"
    /\ UNCHANGED <<resumable, out, turns, mishaps>>

-----------------------------------------------------------------------------
(* The execution of a batch. *)

Return(c) ==
    /\ pc = "tools" /\ c \in batch.open
    /\ batch' = [batch EXCEPT !.open = @ \ {c}, !.done = @ \cup {c}]
    /\ UNCHANGED <<resumable, log, pc, out, yielded, runs, turns, mishaps>>

\* A long-running tool that has nothing to report yet leaves no event
ReturnNothing(c) ==
    /\ pc = "tools" /\ c \in batch.open \cap Long
    /\ batch' = [batch EXCEPT !.open = @ \ {c}]
    /\ UNCHANGED <<resumable, log, pc, out, yielded, runs, turns, mishaps>>

AllReturned ==
    /\ pc = "tools" /\ batch.open = {}
    /\ LET answers == [Blank EXCEPT !.results = batch.done, !.held = batch.held]
           request == [Blank EXCEPT !.asks = batch.held]
       IN  out' = CASE batch.done = {} /\ batch.held = {} -> <<>>
                    [] batch.done = {} /\ batch.held # {} -> <<request, answers>>
                    [] batch.done # {} /\ batch.held = {} -> <<answers>>
                    [] OTHER                              -> <<answers, request>>
    /\ pc' = "emit"
    /\ UNCHANGED <<resumable, log, batch, yielded, runs, turns, mishaps>>

Emit ==
    /\ pc = "emit" /\ out # <<>>
    /\ log' = Append(log, Head(out))
    /\ out' = Tail(out)
    /\ yielded' = IF Final(Head(out)) THEN "final" ELSE "more"
    /\ UNCHANGED <<resumable, pc, batch, runs, turns, mishaps>>

BatchEnds ==
    /\ pc = "emit" /\ out = <<>>
    /\ IF batch.kind = "confirmed"
       THEN pc' = "decide" /\ UNCHANGED yielded
       ELSE StepEnds
    /\ batch' = NoBatch
    /\ UNCHANGED <<resumable, log, out, runs, turns, mishaps>>

-----------------------------------------------------------------------------
(* Mishaps. *)

Stops(events) ==
    /\ mishaps < MaxMishaps
    /\ mishaps' = mishaps + 1
    /\ log' = log \o events
    /\ pc' = "off"
    /\ batch' = NoBatch /\ out' = <<>> /\ yielded' = "nothing"
    /\ UNCHANGED <<resumable, runs, turns>>

\* The results that the flow yields before the error of a call goes on: those
\* of confirmed calls are not among them
Kept == IF batch.kind = "calls" THEN batch.done ELSE {}

\* The node runner records the error in an event without content, behind these
\* results if there are any: one event stands for both
Raise(c) ==
    /\ pc = "tools" /\ c \in batch.open
    /\ Stops(<<[Blank EXCEPT !.results = Kept]>>)

Crash == pc # "off" /\ Stops(<<>>)

Abort ==
    /\ pc # "off"
    /\ Stops(<<[Blank EXCEPT !.sealed = Made \ Answered(DOMAIN log),
                             !.dropped = Asked \ Decided(DOMAIN log)]>>)

-----------------------------------------------------------------------------
UserTurn ==
    \/ Open
    \/ Resume
    \/ \E results \in SUBSET Long, yes, no \in SUBSET Gated :
         Answer(results, yes, no)

Work ==
    \/ RunConfirmed \/ DropRepeats \/ Preprocessed
    \/ Pause \/ Replay \/ CallModel
    \/ ModelAnswers \/ \E calls \in SUBSET Call : ModelCalls(calls)
    \/ \E c \in Call : Return(c) \/ ReturnNothing(c)
    \/ AllReturned \/ Emit \/ BatchEnds

Next ==
    \/ UserTurn \/ Work
    \/ \E c \in Call : Raise(c)
    \/ Crash \/ Abort

Spec == Init /\ [][Next]_vars

\* The event loop goes on, models and tools return
FairSpec == Spec /\ WF_vars(Work)

-----------------------------------------------------------------------------
(* Properties *)

\* In a resumable app the model is called only when each long-running call and
\* each request for a confirmation has been answered, by the tool, the user or
\* an abort, whatever was cut short before (decide_step_resume).
ModelSeesAnswers ==
    pc = "model" /\ resumable => /\ Made \cap Long \subseteq Answered(DOMAIN log)
                                 /\ Asked \subseteq Decided(DOMAIN log)

\* In a resumable app a long-running function is never run a second time, not
\* even after a crash: the log cannot tell whether it was started, so it is
\* left to the user's answer (_unexecuted_calls_event).
LongRunsOnce == resumable => \A c \in Long : runs[c] <= 1

\* A call whose result is in the session is not run again, however often its
\* confirmation is sent and its turn is resumed.
RecordedNeverReruns ==
    [][\A c \in Call : runs'[c] # runs[c] => c \notin Recorded]_vars

\* A gated tool runs only while the user's latest decision on that very call is
\* an approval: no replay and no answer to another call lets it through.
ApprovedRuns ==
    [][\A c \in Gated : runs'[c] # runs[c] =>
         LET on == {i \in DOMAIN log : c \in log[i].yes \cup log[i].no}
         IN  on # {} /\ c \in log[Latest(on)].yes]_vars

\* An ordinary or long-running call that was sealed by an abort is never run
\* afterwards (_build_abort_events, and the decision on resuming).
SealedNeverRuns ==
    [][\A c \in Plain \cup Long : runs'[c] # runs[c] => c \notin Sealed]_vars

\* Every turn ends: the loop neither replays nor confirms the same calls for
\* ever (run_async).
TurnEnds == pc # "off" ~> pc = "off"

\* A pause waits for the user: there is a long-running call or a request that
\* has no answer yet.  Does not hold after a crash or an error.
PausesForTheUser ==
    [][Pause => \/ ~ Made \cap Long \subseteq Answered(DOMAIN log)
                \/ ~ Asked \subseteq Decided(DOMAIN log)]_vars

\* When a call of a batch raises, the results of the calls that had finished
\* are in the session.  Does not hold for confirmed calls.
ResultsAreKept ==
    [][\A c \in Call : Raise(c) => batch.done \subseteq Recorded']_vars
=============================================================================
