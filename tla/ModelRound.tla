---------------------------- MODULE ModelRound ----------------------------
(***************************************************************************)
(* The model rounds of the runs of one thread: the loop that asks for an   *)
(* answer and settles it (agent/run-agent-loop.ts, agent/loop-model-       *)
(* round.ts, packages/agent-loop), the part of the run's checkpoint that   *)
(* holds the open round (sessions/run-checkpoint-store.ts), the journal of *)
(* provider rounds and the transcript a restarted daemon rebuilds the      *)
(* history from (agent/loop-history.ts, agent/loop-tool-recovery.ts,       *)
(* durable-run-execution.ts), over the requests of ProviderRequest.        *)
(*                                                                         *)
(* An action ends at a durable write or at an await of the provider; what  *)
(* the loop computes in between is part of it.  The history of a request   *)
(* is the set of what it holds of this run's rounds, each element a pair   *)
(* <<what, round>>; every round is charged one unit of usage.              *)
(***************************************************************************)
EXTENDS ProviderRequest, FiniteSets

CONSTANTS MaxRounds,     \* bound: rounds of a run
          MaxRetries,    \* maxRetries of the retry rule
          MaxRuns,       \* bound: runs of the thread
          MaxCrashes     \* bound: crashes of the daemon

ASSUME BoundsAssumption ==
  /\ MaxRounds \in Nat \ {0} /\ MaxRetries \in Nat
  /\ MaxRuns \in Nat \ {0} /\ MaxCrashes \in Nat

Round == 0 .. MaxRounds - 1

VARIABLES
  \* the checkpoint of the run
  run,            \* which run of the thread it is
  status,         \* "running", "done" or the reason of the error
  nextRound, active, settledUsage,
  continuation,   \* historyText of the continuation
  \* the thread's files
  journal,        \* provider rounds recorded, and whether they call tools
  transcript,     \* the tool call of each round
  \* the loop of the run
  pc,
  attempt, reqAttempt,   \* modelRoundAttempt, providerRequestAttempt
  resume,         \* the request identity a recovery resumes
  served,         \* the host the stream reads from
  answer,
  history, totals,
  failure,        \* why the run is about to end, or "none"
  \* what left the daemon, and the bound on crashes
  effects,        \* how often the structured output of a round took effect
  crashes

checkpointVars == <<run, status, nextRound, active, settledUsage, continuation>>
fileVars == <<journal, transcript>>
attemptVars == <<attempt, reqAttempt, resume>>
streamVars == <<served, answer>>
loopVars == <<pc, attemptVars, streamVars, history, totals, failure>>
vars == <<requestVars, checkpointVars, fileVars, loopVars, effects, crashes>>

Failure == {"unknown", "conflict", "fatal", "aborted"}

\* What a history may hold, and what names a request.
Item == {"items", "call", "result", "text", "nudge", "stripped"} \X Round
RequestId == (1..MaxRuns) \X (SUBSET Item) \X (0..1)

Quiet == [kind |-> "none", items |-> FALSE]
Interrupted == [kind |-> "interrupted", items |-> FALSE]
Lost == [kind |-> "lost", items |-> FALSE]

RunInit ==
  /\ status = "running" /\ nextRound = 0 /\ active = None
  /\ settledUsage = 0 /\ continuation = {}
  /\ journal = {} /\ transcript = [r \in Round |-> "none"]
  /\ effects = [r \in Round |-> 0]
  /\ pc = "open" /\ attempt = 0 /\ reqAttempt = 0 /\ resume = None
  /\ served = None /\ answer = Quiet
  /\ history = {} /\ totals = 0 /\ failure = "none"

Init == RequestInit /\ RunInit /\ run = 1 /\ crashes = 0

-----------------------------------------------------------------------------
(* The open round in the checkpoint.                                       *)

Phase(p) == [active EXCEPT !.phase = p]

Settlement == active.settlement

\* The phases of a request; a later one is never taken back.
PhaseOrder == [prepared |-> 0, streaming |-> 1, terminal_observed |-> 2]
AtLeast(p) == IF PhaseOrder[active.phase] > PhaseOrder[p] THEN active ELSE Phase(p)

Settled ==
  [phase : {"candidate", "effects", "committed"}, answer : Answer \cup {Interrupted},
   disposition : {"none", "continue", "terminal"}, nudge : SUBSET Item,
   failure : Failure \cup {"none"}]

ActiveRound ==
  [round : Round, attempt : 0..MaxRetries, reqAttempt : 0..1, id : RequestId,
   context : SUBSET Item, phase : DOMAIN PhaseOrder, settlement : Settled \cup {None}]

ASSUME NoneAssumption ==
  None \notin Answer \cup [id : RequestId, host : Host] \cup RequestId
                 \cup ActiveRound \cup Settled

\* The round the loop asks the store to record before a request is committed.
Asked == [round |-> nextRound, attempt |-> attempt, reqAttempt |-> reqAttempt,
          id |-> coordinate.id, context |-> history]

IsSamePrepared ==
  /\ active # None
  /\ Asked = [round |-> active.round, attempt |-> active.attempt,
              reqAttempt |-> active.reqAttempt, id |-> active.id,
              context |-> active.context]

IsLaterAttempt ==
  \/ active.attempt < attempt
  \/ active.attempt = attempt /\ active.reqAttempt < reqAttempt

MayReplace == active # None => IsLaterAttempt /\ Settlement = None

\* recordModelRoundPrepared, when it answers ok.
RecordPrepared ==
  \/ IsSamePrepared /\ UNCHANGED active
  \/ /\ ~IsSamePrepared /\ MayReplace
     /\ active' = [round |-> Asked.round, attempt |-> Asked.attempt,
                   reqAttempt |-> Asked.reqAttempt, id |-> Asked.id,
                   context |-> Asked.context, phase |-> "prepared",
                   settlement |-> None]

Refused == ~IsSamePrepared /\ ~MayReplace

Candidate(a) == [phase |-> "candidate", answer |-> a, disposition |-> "none",
                 nudge |-> {}, failure |-> "none"]

\* commitModelRoundSettlement, of a settlement that is not committed yet.
SettleAs(disposition, nudge, why) ==
  /\ active' = [active EXCEPT !.settlement =
                  [@ EXCEPT !.phase = "committed", !.disposition = disposition,
                            !.nudge = nudge, !.failure = why]]
  /\ settledUsage' = settledUsage + 1

Committed == active # None /\ Settlement # None /\ Settlement.phase = "committed"

-----------------------------------------------------------------------------
(* The loop.  A failure ends the run; one met after the answer was         *)
(* recorded settles the round first (settleTerminal).                      *)

Fail(why) == pc' = "end" /\ failure' = why
FailSettled(why) == pc' = "settle" /\ failure' = why
GoTo(where) == pc' = where /\ UNCHANGED failure

\* The identity of the request: that of the recovered one, or the digest of
\* what is to be sent and of the authentication attempt.
Identity == IF resume # None THEN resume ELSE <<run, history, reqAttempt>>

\* Variant of MayStart: a round to be resumed is asked anew.
MayStartAgain == ~Named(Identity) /\ PreviousSettled

\* A request of its own may be started.
MayStart == resume = None /\ ~Named(Identity) /\ PreviousSettled

\* A recovered round whose request the coordinate no longer names.
ResumeLost ==
  /\ pc = "open" /\ resume # None /\ ~Named(resume)
  /\ Fail("unknown")
  /\ UNCHANGED <<requestVars, checkpointVars, fileVars, attemptVars, streamVars,
                 history, totals, effects, crashes>>

\* Another request of the session has left no artifact.
Unresolved ==
  /\ pc = "open" /\ resume = None /\ ~Named(Identity) /\ ~PreviousSettled
  /\ Fail("unknown")
  /\ UNCHANGED <<requestVars, checkpointVars, fileVars, attemptVars, streamVars,
                 history, totals, effects, crashes>>

\* The coordinate names this very request: its host serves it again.
Reopen ==
  /\ pc = "open" /\ Named(Identity)
  /\ served' = coordinate.host
  /\ GoTo("reopened")
  /\ UNCHANGED <<requestVars, checkpointVars, fileVars, attemptVars, answer,
                 history, totals, effects, crashes>>

\* A host is started, and the coordinate written over the previous one.
Start ==
  /\ pc = "open" /\ MayStart
  /\ \E n \in Host :
       /\ StartHost(n, Identity)
       /\ served' = n
  /\ GoTo("started")
  /\ UNCHANGED <<checkpointVars, fileVars, attemptVars, answer, history, totals,
                 effects, crashes>>

\* The process cannot be started, or the coordinate cannot be written.
StartFails ==
  /\ pc = "open" /\ MayStart
  /\ Fail("fatal")
  /\ UNCHANGED <<requestVars, checkpointVars, fileVars, attemptVars, streamVars,
                 history, totals, effects, crashes>>

\* onPrepared: the checkpoint learns of the request before it is committed.
Prepare ==
  /\ pc \in {"started", "reopened"}
  /\ RecordPrepared
  /\ GoTo("prepared")
  /\ UNCHANGED <<requestVars, run, status, nextRound, settledUsage, continuation,
                 fileVars, attemptVars, streamVars, history, totals, effects,
                 crashes>>

\* It refuses: a host that was just started goes, one that was there stays.
PrepareRefused ==
  /\ pc \in {"started", "reopened"}
  /\ Refused
  /\ IF pc = "started" THEN Release(served) ELSE UNCHANGED requestVars
  /\ Fail("conflict")
  /\ UNCHANGED <<checkpointVars, fileVars, attemptVars, streamVars, history,
                 totals, effects, crashes>>

\* The commit frame is written; from here on the stream owns the host.
Deliver ==
  /\ pc = "prepared" /\ Commit(served)
  /\ GoTo("reading")
  /\ UNCHANGED <<checkpointVars, fileVars, attemptVars, served, answer, history,
                 totals, effects, crashes>>

\* There is no host any more: its artifact is read, or the outcome is unknown.
Replay ==
  /\ pc = "prepared" /\ ~Alive(served)
  /\ answer' = IF artifact[served] # None THEN artifact[served] ELSE Lost
  /\ GoTo("observed")
  /\ UNCHANGED <<requestVars, checkpointVars, fileVars, attemptVars, served,
                 history, totals, effects, crashes>>

\* The first event of the provider.
FirstEvent ==
  /\ pc = "reading" /\ active.phase = "prepared"
  /\ active' = AtLeast("streaming")
  /\ UNCHANGED <<requestVars, run, status, nextRound, settledUsage, continuation,
                 fileVars, loopVars, effects, crashes>>

\* The end of the stream.  An error leaves the stream by its finally, a lost
\* host by the branch of the finally that keeps the coordinate.
ReadEnd ==
  /\ pc = "reading" /\ ~Alive(served)
  /\ answer' = IF artifact[served] # None THEN artifact[served] ELSE Lost
  /\ IF artifact[served] # None /\ artifact[served].kind \notin GoodKind
     THEN Release(served)
     ELSE UNCHANGED requestVars
  /\ GoTo("observed")
  /\ UNCHANGED <<checkpointVars, fileVars, attemptVars, served, history,
                 totals, effects, crashes>>

\* The user has a message applied now: the request is broken off, the round
\* ends with what there is of it.
Interrupt ==
  /\ pc = "reading"
  /\ Release(served)
  /\ answer' = Interrupted
  /\ GoTo("observed")
  /\ UNCHANGED <<checkpointVars, fileVars, attemptVars, served, history,
                 totals, effects, crashes>>

\* The run is cancelled: between two requests, or while it reads.
Cancel ==
  /\ \/ pc = "open" /\ UNCHANGED requestVars
     \/ pc = "reading" /\ Release(served)
  /\ Fail("aborted")
  /\ UNCHANGED <<checkpointVars, fileVars, attemptVars, streamVars, history,
                 totals, effects, crashes>>

-----------------------------------------------------------------------------
(* After the stream.                                                       *)

\* The client refreshes a refused token and asks once more, within the
\* attempt; the resumed identity is for its first request only.
AuthRefresh ==
  /\ pc = "observed" /\ answer.kind = "unauthorized" /\ reqAttempt = 0
  /\ reqAttempt' = 1 /\ resume' = None
  /\ GoTo("open")
  /\ UNCHANGED <<requestVars, checkpointVars, fileVars, attempt, streamVars,
                 history, totals, effects, crashes>>

\* Variant of Ended: a token refused twice does not end the attempt.
EndedWell == answer.kind # "unauthorized"

Ended == answer.kind # "unauthorized" \/ reqAttempt = 1

\* Variant of RetriesLeft: one more than the rule allows.
RetriesLeftStill == attempt <= MaxRetries

RetriesLeft == attempt < MaxRetries

\* The attempt is over: its request is marked terminal_observed.
Observe ==
  /\ pc = "observed" /\ Ended
  /\ active' = AtLeast("terminal_observed")
  /\ \/ /\ answer.kind \in GoodKind \cup {"interrupted"}
        /\ GoTo("candidate") /\ UNCHANGED <<attemptVars, history>>
     \/ /\ answer.kind = "lost"
        /\ Fail("unknown") /\ UNCHANGED <<attemptVars, history>>
     \* an error the retry rule covers, before any output
     \/ /\ answer.kind = "retryable" /\ RetriesLeft
        /\ attempt' = attempt + 1 /\ reqAttempt' = 0 /\ resume' = None
        /\ GoTo("open") /\ UNCHANGED history
     \* the encrypted items are stripped from the history, once
     \/ /\ answer.kind = "rejected" /\ <<"stripped", nextRound>> \notin history
        /\ history' = history \cup {<<"stripped", nextRound>>}
        /\ reqAttempt' = 0 /\ resume' = None
        /\ GoTo("open") /\ UNCHANGED attempt
     \/ /\ answer.kind \in {"retryable", "rejected", "unauthorized", "fatal"}
        /\ Fail("fatal") /\ UNCHANGED <<attemptVars, history>>
  /\ UNCHANGED <<requestVars, run, status, nextRound, settledUsage, continuation,
                 fileVars, streamVars, totals, effects, crashes>>

\* recordModelRoundSettlementCandidate, of a new answer.
RecordCandidate ==
  /\ pc = "candidate" /\ Settlement = None
  /\ active' = [active EXCEPT !.settlement = Candidate(answer)]
  /\ totals' = totals + 1
  /\ GoTo("journal")
  /\ UNCHANGED <<requestVars, run, status, nextRound, settledUsage, continuation,
                 fileVars, attemptVars, streamVars, history, effects, crashes>>

\* Variant of Repeatable: effects that were begun are begun again.
RepeatableBegun == Settlement.phase \in {"candidate", "effects"}

\* Nothing has come of the recorded answer yet.
Repeatable == Settlement.phase = "candidate"

\* The answer was recorded before a restart.
KnownCandidate ==
  /\ pc = "candidate" /\ Settlement # None
  /\ \/ Settlement.answer # answer /\ Fail("conflict")
     \/ Settlement.answer = answer /\ Repeatable /\ GoTo("journal")
     \/ Settlement.answer = answer /\ ~Repeatable /\ ~Committed /\ FailSettled("unknown")
     \/ Settlement.answer = answer /\ Committed /\ GoTo("recovered")
  /\ UNCHANGED <<requestVars, checkpointVars, fileVars, attemptVars, streamVars,
                 history, totals, effects, crashes>>

\* resolveRecoveredModelRound, of a settlement that was committed.
Resolve ==
  /\ pc = "recovered"
  /\ \/ /\ Settlement.disposition = "continue"
        /\ history' = history \cup Settlement.nudge
        /\ GoTo("complete")
     \/ /\ Settlement.disposition = "terminal"
        /\ pc' = "settle" /\ failure' = Settlement.failure
        /\ UNCHANGED history
  /\ UNCHANGED <<requestVars, checkpointVars, fileVars, attemptVars, streamVars,
                 totals, effects, crashes>>

JournalEntry == [round |-> nextRound, calls |-> answer.kind = "tools"]

\* What the answer adds to the history when it is not journaled.
Plain == CASE answer.kind = "tools" -> {<<"call", nextRound>>}
           [] answer.kind \in {"prose", "interrupted"} -> {<<"text", nextRound>>}
           [] OTHER -> {}

\* recordProviderRound, and the history that follows it.
RecordRound ==
  /\ pc = "journal"
  /\ IF answer.items
     THEN /\ journal' = journal \cup {JournalEntry}
          /\ history' = history \cup IF JournalEntry \in journal THEN {}
                                     ELSE {<<"items", nextRound>>}
     ELSE UNCHANGED journal /\ history' = history \cup Plain
  /\ GoTo(CASE answer.kind = "structured" -> "structured"
            [] answer.kind = "tools" -> "tools"
            [] OTHER -> "assess")
  /\ UNCHANGED <<requestVars, checkpointVars, transcript, attemptVars, streamVars,
                 totals, effects, crashes>>

\* beginModelRoundSettlementEffects, before a structured output takes effect.
BeginEffects ==
  /\ pc = "structured"
  /\ active' = IF Settlement.phase = "candidate"
               THEN [active EXCEPT !.settlement.phase = "effects"] ELSE active
  /\ GoTo("acting")
  /\ UNCHANGED <<requestVars, run, status, nextRound, settledUsage, continuation,
                 fileVars, attemptVars, streamVars, history, totals, effects,
                 crashes>>

Act ==
  /\ pc = "acting"
  /\ effects' = [effects EXCEPT ![nextRound] = @ + 1]
  /\ GoTo("assess") \/ FailSettled("fatal")
  /\ UNCHANGED <<requestVars, checkpointVars, fileVars, attemptVars, streamVars,
                 history, totals, crashes>>

\* recordToolCall; the tool runs.
CallTools ==
  /\ pc = "tools"
  /\ transcript' = [transcript EXCEPT ![nextRound] = "called"]
  /\ GoTo("calling")
  /\ UNCHANGED <<requestVars, checkpointVars, journal, attemptVars, streamVars,
                 history, totals, effects, crashes>>

\* recordToolResult: the window is over, ends the turn, or has failed.
ToolsReturn ==
  /\ pc = "calling"
  /\ transcript' = [transcript EXCEPT ![nextRound] = "resulted"]
  /\ history' = history \cup {<<"result", nextRound>>}
  /\ GoTo("continue") \/ GoTo("assess") \/ FailSettled("fatal")
  /\ UNCHANGED <<requestVars, checkpointVars, journal, attemptVars, streamVars,
                 totals, effects, crashes>>

-----------------------------------------------------------------------------
(* The settlement of the round and the end of the run.                     *)

\* The completion policy lets the answer stand, or has the loop go on, with a
\* text of its own or without; after the calls of a round the loop just goes
\* on.  Going on is committed before it happens.
Assess ==
  /\ \/ /\ pc = "assess" /\ GoTo("settle")
        /\ UNCHANGED <<active, settledUsage, history>>
     \/ /\ pc \in {"assess", "continue"} /\ nextRound + 1 \in Round
        /\ \E nudge \in IF pc = "continue" THEN {{}} ELSE {{}, {<<"nudge", nextRound>>}} :
             /\ SettleAs("continue", nudge, "none")
             /\ history' = history \cup nudge
        /\ GoTo("complete")
     \* the bound: the last round fails instead of going on
     \/ /\ pc = "continue" /\ nextRound + 1 \notin Round
        /\ FailSettled("fatal") /\ UNCHANGED <<active, settledUsage, history>>
  /\ UNCHANGED <<requestVars, run, status, nextRound, continuation, fileVars,
                 attemptVars, streamVars, totals, effects, crashes>>

\* completeModelRound, and the loop enters the next round.
Complete ==
  /\ pc = "complete"
  /\ nextRound' = nextRound + 1 /\ active' = None
  /\ continuation' = Settlement.nudge
  /\ attempt' = 0 /\ reqAttempt' = 0 /\ resume' = None
  /\ GoTo("open")
  /\ UNCHANGED <<requestVars, run, status, settledUsage, fileVars, streamVars,
                 history, totals, effects, crashes>>

\* Variant of AlreadySettled: the round is charged once more.
ChargedAgain == FALSE

\* commitModelRoundSettlement, of a settlement that is committed.
AlreadySettled == Committed

\* settleTerminal.
SettleTerminal ==
  /\ pc = "settle"
  /\ IF AlreadySettled THEN UNCHANGED <<active, settledUsage>>
     ELSE SettleAs("terminal", {}, failure)
  /\ GoTo("end")
  /\ UNCHANGED <<requestVars, run, status, nextRound, continuation, fileVars,
                 attemptVars, streamVars, history, totals, effects, crashes>>

\* settleRun.
EndRun ==
  /\ pc = "end"
  /\ \/ /\ failure = "none"
        /\ active # None => Committed /\ Settlement.disposition = "terminal"
        /\ status' = "done"
     \/ failure # "none" /\ status' = failure
  /\ GoTo("ended")
  /\ UNCHANGED <<requestVars, run, nextRound, active, settledUsage, continuation,
                 fileVars, attemptVars, streamVars, history, totals, effects,
                 crashes>>

\* The next run of the thread.
NewRun ==
  /\ pc = "ended" /\ run < MaxRuns
  /\ run' = run + 1
  /\ status' = "running" /\ nextRound' = 0 /\ active' = None
  /\ settledUsage' = 0 /\ continuation' = {}
  /\ journal' = {} /\ transcript' = [r \in Round |-> "none"]
  /\ effects' = [r \in Round |-> 0]
  /\ pc' = "open" /\ attempt' = 0 /\ reqAttempt' = 0 /\ resume' = None
  /\ served' = None /\ answer' = Quiet
  /\ history' = {} /\ totals' = 0 /\ failure' = "none"
  /\ UNCHANGED <<requestVars, crashes>>

-----------------------------------------------------------------------------
(* The crash of the daemon, and the recovery of its run.                   *)

Crash ==
  /\ pc \notin {"down", "ended"} /\ crashes < MaxCrashes
  /\ crashes' = crashes + 1
  /\ pc' = "down" /\ attempt' = 0 /\ reqAttempt' = 0 /\ resume' = None
  /\ served' = None /\ answer' = Quiet
  /\ history' = {} /\ totals' = 0 /\ failure' = "none"
  /\ UNCHANGED <<requestVars, checkpointVars, fileVars, effects>>

\* recoverPendingReplaySafeToolCalls: a call without a result gets one.
Answered == [r \in Round |->
               IF transcript[r] = "called" \/ [round |-> r, calls |-> TRUE] \in journal
               THEN "resulted" ELSE transcript[r]]

Journaled == {j.round : j \in journal}

\* loadExistingHistory.
Rebuilt(calls) ==
  {<<"items", r>> : r \in Journaled}
    \cup {<<"call", r>> : r \in {x \in Round \ Journaled : calls[x] # "none"}}
    \cup {<<"result", r>> : r \in {x \in Round : calls[x] = "resulted"}}

\* The usage of a recorded answer that is not in settledUsage yet.
Unsettled ==
  IF active # None /\ Settlement # None /\ Settlement.phase # "committed" THEN 1 ELSE 0

\* The round is claimed, the pending calls are answered, and the loop starts
\* over from what is durable.
Recover ==
  /\ pc = "down"
  /\ transcript' = Answered
  /\ history' = Rebuilt(Answered) \cup continuation
  /\ totals' = settledUsage + Unsettled
  /\ attempt' = IF active = None THEN 0 ELSE active.attempt
  /\ resume' = IF active = None THEN None ELSE active.id
  /\ GoTo("open")
  /\ UNCHANGED <<requestVars, checkpointVars, journal, reqAttempt, streamVars,
                 effects, crashes>>

-----------------------------------------------------------------------------
(* The hosts, and the user who gives up a request; the control refuses     *)
(* while the thread has an active run.                                     *)

HostStep(n) ==
  /\ HostDies(n) \/ \E a \in Answer : HostAnswers(n, a)
  /\ UNCHANGED <<checkpointVars, fileVars, loopVars, effects, crashes>>

GiveUp ==
  /\ pc \in {"down", "ended"}
  /\ Abandon
  /\ UNCHANGED <<checkpointVars, fileVars, loopVars, effects, crashes>>

LoopStep ==
  \/ ResumeLost \/ Unresolved \/ Reopen \/ Start \/ StartFails \/ Prepare
  \/ PrepareRefused \/ Deliver \/ Replay \/ FirstEvent \/ ReadEnd
  \/ AuthRefresh \/ Observe \/ RecordCandidate \/ KnownCandidate \/ Resolve
  \/ RecordRound \/ BeginEffects \/ Act \/ CallTools \/ ToolsReturn \/ Assess
  \/ Complete \/ SettleTerminal \/ EndRun

Next ==
  \/ LoopStep \/ Interrupt \/ Cancel \/ NewRun \/ Crash \/ Recover \/ GiveUp
  \/ \E n \in Host : HostStep(n)

Spec == Init /\ [][Next]_vars

\* The event loop runs what can run, a restarted daemon recovers its running
\* checkpoint, and a request that was sent comes to an end.
Fairness ==
  /\ WF_vars(LoopStep) /\ WF_vars(Recover)
  /\ \A n \in Host : WF_vars(host[n] = "sent" /\ HostStep(n))

FairSpec == Spec /\ Fairness

-----------------------------------------------------------------------------
TypeOK ==
  /\ RequestTypeOK
  /\ run \in 1..MaxRuns /\ status \in {"running", "done"} \cup Failure
  /\ nextRound \in Round /\ settledUsage \in Nat
  /\ coordinate \in [id : RequestId, host : Host] \cup {None}
  /\ active \in ActiveRound \cup {None} /\ (active # None => active.round = nextRound)
  /\ resume \in RequestId \cup {None} /\ served \in Host \cup {None}
  /\ answer \in Answer \cup {Quiet, Interrupted, Lost}
  /\ history \subseteq Item /\ continuation \subseteq Item
  /\ transcript \in [Round -> {"none", "called", "resulted"}]
  /\ Journaled \subseteq Round
  /\ attempt \in 0..MaxRetries /\ reqAttempt \in 0..1
  /\ pc \in {"open", "started", "reopened", "prepared", "reading", "observed",
             "candidate", "journal", "recovered", "structured", "acting", "tools",
             "calling", "assess", "continue", "complete", "settle", "end",
             "ended", "down"}
  /\ failure \in Failure \cup {"none"}
  /\ effects \in [Round -> Nat] /\ totals \in Nat /\ crashes \in 0..MaxCrashes

\* At most one request of the thread is in doubt, and it is the one the
\* coordinate names: whatever crashes, no request is sent while an earlier one
\* may still be at work at the provider.
DoubtIsFenced ==
  \A n \in Host : InDoubt(n) => coordinate # None /\ coordinate.host = n

\* What the client is told of the usage is what is settled plus the answer
\* that is recorded and not settled yet: a recovery charges neither twice.
TotalsAgree == pc # "down" => totals = settledUsage + Unsettled

\* A request is not sent for a round whose answer is recorded.
AnsweredIsNotAsked ==
  [][\A n \in Host : host[n] = "idle" /\ host'[n] = "sent" => active.settlement = None]_vars

Stage == IF active = None THEN "open" ELSE
         IF Settlement = None THEN "open" ELSE
         IF Settlement.phase = "candidate" THEN "answered" ELSE
         IF Settlement.phase = "effects" THEN "acting" ELSE Settlement.disposition

Ledger == INSTANCE RoundLedger WITH
  round <- nextRound, stage <- Stage, acted <- effects[nextRound],
  charged <- settledUsage,
  outcome <- IF status \in Failure THEN "failed" ELSE status

\* The rounds keep the ledger: an answer is charged once, its effects are
\* begun before they happen and happen once, a settled round is never opened
\* again, and a run is done only on a settled final answer.
KeepsLedger == Ledger!Spec

\* Whatever the provider, the hosts and the crashes do, the run ends.
RunSettles == status = "running" ~> status # "running"

\* A window of tool calls that was committed before a restart does not end the
\* run: the loop goes on with the next round.
CommittedWindowResumes ==
  status = "conflict" /\ Committed => Settlement.answer.kind # "tools"
=============================================================================
