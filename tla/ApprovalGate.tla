---------------------------- MODULE ApprovalGate -----------------------------
(***************************************************************************)
(* Tool calls that need the user's approval: the gate where they wait      *)
(* (agent/runtime/approval-gate.ts), the grants an approval may leave      *)
(* behind (tools/approval-grants.ts), the durable record of every question *)
(* (sessions/run-checkpoint-store.ts), the loop and the callbacks of code  *)
(* cells that ask (agent/loop-tool-approval.ts), the clients that answer   *)
(* (adapter/web/ws/run-channel-control.ts), and the end, the recovery and  *)
(* the rebinding of the run they belong to.                                *)
(*                                                                         *)
(* One run.  Its loop makes its calls one after the other; callbacks come  *)
(* from code that runs beside the loop and may outlive the run.  The store *)
(* serves one mutation at a time in the order they were asked for; who     *)
(* asked resumes before the next one is served.                            *)
(***************************************************************************)
EXTENDS Integers, Sequences, SequencesExt

CONSTANTS Call,           \* the calls that may need approval
          Callback,       \* those made by code of a cell, beside the loop
          Destructive,    \* those shown to the user as destructive
          Client,         \* requests to decide, one each
          Answers,        \* the answers clients may give
          Run,            \* the end of the run, as a caller of the store
          MaxCrashes      \* bound: crashes of the daemon

AllAnswers == {"once", "run", "session", "full", "denied"}

ASSUME ApprovalGateAssumption ==
  /\ Callback \subseteq Call /\ Destructive \subseteq Call
  /\ Call \cap Client = {} /\ Run \notin Call \cup Client
  /\ Answers \subseteq AllAnswers /\ MaxCrashes \in Nat
  /\ IsFiniteSet(Call)

\* "full": approved once, and the run is to have full access from now on.
ScopeOf(a) == IF a = "full" THEN "once" ELSE a
Approving == {"once", "run", "session"}
Verdict == Approving \cup {"denied", "aborted"}
Session == {"daemon", "recovery"}
Level(c) == IF c \in Destructive THEN "destructive" ELSE "write"
Grant == [session : Session, scope : {"run", "session"},
          level : {"write", "destructive"}]
Caller == Call \cup Client \cup {Run}
NoResolved == [session |-> "none", verdict |-> "none", mode |-> "none"]
NoRequest == [call |-> Run, answer |-> "none", state |-> "idle"]
Served == [NoRequest EXCEPT !.state = "served"]

VARIABLES
  \* the checkpoint
  approval,     \* the question of each call
  status, savedMode,
  asked, reply, \* mutations not served yet, answers not consumed yet
  \* the gate: the entry of each call is there while pc is in Pending
  pc, session, entryMode, abortReq, forget,
  settling,     \* settleAbortDurably, and what it waits for
  resolved,     \* what became of a call, by resolvedApprovals
  grants,
  \* the run
  run, runStatus, cancelled, ends,
  cell,            \* code that may call back runs
  context, mode,   \* approvalContext of the tool runtime
  owner,           \* the session the end of the run clears
  bound,           \* a client's socket was bound to this run
  remade,          \* the loop's calls that the recovery makes
  request,         \* the clients' requests
  crashes,
  \* history
  heard,        \* the verdicts that were told
  ranBy         \* why a call was executed

durableVars == <<approval, status, savedMode>>
callVars == <<asked, reply>>
entryVars == <<session, entryMode, abortReq, forget, settling>>
gateVars == <<pc, entryVars, resolved, grants>>
runVars == <<run, runStatus, cancelled, ends, cell, context, mode, owner, bound,
             remade>>
historyVars == <<heard, ranBy>>
vars == <<durableVars, callVars, gateVars, runVars, request, crashes,
          historyVars>>

Init ==
  /\ approval = [c \in Call |-> "none"] /\ status = "running"
  /\ savedMode = "basic"
  /\ asked = <<>> /\ reply = [a \in Caller |-> "none"]
  /\ pc = [c \in Call |-> "idle"]
  /\ session = [c \in Call |-> "daemon"]
  /\ entryMode = [c \in Call |-> "basic"]
  /\ abortReq = [c \in Call |-> FALSE] /\ forget = [c \in Call |-> FALSE]
  /\ settling = [c \in Call |-> "no"]
  /\ resolved = [c \in Call |-> NoResolved] /\ grants = {}
  /\ run = "live" /\ runStatus = "running" /\ cancelled = FALSE
  /\ ends = "not" /\ cell = FALSE /\ context = "daemon" /\ mode = "basic"
  /\ owner = "daemon" /\ bound = TRUE /\ remade = {}
  /\ request = [k \in Client |-> NoRequest] /\ crashes = 0
  /\ heard = {} /\ ranBy = [c \in Call |-> "none"]

Pending(c) == pc[c] \in {"recording", "waiting"}

-----------------------------------------------------------------------------
\* The store.
Mutation(by, kind, c, answer) ==
  [by |-> by, kind |-> kind, call |-> c, answer |-> answer]
Ask(by, kind, c, answer) == asked' = Append(asked, Mutation(by, kind, c, answer))
Turn(kind) ==
  /\ asked # <<>> /\ Head(asked).kind = kind
  /\ \A a \in Caller : reply[a] = "none"
Answer(code) ==
  /\ asked' = Tail(asked) /\ reply' = [reply EXCEPT ![Head(asked).by] = code]
Only(code) == Answer(code) /\ UNCHANGED durableVars
Consumed(a) == reply' = [reply EXCEPT ![a] = "none"]
OutsideStore == <<gateVars, runVars, request, crashes, historyVars>>

\* The question is recorded once; who asks again gets what became of it.
RecordPending ==
  LET c == Head(asked).call IN
  /\ Turn("pending")
  /\ \/ status = "terminal" /\ Only("terminal")
     \/ status = "running" /\ approval[c] # "none" /\ Only(approval[c])
     \/ /\ status = "running" /\ approval[c] = "none"
        /\ \/ Only("error")
           \/ /\ Answer("pending")
              /\ approval' = [approval EXCEPT ![c] = "pending"]
              /\ UNCHANGED <<status, savedMode>>
  /\ UNCHANGED OutsideStore

\* Variant of MayDecide: the last decision wins.
MayDecideAgain(c) == approval[c] # "none"

MayDecide(c) == approval[c] = "pending"

\* Variant of Stored: the full answer is stored as its scope.
StoredAnswer(answer) == answer

Stored(answer) == ScopeOf(answer)

\* A decision that is already there is acknowledged again.
SameDecision(c, answer) ==
  /\ approval[c] = Stored(answer)
  /\ answer = "full" => savedMode = "full"

RecordDecision ==
  LET c == Head(asked).call
      answer == Head(asked).answer
  IN
  /\ Turn("decision")
  /\ \/ status = "terminal" /\ Only("terminal")
     \/ status = "running" /\ approval[c] = "none" /\ Only("not_pending")
     \/ /\ status = "running" /\ approval[c] # "none" /\ ~MayDecide(c)
        /\ Only(IF SameDecision(c, answer) THEN approval[c] ELSE "conflict")
     \/ /\ status = "running" /\ MayDecide(c)
        /\ \/ Only("error")
           \/ /\ Answer(Stored(answer))
              /\ approval' = [approval EXCEPT ![c] = Stored(answer)]
              /\ savedMode' = IF answer = "full" THEN "full" ELSE savedMode
              /\ UNCHANGED status
  /\ UNCHANGED OutsideStore

\* settleRun, which fails for many reasons.
SettleRun ==
  /\ Turn("settle")
  /\ \/ Only("error")
     \/ /\ status = "running" /\ Answer("ok")
        /\ status' = "terminal" /\ UNCHANGED <<approval, savedMode>>
  /\ UNCHANGED OutsideStore

Store == RecordPending \/ RecordDecision \/ SettleRun

-----------------------------------------------------------------------------
\* The gate.  resolveOnce: the entry goes, and the verdict is kept for the
\* clients that still ask unless the run's runtime was cleared.
ResolveOnce(c, v, m) ==
  /\ pc' = [pc EXCEPT ![c] = IF v \in Approving THEN "approved" ELSE v]
  /\ resolved' = [resolved EXCEPT ![c] =
       IF forget[c] THEN NoResolved
       ELSE [session |-> session[c], verdict |-> v, mode |-> m]]
  /\ heard' = heard \cup {<<c, v>>}

RejectOnce(c) ==
  pc' = [pc EXCEPT ![c] = "failed"] /\ UNCHANGED <<resolved, heard>>

\* registerApprovalGrant.
Registered(c, scope) ==
  IF scope = "once" THEN grants
  ELSE grants \cup {[session |-> session[c], scope |-> scope, level |-> Level(c)]}

SettleDurable(c, v) ==
  /\ ResolveOnce(c, v, IF v \in Approving THEN entryMode[c] ELSE "none")
  /\ grants' = IF v \in Approving /\ ~forget[c] THEN Registered(c, v) ELSE grants

\* The entries W are asked to abort: each that waits asks for the durable
\* decision at once, one that is being recorded does so afterwards.
RequestAbort(W, forgets) ==
  LET ready == {c \in W : pc[c] = "waiting" /\ settling[c] = "no"} IN
  /\ abortReq' = [c \in Call |-> abortReq[c] \/ c \in W]
  /\ forget' = [c \in Call |-> forget[c] \/ (forgets /\ c \in W)]
  /\ settling' = [c \in Call |-> IF c \in ready THEN "deciding" ELSE settling[c]]
  /\ \E order \in SetToSeqs(ready) :
       asked' = asked \o [i \in DOMAIN order |->
                            Mutation(order[i], "decision", order[i], "aborted")]

\* Variant of AbortedMeanwhile: an abort during the write of the question is
\* taken for settled.
AbortForgotten(c) == FALSE

AbortedMeanwhile(c) == abortReq[c]

\* waitForApproval, when recordApprovalPending resumes it: the question was
\* decided before, the wait was aborted meanwhile, or the user is asked.
Recorded(c) ==
  /\ pc[c] = "recording" /\ reply[c] # "none" /\ Consumed(c)
  /\ \/ /\ reply[c] \in Verdict
        /\ SettleDurable(c, reply[c])
        /\ UNCHANGED <<settling, asked>>
     \/ /\ reply[c] = "pending" /\ AbortedMeanwhile(c)
        /\ pc' = [pc EXCEPT ![c] = "waiting"]
        /\ settling' = [settling EXCEPT ![c] = "deciding"]
        /\ Ask(c, "decision", c, "aborted")
        /\ UNCHANGED <<resolved, grants, heard>>
     \/ /\ reply[c] = "pending" /\ ~AbortedMeanwhile(c)
        /\ pc' = [pc EXCEPT ![c] = "waiting"]
        /\ UNCHANGED <<settling, asked, resolved, grants, heard>>
     \/ /\ reply[c] = "terminal" /\ abortReq[c]
        /\ ResolveOnce(c, "aborted", "none")
        /\ UNCHANGED <<settling, asked, grants>>
     \/ /\ reply[c] = "error" \/ (reply[c] = "terminal" /\ ~abortReq[c])
        /\ RejectOnce(c)
        /\ UNCHANGED <<settling, asked, grants>>
  /\ UNCHANGED <<durableVars, session, entryMode, abortReq, forget, runVars,
                 request, crashes, ranBy>>

\* A decision was faster: read it back.
OnConflict(c) ==
  /\ Ask(c, "pending", c, "none")
  /\ settling' = [settling EXCEPT ![c] = "rereading"]
  /\ UNCHANGED <<pc, resolved, grants, heard>>

\* settleAbortDurably resumes; a client's decision may have settled the entry.
AbortSettled(c) ==
  /\ settling[c] \in {"deciding", "rereading"} /\ reply[c] # "none"
  /\ Consumed(c)
  /\ \/ /\ ~Pending(c)
        /\ settling' = [settling EXCEPT ![c] = "no"]
        /\ UNCHANGED <<asked, pc, resolved, grants, heard>>
     \/ /\ Pending(c) /\ reply[c] \in Verdict
        /\ SettleDurable(c, reply[c])
        /\ settling' = [settling EXCEPT ![c] = "no"] /\ UNCHANGED asked
     \/ /\ Pending(c) /\ reply[c] = "terminal"
        /\ ResolveOnce(c, "aborted", "none")
        /\ settling' = [settling EXCEPT ![c] = "no"] /\ UNCHANGED <<asked, grants>>
     \/ /\ Pending(c) /\ reply[c] = "conflict" /\ settling[c] = "deciding"
        /\ OnConflict(c)
     \/ /\ Pending(c) /\ reply[c] \in {"error", "not_pending", "pending"}
        /\ RejectOnce(c)
        /\ settling' = [settling EXCEPT ![c] = "no"] /\ UNCHANGED <<asked, grants>>
  /\ UNCHANGED <<durableVars, session, entryMode, abortReq, forget, runVars,
                 request, crashes, ranBy>>

-----------------------------------------------------------------------------
\* The clients.
\* hasApprovalDecisionAuthority; every client has the daemon's session.
Owns(c) ==
  IF Pending(c) THEN session[c] = "daemon" ELSE resolved[c].session = "daemon"

\* Variant of ReadResolved: that there is a verdict is taken for success.
ReadAnyVerdict(c, a, otherwise) ==
  IF resolved[c] = NoResolved THEN otherwise ELSE "resolved"

\* readResolvedResult, and what is said when nothing is kept.
ReadResolved(c, a, otherwise) ==
  IF resolved[c] = NoResolved THEN otherwise
  ELSE IF /\ resolved[c].verdict = ScopeOf(a)
          /\ a = "full" => resolved[c].mode = "full"
       THEN "resolved" ELSE "already"

\* The response; only an acknowledgement is remembered, in heard.
Told(k, c, a, what) ==
  /\ request' = [request EXCEPT ![k] = Served]
  /\ heard' = IF what = "resolved" THEN heard \cup {<<c, ScopeOf(a)>>} ELSE heard

\* handleRunApprove and resolveApproval up to the mutation, for a question
\* the client has seen.
Approve(k, c, a) ==
  /\ request[k].state = "idle" /\ approval[c] # "none"
  /\ \/ ~Owns(c) /\ Told(k, c, a, "refused") /\ UNCHANGED asked
     \/ /\ Owns(c) /\ Pending(c) /\ Ask(k, "decision", c, a)
        /\ request' = [request EXCEPT ![k] =
                         [call |-> c, answer |-> a, state |-> "asked"]]
        /\ UNCHANGED heard
     \/ /\ Owns(c) /\ ~Pending(c)
        /\ Told(k, c, a, ReadResolved(c, a, "not_found")) /\ UNCHANGED asked
  /\ UNCHANGED <<durableVars, reply, gateVars, runVars, crashes, ranBy>>

\* resolveApproval resumes with the durable decision: the entry may be gone.
Answered(k) ==
  LET c == request[k].call
      a == request[k].answer
  IN
  /\ request[k].state = "asked" /\ reply[k] # "none" /\ Consumed(k)
  /\ \/ /\ reply[k] = "conflict" /\ Told(k, c, a, "already")
        /\ UNCHANGED <<pc, resolved, grants, mode, entryMode>>
     \/ /\ reply[k] \in {"not_pending", "terminal"} /\ Told(k, c, a, "not_found")
        /\ UNCHANGED <<pc, resolved, grants, mode, entryMode>>
     \/ /\ reply[k] = "error" /\ Told(k, c, a, "error")
        /\ UNCHANGED <<pc, resolved, grants, mode, entryMode>>
     \/ /\ reply[k] \in Verdict /\ ~Pending(c)
        /\ Told(k, c, a, ReadResolved(c, a, "already"))
        /\ UNCHANGED <<pc, resolved, grants, mode, entryMode>>
     \/ /\ reply[k] \in Verdict /\ Pending(c)
        /\ request' = [request EXCEPT ![k] = Served]
        /\ mode' = IF a = "full" THEN "full" ELSE mode
        /\ entryMode' = IF a = "full" THEN [entryMode EXCEPT ![c] = "full"]
                        ELSE entryMode
        /\ grants' = IF a = "denied" THEN grants ELSE Registered(c, ScopeOf(a))
        /\ ResolveOnce(c, ScopeOf(a), IF a = "full" THEN "full" ELSE "none")
  /\ UNCHANGED <<durableVars, asked, session, abortReq, forget, settling, run,
                 runStatus, cancelled, ends, cell, context, owner, bound,
                 remade, crashes, ranBy>>

-----------------------------------------------------------------------------
\* The calls.
Active(c) == pc[c] \notin {"idle", "done"}

\* A call that was under way at the crash is made again before the others.
Replayed(c) == pc[c] = "idle" /\ (approval[c] # "none" \/ ranBy[c] # "none")

\* The recovery makes its calls without a look at the abort signal, the loop
\* none of its own before they are made.
MayStart(c) ==
  IF c \in Callback THEN cell
  ELSE /\ run = "live" /\ ends = "not"
       /\ c \notin remade => ~cancelled /\ \A d \in remade : pc[d] # "idle"
       /\ \A d \in Call \ (Callback \cup {c}) : ~Active(d) /\ ~Replayed(d)

\* Variant of Covers: a grant covers every level.
CoversAny(g, c) == g.session = context

\* hasApprovalGrant.
Covers(g, c) == g.session = context /\ g.level = Level(c)

\* executeResolvedFunctionCall, which a cancelled run refuses, and executeTool,
\* which does so when the signal of the call is aborted.
Execute(c, why) ==
  LET over == runStatus = "over" /\ ends = "aborted"
      refuses == over \/ cancelled \/ (abortReq[c] /\ ~forget[c])
  IN
  /\ pc' = [pc EXCEPT ![c] = IF refuses THEN "done" ELSE "executing"]
  /\ ranBy' = IF refuses THEN ranBy ELSE [ranBy EXCEPT ![c] = why]
  /\ cell' = (cell \/ (~refuses /\ c \notin Callback))
  /\ runStatus' = IF ~over /\ runStatus = "approval_pending"
                  THEN "running" ELSE runStatus

CallFrame == <<durableVars, reply, resolved, grants, run, cancelled, context,
               mode, owner, bound, remade, request, crashes, heard>>

\* resolveToolApprovalState: run at once by a grant or by full access, or
\* collect the targets to show (an await) and then ask.
Check(c) ==
  LET byGrant == \E g \in grants : Covers(g, c) IN
  /\ pc[c] = "idle" /\ MayStart(c)
  /\ \/ byGrant /\ Execute(c, "grant")
     \/ ~byGrant /\ mode = "full" /\ Execute(c, "mode")
     \/ /\ ~byGrant /\ mode # "full"
        /\ pc' = [pc EXCEPT ![c] = "preflight"]
        /\ UNCHANGED <<ranBy, runStatus, cell>>
  /\ UNCHANGED <<CallFrame, asked, entryVars, ends>>

\* waitForApproval up to the recording of the question.  A callback is not
\* made to wait once its run is over.
Wait(c) ==
  /\ pc[c] = "preflight"
  /\ \/ /\ c \in Callback /\ runStatus = "over"
        /\ pc' = [pc EXCEPT ![c] = "done"]
        /\ UNCHANGED <<asked, entryVars, runStatus>>
     \/ /\ c \notin Callback \/ runStatus # "over"
        /\ pc' = [pc EXCEPT ![c] = "recording"]
        /\ session' = [session EXCEPT ![c] = context]
        /\ entryMode' = [entryMode EXCEPT ![c] = mode]
        /\ abortReq' = [abortReq EXCEPT ![c] = cancelled]
        /\ forget' = [forget EXCEPT ![c] = FALSE]
        /\ runStatus' = IF c \in Callback THEN runStatus ELSE "approval_pending"
        /\ Ask(c, "pending", c, "none") /\ UNCHANGED settling
  /\ UNCHANGED <<CallFrame, ends, cell, ranBy>>

\* The call was approved: run it, unless what it is to change is not what the
\* user was shown any more.
Revalidate(c) ==
  /\ pc[c] = "approved"
  /\ \/ Execute(c, "approval")
     \/ /\ pc' = [pc EXCEPT ![c] = "done"]
        /\ UNCHANGED <<ranBy, runStatus, cell>>
  /\ UNCHANGED <<CallFrame, asked, entryVars, ends>>

\* Any other verdict ends the run when a call of the loop gets it; code only
\* sees it, and the recovery writes it down as the result.
GivesUp(c) ==
  /\ pc[c] \in {"denied", "aborted", "failed"}
  /\ pc' = [pc EXCEPT ![c] = "done"]
  /\ ends' = IF c \in Callback \/ (c \in remade /\ pc[c] # "failed") THEN ends
             ELSE CASE pc[c] = "denied" -> "failed"
                    [] pc[c] = "aborted" -> "aborted"
                    [] pc[c] = "failed" -> "thrown"
  /\ UNCHANGED <<CallFrame, asked, entryVars, runStatus, cell, ranBy>>

Finish(c) ==
  /\ pc[c] = "executing"
  /\ pc' = [pc EXCEPT ![c] = "done"]
  /\ UNCHANGED <<CallFrame, asked, entryVars, runStatus, ends, cell, ranBy>>

-----------------------------------------------------------------------------
\* The run.
RunFrame == <<durableVars, reply, pc, session, entryMode, request, crashes,
              heard, ranBy>>

\* The abort signal of the run, and of the code that makes one callback.
Cancel ==
  /\ run \in {"live", "ending", "settling"} /\ ~cancelled
  /\ cancelled' = TRUE
  /\ RequestAbort({c \in Call : Pending(c)}, FALSE)
  /\ UNCHANGED <<RunFrame, resolved, grants, run, runStatus, ends, cell, context,
                 mode, owner, bound, remade>>

CallbackStops(c) ==
  /\ c \in Callback /\ Pending(c) /\ ~abortReq[c]
  /\ RequestAbort({c}, FALSE)
  /\ UNCHANGED <<RunFrame, resolved, grants, runVars>>

\* The loop is done.  completeRun throws when the status is still the one of
\* a call that waits for approval; so does a call that was rejected.
EndRun ==
  /\ run = "live"
  /\ \A c \in Call \ Callback :
       ~Active(c) /\ (ends = "not" => ~Replayed(c) /\ (c \in remade => pc[c] # "idle"))
  /\ run' = "ending"
  /\ \/ /\ ends \in {"failed", "aborted"} /\ ends' = ends /\ runStatus' = "over"
     \/ ends = "thrown" /\ UNCHANGED <<ends, runStatus>>
     \/ /\ ends = "not" /\ cancelled /\ ends' = "aborted" /\ runStatus' = "over"
     \/ /\ ends = "not" /\ ~cancelled /\ runStatus = "running"
        /\ ends' = "completed" /\ runStatus' = "over"
     \/ /\ ends = "not" /\ ~cancelled /\ runStatus = "approval_pending"
        /\ ends' = "rejected" /\ UNCHANGED runStatus
  /\ UNCHANGED <<RunFrame, asked, abortReq, forget, settling, resolved, grants,
                 cancelled, cell, context, mode, owner, bound,
                 remade>>

AskSettle ==
  /\ run = "ending" /\ run' = "settling"
  /\ Ask(Run, "settle", Run, "none")
  /\ UNCHANGED <<RunFrame, abortReq, forget, settling, resolved, grants,
                 runStatus, cancelled, ends, cell, context, mode, owner, bound,
                 remade>>

Settled ==
  /\ run = "settling" /\ reply[Run] # "none" /\ Consumed(Run)
  /\ run' = IF reply[Run] = "ok" THEN "settled" ELSE "stuck"
  /\ UNCHANGED <<durableVars, asked, gateVars, runStatus, cancelled, ends, cell,
                 context, mode, owner, bound, remade, request, crashes,
                 historyVars>>

\* Variant of Cleared: the waits are told to abort, the rest is kept.
ClearedWaitsOnly ==
  /\ RequestAbort({c \in Call : Pending(c) /\ session[c] = owner}, TRUE)
  /\ UNCHANGED <<resolved, grants>>

\* clearRunRuntime.
Cleared ==
  /\ RequestAbort({c \in Call : Pending(c) /\ session[c] = owner}, TRUE)
  /\ resolved' = [c \in Call |-> IF resolved[c].session = owner THEN NoResolved
                                 ELSE resolved[c]]
  /\ grants' = {g \in grants : g.session # owner \/ g.scope # "run"}

\* onTerminalSettled.
ClearRun ==
  /\ run = "settled" /\ run' = "cleared" /\ Cleared
  /\ UNCHANGED <<RunFrame, runStatus, cancelled, ends, cell, context, mode,
                 owner, bound, remade>>

\* bindSocketRuns: what the run asks now goes over to the client's session,
\* and with it the grants of the run; nothing does when nothing is asked.
Bind ==
  LET moved == {c \in Call : Pending(c) /\ session[c] # "daemon"} IN
  /\ run \in {"live", "ending", "settling"}
  /\ bound' = TRUE
  /\ session' = [c \in Call |-> IF c \in moved THEN "daemon" ELSE session[c]]
  /\ context' = IF moved = {} THEN context ELSE "daemon"
  /\ grants' = {IF moved # {} /\ g.scope = "run" THEN [g EXCEPT !.session = "daemon"]
                ELSE g : g \in grants}
  /\ UNCHANGED <<durableVars, callVars, pc, entryMode, abortReq, forget, settling,
                 resolved, run, runStatus, cancelled, ends, cell, mode, owner,
                 remade, request, crashes, historyVars>>

\* The daemon dies and its successor recovers the run.  A call of the round
\* without a recorded result is made, or made again, or gets an error instead;
\* the code of a cell is gone.
Crash ==
  /\ crashes < MaxCrashes /\ crashes' = crashes + 1 /\ status = "running"
  /\ asked' = <<>> /\ reply' = [a \in Caller |-> "none"]
  /\ remade' \in SUBSET {c \in Call \ Callback : pc[c] # "done"}
  /\ pc' = [c \in Call |-> IF Active(c) /\ c \in remade' THEN "idle"
                           ELSE IF Active(c) THEN "done" ELSE pc[c]]
  /\ session' = [c \in Call |-> "daemon"]
  /\ entryMode' = [c \in Call |-> "basic"]
  /\ abortReq' = [c \in Call |-> FALSE] /\ forget' = [c \in Call |-> FALSE]
  /\ settling' = [c \in Call |-> "no"]
  /\ resolved' = [c \in Call |-> NoResolved] /\ grants' = {}
  /\ run' = "live" /\ runStatus' = "running" /\ cancelled' = FALSE
  /\ ends' = "not" /\ cell' = FALSE
  /\ context' = "recovery" /\ owner' = "recovery" /\ mode' = savedMode
  /\ bound' = FALSE
  /\ request' = [k \in Client |-> IF request[k].state = "asked"
                                  THEN Served ELSE request[k]]
  /\ UNCHANGED <<durableVars, historyVars>>

Resume ==
  \/ \E c \in Call : Recorded(c) \/ AbortSettled(c)
  \/ \E k \in Client : Answered(k)
  \/ Settled

Next ==
  \/ Store \/ Resume
  \/ \E k \in Client, c \in Call, a \in Answers : Approve(k, c, a)
  \/ \E c \in Call : \/ Check(c) \/ Wait(c) \/ Revalidate(c) \/ GivesUp(c)
                     \/ Finish(c) \/ CallbackStops(c)
  \/ Cancel \/ EndRun \/ AskSettle \/ ClearRun \/ Bind \/ Crash

\* The store serves what is asked, who was answered goes on, and the end of
\* a run clears its runtime.
Fairness == WF_vars(Store) /\ WF_vars(Resume) /\ WF_vars(ClearRun)

Spec == Init /\ [][Next]_vars /\ Fairness

-----------------------------------------------------------------------------
\* Types.
TypeOK ==
  /\ approval \in [Call -> Verdict \cup {"none", "pending"}]
  /\ status \in {"running", "terminal"} /\ savedMode \in {"basic", "full"}
  /\ asked \in Seq([by : Caller, kind : {"pending", "decision", "settle"},
                    call : Call \cup {Run},
                    answer : AllAnswers \cup {"aborted", "none"}])
  /\ reply \in [Caller -> Verdict \cup {"none", "pending", "terminal", "conflict",
                                        "not_pending", "error", "ok"}]
  /\ pc \in [Call -> {"idle", "preflight", "recording", "waiting", "approved",
                      "denied", "aborted", "failed", "executing", "done"}]
  /\ session \in [Call -> Session] /\ entryMode \in [Call -> {"basic", "full"}]
  /\ abortReq \in [Call -> BOOLEAN] /\ forget \in [Call -> BOOLEAN]
  /\ settling \in [Call -> {"no", "deciding", "rereading"}]
  /\ resolved \in [Call -> [session : Session, verdict : Verdict,
                            mode : {"none", "basic", "full"}] \cup {NoResolved}]
  /\ grants \subseteq Grant
  /\ run \in {"live", "ending", "settling", "settled", "stuck", "cleared"}
  /\ runStatus \in {"running", "approval_pending", "over"}
  /\ ends \in {"not", "failed", "aborted", "thrown", "completed", "rejected"}
  /\ cancelled \in BOOLEAN /\ cell \in BOOLEAN /\ bound \in BOOLEAN
  /\ context \in Session /\ owner \in Session /\ mode \in {"basic", "full"}
  /\ request \in [Client -> [call : Call, answer : AllAnswers, state : {"asked"}]
                            \cup {NoRequest, Served}]
  /\ crashes \in 0..MaxCrashes /\ remade \subseteq Call \ Callback
  /\ heard \subseteq Call \X Verdict
  /\ ranBy \in [Call -> {"none", "approval", "grant", "mode"}]

\* Nothing runs without the user's consent on record (loop-tool-approval.ts):
\* its own approval, or one of the same side-effect level with a scope beyond
\* the call, or full access - also after a restart, when the grants that live
\* in memory are gone.
ConsentBehindExecution ==
  \A c \in Call :
    /\ ranBy[c] = "approval" => approval[c] \in Approving
    /\ ranBy[c] = "grant" =>
         \E d \in Call : Level(d) = Level(c) /\ approval[d] \in {"run", "session"}
    /\ ranBy[c] = "mode" => savedMode = "full"

\* What the user has denied is not run afterwards, in this life of the daemon or
\* the next, unless the run has full access by then.
DeniedStaysUndone ==
  [][\A c \in Call :
       /\ pc[c] # "executing" /\ pc'[c] = "executing"
       /\ approval[c] = "denied" \/ <<c, "denied">> \in heard
       => ranBy'[c] = "mode"]_vars

\* When a run that was not recovered has ended (onTerminalSettled), every
\* question it left is being aborted and will be forgotten, no user's verdict
\* is kept to answer clients with, and no grant of the run is left - whatever
\* was on its way.
EndLeavesNothing ==
  run = "cleared" /\ owner = "daemon" =>
    /\ \A c \in Call : pc[c] = "waiting" => abortReq[c] /\ forget[c]
    /\ \A c \in Call : resolved[c].verdict \in {"none", "aborted"}
    /\ \A g \in grants : g.scope = "session"

\* A wait that is asked to abort does not wait for ever: a decision, the end
\* of the run or an error settles it, whoever was faster.
AbortSettles ==
  \A c \in Call : (Pending(c) /\ abortReq[c]) ~> ~Pending(c)

\* The verdicts: a decision on record, or the end of the run.
Outcome(c) ==
  IF approval[c] \in Verdict THEN approval[c]
  ELSE IF status = "terminal" THEN "aborted" ELSE "open"

Promise == INSTANCE ApprovalVerdict
             WITH verdict <- [c \in Call |-> Outcome(c)], Aborted <- "aborted"

\* The gate keeps that promise (ApprovalVerdict): two clients, an abort and
\* the end of the run race for one question, and nobody is told a verdict
\* that is not the recorded one, or that changes later.
KeepsPromise == Promise!Spec

\* run-channel-socket.test.ts:931-932: a client that comes back must be able to
\* decide as it is.
BoundClientMayDecide ==
  \A c \in Call : bound /\ pc[c] = "waiting" /\ ~abortReq[c] => Owns(c)
==============================================================================
