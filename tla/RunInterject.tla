---------------------------- MODULE RunInterject -----------------------------
(***************************************************************************)
(* Messages a user slips into a running run (interjects): the handlers of  *)
(* adapter/web/ws/run-channel-control.ts, the run's buffer                 *)
(* (sessions/active-run-interject-buffer.ts), its durable copy in the run  *)
(* checkpoint (sessions/run-checkpoint-store.ts), the loop that applies    *)
(* one message per round (agent/loop-interject.ts), the end of the run     *)
(* (run-completion-policy.ts, run-execution-lifecycle.ts) and its recovery *)
(* (durable-run-execution.ts).                                             *)
(*                                                                         *)
(* Mutations of the checkpoint are served one at a time in the order they  *)
(* were asked for (runMutationSerial); the caller resumes in a later step  *)
(* with the answer.  Messages have distinct texts.                         *)
(***************************************************************************)
EXTENDS Integers, Sequences, SequencesExt

CONSTANTS Message,
          Loop,            \* the executor, as a caller of the store
          MaxRecoveries    \* bound: recoveries of the run

ASSUME RunInterjectAssumption == MaxRecoveries \in Nat /\ Loop \notin Message

Caller == Message \cup {Loop}
Item == [seq : Nat, msg : Message]
NoItem == [seq |-> 0, msg |-> Loop]
NoListing == [seq |-> -1, queue |-> <<>>]

VARIABLES
  \* the active run: its buffer and how far the loop has come
  items, received,   \* buffer.items and buffer.seq
  accepting, flushRequested,
  undelivered,       \* undeliveredFlushInterrupts has the buffer
  aborted,
  pc, cur,           \* the loop, and the message it is applying
  outcome,           \* the terminal event the run is heading for
  \* the checkpoint and the transcript
  status, interjectSeq, applying, pending, transcript,
  \* the store's queue of mutations, and the answers not consumed yet
  asked, reply,
  \* the client's side of each message
  told, mine,
  \* recovery
  listed, recoveries,
  \* history
  entered,           \* messages the checkpoint ever took
  drifted            \* a write failed, or a recovery started from a listing
                     \* the checkpoint, or the buffer, had gone past

bufferVars == <<items, received, accepting, flushRequested, undelivered>>
loopVars == <<pc, cur, outcome>>
durableVars == <<status, interjectSeq, applying, pending, transcript, entered>>
callVars == <<asked, reply>>
clientVars == <<told, mine>>
recoveryVars == <<listed, recoveries>>
vars == <<bufferVars, aborted, loopVars, durableVars, callVars, clientVars,
          recoveryVars, drifted>>

\* What the checkpoint still has to give, the message being applied first.
Queue == (IF applying = NoItem THEN <<>> ELSE <<applying>>) \o pending
Without(q, n) == RemoveFirstMatch(q, LAMBDA i : i.seq = n)
Executing == pc # "off"

Init ==
  /\ items = <<>> /\ received = 0 /\ accepting = TRUE
  /\ flushRequested = FALSE /\ undelivered = FALSE /\ aborted = FALSE
  /\ pc = "top" /\ cur = NoItem /\ outcome = "none"
  /\ status = "running" /\ interjectSeq = 0 /\ applying = NoItem
  /\ pending = <<>> /\ transcript = <<>>
  /\ asked = <<>> /\ reply = [c \in Caller |-> "none"]
  /\ told = [m \in Message |-> "nothing"] /\ mine = [m \in Message |-> 0]
  /\ listed = NoListing /\ recoveries = 0
  /\ entered = {} /\ drifted = FALSE

-----------------------------------------------------------------------------
\* The store.  Ask queues a mutation; Answer serves the head of the queue.  A
\* mutation begins with the read of a file, so that whoever got the answer
\* before has gone on by then.
Ask(c, kind, item) ==
  asked' = Append(asked, [by |-> c, kind |-> kind, item |-> item])
Turn(kind) ==
  /\ asked # <<>> /\ Head(asked).kind = kind
  /\ \A c \in Caller : reply[c] = "none"
Answer(code) ==
  /\ asked' = Tail(asked)
  /\ reply' = [reply EXCEPT ![Head(asked).by] = code]
Consumed(c) == reply' = [reply EXCEPT ![c] = "none"]

OutsideStore == <<bufferVars, aborted, loopVars, clientVars, recoveryVars>>

\* The write of the file fails and the mutation throws.
WriteFails == Answer("error") /\ drifted' = TRUE /\ UNCHANGED durableVars
\* Nothing to write.
Only(code) == Answer(code) /\ UNCHANGED <<durableVars, drifted>>

Known(n) == \E item \in ToSet(Queue) : item.seq = n

TakesNext(n) == n = interjectSeq + 1

\* Variant of Taken: the count stays behind.
TakenUncounted(item) ==
  /\ pending' = Append(pending, item) /\ UNCHANGED interjectSeq

Taken(item) ==
  /\ pending' = Append(pending, item) /\ interjectSeq' = item.seq

EnqueueInterject ==
  LET item == Head(asked).item IN
  /\ Turn("enqueue")
  /\ \/ status # "running" /\ Only("terminal")
     \/ status = "running" /\ Contains(Queue, item) /\ Only("ok")
     \/ /\ status = "running" /\ ~Contains(Queue, item)
        /\ \/ Known(item.seq)
           \/ item.seq > interjectSeq /\ ~TakesNext(item.seq)
        /\ Only("conflict")
     \/ /\ status = "running" /\ ~Known(item.seq)
        /\ item.seq <= interjectSeq /\ Only("not_pending")
     \/ /\ status = "running" /\ ~Known(item.seq) /\ TakesNext(item.seq)
        /\ \/ WriteFails
           \/ /\ Answer("ok")
              /\ Taken(item)
              /\ entered' = entered \cup {item.msg}
              /\ UNCHANGED <<status, applying, transcript, drifted>>
  /\ UNCHANGED OutsideStore

ClaimInterject ==
  LET item == Head(asked).item
      isNext == pending # <<>> /\ Head(pending).seq = item.seq
      waits == \E i \in DOMAIN pending : pending[i].seq = item.seq
  IN
  /\ Turn("claim")
  /\ \/ status # "running" /\ Only("terminal")
     \/ /\ status = "running" /\ applying # NoItem
        /\ Only(IF applying.seq = item.seq THEN "ok" ELSE "busy")
     \/ /\ status = "running" /\ applying = NoItem /\ ~isNext
        /\ Only(IF waits THEN "busy" ELSE "not_pending")
     \/ /\ status = "running" /\ applying = NoItem /\ isNext
        /\ \/ WriteFails
           \/ /\ Answer("ok")
              /\ applying' = Head(pending) /\ pending' = Tail(pending)
              /\ UNCHANGED <<status, interjectSeq, transcript, entered,
                             drifted>>
  /\ UNCHANGED OutsideStore

CompleteInterject ==
  LET item == Head(asked).item IN
  /\ Turn("complete")
  /\ \/ status # "running" /\ Only("terminal")
     \/ status = "running" /\ applying = NoItem /\ Only("not_pending")
     \/ /\ status = "running" /\ applying # NoItem /\ applying.seq # item.seq
        /\ Only("busy")
     \/ /\ status = "running" /\ applying # NoItem /\ applying.seq = item.seq
        /\ \/ WriteFails
           \/ /\ Answer("ok")
              /\ applying' = NoItem
              /\ UNCHANGED <<status, interjectSeq, pending, transcript,
                             entered, drifted>>
  /\ UNCHANGED OutsideStore

\* Variant of Cancellable: what the loop has claimed can still be withdrawn.
CancellableWhileApplied(n) == Known(n)

\* A message the loop has claimed is not pending any more.
Cancellable(n) == \E i \in DOMAIN pending : pending[i].seq = n

CancelInterject ==
  LET n == Head(asked).item.seq IN
  /\ Turn("cancel")
  /\ \/ status # "running" /\ Only("terminal")
     \/ status = "running" /\ ~Cancellable(n) /\ Only("unchanged")
     \/ /\ status = "running" /\ Cancellable(n)
        /\ \/ WriteFails
           \/ /\ Answer("ok")
              /\ pending' = Without(pending, n)
              /\ applying' = IF applying.seq = n THEN NoItem ELSE applying
              /\ UNCHANGED <<status, interjectSeq, transcript, entered,
                             drifted>>
  /\ UNCHANGED OutsideStore

\* Only the terminal of an aborted run may drop what waits.  settleRun throws
\* for other reasons too (ready tool results, invocations, the write).
Settleable(kind) == kind = "discard" \/ Queue = <<>>

SettleRun ==
  /\ Turn("settle") \/ Turn("discard")
  /\ \/ Only("error")
     \/ /\ status = "running" /\ Settleable(Head(asked).kind)
        /\ Answer("ok")
        /\ status' = IF Head(asked).kind = "discard" THEN "aborted" ELSE "settled"
        /\ applying' = NoItem /\ pending' = <<>>
        /\ UNCHANGED <<interjectSeq, transcript, entered, drifted>>
  /\ UNCHANGED OutsideStore

\* claimActiveModelRound, as far as the order of the mutations goes.
ClaimModelRound ==
  /\ Turn("round")
  /\ \/ Only(IF status # "running" THEN "terminal" ELSE "ok")
     \/ status = "running" /\ Only("error")
  /\ UNCHANGED OutsideStore

Store == \/ EnqueueInterject \/ ClaimInterject \/ CompleteInterject
         \/ CancelInterject \/ SettleRun \/ ClaimModelRound

-----------------------------------------------------------------------------
\* The buffer.  Taking its last message out also takes back a flush request.
\* Variant of Withdrawn: the flush request outlives the queue.
WithdrawnOnly(n) ==
  /\ items' = Without(items, n)
  /\ UNCHANGED <<received, accepting, flushRequested, undelivered>>

Withdrawn(n) ==
  /\ items' = Without(items, n)
  /\ flushRequested' = (flushRequested /\ items' # <<>>)
  /\ undelivered' = (undelivered /\ items' # <<>>)
  /\ UNCHANGED <<received, accepting>>

\* activeRuns.cancelPendingInterject looks the run up by its id.
CancelPending(n) ==
  IF Executing /\ ~aborted THEN Withdrawn(n) ELSE UNCHANGED bufferVars

-----------------------------------------------------------------------------
\* handleRunInterject: buffer the message, then ask for the durable copy.
Interject(m) ==
  LET item == [seq |-> received + 1, msg |-> m] IN
  /\ told[m] = "nothing" /\ Executing /\ ~aborted /\ accepting
  /\ items' = Append(items, item) /\ received' = received + 1
  /\ Ask(m, "enqueue", item)
  /\ told' = [told EXCEPT ![m] = "sending"]
  /\ mine' = [mine EXCEPT ![m] = item.seq]
  /\ UNCHANGED <<accepting, flushRequested, undelivered, aborted, loopVars,
                 durableVars, reply, recoveryVars, drifted>>

\* The store's answer: accepted, taken back, or - when the write threw - left
\* in the buffer with an error to the client.
InterjectAnswered(m) ==
  /\ told[m] = "sending" /\ reply[m] # "none"
  /\ Consumed(m)
  /\ \/ /\ reply[m] = "ok"
        /\ told' = [told EXCEPT ![m] = "accepted"]
        /\ UNCHANGED bufferVars
     \/ /\ reply[m] \in {"conflict", "not_pending", "terminal"}
        /\ told' = [told EXCEPT ![m] = "refused"]
        /\ CancelPending(mine[m])
     \/ /\ reply[m] = "error"
        /\ told' = [told EXCEPT ![m] = "unsure"]
        /\ UNCHANGED bufferVars
  /\ UNCHANGED <<aborted, loopVars, durableVars, asked, mine, recoveryVars,
                 drifted>>

\* handleRunInterjectCancel: the durable copy first, then the buffer.
Cancel(m) ==
  /\ told[m] = "accepted" /\ Executing /\ ~aborted
  /\ Ask(m, "cancel", [seq |-> mine[m], msg |-> m])
  /\ told' = [told EXCEPT ![m] = "cancelling"]
  /\ UNCHANGED <<bufferVars, aborted, loopVars, durableVars, reply, mine,
                 recoveryVars, drifted>>

CancelAnswered(m) ==
  /\ told[m] = "cancelling" /\ reply[m] # "none"
  /\ Consumed(m)
  /\ \/ /\ reply[m] = "ok"
        /\ told' = [told EXCEPT ![m] = "cancelled"]
        /\ CancelPending(mine[m])
     \/ /\ reply[m] # "ok"
        /\ told' = [told EXCEPT ![m] = "kept"]
        /\ UNCHANGED bufferVars
  /\ UNCHANGED <<aborted, loopVars, durableVars, asked, mine, recoveryVars,
                 drifted>>

\* handleRunInterjectFlush: the interrupt goes to the model round that
\* listens, or is kept for the next one.
Flush ==
  /\ Executing /\ ~aborted /\ items # <<>> /\ ~flushRequested
  /\ flushRequested' = TRUE /\ undelivered' = (pc # "model")
  /\ UNCHANGED <<items, received, accepting, aborted, loopVars, durableVars,
                 callVars, clientVars, recoveryVars, drifted>>

\* handleRunCancel.
Abort ==
  /\ Executing /\ ~aborted
  /\ aborted' = TRUE
  /\ UNCHANGED <<bufferVars, loopVars, durableVars, callVars, clientVars,
                 recoveryVars, drifted>>

-----------------------------------------------------------------------------
\* The loop.  Goes: the next step is p; no await in between.
Goes(p) == pc' = p /\ UNCHANGED <<cur, outcome>>
Ends(how) == pc' = "ending" /\ outcome' = how /\ UNCHANGED cur
Throws == pc' = "failed" /\ outcome' = "error" /\ UNCHANGED cur
Elsewhere == <<aborted, durableVars, clientVars, recoveryVars, drifted>>

\* The model round begins to listen, and gets the interrupt kept for it.
ModelListens == Goes("model") /\ undelivered' = FALSE

\* beforeModelRound: apply the first message of the buffer, if there is one.
RoundStarts ==
  /\ pc = "top"
  /\ \/ /\ aborted /\ Ends("aborted") /\ accepting' = FALSE
        /\ UNCHANGED <<items, received, flushRequested, undelivered, callVars>>
     \/ /\ ~aborted /\ items # <<>>
        /\ pc' = "enqueue" /\ cur' = Head(items)
        /\ Ask(Loop, "enqueue", Head(items))
        /\ UNCHANGED <<bufferVars, outcome, reply>>
     \/ /\ ~aborted /\ items = <<>>
        /\ ModelListens
        /\ UNCHANGED <<items, received, accepting, flushRequested, callVars>>
  /\ UNCHANGED Elsewhere

\* enqueueInterject and claimInterject resume: the message was cancelled in
\* between, or the loop throws on any other refusal.
Enqueued ==
  /\ pc = "enqueue" /\ reply[Loop] # "none"
  /\ Consumed(Loop)
  /\ \/ /\ reply[Loop] = "ok"
        /\ Ask(Loop, "claim", cur) /\ Goes("claim")
        /\ UNCHANGED bufferVars
     \/ /\ reply[Loop] = "not_pending"
        /\ Withdrawn(cur.seq) /\ Goes("applied") /\ UNCHANGED asked
     \/ /\ reply[Loop] \notin {"ok", "not_pending"}
        /\ Throws /\ UNCHANGED <<bufferVars, asked>>
  /\ UNCHANGED Elsewhere

Claimed ==
  /\ pc = "claim" /\ reply[Loop] # "none"
  /\ Consumed(Loop)
  /\ \/ reply[Loop] = "ok" /\ Goes("append") /\ UNCHANGED bufferVars
     \/ /\ reply[Loop] = "not_pending"
        /\ Withdrawn(cur.seq) /\ Goes("applied")
     \/ /\ reply[Loop] \notin {"ok", "not_pending"}
        /\ Throws /\ UNCHANGED bufferVars
  /\ UNCHANGED <<asked, Elsewhere>>

\* Variant of AppendTranscript: the transcript is not searched first.
AppendBlindly ==
  /\ pc = "append"
  /\ transcript' = Append(transcript, cur)
  /\ Ask(Loop, "complete", cur) /\ Goes("complete")
  /\ UNCHANGED <<bufferVars, aborted, status, interjectSeq, applying, pending,
                 entered, reply, clientVars, recoveryVars, drifted>>

\* persistSingleInterjectToTranscript: an entry that is there already, from
\* before a crash, is not appended again.
AppendTranscript ==
  /\ pc = "append"
  /\ transcript' = IF \E i \in DOMAIN transcript : transcript[i].seq = cur.seq
                   THEN transcript ELSE Append(transcript, cur)
  /\ Ask(Loop, "complete", cur) /\ Goes("complete")
  /\ UNCHANGED <<bufferVars, aborted, status, interjectSeq, applying, pending,
                 entered, reply, clientVars, recoveryVars, drifted>>

Completed ==
  /\ pc = "complete" /\ reply[Loop] # "none"
  /\ Consumed(Loop)
  /\ IF reply[Loop] = "ok" /\ \E i \in DOMAIN items : items[i].seq = cur.seq
     THEN /\ items' = Without(items, cur.seq)
          /\ flushRequested' = FALSE /\ undelivered' = FALSE
          /\ Goes("applied") /\ UNCHANGED <<received, accepting>>
     ELSE Throws /\ UNCHANGED bufferVars
  /\ UNCHANGED <<asked, Elsewhere>>

RoundGoesOn ==
  /\ pc = "applied"
  /\ ModelListens
  /\ UNCHANGED <<items, received, accepting, flushRequested, callVars,
                 Elsewhere>>

\* The model round ends: with tool calls, which may take long and do not
\* listen, with a result, or with a failure.
ToolCalls ==
  /\ pc = "model" /\ Goes("tools")
  /\ UNCHANGED <<bufferVars, callVars, Elsewhere>>

ToolsDone ==
  /\ pc = "tools"
  /\ Goes("top")
  /\ UNCHANGED <<bufferVars, callVars, Elsewhere>>

\* Variant of MayFinish: what waits in the buffer does not keep the loop open.
FinishesAnyway == TRUE

MayFinish == items = <<>>

\* resolveTerminalCandidate: the buffer is closed in the step that finds it
\* empty, whatever was awaited before.
ResultResolved ==
  /\ pc \in {"model", "tools"}
  /\ \/ ~MayFinish /\ Goes("top") /\ UNCHANGED accepting
     \/ MayFinish /\ Ends("done") /\ accepting' = FALSE
  /\ UNCHANGED <<items, received, flushRequested, undelivered, callVars,
                 Elsewhere>>

RoundFails ==
  /\ pc \in {"model", "tools"}
  /\ Ends(IF aborted THEN "aborted" ELSE "error")
  /\ accepting' \in {accepting, FALSE}
  /\ UNCHANGED <<items, received, flushRequested, undelivered, callVars,
                 Elsewhere>>

\* Anything on the way may throw; the buffer stays open.
LoopThrows ==
  /\ pc \in {"top", "append", "applied", "model", "tools", "ending", "settle"}
  /\ Throws
  /\ UNCHANGED <<bufferVars, callVars, Elsewhere>>

-----------------------------------------------------------------------------
\* The kernel's settleTerminal closes the buffer.
BufferCloses ==
  /\ pc = "ending"
  /\ accepting' = FALSE /\ Goes("settle")
  /\ UNCHANGED <<items, received, flushRequested, undelivered, callVars,
                 Elsewhere>>

\* The run is over in this daemon: the active run and its buffer are dropped.
Leaves ==
  /\ pc' = "off" /\ cur' = NoItem /\ outcome' = "none"
  /\ items' = <<>> /\ received' = 0 /\ accepting' = FALSE
  /\ flushRequested' = FALSE /\ undelivered' = FALSE /\ aborted' = FALSE

\* The lifecycle's settleTerminal reads the checkpoint, then asks for the
\* terminal; settleFailure leaves a checkpoint with waiting messages running.
AskToSettle(p) ==
  /\ Ask(Loop, IF outcome = "aborted" THEN "discard" ELSE "settle", NoItem)
  /\ Goes(p)

SettleTerminal ==
  /\ pc = "settle"
  /\ IF Queue # <<>> /\ outcome # "aborted"
     THEN Throws /\ UNCHANGED asked
     ELSE AskToSettle("commit")
  /\ UNCHANGED <<bufferVars, reply, Elsewhere>>

SettleFailure ==
  /\ pc = "failed"
  /\ IF Queue # <<>>
     THEN Leaves /\ UNCHANGED asked
     ELSE AskToSettle("commitFailure") /\ UNCHANGED <<bufferVars, aborted>>
  /\ UNCHANGED <<durableVars, reply, clientVars, recoveryVars, drifted>>

Settled ==
  /\ pc \in {"commit", "commitFailure"} /\ reply[Loop] # "none"
  /\ Consumed(Loop)
  /\ IF reply[Loop] # "ok" /\ pc = "commit"
     THEN Goes("failed") /\ UNCHANGED <<bufferVars, aborted>>
     ELSE Leaves
  /\ UNCHANGED <<asked, durableVars, clientVars, recoveryVars, drifted>>

-----------------------------------------------------------------------------
\* A handshake, or the startup, lists the running checkpoint.
ListCheckpoint ==
  /\ status = "running" /\ listed = NoListing /\ recoveries < MaxRecoveries
  /\ listed' = [seq |-> interjectSeq, queue |-> Queue]
  /\ UNCHANGED <<bufferVars, aborted, loopVars, durableVars, callVars,
                 clientVars, recoveries, drifted>>

\* startDurableRunRecovery takes the run slot with a fresh buffer, awaits the
\* claim of the model round and the admission, and only then restores the
\* listed messages in front of what arrived meanwhile.
RecoveryStarts ==
  /\ ~Executing /\ listed # NoListing
  /\ pc' = "recovering" /\ accepting' = TRUE /\ recoveries' = recoveries + 1
  /\ Ask(Loop, "round", NoItem)
  /\ UNCHANGED <<items, received, flushRequested, undelivered, aborted, cur,
                 outcome, durableVars, reply, clientVars, listed, drifted>>

\* Variant of Restored: the buffer starts to count from its beginning.
RestoredUncounted ==
  items' = listed.queue \o items /\ received' = received

Restored ==
  /\ items' = listed.queue \o items
  /\ received' = IF listed.seq > received THEN listed.seq ELSE received

RoundClaimed ==
  /\ pc = "recovering" /\ reply[Loop] = "ok"
  /\ Consumed(Loop) /\ Goes("restoring")
  /\ UNCHANGED <<bufferVars, asked, Elsewhere>>

RecoveryRestores ==
  /\ pc = "restoring"
  /\ Restored
  /\ drifted' = (drifted \/ items # <<>> \/ received # 0
                 \/ listed # [seq |-> interjectSeq, queue |-> Queue])
  /\ listed' = NoListing
  /\ Goes("top")
  /\ UNCHANGED <<accepting, flushRequested, undelivered, aborted, durableVars,
                 callVars, clientVars, recoveries>>

RecoveryFails ==
  /\ \/ pc = "recovering" /\ reply[Loop] \notin {"none", "ok"}
     \/ pc = "restoring"
  /\ Consumed(Loop)
  /\ Leaves /\ listed' = NoListing
  /\ UNCHANGED <<durableVars, asked, clientVars, recoveries, drifted>>

\* The daemon dies, if another recovery may follow; who waited for an answer never learns it.
Crash ==
  /\ Executing \/ asked # <<>>
  /\ recoveries < MaxRecoveries
  /\ Leaves
  /\ asked' = <<>> /\ reply' = [c \in Caller |-> "none"]
  /\ told' = [m \in Message |->
       IF told[m] \in {"sending", "cancelling"} THEN "unsure" ELSE told[m]]
  /\ listed' = NoListing
  /\ UNCHANGED <<durableVars, mine, recoveries, drifted>>

-----------------------------------------------------------------------------
Client == \/ \E m \in Message : \/ Interject(m) \/ InterjectAnswered(m)
                                \/ Cancel(m) \/ CancelAnswered(m)
          \/ Flush \/ Abort

Executor == \/ RoundStarts \/ Enqueued \/ Claimed \/ AppendTranscript
            \/ Completed \/ RoundGoesOn \/ ToolCalls \/ ToolsDone
            \/ ResultResolved \/ RoundFails \/ LoopThrows \/ BufferCloses
            \/ SettleTerminal \/ SettleFailure \/ Settled

Recovery == \/ ListCheckpoint \/ RecoveryStarts \/ RoundClaimed
            \/ RecoveryRestores \/ RecoveryFails

Next == Store \/ Client \/ Executor \/ Recovery \/ Crash

Spec == Init /\ [][Next]_vars

-----------------------------------------------------------------------------
\* parseRunCheckpoint throws on interjects out of order or past the count.
CheckpointParses ==
  /\ \A i \in DOMAIN Queue : Queue[i].seq <= interjectSeq
  /\ \A i, j \in DOMAIN Queue : i < j => Queue[i].seq < Queue[j].seq

BufferTypeOK ==
  /\ items \in Seq(Item) /\ received \in Nat
  /\ accepting \in BOOLEAN /\ flushRequested \in BOOLEAN
  /\ undelivered \in BOOLEAN
LoopTypeOK ==
  /\ aborted \in BOOLEAN
  /\ pc \in {"off", "recovering", "restoring", "top", "enqueue", "claim",
             "append", "complete", "applied", "model", "tools", "ending",
             "settle", "commit", "failed", "commitFailure"}
  /\ cur \in Item \cup {NoItem}
  /\ outcome \in {"none", "done", "error", "aborted"}
CheckpointTypeOK ==
  /\ status \in {"running", "settled", "aborted"} /\ interjectSeq \in Nat
  /\ applying \in Item \cup {NoItem} /\ pending \in Seq(Item)
  /\ transcript \in Seq(Item) /\ entered \subseteq Message
CallTypeOK ==
  /\ asked \in Seq([by : Caller, item : Item \cup {NoItem},
                    kind : {"enqueue", "claim", "complete", "cancel",
                            "settle", "discard", "round"}])
  /\ reply \in [Caller -> {"none", "ok", "unchanged", "conflict", "busy",
                           "not_pending", "terminal", "error"}]
ClientTypeOK ==
  /\ told \in [Message -> {"nothing", "sending", "accepted", "refused",
                           "unsure", "cancelling", "cancelled", "kept"}]
  /\ mine \in [Message -> Nat]
RecoveryTypeOK ==
  /\ listed \in [seq : Nat \cup {-1}, queue : Seq(Item)]
  /\ recoveries \in Nat /\ drifted \in BOOLEAN

\* Every variable has its type, and the checkpoint the form its parser demands:
\* no mutation writes a file that the next read throws on.
TypeOK ==
  /\ BufferTypeOK /\ LoopTypeOK /\ CheckpointTypeOK /\ CallTypeOK
  /\ ClientTypeOK /\ RecoveryTypeOK /\ CheckpointParses

\* While the run executes, whatever the checkpoint still has to give is in the
\* buffer too, so that the loop can find it - unless a write failed or the
\* recovery started from something outdated.
BufferCoversCheckpoint ==
  Executing /\ pc \notin {"recovering", "restoring"} /\ ~drifted =>
    \A item \in ToSet(Queue) : Contains(items, item)

\* The loop's own mutations are never refused as out of order, and the message
\* it completed is still in its buffer: the throws of applyNextPendingInterject
\* are reached only after such a drift, and the transcript never holds another
\* message under the number that is being appended.
LoopKeepsStep ==
  /\ pc = "append" =>
       \A i \in DOMAIN transcript :
         transcript[i].seq = cur.seq => transcript[i].msg = cur.msg
  /\ ~drifted => /\ reply[Loop] \notin {"conflict", "busy"}
                 /\ pc = "complete" => Contains(items, cur)

\* What a client was told stays true: a refused message is never taken, a
\* cancelled one never reaches the transcript, and one that was accepted and not
\* withdrawn is in the transcript of a run that ended without an abort.
ToldIsTrue ==
  \A m \in Message :
    LET applied == \E i \in DOMAIN transcript : transcript[i].msg = m IN
    /\ told[m] = "refused" => m \notin entered
    /\ told[m] = "cancelled" => ~applied
    /\ told[m] \in {"accepted", "kept"} =>
         m \in entered /\ (status = "settled" => applied)

\* A run that took the model's word for the end has applied everything it
\* accepted, unless a write failed or its recovery was outdated.
DoneMeansApplied == ~drifted /\ outcome = "done" => Queue = <<>>

\* A flush interrupt is kept only while a message waits for it.
FlushHasReason == undelivered => flushRequested /\ items # <<>>

\* run-completion-policy.ts: a steer that is already in keeps the loop open
\* even when the model says it is done.
SteerKeepsTheLoopOpen == [][pc' = "ending" /\ outcome' = "done" => Queue = <<>>]_vars

\* The checkpoint and the transcript keep the ledger of the messages.
Names(q) == [i \in DOMAIN q |-> q[i].msg]
Ledger == INSTANCE InterjectLedger
  WITH line <- Names(IF applying # NoItem /\ Contains(transcript, applying)
                     THEN pending ELSE Queue),
       applied <- Names(transcript), end <- status
MessageLedger == Ledger!LedgerSpec
=============================================================================
