# Geulbat daemon: a verification project

Geulbat runs AI agents on the user's own machine. A **daemon** (Node,
TypeScript) executes *runs*: an agent loop calls a model, executes tools, asks
for approvals, spawns subagents. The **web shell** (a browser tab) starts a run
and watches it over a web socket. Both may go away at any time, and a run is
meant to survive either. This directory specifies the machinery that makes
that true: how the events of a run are numbered, kept, persisted and replayed,
how messages a user slips into a running run find their way into it, how a tool
call waits for the user's consent, how subagents are admitted, started and their
results kept, how a model request outlives a crash without being sent twice, and what a
crash leaves behind.

Paths below are relative to `src/apps/daemon/src/` unless they begin with
`src/`.

- [The system](#the-system)
- [Modules](#modules)
- [How the models relate to the code](#how-the-models-relate-to-the-code)
- [Runs, bounds, and what they show](#runs-bounds-and-what-they-show)
- [Where the code and its comments disagree](#where-the-code-and-its-comments-disagree)
- [Proofs](#proofs)
- [Plan](#plan)
- [What is not modelled](#what-is-not-modelled)

## The system

### One process, one event loop

The daemon is one Node process. A synchronous stretch of code runs to its next
`await` undisturbed; at the `await` anything else may run. Three devices order
things across awaits: `runMutationSerial` (a queue of mutations per thread's
checkpoint, `daemon/utils/keyed-serial.ts`), the journal task of a live run
(one write at a time, `live-run-events.ts`), and the phases stored durably in
the checkpoint. Files are replaced by write-and-rename or appended to. Almost
every hard behaviour of this system is a value read before an await and used
after it, or a pair of durable steps with a crash in between.

### Components

**Live run event store** - `daemon/sessions/live-run-events.ts`.
*State:* per run an entry: resident envelopes, `nextSeq`, `firstResidentSeq`,
`persistedThroughSeq`, pending persistence, an error latch, terminal and
commit-pending flags, sinks by owner. *Operations:* `startRun`,
`publishRunEvent`, the persistence task, `commitTerminalRunEvent`,
`finishRun`, `bindRuns` (collect, await, deliver), `pruneDetachedTerminalHistory`,
`detachSink`. *Interacts with:* the journal and the checkpoint through the
executor's callbacks, the sockets through sinks. *Hard:* binds straddle
awaits; a terminal commit fixes its seq before it awaits; a write may fail; an
entry may be dropped with its task still running. *Correct when:* the window
and its counters agree, memory and journal agree, nothing is dropped that is
not in the journal, a replay has no hole, the terminal event is the last.

**Run event journal** - `run-event-journal.ts`. An append-only file of events
with the count kept in memory. *Correct when:* batches are contiguous and
never rewrite.

**Run checkpoint store** - `run-checkpoint-store.ts`,
`run-checkpoint-persistence.ts`. One JSON record per thread: status, terminal
cursor, acknowledgement, interjects waiting and applied, pending approvals,
tool invocations, ready tool results, the phase of the active model round.
*Operations:* one serialized mutation each, with a parser that throws on an
inconsistent record. *Hard:* the executor, the sockets and the recovery all
mutate it; each mutation can be refused, or fail to write. *Correct when:* no
mutation writes what the parser refuses, and a run that is over stays over.

**Run execution lifecycle** - `run-execution-lifecycle.ts`. Begin, settle
(commit the terminal event), settle a failure, settle plans and goals.
*Hard:* several durable steps with awaits in between.

**Durable run recovery** - `durable-run-execution.ts`. At startup and at every
handshake: list running checkpoints, reconcile those whose answer is already in
the transcript, start the others again under a fresh entry. *Hard:* lists are
used after awaits; two recoveries may race; the slot and the buffer of the run
must be restored.

**Run channel** - `adapter/web/ws/*`. Authentication handshake with a replay
cursor (list, project terminal runs, recover, bind), run start, cancel,
approve, interject, interject cancel and flush, acknowledgement of a terminal
event. **Its client** - `src/apps/web-shell/src/lib/run-channel/client.ts`:
the last seq seen per run, reconnect, acknowledge. *Hard:* every handshake has
several awaits, the connection is lost on either side at any time. *Correct when:*
a reconnecting client ends up with the run's events, without a hole, and learns
how the run ended.

**Interject buffer and the loop that applies it** -
`active-run-interject-buffer.ts`, `agent/loop-interject.ts`,
`agent/run-completion-policy.ts`. A message is buffered in memory, made durable,
enqueued again by the loop, claimed, written to the transcript, completed; it
can be withdrawn until claimed; a flush interrupts the model round. *Hard:* the
buffer and its durable copy change in different steps of different actors.
*Correct when:* what the client is told is true, each message is applied once
and in order, and the loop does not end over a message that waits.

**Agent loop** - `src/packages/agent-loop/src/kernel.ts`,
`agent/run-agent-loop.ts`, `agent/loop-*.ts`, `agent/run-completion-policy.ts`.
Rounds of model and tool calls, verification gates, no-progress policy, history
compaction, terminal settlement.

**Approval gate** - `agent/runtime/approval-gate.ts`, `agent/loop-tool-approval.ts`.
*State:* an entry per pending approval, its durable record and decision, grants
of tools for a run, the run's full access, who owns the run's entries.
*Operations:* the check of a call, recording the question, waiting, the decision
of a client, abort, revalidation after the wait, clearing at the end of the run,
rebinding to another session. *Hard:* a decision is awaited durably while the
entry is aborted, cleared or replaced; calls of the loop and of programmatic
callbacks wait together. *Correct when:* nothing runs without a consent that
still stands, everybody is told the verdict on record, every waiter is answered.

**Tools and their checkpoint** - `agent/loop-tool-execution.ts`,
`loop-tool-recovery.ts`. Invocation recorded, executed, result recorded, moved
to the transcript; replay after a crash only where it is safe.

**Model rounds and provider requests** - `agent/loop-model-round.ts`,
`provider-round-journal.ts`, `llm/provider/client.ts`,
`llm/provider/transport/responses-durable-request*.ts`. *State:* a host process per
request, which outlives the daemon and leaves the answer in an artifact; one
coordinate per provider session that names the request which may be open; in the
checkpoint the round's request, its phase and its settlement; the journal of provider
rounds. *Operations:* prepare, commit, read, retry, refresh the token, record the
answer, begin its effects, settle, complete; after a restart resume the request and
the settlement. *Hard:* three durable places and a process of its own change one
after the other, and the daemon may crash between any two. *Correct when:* no request
is sent while another may be under way, an answer is acted on and charged once, and
the run ends whatever happens.

**Subagents** - `agent/subagent-*.ts`, `agent/loop-tool-shared-window-admission.ts`,
`tools/builtin/subagent-launch-pipeline.ts`, `background-notification-queue.ts`,
`daemon/runtime-state-subagent-launch-store.ts`,
`daemon/runtime-state-subagent-terminal-delivery-store.ts`. *State:* leases and
trees of capacity in memory; launch requests and terminal outcomes in SQLite;
registrations and a drain of launches that wait; results not stored yet.
*Operations:* a round asks for launches and gets its leases as a whole or waits,
a launch is started, refused, put off, promoted, stopped; a child ends and its
result is stored; a restarted daemon readopts what it can and records the rest
as lost. *Hard:* the drain works on a read of the store that ages; a start has
three awaits and may fail at each; leases change hands; a result may not be
storable. *Correct when:* no tree gives out more places than the policy has, no
place leaks, nothing that waits is forgotten, no child answers twice, no result
is lost.

**Planning and goals** - `planning-workflow-store.ts`, `goal-store.ts`.
Claim and settlement of an approved plan around the end of a run.

**Active runs** - `active-runs.ts`. The tree of runs in memory, abort
propagation, the slot per thread, waiters for idleness.

**Command host** - `command-host/*`. A child process owns shell sessions:
phases unclaimed, claiming, claimed, finalizing, finished, discarded; lost
responses are resent once; recovery from the spawn journal.

**Daemon admission lock** - `daemon/daemon-instance-admission-lock.ts`. One
daemon per state directory, by an exclusively created file, with take-over of
a stale one.

**The rest:** file mutations and operation manifests, thread, transcript and
artifact stores, the SQLite runtime state, MCP servers and plugins,
programmatic tool calls, memory, media, sandbox, tools, git review,
authentication and routes, the web shell's user interface, packages, launcher
and lab. `PROJECT.json` lists them all with what is and is not modelled.

### How the parts meet

```
 client (cursor, view)                     client (interject, cancel, flush)
    | run.auth(after)  ^ events, ack              |            ^ accepted/...
    v                  |                          v            |
 handshake: list - project - recover - bind    run-channel-control
    |          |                  |               |       |
    |          v                  v               v       v
    |   reconcile/recover    live entry       buffer   checkpoint
    |          |              ^   |   |          |        ^   (serial queue)
    v          v     publish  |   |   v          v        |
  checkpoint, transcript  executor|  journal    loop: enqueue-claim-append-complete
    ^_____________________commit__|
```

## Modules

| Module | What it is |
| --- | --- |
| `DurableRunLog` | Abstract: an append-only log, closed once, then acknowledged. |
| `LiveRunEvents` | The live entry of a run, its journal and checkpoint, the executor, the sockets as the store sees them. Implements `DurableRunLog`. |
| `LiveRunEventsProofs` | Inductive invariant of `LiveRunEvents`, its safety properties and the refinement, for all constants. |
| `RunChannel` | `LiveRunEvents` composed with the authentication handshake, recovery by handshake and startup, and the clients with their cursor and view. |
| `MCRunChannel` | One tab and its connections for TLC. |
| `RunChannelProofs` | Inductive invariant of `RunChannel`: what was listed, collected or shown for any client, its safety properties, and the refinement of `DurableRunLog` under the handshakes, for all constants. |
| `InterjectLedger` | Abstract: messages enter once, wait in line, are applied in order or withdrawn. |
| `RunInterject` | The client's messages, the buffer, the checkpoint's interjects behind its serial queue, the loop, settlement, crash, recovery. Implements `InterjectLedger`. |
| `ApprovalVerdict` | Abstract: the question of a call is settled once, and whoever is told a verdict is told that one. |
| `ApprovalGate` | Calls of a run before the gate, the checkpoint's approvals behind its serial queue, clients that decide, abort, end of the run, rebinding, crash. Implements `ApprovalVerdict`. |
| `ApprovalGateProofs` | Inductive invariant of `ApprovalGate`, four of its properties and the refinement, for all constants. |
| `SubagentAdmission` | The leases and trees of capacity, as operators on one state: a module without a `Next`. |
| `LaunchLedger` | Abstract: a launch is accepted, begun, declined or reported, along fixed edges. |
| `SubagentLaunch` | Extends `SubagentAdmission` with windows of spawn calls, the start pipeline, the promotion drain, children and their results, the store, crash and recovery. Implements `LaunchLedger`. |
| `SubagentLaunchProofs` | Inductive invariant of `SubagentLaunch`, all its safety properties and the refinement, for all constants. |
| `ProviderRequest` | The coordinate, the hosts and the artifacts of a provider session, as operators: a module without a `Next`. |
| `RoundLedger` | Abstract: the answer of a round is found, acts once, is settled and charged once, and the run goes on or ends with it. |
| `ModelRound` | Extends `ProviderRequest` with the loop of a run, its checkpoint's open round, journal and transcript, crash and recovery, and the thread's next run. Implements `RoundLedger`. |
| `ModelRoundProofs` | Inductive invariant of `ModelRound`, its safety properties and the refinement, for all constants. |
| `RunInterjectProofs` | Type correctness of `RunInterject` with the parser's condition, the reason of a flush, for all constants. |
| `RunInterjectToldProofs` | The invariant that links clients, the store's queue, the loop and the checkpoint; what clients are told is true. |
| `RunInterjectBufferProofs` | The invariant that links the buffer to the checkpoint; the loop's own safety and the refinement of `InterjectLedger`. |

## How the models relate to the code

### LiveRunEvents

*One action per stretch between awaits.* `Publish` is `publishRunEvent` with the
assignment of the seq, the push to memory, the start of the task if none runs
and the delivery to the sinks. `JournalAppend` / `JournalConfirmed` /
`JournalFails` are the file write, the continuation that raises the watermark,
and takes the next batch, and the latched error. `SettleTerminal`,
`CommitPersist` / `CommitFails`, `CommitDone`, `FinishRun` are the terminal
commit: seq chosen and entry locked, checkpoint written after the flush,
envelope published,
entry deleted or retained and pruned. `SettleFailure` and
`SettleFailureGivesUp` are the failure path with its early returns.
`CollectReplay` / `DeliverReplay` are the two halves of `bindRuns`. A replay
collected as the resident array itself is read at delivery (`kind = "alias"`),
as the code aliases it; a filtered replay is a copy.

*Attempts.* A run may get several entries in its life (a recovery in the same
daemon, a crash). Events carry the attempt that published them, which is how
"the same seq, another event" is told. The task of an entry nobody holds goes on
writing: `orphan[k]` is what entry `k` still writes, `overtaken` records that
the journal outgrew the history the current entry, or a settlement, had
started from.

*Abstractions.* The checkpoint's write needs a live entry in the model; the code looks
the entry up once, when the flush begins. `settleRun` returning early for the snapshot it has already
written, and a replay with a cursor that happens to select all resident events (a
copy in the code, the alias here; such a bind is `raced`), are not told apart.
Event payloads are `[attempt, terminal]`. Transient events
(tool output chunks) have no seq and are left out. A journal append is atomic.
`runningRunIdByThread`, the cache that lets appends skip the file read, is taken
to agree with the checkpoint. The listing of candidates reads checkpoint and
journal in one step. Bounds: `MaxEvents` ordinary events in a run,
`MaxAttempts` entries.

### RunChannel

A socket goes through the phases of its handler: `auth`, `listed`,
`recovered`, `binding`, `ready`, `done`. Each boundary is an await of
`run-channel-start.ts`, and the values the handler read before (`listed`, the
cursor `after`) are used after it. The client side is the cursor arithmetic of
`client.ts` (`Show`): every envelope replaces the cursor, without comparison.
`link` is the client's end of the connection, `open` the daemon's: between the
loss of the one and the close of the other, events count as delivered and never
arrive. Sockets are reused when their handler is done. A crash gives the daemon
another computer session, so that its clients reload; the crash resets their views in
the same step, before the client has noticed. Startup recovery
ends before the daemon listens (`booting`). An acknowledgement and the forgetting of
the cursor are one step, and the load of the snapshot that follows a replay is none.

### RunInterject

`Ask` / `Turn` / `Answer` are the serial queue of mutations: who asked resumes
in a later step, with `reply`. Since a mutation begins with the read of a file,
an answer is consumed before the next mutation is served. Each mutation
(`EnqueueInterject`, `ClaimInterject`, `CompleteInterject`, `CancelInterject`,
`SettleRun`) has every refusal of its code as a disjunct, and a failed write
(`WriteFails`). `Interject` buffers the message and asks for its durable
copy in one step, `InterjectAnswered` takes it back or not; the loop
(`RoundStarts`, `Enqueued`, `Claimed`, `AppendTranscript`, `Completed`) may do
all of its work on the message in between. `ResultResolved` is the end of
the awaits of `finalizeTerminal`: in one step the buffer is found empty and
closed. `ListCheckpoint`, `RecoveryStarts`, `RoundClaimed`,
`RecoveryRestores` are the recovery, with a listing that ages. `drifted`
records that a write failed or a recovery started from a listing (or a
buffer) that was not current: what some properties have to exclude, and what
the violation run shows the consequence of.

*Abstractions.* Messages are distinct model values, each sent once. The run
starts with its checkpoint begun, since a client learns the run's id from its
first event. What a model round and a tool do is left out, except whether they
listen to a flush and how they end. That a flush skips tool calls still to be
made is left out. `settleRun` may refuse for reasons of other components,
nondeterministically. A crash happens only while another recovery may follow
(`MaxRecoveries`), so that what follows it is explored.

### ApprovalGate

Each call of the gate goes through the stretches of `requireToolApproval`:
`Check` (full access, a grant, or a question to be recorded), `Recorded`, `Wait`,
`Revalidate` after a decision, `Finish`. The store is the same serial queue as in
`RunInterject`: who asks resumes in a later step with the answer. `Approve` and
`Answered` are the two halves of a client's decision; `CallbackStops` and
`Cancel` are the aborts of a call and of the run, settled in several steps of
their own (`settling`); `EndRun`, `AskSettle`, `Settled`, `ClearRun` are the end of
the run; a run recovered at startup has a session of its own ("recovery"), and
`Bind` moves it to the session of the daemon that the clients share ("daemon").
A call of the loop is made again after a crash, a callback of a code cell is
not. Grants are kept in memory, by session; that a run has full access is durable.

*What a reader of the properties should know.* `EndLeavesNothing` speaks of runs
that were not recovered: the end of a recovered run
clears by its `delivery.ownerId`, so that entries and grants which a bind moved to
the clients' session remain. A denial may be overridden after a restart only when full
access was granted, durably, in the meantime (`ranBy = "mode"`). The refusal of a
conflicting durable decision (`OnConflict`) is defensive code that this process
never reaches by itself. After a denied recovered call, or one whose targets
changed, the run keeps the status `approval_pending`, so that `completeRun`
throws; the model has that ending (`EndRun`), no property judges it.

*Abstractions.* A call is a model value that needs approval, destructive or not; a
grant covers a session, a scope and a level. The preview shown to the user is left
out.

### Subagents

`SubagentAdmission` names a lease by holder and launch: a window of spawn calls
and a promotion reserve leases which launches take over (`Claim`, `Promote`), the
elder reservation first; a launch holds its own until its child ends or its
start fails. `Fits` is the admission: leases of the tree of capacity, and children
and reservations of the parent, each against the policy.

`SubagentLaunch` follows a launch through the code: `OpenWindow` accepts the
spawn calls of a round and reserves for all of them or for none; `SpawnAnswered`,
`SpawnDeferred`, `SpawnNow` and `SkipCall` are what becomes of a call;
`Prepared`, `RefuseStart`, `ThrowStart`, `Begin`, `FailStart` are the start between its
awaits, with the pipeline's refusal and its bare rethrow;
`Answer`, `Publish`, `RetryOnce`, `RetryOnRead`, `Settle` the end of a child, where
the terminal result may not be storable; `DrainRead`, `PromoteNext`,
`DrainSettled`, `DrainEnd` the drain with `drainScheduled`, `drainRunning` and
`drainAgain`; `Stop` and `CancelThread` what the user does. `Crash` keeps the
store; recovery takes roots (`RecoverRoot`, `Restore`), then children
(`SettlePersisted`, `GiveUp`, `Readopt`, `Readopted`, `ReadoptFails`), and then
`Reconcile` records the rest as interrupted by the restart. Launches are numbered
in the order they are asked for, which removes their symmetry.

*A launch that is started for nobody.* `beginBackgroundChildLifecycle` records the
launch as started and then, in the same `try`, publishes `subagent_spawned` for the
parent. A launch that waited keeps the emitter of the round that asked for it, and the
drain does not look whether that root still runs: when it has ended, its live entry
refuses the event. The place is given back and the checkpoint closed as failed, the
drain logs the error, and the launch stays `started` without a result, until a restart
records it as interrupted; only the registry of children in memory has it as failed. A root's
entry may refuse also while the root lives (its end is being committed, its
journal failed): `Takes` and `MayRefuse`. What a child's own launches emit is dropped by the routing
and refused by nobody. `startRun` throwing has the same end one step earlier
(`ThrowStart`: the launch stays `starting`). The model calls this `dropped`; no
doc or test says what should become of such a launch (`subagent-lifecycle.test.ts`
checks the clean-up only), so no run judges it. What the properties claim in spite of it: the child of a
dropped launch has not run in any life of the daemon (`Accounted`, with the history
variable `ran`), it holds no place (`LeaseHeld`), and the checkpoint of a child that
did run is never closed before its result is durable (`ResultBeforeSettlement`).

*An ordering the model reaches and nobody describes.* `reconcileSubagentLaunches-
AfterRestart` runs after all recoveries. A recovered root may by then have had its
waiting launch promoted, while another child's recovery was awaited (`Restore`,
`DrainRead`, then `Reconcile`). If that launch was not among the recovered, it is
recorded as interrupted, with a `daemon_restart` result, while it is being
started or runs. It goes on; its real result conflicts with the stored one and
stays in memory, so that the parent may be told both. `HandlesKept` and `Accounted` hold all the
same, and nothing in the repository says what should happen, so no run
judges it; the hazard is listed.

*A group that gets smaller.* The drain promotes only whole groups, and a direct
admission wakes nobody. A window's places may be taken over by a promotion of another
group of its parent (`transferOneExistingReservation` takes the first that can be
transferred); then one of its calls is put off as `capacity_full` and registered, while a later
call of the same window is admitted by itself. What is left of the batch might fit
now, and is not looked at until that sibling's place returns. An instance of ten launches with
limit 5 gets there in 39 steps, scripted through TLC; those TLC can go through do not.
`NoLostWakeup` therefore speaks of groups of whose batch no launch holds a place
(`Outrun`): for all others the proof shows that no release is overlooked. It is a
delay, not a lost wake-up, and no doc speaks of it.

*Abstractions.* Steps that follow each other by microtasks only are one action:
a refused start with its record, the refused second start of a launch within
`Attempt`, and the recovery of the last run with the reconciliation (`AllTried`:
no loop has a turn between). Of the store's writes,
those of terminal results and `startRun` fail; failures
of the others end the tool call and are left out. Priorities are any
order of groups. Left out are `agent_retry`, `agent_send_input`, the policy without a limit,
launches of other kinds than `agent_spawn` in a window, recovery by a handshake,
the acknowledgement of results by the parent, the stop of a running child and
timeouts.

### ModelRound

`ProviderRequest` has the steps of `streamRequestEvents`. A host is `idle` until its
first commit frame, `sent` until it writes its artifact (`done`); if it dies the
request is `lost`, or the host merely `gone`. `stopped` and `abandoned` are requests
nobody waits for any more, by the daemon's decision or the user's. What a request may
be at the provider is thus told apart from what its process is.

`ModelRound` is the loop with `pc` at its awaits. `Reopen`, `Start`, `ResumeLost`,
`Unresolved` are the four ways `streamRequestEvents` goes before it has a host;
`Prepare` / `PrepareRefused` is `recordModelRoundPrepared`, `Deliver` the commit frame,
`Replay` and `ReadEnd` the end of the stream with and without a live host, `AuthRefresh`
and `Observe` the decisions of `callResponsesWithRetryPolicy` and of `runModelRound`;
`RecordCandidate`, `BeginEffects`, `Assess`, `SettleTerminal`, `Complete` the store's
mutations of the settlement; `KnownCandidate` and `Resolve` what a recovered loop does
with an answer that was recorded before. `Recover` claims the round, answers the
pending tool calls and rebuilds the history, in one step. The history a request is made of is kept as
the set of what it holds, because the digest of it is what a resumed round is
compared by.

*What the model reaches and nobody describes.* Recovery compares the request and the
history exactly, so that several crashes end the run with `model_round_identity_conflict`
or an unknown outcome where it could have gone on: a round recorded after a token
refresh has request attempt 1 and is resumed with 0; the text with which the loop
continued is rebuilt from the last continuation only; the coordinate of an interrupted round is
cleared before its settlement; a failed artifact that is replayed is kept, so that the
retry of a resumed round meets its own coordinate again. One needs no crash: after
`llm_replay_state_rejected` the stripped history has the same attempt numbers, the store
refuses it, and the single retry of `loop-model-round.ts:529` is never sent. All of
them end the run safely, so `model_round` passes; only the one against a test
(below) has a run.

*Abstractions.* A round is charged one unit. The claim of a round is always granted:
one daemon, one loop. Shutdown is a crash at that point. An artifact that cannot be written
is a host that dies, and one whose input cannot be written is not modelled (the fence is the same). A token
refresh always succeeds and leads to a second request; one that is unavailable or
throws ends the attempt in the code like an error the model has. An interrupt comes while the stream is read, not between its last chunk
and its end. The round bound fails the last round. Compaction, context overflow, the
transition to another provider, admission delays and wire formats are left out. How the
stream is taken up at a byte offset is left out: a reader sees the whole answer.

## Runs, bounds, and what they show

State counts are distinct states with two workers.

| Run | Instance | Checks |
| --- | --- | --- |
| `live_run_events` | 1 socket, 3 events, 2 attempts; 348 k states | `TypeOK`, `ResidentWindow`, `DroppedIsJournaled`, `JournalAgrees`, `TerminalMeetsJournal`, refinement `DurableLog`; under `FairSpec`, `PublishedIsPersisted` and `CommitResolves` |
| `run_channel` | one tab, 2 connections (symmetric), 1 event and the terminal one, 2 attempts; 1.7 M states | `HolesOnlyFromBindRace`, `NothingAfterTerminal`, `TerminalMeetsJournal` |
| `run_interject` | 2 messages, 2 recoveries; 1.3 M states | `TypeOK` (with `CheckpointParses`), `BufferCoversCheckpoint`, `LoopKeepsStep`, `ToldIsTrue`, `DoneMeansApplied`, `FlushHasReason`, refinement `MessageLedger` |
| `approval_gate` | 2 calls of the loop, 1 of a callback, 2 clients, 1 crash; 635 k states | `TypeOK`, `ConsentBehindExecution`, `EndLeavesNothing`, `DeniedStaysUndone`, refinement `KeepsPromise`; under fairness, `AbortSettles` |
| `subagent_launch` | 1 root, 2 launches, limits 1 and 2, 1 crash; 1.5 M states | `TypeOK`, `WithinLimit`, `LeaseHeld`, `GivenUpNeverRuns`, `AnsweredOnce`, `ResultBeforeSettlement`, `Accounted`, `NoQueueLost`, `NoLostWakeup`, refinement `HandlesKept` |
| `model_round` | 2 hosts, 2 rounds, 1 retry, 2 runs, 2 crashes; 340 k states | `TypeOK`, `DoubtIsFenced`, `TotalsAgree`, `AnsweredIsNotAsked`, refinement `KeepsLedger`; under `FairSpec`, `RunSettles` |
| `live_run_events_overtaken` | 1 event, 2 attempts | violated: `JournalReachesTerminal` |
| `run_channel_holes` | one tab, 2 connections, 1 attempt | violated: `NoHoleIsEverSent` |
| `run_interject_steer` | 1 message, 1 recovery | violated: `SteerKeepsTheLoopOpen` |
| `approval_gate_rebind` | 1 call of the loop, 1 crash | violated: `BoundClientMayDecide` |
| `subagent_tree` | 3 launches, limit 1, no crash | violated: `DescendantsWithinLimit` |
| `model_round_window` | 1 host, 2 rounds, 1 crash | violated: `CommittedWindowResumes` |

*Why these bounds.* Two attempts let an abandoned journal task race a
recovery, and let two attempts use one seq. Three events let one batch be in flight and another wait behind it when the run fails or ends; the journal
task never holds more than "the batch" and "the rest". One socket is enough for
the store's own properties, which speak of sinks as a set only; the channel
run, where connections compete, has an old and a new connection of one tab.
There a single ordinary event already leaves a prefix to lose before the
terminal one. With three events and one attempt (2.6 M states), and with three events, two
attempts and one connection (200 k), the properties hold as well; two events with two attempts and
two connections take longer than is worth keeping. Two messages are what order, the gap after a failed enqueue, and
"one being applied, one waiting" need; two recoveries let a message survive one
crash and be applied by a recovery that follows a failed one. Two calls of the loop and one of a callback wait at the gate together
and differ in what a crash does to them; two clients decide at the same time; one question is enough for
the rebinding.
Two launches of one root are asked for in a batch, one after the other, or one
inside the other; with the limits 1 and 2 each of these both fits and does not.
The run with two crashes passes too (3.2 M states) and is not kept, for its time; so do
simulations of larger instances, but for the groups excluded by `Outrun`.
A second start of a launch that is being started takes a group of launches and a
third to wait for; the step is in the model, beyond these bounds, and in the
proofs, which have none.
Two hosts are a request and the one that might follow it too early; two rounds are one
to go on from and the last; two runs share the coordinate; two crashes let a
recovery be interrupted. A run may start as many requests as there are hosts: three
hosts with two runs and one crash (1.3 M states), and with one run and two crashes
(590 k), pass as well and are not kept, for their time. Deadlock is
checked in the channel and store runs; `run_interject` really ends, with the
run settled and every answer consumed, and `model_round` with its last run, so these say
`CHECK_DEADLOCK FALSE`.

*What passing means.*
`JournalAgrees` and `TerminalMeetsJournal`: no interleaving of publishing,
batching, a failed write, a terminal commit and a recovery makes memory and
journal hold different events under one seq, or puts the terminal cursor
elsewhere than at the end, except through the abandoned task (`overtaken`).
`DroppedIsJournaled`: pruning is safe with respect to the journal.
`HolesOnlyFromBindRace`: the only cause of a hole in a client's view is a run
that moved on while the client's own bind awaited.
`NothingAfterTerminal`: the terminal event a client shows is the one the
checkpoint ends with, wherever it came from (live, a replay, a projection by
another handshake). That it also is the last event of the client is *not* so: a client may have
events that were delivered before the journal had them; the run fails with its answer
in the transcript, the next handshake settles it from the journal
(`durable-run-execution.ts:602`), and the projected terminal event has a seq below
what the client holds (`client.ts:655` moves the cursor without a look). It takes
three events, so the run's instance does not show it and the proof attempt did; the property says
that such events are in no journal and below no watermark.
`ToldIsTrue`: refused means never taken; cancelled means never applied;
accepted and kept means in the checkpoint, and applied when the run settled by
itself, whatever crashed in between.
`MessageLedger`: the checkpoint and the transcript together apply each message
once and in order of entry. The refinement mapping counts a message being
applied as waiting until the transcript has it; that is the point at which a
crash stops mattering.
`BufferCoversCheckpoint`, `LoopKeepsStep`, `DoneMeansApplied`: buffer and
checkpoint, changed in different steps by different actors, never diverge so
that the loop would throw or overlook a message, unless `drifted`.

`ConsentBehindExecution`: whatever runs has a consent that stands at that moment:
a decision on record, a grant or full access given by one. `DeniedStaysUndone`:
what the user has denied is not run later, unless by full access. `KeepsPromise`:
the client, the waiting call and the checkpoint learn one verdict, though the
entry is aborted, cleared or rebound while it is written.
`LeaseHeld` and `WithinLimit`: through take-overs, promotions, refused and doubled
starts a place is counted once, from admission to the child's end.
`NoQueueLost` and `NoLostWakeup`: what waits is known to someone, and the drain
does not rest while a group it could admit waits, but for the groups described under
*Subagents*.
`GivenUpNeverRuns`, `AnsweredOnce`, `ResultBeforeSettlement`, `Accounted`: an aged
read of the queue, a crash or a failed write neither starts what was cancelled,
nor repeats a child that answered, nor loses the result of a child that ran; the one
way a begun launch gets no result (*A launch that is started for nobody*) never had a child run.
`HandlesKept`: launch and outcome records together move along the ledger's edges,
also over crashes.

`DoubtIsFenced`: one coordinate, written over and cleared by the daemon, the user and
the next run, fences every request that may be at work. `AnsweredIsNotAsked`,
`TotalsAgree`: a crash after an answer neither has it asked for nor charged again.
`KeepsLedger`: settlement, effects, charge and status move together, also where a
recovered loop finds half of them done. `RunSettles`: no refusal leaves the loop
waiting.

*Fairness.* `FairSpec` of `LiveRunEvents` asks weak fairness only of continuations that the event
loop runs when their file operation is done: the journal task, the terminal
commit, the deletion at the end, the second half of a bind. Nothing is assumed
of the model, the user, the client or a retry. `Spec` of `ApprovalGate` asks
it of the store's next mutation, of whoever resumes with an answer and of the
clearing at the end of a run, continuations all of them. `FairSpec` of `ModelRound`
asks that the loop's next step is taken, that a daemon that crashed is started again and recovers its
running checkpoint (crashes are bounded), and that a request that was sent comes to an
end: the provider closes the stream or the connection breaks, or the host dies. The
host sets no timeout of its own, so a provider that keeps a silent connection open is
outside `RunSettles`. A file operation that never
returns is not considered. The safety runs use no fairness.

Every property of a passing run has a mutant in `PROJECT.json`: a plausible bug
(a variant written beside the definition it replaces, in the model's own text)
that TLC finds by that property.

## Where the code and its comments disagree

Each is a violation run; the counterexample of TLC is the scenario.

1. **An abandoned journal task overtakes a recovery**
   (`live_run_events_overtaken`). `settleFailure` may return or throw without
   flushing, `finishRun` deletes the entry, the task writes on. A recovery that
   read the journal in between commits a terminal cursor that the journal
   then passes; `projectDurableTerminalCheckpoint` throws on such a journal at
   every handshake.
2. **A replay with its front missing** (`run_channel_holes`).
   `selectLiveRunReplayEvents` returns the resident array itself; while
   `bindRuns` awaits, pruning splices it. The comment at
   `live-run-events.ts:331` says that failing is safer than such a replay.
3. **A recovery from an outdated listing** (`run_interject_steer`). The buffer
   is restored from the checkpoint as listed before, not from the one
   `claimActiveModelRound` has just returned, so a message accepted in between
   is durable but invisible to the loop, which ends on the model's word. The
   comment at `run-completion-policy.ts:257` says a waiting steer keeps the
   loop open.
4. **A client that came back may not decide** (`approval_gate_rebind`).
   `rebindPendingRunApprovals` moves a run to the client's session only through the
   questions pending at that moment. A run recovered at startup that asks after the
   client was bound keeps the recovery's session, and the bound client's decision
   is refused until it connects once more. The test at
   `adapter/web/ws/run-channel-socket.test.ts:931` says that a socket that
   reconnected must be able to decide as it is.
5. **A second tree next to the root's** (`subagent_tree`). When a child ends, its
   run state leaves `treeCapacityByRunState`; a launch it asked for that still
   waits is promoted under it, in a fresh tree of capacity. With a capacity of one,
   two descendants of one root run. The refusal at `subagent-concurrency.ts:389`
   counts "descendant agents ... per run tree", and the test at
   `subagent-concurrency.test.ts:144` says that recursive descendants share the
   capacity.
6. **A committed tool window ends the recovered run** (`model_round_window`). The crash
   falls between the commit of a window of tool calls and the completion of its round.
   The recovered history holds the round's items, calls and results, so the digest
   that `recordModelRoundPrepared` compares (`run-checkpoint-store.ts:977`) is another
   one, and the run ends with an identity conflict. The test at
   `agent/run-agent-loop.test.ts:256` has the restarted loop go on with the next round;
   it injects a model round with a constant digest.

Two more were met in `RunChannel` and are recorded here without a run. A retained entry
that was pruned cannot be read back once the thread's next run owns the checkpoint
(`run-channel-start.ts:403`), though the comment at `live-run-events.ts:378` says
that a prefix is dropped only when it can be. A run that was live when listed and gone when bound
sends its terminal event only at a later connection, against the comment at
`run-channel-start.ts:711`.

## Proofs

TLAPS checks the eight proof modules to the last leaf, for every value of the
constants (`tlapm LiveRunEventsProofs.tla` and so on). Between them they state every safety property,
action property and refinement that a passing run checks. The
assumptions are those of the modules: `MaxEvents` and `MaxAttempts` are
naturals; `MaxRecoveries` is a natural and `Loop` is not a message; `Socket`, `Client` and
`Message` are any sets, and every socket has an owner; calls, clients and the run are told apart and calls are
finitely many; roots are not launches, launches are finitely many and limits
positive; the bounds of `ModelRound` are naturals, and `None` is not an answer, a request's
identity, a coordinate or a record of a round.

**LiveRunEventsProofs.** None of the safety properties is inductive: each speaks
of two of the four places where an event may be (memory, pending, batch,
journal), and needs the others. `Inv` is a conjunction of named parts:

- `Started`: whatever lives, executes or is being written belongs to an attempt,
  and only the terminal event has the seq after the last ordinary one;
- `CommitLock`: the executor and the entry agree on whether a commit is in
  flight, and until it is done the chosen seq stays the next one;
- `Window`: the resident window is the interval between its two counters;
- `Task`: what the journal task holds was published before, by this attempt;
  what it has written is an interval; a task that is not running leaves nothing
  behind unless persistence failed;
- `Watermark`: the watermark and the pruned prefix never pass the journal;
- `NothingForgotten`: while persistence is sure, every seq published is in the
  journal or still waiting for it;
- `NotBehind`: until the run is settled, an entry that was not overtaken is not
  behind its journal (a handshake may settle from the journal a run that still has an entry);
- `Ending`: the checkpoint is closed once, at the end of the journal, and a commit that
  was persisted is what it is closed with.

`JournalAgrees` needs two parts more, which a settlement under a live entry would
break and which are therefore kept apart: `Closed` (a live entry of a settled run is about to
publish its terminal event, or has) and `Agreement` (memory and journal agree where
both have an event, unless overtaken - also after persistence failed, which is
what makes it inductive).

One lemma per action, or group of actions that disturb the same parts, with
frame lemmas for what the others leave alone. The theorems `TypeCorrect`,
`WindowNeverDrifts`, `PruningLosesNothing`, `MemoryAgrees` and
`TerminalAtTheEnd` follow, and `ImplementsDurableLog` shows that every
step maps to an append of a batch, a close, an acknowledgement or a stutter.

**RunChannelProofs.** A handshake uses what it read some awaits earlier, so the steps of
the store are not quite those of `LiveRunEvents`: `StoreNext` lets a recovery and a
settlement start from any count the journal had before. `Inv` is shown to survive
that (`StoreKeepsInv`), and every step of the channel is such a step
(`ChannelIsStore`). `ChannelInv` is `Inv` with

- `Kept`: the journal has ordinary events only; the watermark reaches its count with
  the terminal event only (`Confirmed`); and what is resident or collected for a bind is *sound*;
- `Listed`: what a handshake listed was true, and if terminal it still is;
- `Seen`: what a client holds is sound, and its cursors point into it;
- `Attached`: the client of an attached socket has everything published so far;
- `Copied`: what was collected for a socket closes its client's gap up to the point of
  the collection - the last two unless a bind of this client raced;
- `HolesOnlyFromBindRace` itself, and that a link is open at the daemon's end.

A collection of events, by seq, is *sound* (`Sound`) if each is journaled, of an attempt that
is over, or below what comes next or the end of a settled run, and a terminal one is the
end that the checkpoint names. That lasts, because a run only moves on (`Forward`)
outside a crash, and a crash takes the views with it. So the argument needs no history of
who showed what to whom: every way to show something (live, bind,
recovery, projection) shows a sound collection (`ShowSeen`) which fills up what the
client misses (`ShowFills`, `SelectedFills`, `CollectedFills`). The theorems are `ChannelHolds`,
`ClientsHaveNoOtherHoles`, `EndsAreDurable`, `StoreUnderHandshakes` and
`LogSurvivesHandshakes`, the refinement of `DurableRunLog`.

**RunInterjectProofs.** `TypeOK` includes the condition that
`parseRunCheckpoint` enforces by throwing (`CheckpointParses`: the interjects of
the checkpoint, the one being applied first, have strictly rising numbers not
past the count). It is not inductive: it speaks of the concatenation `Queue`,
and it depends on what travels through the store's queue and the loop. `Inv`
states the order for `pending` and `applying` apart (`Ordered`), that an
enqueue in the queue carries a message (`Carried`), that the loop has one
while it applies one, and `FlushHasReason`. The lemmas `WithoutRemoves`,
`WithoutTyped`, `WithoutKeeps` and `WithoutRises` say what taking a number out
of a queue does; `LeastPosition` is the existence of a first match, from the
well-foundedness of strict inclusion on finite sets. The theorems are
`InterjectInvariance`, `CheckpointAlwaysParses` and `FlushKeepsItsReason`.

**RunInterjectToldProofs.** What a client is told depends on what every other actor is
about to do to its message. `IInv` is `Inv` with

- `Asks`: a caller has one call in the store's queue or one answer to consume;
- `Owned`, `Entries`: wherever a message stands it has the number it was given, and
  nothing enters before its first request is served;
- `InTurn`: the transcript was taken from the front of the queue;
- `Stages`: what each stage of the loop knows of the checkpoint;
- `Said`: what an answer, consumed or not, says is so;
- `Numbered`, `Served`: the buffer's numbers rise past the checkpoint's count, and the
  requests with lower numbers are served first;
- `Refusals`: a refused message can never enter - its number is taken, the run is
  over, or it has left the buffer and the loop's own request for it, if there is one, is refused too.

`Refusals` is the part that is easy to miss: the handler's request and the loop's
carry the same message, and the client hears the answer to the first only. The theorems are
`PartsHold` and `ClientsAreToldTheTruth`.

**RunInterjectBufferProofs.** `BInv` is `IInv` with `Coverage` (while nothing has
drifted: `Buffered`, the buffer is in order and holds what the checkpoint has to give;
`Requested`, first requests are served in the order of their numbers and none is refused; `InStep`, the
loop applies the buffer's first), `Fresh` (a recovery whose buffer is untouched is
not raced by a request from before) and `Decided`. TLC confirms it on the instance of
`run_interject`. The theorems are `BufferPartsHold`,
`BufferAlwaysCovers`, `LoopAlwaysInStep`, `DoneHasAppliedAll` and, from `IInv`,
`LedgerIsKept`, the refinement of `InterjectLedger`.

**ApprovalGateProofs.** That a call which runs has a consent depends on what is on
its way through the store's queue. `Inv` has the parts

- `Queue`: each caller has one mutation queued or one answer to consume, and is
  entitled to it by where it stands;
- `Replies`: what an answer not yet consumed says is so;
- `Phases`: where a call stands against the run's and its own durable status;
- `Fifo`: the decision on a question comes after the question;
- `Undecided`: an entry that waits is undecided, or its decision is being told;
- `Truthful`: everything anybody learnt of a verdict is the verdict;
- `Backed`: grants and full access come from approvals;
- `Fresh`: while a call under way at the crash is still to be made again, there
  are no grants and nothing else is active;
- `Ours`: a run that was not recovered has one session.

The theorems are `Types`, `Consent`, `End`, `Denied` and `Keeps`, the refinement.

**SubagentLaunchProofs.** Most properties speak of one launch, so `Inv` is for the
most part a statement about each launch apart: `Course` (its stage, record, result
and checkpoint, in the four parts `Setting`, `Running`, `Recovering`, `Left`),
`Waiting` (who knows of it while it waits), `Placed` (what it holds and what is
held for it); besides, `TypeOK`, `Asked` (what is known of launches that were
asked for) and `Bounded`. `Recovering` is what `GivenUpNeverRuns` needs: a group the
drain still has before it contains no launch that is to be recovered. `ran` occurs in
`Setting` (a child whose start is under way, or threw, has not run) and in `Left` (one
that ran has its checkpoint or its result). The lemma of
each action also shows where the launch's handle moves (`Moves`), which is the
refinement. `Bounded` is the only part that counts: `Exchange` says that a tree which
gives out N places and gets others back stays within the limit when the sum does,
and each way to get a place is an instance. The theorems are `Types`,
`PlacesBounded`, `PlacesHeld`, `GivenUpStays`, `NoSecondAnswer`, `ResultsFirst`,
`NoneUnaccounted`, `NoneForgotten` and `LedgerKept`.

`NoLostWakeup` has an invariant of its own on top, `WakeInv`. `Awake` says what makes the three
flags of the drain right: unless it is to look again, every registered group that fits and is not
outrun is before it. A step can break that by making a group fit or by making one; the
lemmas show that a step which gives no place back makes nothing fit, that each return of a place
and each registration has the drain look again, and that the drain's own promotions only
take places. `Batched` (a batch has one parent, and the drain's groups are of batches) and
`Childless` (who asked for launches has been started) carry it. The theorems are `WakingHolds`
and `DrainNeverRests`.

**ModelRoundProofs.** The properties relate three durable places and a loop that
forgets everything at a crash, so the invariant says what may be concluded from the
places alone, and what the loop knows beyond it:

- `AtHost`: from the start of a host to the end of its stream the coordinate is the
  loop's own;
- `Begun`: from `Prepare` on there is an open round;
- `Read`: a good answer that was read is still in the artifact the coordinate names;
  an interrupted one leaves no coordinate;
- `Answers`: a recorded answer is the one in that artifact, or the coordinate is gone.
  Hence a request for it is neither sent (its host is done) nor started (a loop with a
  recorded round always resumes an identity);
- `Progress`: where in the settlement the loop may stand, at each of its steps;
- `Disposed`: a settlement that goes on has a round to go on to;
- `Calm`: rounds ahead have had no effect, nor has an open round before its settlement
  announces it;
- `Over`: the checkpoint is running as long as the loop has not ended.

`Settling`, `Phasing`, `Recording` and `ReleaseTyped` say what the updates of the round
and of the hosts do; frame lemmas carry the parts an action leaves alone.
`OnlyDeliverSends` is the lemma behind `NotAskedAgain`. The theorems are `Types`,
`Fenced`, `ChargedOnce`, `NotAskedAgain` and `LedgerKept`, the refinement of
`RoundLedger`.

**Only model-checked:** the liveness properties `PublishedIsPersisted`, `CommitResolves`,
`AbortSettles` and `RunSettles` (liveness under fairness is beyond the prover), and what the
violation runs refute.

**What the proofs changed.** Two properties were true on the instances of TLC and false in
general; the attempts to prove them found it, and larger instances then showed the
counterexamples: `NothingAfterTerminal` (see *What passing means*) and
`NoLostWakeup` (see *Subagents*). Both now say what holds.

## Plan

In order of importance for the program. Each later module is written
like the first ones: constants with named assumptions, an action per
stretch between awaits, invariants as conjunctions of named parts, no recursive
operator.

| # | Module | Composes | What it is to show |
| --- | --- | --- | --- |
| 1 | `LiveRunEvents`, `DurableRunLog` | | done, proved |
| 2 | `RunChannel` | 1 | done, proved |
| 3 | `RunInterject`, `InterjectLedger` | | done; safety and refinement proved |
| 4 | `ApprovalGate`, `ApprovalVerdict` | | done; safety and refinement proved |
| 5 | `SubagentAdmission`, `SubagentLaunch`, `LaunchLedger` | | done; safety and refinement proved |
| 6 | `RunExecution` | 4 | order of plan settlement, terminal commit and crash: the recovery of a run whose plan is settled is not refused for ever |
| 7 | `AdmissionLock` | | two daemons and a stale lock: read-then-remove and read-then-rename; mutual exclusion for any number of daemons while no lock is stale |
| 8 | `ProviderRequest`, `ModelRound`, `RoundLedger` | | done; safety and refinement proved |
| 8b | `ToolCheckpoint` | 8 | a tool that is not safe to replay is not run twice |
| 9 | `ActiveRuns`, `CommandHost` | 6 | abort reaches every descendant, idle waiters wake; a resent interaction takes effect once |

Theorems planned: conditional mutual exclusion of `AdmissionLock`, and the safety of
`ToolCheckpoint` once they are written.

## What is not modelled

- Tool execution, planning, the command host and the admission
  lock: planned above. Their hazards are listed in `PROJECT.json`.
- A batch of launches larger than the capacity waits for ever, and `run.cancel`
  leaves launches that wait where they are (`adapter/web/ws/run-channel-control.ts:49`):
  the model shows both, no doc says what should happen.
- File formats, torn lines, schema migrations and SQL: sequential code with
  tests of its own.
- HTTP routes, credentials, provider wire formats, containers, media, git:
  calls to outside programs without a protocol of the daemon's own.
- The web shell's reducers and rendering, beyond the channel client's cursor.
