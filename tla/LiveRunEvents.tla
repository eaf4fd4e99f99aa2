---------------------------- MODULE LiveRunEvents ----------------------------
(***************************************************************************)
(* The live event store of one run (daemon/sessions/live-run-events.ts),   *)
(* the journal it persists to (run-event-journal.ts), the part of the      *)
(* thread's run checkpoint that decides when the run is over               *)
(* (run-checkpoint-store.ts) and the executor that publishes, commits and  *)
(* finishes (run-channel-start.ts, run-execution-lifecycle.ts,             *)
(* durable-run-execution.ts).                                              *)
(*                                                                         *)
(* The awaits of the code are step boundaries here: the journal write, the *)
(* terminal commit and the two halves of bindRuns interleave with anything *)
(* else the event loop can run.  A run may be attempted more than once (a  *)
(* failed persistence or a daemon crash leaves its checkpoint running);    *)
(* each attempt has an entry of its own, and an event is identified by the *)
(* attempt that published it.  The journal task of an entry nobody holds   *)
(* any more goes on writing (orphan).                                      *)
(***************************************************************************)
EXTENDS Integers

CONSTANTS Socket,       \* the sockets a client may connect on
          MaxEvents,    \* bound: ordinary events of the run
          MaxAttempts   \* bound: entries created for the run

ASSUME LiveRunEventsAssumption == MaxEvents \in Nat /\ MaxAttempts \in Nat

NoSeq == -1
Seqs == 0..MaxEvents             \* ordinary events, then the terminal one
Queued == 0..(MaxEvents - 1)     \* the ordinary ones
Event == [attempt : 1..MaxAttempts, terminal : BOOLEAN]

VARIABLES
  \* the entry of the run in the store's map; its fields outlive its removal,
  \* because a bind in progress still holds a reference to it
  live,                  \* entries.has(runId)
  attempt,               \* which entry object: 0 before the first startRun
  nextSeq, firstResidentSeq, persistedThroughSeq,
  history,               \* the resident envelopes, by seq
  pending,               \* pendingHistoryPersistence, the seqs waiting
  batch,                 \* the seqs being written; {} when no task runs
  batchWritten,          \* the journal has the batch, the task has not resumed
  persistenceError,
  terminal, terminalCommitPending,
  commitSeq,             \* the seq the terminal envelope was built with
  sinks,                 \* ownerIdBySink, as the set of sockets
  \* durable state
  journal,               \* seq -> event, contiguous from 0
  eventCount,            \* journalStateByPath: the events already appended
  checkpoint,            \* this run's checkpoint record
  threadTaken,           \* the thread's checkpoint file is another run's
  answered,              \* the transcript has the run's final answer
  \* the rest of the daemon
  executor,              \* where the run's execution stands
  open,                  \* sockets whose sink still returns true
  replay,                \* what bindRuns collected for each socket
  orphan,                \* attempt -> what its abandoned entry still writes
  overtaken              \* history: the journal outgrew the history that the
                         \* current attempt, or a settlement, started from

seqVars == <<nextSeq, firstResidentSeq, persistedThroughSeq, history>>
taskVars == <<pending, batch, batchWritten, persistenceError>>
endVars == <<terminal, terminalCommitPending, commitSeq>>
entryVars == <<live, attempt, seqVars, taskVars, endVars>>
durableVars == <<journal, eventCount, checkpoint, threadTaken, answered>>
recoveryVars == <<orphan, overtaken>>
vars == <<entryVars, sinks, durableVars, executor, open, replay, recoveryVars>>

-----------------------------------------------------------------------------
\* A replay is collected against one entry object.  "alias" is the resident
\* array itself, read only when it is delivered; "copy" is a filtered copy.
Nothing == [kind |-> "none", of |-> 0, next |-> 0, events |-> <<>>,
            terminal |-> FALSE]
Replay(k, e) == [kind |-> k, of |-> attempt, next |-> nextSeq, events |-> e,
                 terminal |-> FALSE]

Journaled(count) == [n \in 0..(count - 1) |-> journal[n]]
From(f, first) == [n \in {m \in DOMAIN f : m >= first} |-> f[n]]
Put(f, n, e) == [m \in DOMAIN f \cup {n} |-> IF m = n THEN e ELSE f[m]]

\* selectLiveRunReplayEvents: a missing cursor, or one past the latest event,
\* selects everything.
PastLatest(h, after) == DOMAIN h # {} /\ \A n \in DOMAIN h : after > n
SelectReplay(h, after) ==
  IF after = NoSeq \/ PastLatest(h, after) THEN h ELSE From(h, after + 1)

Deliverable(f, s) == DOMAIN f = {} \/ s \in open

Init ==
  /\ live = FALSE /\ attempt = 0
  /\ nextSeq = 0 /\ firstResidentSeq = 0 /\ persistedThroughSeq = NoSeq
  /\ history = <<>> /\ pending = {} /\ batch = {} /\ batchWritten = FALSE
  /\ persistenceError = FALSE /\ terminal = FALSE
  /\ terminalCommitPending = FALSE /\ commitSeq = NoSeq
  /\ sinks = {}
  /\ journal = <<>> /\ eventCount = 0 /\ threadTaken = FALSE
  /\ answered = FALSE
  /\ checkpoint = [status |-> "none", cursor |-> NoSeq, acknowledged |-> FALSE]
  /\ executor = "idle"
  /\ open = {}
  /\ replay = [s \in Socket |-> Nothing]
  /\ orphan = [k \in 1..MaxAttempts |-> {}] /\ overtaken = FALSE

-----------------------------------------------------------------------------
\* What an entry leaves to write when another takes its place: its task goes on
\* with the batch it holds, unless it is written, and with what waits behind.
Unwritten == (IF batchWritten THEN {} ELSE batch)
             \cup (IF batch = {} THEN {} ELSE pending)

\* startRun with the first count journaled events as its history: a fresh entry
\* object.  A replay already collected keeps the array of the old one.
CreateEntry(count) ==
  /\ attempt < MaxAttempts
  /\ live' = TRUE /\ attempt' = attempt + 1
  /\ nextSeq' = count /\ firstResidentSeq' = 0
  /\ persistedThroughSeq' = count - 1
  /\ history' = Journaled(count)
  /\ pending' = {} /\ batch' = {} /\ batchWritten' = FALSE
  /\ persistenceError' = FALSE /\ terminal' = FALSE
  /\ terminalCommitPending' = FALSE /\ commitSeq' = NoSeq
  /\ orphan' = [k \in DOMAIN orphan |->
                  IF k = attempt THEN Unwritten ELSE orphan[k]]
  /\ overtaken' = (count < eventCount)
  /\ replay' = [s \in Socket |->
       IF replay[s].kind # "none" /\ replay[s].of = attempt
       THEN [replay[s] EXCEPT !.kind = "copy", !.terminal = terminal,
               !.events = IF replay[s].kind = "alias" THEN history ELSE @]
       ELSE replay[s]]

\* A first run.start of this run: the live entry exists before its checkpoint.
StartRun(s) ==
  /\ executor = "idle" /\ checkpoint.status = "none" /\ attempt = 0
  /\ s \in open
  /\ CreateEntry(0)
  /\ sinks' = {s}
  /\ executor' = "preparing"
  /\ UNCHANGED <<durableVars, open>>

\* beginDurableExecution: the running checkpoint is on disk.  A recovered run
\* must find it there.
BeginDurable ==
  /\ executor = "preparing" /\ checkpoint.status # "terminal"
  /\ checkpoint' = [checkpoint EXCEPT !.status = "running"]
  /\ executor' = "running"
  /\ UNCHANGED <<entryVars, sinks, journal, eventCount, threadTaken, answered,
                 open, replay, recoveryVars>>

\* The input could not be persisted, or the checkpoint was refused: there is
\* nothing to settle.
InputFails ==
  /\ executor = "preparing"
  /\ executor' = "closing"
  /\ UNCHANGED <<entryVars, sinks, durableVars, open, replay, recoveryVars>>

-----------------------------------------------------------------------------
\* Variant of PublishAllowed: the terminal commit does not hold publishers off.
PublishWhileCommitting == live /\ ~persistenceError /\ ~terminal

PublishAllowed ==
  live /\ ~persistenceError /\ ~terminalCommitPending /\ ~terminal

\* publishRunEvent, called by the loop or by a tool it left running: number,
\* retain, queue for the journal (starting the task when none runs) and
\* deliver; a sink that fails is dropped.
Publish ==
  /\ checkpoint.status # "none" /\ PublishAllowed /\ nextSeq < MaxEvents
  /\ history' = Put(history, nextSeq, [attempt |-> attempt, terminal |-> FALSE])
  /\ nextSeq' = nextSeq + 1
  /\ IF batch = {} THEN batch' = pending \cup {nextSeq} /\ pending' = {}
                   ELSE pending' = pending \cup {nextSeq} /\ batch' = batch
  /\ sinks' = sinks \cap open
  /\ UNCHANGED <<live, attempt, firstResidentSeq, persistedThroughSeq,
                 batchWritten, persistenceError, endVars, durableVars,
                 executor, open, replay, recoveryVars>>

\* The final answer reaches the transcript before the run is settled.
Answer ==
  /\ executor = "running" /\ ~answered
  /\ answered' = TRUE
  /\ UNCHANGED <<entryVars, sinks, journal, eventCount, checkpoint,
                 threadTaken, executor, open, replay, recoveryVars>>

\* The run throws (a refused publish is one way): its catch block goes on to
\* settleFailure.
RunThrows ==
  /\ executor = "running"
  /\ executor' = "failed"
  /\ UNCHANGED <<entryVars, sinks, durableVars, open, replay, recoveryVars>>

-----------------------------------------------------------------------------
\* appendRunEvents: only for the running run of the thread, and only a batch
\* that continues the journal without a gap.
AppendAccepted(seqs) ==
  /\ checkpoint.status = "running" /\ ~threadTaken
  /\ \E last \in Seqs : last >= eventCount /\ seqs = eventCount..last

Latest(seqs) == CHOOSE n \in seqs : \A m \in seqs : m <= n

\* Variant of Append: the journal's state in memory is not brought forward.
AppendUncounted(seqs, k) ==
  /\ journal' = [n \in DOMAIN journal \cup seqs |->
                   IF n \in seqs THEN [attempt |-> k, terminal |-> FALSE]
                                 ELSE journal[n]]
  /\ UNCHANGED <<eventCount, checkpoint, threadTaken, answered>>

\* The journal file after the seqs of attempt k are appended.
Append(seqs, k) ==
  /\ journal' = [n \in DOMAIN journal \cup seqs |->
                   IF n \in seqs THEN [attempt |-> k, terminal |-> FALSE]
                                 ELSE journal[n]]
  /\ eventCount' = Latest(seqs) + 1
  /\ UNCHANGED <<checkpoint, threadTaken, answered>>

JournalAppend ==
  /\ batch # {} /\ ~batchWritten /\ AppendAccepted(batch)
  /\ Append(batch, attempt)
  /\ batchWritten' = TRUE
  /\ UNCHANGED <<live, attempt, seqVars, pending, batch, persistenceError,
                 endVars, sinks, executor, open, replay, recoveryVars>>

\* Variant of JournalConfirmed: what queued during the write is forgotten.
JournalConfirmedOnce ==
  /\ batch # {} /\ batchWritten
  /\ persistedThroughSeq' = Latest(batch)
  /\ batch' = {} /\ pending' = {} /\ batchWritten' = FALSE
  /\ UNCHANGED <<live, attempt, nextSeq, firstResidentSeq, history,
                 persistenceError, endVars, sinks, durableVars, executor,
                 open, replay, recoveryVars>>

\* The task resumes: the watermark rises and what queued meanwhile is the next
\* batch.
JournalConfirmed ==
  /\ batch # {} /\ batchWritten
  /\ persistedThroughSeq' = Latest(batch \cup {persistedThroughSeq})
  /\ batch' = pending /\ pending' = {} /\ batchWritten' = FALSE
  /\ UNCHANGED <<live, attempt, nextSeq, firstResidentSeq, history,
                 persistenceError, endVars, sinks, durableVars, executor,
                 open, replay, recoveryVars>>

\* The write fails, before it changes the file: the error is latched.
JournalFails ==
  /\ batch # {} /\ ~batchWritten
  /\ persistenceError' = TRUE /\ batch' = {}
  /\ UNCHANGED <<live, attempt, seqVars, pending, batchWritten, endVars,
                 sinks, durableVars, executor, open, replay, recoveryVars>>

\* The task of an abandoned entry writes what it still has, or a first part of
\* it, behind the back of the entry that replaced it.
OrphanAppend(k) ==
  \E last \in orphan[k] :
    LET seqs == {n \in orphan[k] : n <= last} IN
    /\ AppendAccepted(seqs)
    /\ Append(seqs, k)
    /\ orphan' = [orphan EXCEPT ![k] = @ \ seqs]
    /\ overtaken' = TRUE
    /\ UNCHANGED <<entryVars, sinks, executor, open, replay>>

OrphanFails(k) ==
  /\ orphan[k] # {}
  /\ orphan' = [orphan EXCEPT ![k] = {}]
  /\ UNCHANGED <<entryVars, sinks, durableVars, executor, open, replay,
                 overtaken>>

-----------------------------------------------------------------------------
\* commitTerminalRunEvent.  "committing" is the run's own settlement,
\* "settling" the one settleFailure tries after an error.
Committing == executor \in {"committing", "settling"}

CommitBegin(from, to) ==
  /\ executor = from /\ live /\ ~terminalCommitPending /\ ~terminal
  /\ terminalCommitPending' = TRUE /\ commitSeq' = nextSeq
  /\ executor' = to
  /\ UNCHANGED <<live, attempt, seqVars, taskVars, terminal, sinks,
                 durableVars, open, replay, recoveryVars>>

SettleTerminal == CommitBegin("running", "committing")
SettleFailure == CommitBegin("failed", "settling")

\* Variant of Flushed: the commit does not wait for the journal.
NeverFlushed == TRUE

\* flushRunEventHistory: the entry is in the map, its task ended without error.
Flushed == live /\ batch = {} /\ ~persistenceError

\* settleRun, once the history is flushed.
CommitPersist ==
  /\ Committing /\ Flushed
  /\ checkpoint.status = "running" /\ ~threadTaken
  /\ checkpoint' = [checkpoint EXCEPT !.status = "terminal",
                                      !.cursor = commitSeq]
  /\ executor' = "persisted"
  /\ UNCHANGED <<entryVars, sinks, journal, eventCount, threadTaken, answered,
                 open, replay, recoveryVars>>

\* Variant of CommitFails: the entry stays locked for its terminal event.
CommitFailsLocked ==
  /\ Committing /\ batch = {}
  /\ executor' = IF executor = "committing" THEN "failed" ELSE "closing"
  /\ UNCHANGED <<live, attempt, seqVars, taskVars, endVars, sinks,
                 durableVars, open, replay, recoveryVars>>

\* The flush or settleRun throws (a persistence error, a checkpoint settled
\* otherwise, interjects still pending); the run's catch block settles the
\* failure, and a second error leaves the checkpoint as it is.
CommitFails ==
  /\ Committing /\ batch = {}
  /\ terminalCommitPending' = FALSE /\ commitSeq' = NoSeq
  /\ executor' = IF executor = "committing" THEN "failed" ELSE "closing"
  /\ UNCHANGED <<live, attempt, seqVars, taskVars, terminal, sinks,
                 durableVars, open, replay, recoveryVars>>

\* settleFailure returns or throws without reaching the commit.
SettleFailureGivesUp ==
  /\ executor = "failed"
  /\ executor' = "closing"
  /\ UNCHANGED <<entryVars, sinks, durableVars, open, replay, recoveryVars>>

\* The awaited persist returns: the envelope is the last of the history.
CommitDone ==
  /\ executor = "persisted"
  /\ history' = Put(history, commitSeq, [attempt |-> attempt, terminal |-> TRUE])
  /\ nextSeq' = nextSeq + 1 /\ persistedThroughSeq' = commitSeq
  /\ terminalCommitPending' = FALSE /\ commitSeq' = NoSeq /\ terminal' = TRUE
  /\ sinks' = sinks \cap open
  /\ executor' = "closing"
  /\ UNCHANGED <<live, attempt, firstResidentSeq, taskVars, durableVars, open,
                 replay, recoveryVars>>

-----------------------------------------------------------------------------
\* Variant of Prunable: what the journal does not have yet may go too.
PrunableUnsaved(term, attached) ==
  live /\ term /\ attached = {} /\ firstResidentSeq < nextSeq - 1

\* pruneDetachedTerminalHistory, given the entry's new terminal flag and sinks.
Prunable(term, attached) ==
  /\ live /\ term /\ attached = {}
  /\ firstResidentSeq < nextSeq - 1
  /\ ~persistenceError /\ persistedThroughSeq >= nextSeq - 1

\* Variant of PruneHistory: the start of the resident window stays behind.
PruneKeepingStart(term, attached) ==
  /\ history' = IF Prunable(term, attached) THEN From(history, nextSeq - 1)
                                            ELSE history
  /\ UNCHANGED firstResidentSeq

PruneHistory(term, attached) ==
  IF Prunable(term, attached)
  THEN /\ history' = From(history, nextSeq - 1)
       /\ firstResidentSeq' = nextSeq - 1
  ELSE UNCHANGED <<history, firstResidentSeq>>

\* finishRun, in the finally block of the run: an attached entry is dropped,
\* a detached one stays, pruned, for the next bind.
FinishRun ==
  /\ executor = "closing"
  /\ executor' = "idle"
  /\ terminal' = (terminal \/ live)
  /\ live' = (live /\ sinks = {})
  /\ PruneHistory(TRUE, sinks)
  /\ UNCHANGED <<attempt, nextSeq, persistedThroughSeq, taskVars,
                 terminalCommitPending, commitSeq, sinks, durableVars, open,
                 replay, recoveryVars>>

\* A connection comes up, with a sink of its own.
OpenSocket(s) ==
  /\ s \notin open \cup sinks /\ replay[s].kind = "none"
  /\ open' = open \cup {s}
  /\ UNCHANGED <<entryVars, sinks, durableVars, executor, replay, recoveryVars>>

\* A socket closes: its sink is detached from the entry in the map.
CloseSocket(s) ==
  /\ s \in open
  /\ open' = open \ {s}
  /\ sinks' = IF live THEN sinks \ {s} ELSE sinks
  /\ PruneHistory(terminal, sinks')
  /\ UNCHANGED <<live, attempt, nextSeq, persistedThroughSeq, taskVars,
                 endVars, durableVars, executor, replay, recoveryVars>>

-----------------------------------------------------------------------------
\* collectReplayEvents: what is below the resident window is read back from
\* the thread's checkpoint, which answers nothing once another run owns it.
Restorable(after) ==
  \/ after + 1 >= firstResidentSeq
  \/ ~threadTaken /\ eventCount >= firstResidentSeq

\* Variant of Collected: only what is resident is replayed.
CollectedResident(after) == Replay("copy", SelectReplay(history, after))

Collected(after) ==
  IF after + 1 < firstResidentSeq
  THEN Replay("copy", [n \in {m \in 0..(nextSeq - 1) : m > after} |->
                         IF n < firstResidentSeq THEN journal[n]
                                                 ELSE history[n]])
  ELSE IF SelectReplay(history, after) = history
       THEN Replay("alias", <<>>)
       ELSE Replay("copy", SelectReplay(history, after))

\* The first half of bindRuns, up to the await of collectReplayEvents, which
\* lasts as long as the disk reads of this run and of the other runs it binds.
CollectReplay(s, after) ==
  /\ s \in open /\ replay[s].kind = "none" /\ (live => Restorable(after))
  /\ replay' = [replay EXCEPT ![s] =
                  IF live THEN Collected(after) ELSE Replay("gone", <<>>)]
  /\ UNCHANGED <<entryVars, sinks, durableVars, executor, open, recoveryVars>>

ReplayEvents(s) ==
  IF replay[s].kind = "alias" THEN history ELSE replay[s].events

\* The second half: deliver, attach to the entry that was collected, and drop
\* the run from the map - by its id - when that entry is terminal.
DeliverReplay(s) ==
  LET same == replay[s].of = attempt
      over == IF same THEN terminal ELSE replay[s].terminal
  IN
  /\ replay[s].kind # "none"
  /\ replay' = [replay EXCEPT ![s] = Nothing]
  /\ IF replay[s].kind = "gone" \/ ~Deliverable(ReplayEvents(s), s)
     THEN UNCHANGED <<live, sinks>>
     ELSE /\ sinks' = IF same THEN sinks \cup {s} ELSE sinks
          /\ live' = (live /\ ~over)
  /\ UNCHANGED <<attempt, seqVars, taskVars, endVars, durableVars, executor,
                 open, recoveryVars>>

-----------------------------------------------------------------------------
\* A running checkpoint nobody executes.
Recoverable ==
  /\ executor = "idle" /\ ~live /\ attempt > 0
  /\ checkpoint.status = "running" /\ ~threadTaken

\* startDurableRunRecovery: a new entry takes the run up.
Recover(owners) ==
  /\ Recoverable
  /\ CreateEntry(eventCount)
  /\ sinks' = owners
  /\ executor' = "preparing"
  /\ UNCHANGED <<durableVars, open>>

\* reconcilePersistedTerminalCheckpoint: a run whose answer is in the
\* transcript is settled from the journal it has, leaving a place for the
\* snapshot of the thread when the journal does not end with one.
SettlementCursor(count) == IF count = 0 THEN {1} ELSE {count, count + 1}

\* Variant of Reconcile: a checkpoint settled meanwhile is settled again.
ReconcileAgain(count) ==
  /\ checkpoint.status # "none" /\ ~threadTaken /\ answered
  /\ \E c \in SettlementCursor(count) :
       checkpoint' = [checkpoint EXCEPT !.status = "terminal", !.cursor = c]
  /\ overtaken' = (count < eventCount)
  /\ UNCHANGED <<entryVars, sinks, journal, eventCount, threadTaken, answered,
                 executor, open, replay, orphan>>

Reconcile(count) ==
  /\ checkpoint.status = "running" /\ ~threadTaken /\ answered
  /\ \E c \in SettlementCursor(count) :
       checkpoint' = [checkpoint EXCEPT !.status = "terminal", !.cursor = c]
  /\ overtaken' = (count < eventCount)
  /\ UNCHANGED <<entryVars, sinks, journal, eventCount, threadTaken, answered,
                 executor, open, replay, orphan>>

ReconcileAnswered == Recoverable /\ Reconcile(eventCount)

\* acknowledgeTerminalEvent, for the cursor the client holds.
Acknowledge(cursor) ==
  /\ checkpoint.status = "terminal" /\ ~threadTaken
  /\ checkpoint.cursor = cursor
  /\ checkpoint' = [checkpoint EXCEPT !.acknowledged = TRUE]
  /\ UNCHANGED <<entryVars, sinks, journal, eventCount, threadTaken, answered,
                 executor, open, replay, recoveryVars>>

\* The next run of the thread replaces the checkpoint record (startRun of the
\* checkpoint store refuses only a running one).
NextRunTakesThread ==
  /\ executor = "idle" /\ checkpoint.status = "terminal" /\ ~threadTaken
  /\ threadTaken' = TRUE
  /\ UNCHANGED <<entryVars, sinks, journal, eventCount, checkpoint, answered,
                 executor, open, replay, recoveryVars>>

\* The daemon dies and comes back with an empty memory and no connection.
Crash ==
  /\ live' = FALSE /\ executor' = "idle"
  /\ nextSeq' = 0 /\ firstResidentSeq' = 0 /\ persistedThroughSeq' = NoSeq
  /\ history' = <<>> /\ pending' = {} /\ batch' = {} /\ batchWritten' = FALSE
  /\ persistenceError' = FALSE /\ terminal' = FALSE
  /\ terminalCommitPending' = FALSE /\ commitSeq' = NoSeq
  /\ sinks' = {} /\ open' = {}
  /\ replay' = [s \in Socket |-> Nothing]
  /\ orphan' = [k \in DOMAIN orphan |-> {}]
  /\ UNCHANGED <<attempt, durableVars, overtaken>>

-----------------------------------------------------------------------------
Run == \/ BeginDurable \/ InputFails \/ Publish \/ Answer \/ RunThrows
       \/ SettleTerminal \/ SettleFailure \/ CommitPersist \/ CommitFails
       \/ SettleFailureGivesUp \/ CommitDone \/ FinishRun

Journaling == JournalAppend \/ JournalConfirmed \/ JournalFails

Orphans == \E k \in DOMAIN orphan : OrphanAppend(k) \/ OrphanFails(k)

Sockets == \E s \in Socket :
  \/ StartRun(s) \/ OpenSocket(s) \/ CloseSocket(s) \/ DeliverReplay(s)
  \/ \E after \in {NoSeq} \cup Seqs : CollectReplay(s, after)

Next == \/ Run \/ Journaling \/ Orphans \/ Sockets
        \/ \E owners \in SUBSET open : Recover(owners)
        \/ ReconcileAnswered
        \/ \E cursor \in Seqs : Acknowledge(cursor)
        \/ NextRunTakesThread
        \/ Crash

\* The event loop runs every continuation that is ready: the journal task, the
\* terminal commit and the second half of a bind.  Whether the run publishes
\* more, fails, or a client ever comes back is not the store's to promise.
Fairness ==
  /\ WF_vars(Journaling)
  /\ WF_vars(CommitPersist \/ CommitFails) /\ WF_vars(CommitDone)
  /\ WF_vars(FinishRun)
  /\ \A s \in Socket : WF_vars(DeliverReplay(s))

Spec == Init /\ [][Next]_vars
FairSpec == Spec /\ Fairness

-----------------------------------------------------------------------------
\* Every variable has its type; the partial functions run over seqs.
TypeOK ==
  /\ live \in BOOLEAN /\ attempt \in 0..MaxAttempts
  /\ nextSeq \in 0..(MaxEvents + 1) /\ firstResidentSeq \in Seqs
  /\ persistedThroughSeq \in {NoSeq} \cup Seqs
  /\ DOMAIN history \subseteq Seqs
  /\ \A n \in DOMAIN history : history[n] \in Event
  /\ pending \subseteq Queued /\ batch \subseteq Queued
  /\ batchWritten \in BOOLEAN /\ persistenceError \in BOOLEAN
  /\ terminal \in BOOLEAN /\ terminalCommitPending \in BOOLEAN
  /\ commitSeq \in {NoSeq} \cup Seqs
  /\ sinks \subseteq Socket /\ open \subseteq Socket
  /\ eventCount \in Seqs /\ threadTaken \in BOOLEAN /\ answered \in BOOLEAN
  /\ DOMAIN journal = 0..(eventCount - 1)
  /\ \A n \in DOMAIN journal : journal[n] \in Event
  /\ checkpoint \in [status : {"none", "running", "terminal"},
                     cursor : NoSeq..(MaxEvents + 1), acknowledged : BOOLEAN]
  /\ executor \in {"idle", "preparing", "running", "committing", "failed",
                   "settling", "persisted", "closing"}
  /\ DOMAIN replay = Socket
  /\ orphan \in [1..MaxAttempts -> SUBSET Queued] /\ overtaken \in BOOLEAN

\* The resident window is exactly the seqs from firstResidentSeq up to the
\* next one: the two counters the code keeps apart never drift.
ResidentWindow == attempt > 0 => DOMAIN history = firstResidentSeq..(nextSeq - 1)

\* Nothing is lost to memory alone: an entry that dropped its prefix, or whose
\* watermark says so, has those very events in the journal.
DroppedIsJournaled ==
  live => /\ firstResidentSeq <= eventCount
          /\ ~terminal => persistedThroughSeq < eventCount

\* While the store is sure of its journal and no orphan wrote behind its back,
\* memory and journal agree on every seq both hold.
JournalAgrees ==
  live /\ ~persistenceError /\ ~overtaken =>
    \A n \in DOMAIN history \cap DOMAIN journal : history[n] = journal[n]

\* The terminal event is the one right after the journal: nothing published is
\* missing from it and nothing follows.  A settlement from the transcript may
\* leave one place more, for the snapshot it synthesizes.
TerminalMeetsJournal ==
  checkpoint.status = "terminal" /\ ~overtaken =>
    checkpoint.cursor \in {eventCount, eventCount + 1}

\* The assertion of projectDurableTerminalCheckpoint: the journal of a terminal
\* run never goes past its terminal cursor.
JournalReachesTerminal ==
  checkpoint.status = "terminal" => checkpoint.cursor >= eventCount

\* The journal and the checkpoint implement the durable run log.
Durable == INSTANCE DurableRunLog
  WITH log <- journal, length <- eventCount, closedAt <- checkpoint.cursor,
       acknowledged <- checkpoint.acknowledged
DurableLog == Durable!LogSpec

\* What was published reaches the journal, unless persistence failed for good
\* or the daemon died.
PublishedIsPersisted ==
  \A n \in Seqs :
    n \in pending \cup batch ~> n < eventCount \/ persistenceError \/ ~live

\* A terminal commit in flight comes to an end.
CommitResolves == terminalCommitPending ~> ~terminalCommitPending
=============================================================================
