--------------------------- MODULE SubagentLaunch ---------------------------
(***************************************************************************)
(* The launch of subagents: the window of tool calls that asks for them    *)
(* (agent/loop-tool-shared-window-admission.ts, tools/builtin/             *)
(* agent-spawn.ts), the pipeline that starts one (tools/builtin/subagent-  *)
(* launch-pipeline.ts, agent/subagent-support.ts, agent/subagent-          *)
(* lifecycle.ts), the controller that promotes those that had to wait      *)
(* (agent/subagent-concurrency.ts), the durable record of launches and     *)
(* results (runtime-state-*-store.ts), the delivery of results             *)
(* (agent/runtime/background-notification-queue.ts), and what a restarted  *)
(* daemon makes of all that (durable-run-execution.ts).                    *)
(*                                                                         *)
(* An action is what runs between two awaits.  Launches are numbered in    *)
(* the order they are asked for; those of one window form a batch.         *)
(***************************************************************************)
EXTENDS SubagentAdmission

CONSTANT MaxCrashes    \* bound: crashes of the daemon

ASSUME MaxCrashesAssumption == MaxCrashes \in Nat

VARIABLES
  \* the store
  launchState,
  batch,        \* the launches asked for together
  deferred,     \* launches with a defer_reason
  outcome,      \* subagent_terminal_outcomes
  answered,     \* child threads that hold a final answer of their run
  rootOpen,     \* running checkpoints of roots
  childOpen,    \* running checkpoints of children
  due,          \* spawn calls without a recorded result
  \* the daemon
  run,          \* the loop of each run
  window,       \* the spawn calls of the round a run is in
  aborted,      \* runs that were aborted
  stage,        \* how far the start and the end of each child are
  volatile,     \* results the queue holds in memory
  \* the promotion controller
  registered,   \* registrations
  drain,        \* drainScheduled, drainRunning
  again,        \* drainAgain
  todo,         \* the groups read from the store that the drain has before it
  starting,     \* launches of a group whose start it awaits
  \* the recovery at startup
  booting, pending, recovered,
  \* history
  crashes,
  ran           \* children whose loop was begun

storeVars == <<launchState, batch, deferred, outcome, answered, rootOpen,
               childOpen, due>>
queueVars == <<registered, drain, again, todo, starting>>
bootVars == <<booting, pending, recovered, crashes, ran>>
vars == <<admissionVars, storeVars, run, window, aborted, stage, volatile,
          queueVars, bootVars>>

Init ==
  /\ AdmissionInit
  /\ launchState = [l \in Launch |-> "none"] /\ deferred = {}
  /\ batch = [l \in Launch |-> {}]
  /\ outcome = [l \in Launch |-> "none"] /\ answered = {}
  /\ rootOpen = Root /\ childOpen = {} /\ due = {}
  /\ run = [r \in Run |-> IF r \in Root THEN "live" ELSE "off"]
  /\ window = [r \in Run |-> {}] /\ aborted = {}
  /\ stage = [l \in Launch |-> "idle"] /\ volatile = {}
  /\ registered = {} /\ drain = "idle" /\ again = FALSE /\ todo = {}
  /\ starting = {}
  /\ booting = FALSE /\ pending = {} /\ recovered = {} /\ crashes = 0
  /\ ran = {}

\* Variant of Queued: a cancelled launch is read as one that waits.
QueuedOrCancelled == {l \in Launch : launchState[l] \in {"queued", "cancelled"}}

Queued == {l \in Launch : launchState[l] = "queued"}
DueOf(r) == {l \in due : parent[l] = r}

\* The recovery has tried every run.  No loop has a turn between that and the
\* reconciliation.
AllTried == pending = {} /\ \A l \in Launch : stage[l] # "recovering"
LoopsTurn == booting => ~AllTried

Working(r) == run[r] = "live" /\ r \notin aborted /\ LoopsTurn

\* schedulePromotion
Wake == again' = TRUE /\ drain' = IF drain = "idle" THEN "scheduled" ELSE drain
WakeIf(b) == IF b THEN Wake ELSE UNCHANGED <<again, drain>>
OtherQueue == <<todo, starting>>

-----------------------------------------------------------------------------
\* A round of a run asks for the launches S: they are accepted durably, and
\* get their leases together or are put off together.
OpenWindow(r, S) ==
  /\ S # {} /\ \A l \in S : launchState[l] = "none"
  /\ \A l \in S, m \in Launch \ S : launchState[m] = "none" => l < m
  /\ Working(r) /\ window[r] = {} /\ DueOf(r) = {}
  /\ launchState' = [l \in Launch |-> IF l \in S THEN "queued" ELSE launchState[l]]
  /\ parent' = [l \in Launch |-> IF l \in S THEN r ELSE parent[l]]
  /\ batch' = [l \in Launch |-> IF l \in S THEN S ELSE batch[l]]
  /\ window' = [window EXCEPT ![r] = S] /\ due' = due \cup S
  /\ \/ Fits(r, Cardinality(S)) /\ Hold(r, S) /\ UNCHANGED deferred
     \/ /\ ~Fits(r, Cardinality(S)) /\ deferred' = deferred \cup S
        /\ KnownTree(r) /\ UNCHANGED <<lease, elder, children>>
  /\ UNCHANGED <<outcome, answered, rootOpen, childOpen, run, aborted, stage,
                 volatile, queueVars, bootVars>>

\* The call is executed: what became of the launch already is the answer.
SpawnAnswered(l) ==
  /\ l \in due /\ Working(parent[l]) /\ launchState[l] # "queued"
  /\ due' = due \ {l}
  /\ UNCHANGED <<admissionVars, launchState, batch, deferred, outcome, answered,
                 rootOpen, childOpen, run, window, aborted, stage, volatile,
                 queueVars, bootVars>>

\* deferLaunch
Register(l) == registered' = registered \cup {l} /\ Wake /\ UNCHANGED OtherQueue

SpawnDeferred(l) ==
  /\ l \in due \cap Queued \cap deferred /\ Working(parent[l])
  /\ due' = due \ {l} /\ Register(l)
  /\ UNCHANGED <<admissionVars, launchState, batch, deferred, outcome, answered,
                 rootOpen, childOpen, run, window, aborted, stage, volatile,
                 bootVars>>

\* runSubagentLaunchPipeline, up to its await.
SpawnNow(l) ==
  /\ l \in (due \cap Queued) \ deferred /\ Working(parent[l])
  /\ due' = due \ {l}
  /\ \/ /\ Admits(parent[l]) /\ Claim(l)
        /\ launchState' = [launchState EXCEPT ![l] = "starting"]
        /\ stage' = [stage EXCEPT ![l] = "preparing"]
        /\ UNCHANGED <<deferred, queueVars>>
     \/ /\ ~Admits(parent[l])
        /\ KnownTree(parent[l]) /\ UNCHANGED <<parent, lease, elder, children>>
        /\ deferred' = deferred \cup {l} /\ Register(l)
        /\ UNCHANGED <<launchState, stage>>
  /\ UNCHANGED <<batch, outcome, answered, rootOpen, childOpen, run, window, aborted,
                 volatile, bootVars>>

\* A call of an aborted run is not made.
SkipCall(l) ==
  /\ l \in due /\ run[parent[l]] = "live" /\ parent[l] \in aborted
  /\ due' = due \ {l}
  /\ UNCHANGED <<admissionVars, launchState, batch, deferred, outcome, answered,
                 rootOpen, childOpen, run, window, aborted, stage, volatile,
                 queueVars, bootVars>>

Setup == {"preparing", "checkpointed", "failing"}

\* The leases that no call took over are given back.
CloseWindow(r) ==
  /\ window[r] # {} /\ run[r] = "live" /\ window[r] \cap due = {}
  /\ \A l \in window[r] : stage[l] \notin Setup
  /\ LET left == {"window"} \X window[r]
     IN Release(left) /\ WakeIf(Held(left))
  /\ window' = [window EXCEPT ![r] = {}]
  /\ UNCHANGED <<storeVars, run, aborted, stage, volatile, registered,
                 OtherQueue, bootVars>>
-----------------------------------------------------------------------------
\* startSubagentBackgroundRun: the child's thread and checkpoint are written.
Prepared(l) ==
  /\ stage[l] = "preparing"
  /\ stage' = [stage EXCEPT ![l] = "checkpointed"]
  /\ childOpen' = childOpen \cup {l}
  /\ UNCHANGED <<admissionVars, launchState, batch, deferred, outcome, answered,
                 rootOpen, due, run, window, aborted, volatile, queueVars,
                 bootVars>>

\* markSubagentLaunchFailedToStart throws in any other state.
FailedToStart(l) ==
  IF launchState[l] \in {"queued", "starting"}
  THEN launchState' = [launchState EXCEPT ![l] = "failed_to_start"]
  ELSE UNCHANGED launchState

\* Variant of GiveBack: the place of a failed start is not given back.
KeepPlace(l) == UNCHANGED <<admissionVars, again, drain>>

GiveBack(l) == Release({Own(l)}) /\ Wake

\* The loop is not admitted, or the thread or the checkpoint is refused.
RefuseStart(l) ==
  /\ stage[l] = "preparing" /\ stage' = [stage EXCEPT ![l] = "idle"]
  /\ GiveBack(l) /\ FailedToStart(l)
  /\ UNCHANGED <<batch, deferred, outcome, answered, rootOpen, childOpen, due, run,
                 window, aborted, volatile, registered, OtherQueue, bootVars>>

\* The checkpoint cannot be written: the pipeline gives the place back and
\* throws.  Nothing is recorded of the launch, which stays starting.
ThrowStart(l) ==
  /\ stage[l] = "preparing" /\ stage' = [stage EXCEPT ![l] = "dropped"]
  /\ GiveBack(l)
  /\ UNCHANGED <<storeVars, run, window, aborted, volatile, registered,
                 OtherQueue, bootVars>>

\* The event that a child was spawned is published for its parent.  The live
\* entry of a root takes no event once the root has ended, and may refuse one
\* earlier (its end is being committed, its journal failed); that of a child
\* is not forwarded.
Takes(r) == r \in Root => run[r] = "live"
MayRefuse(r) == r \in Root

\* beginBackgroundChildLifecycle: the child runs, unless its launch is not
\* starting any more, or its launch is recorded as started and the event is
\* refused then.  What was activated meanwhile is undone in the same step.
Begin(l) ==
  /\ stage[l] = "checkpointed"
  /\ \/ /\ launchState[l] = "starting" /\ Takes(parent[l]) /\ Activate(l)
        /\ launchState' = [launchState EXCEPT ![l] = "started"]
        /\ stage' = [stage EXCEPT ![l] = "running"]
        /\ run' = [run EXCEPT ![l] = "live"] /\ ran' = ran \cup {l}
        /\ UNCHANGED <<again, drain>>
     \/ /\ launchState[l] = "starting" /\ MayRefuse(parent[l]) /\ GiveBack(l)
        /\ launchState' = [launchState EXCEPT ![l] = "started"]
        /\ stage' = [stage EXCEPT ![l] = "failing"]
        /\ UNCHANGED <<run, ran>>
     \/ /\ launchState[l] # "starting" /\ GiveBack(l)
        /\ stage' = [stage EXCEPT ![l] = "failing"]
        /\ UNCHANGED <<launchState, run, ran>>
  /\ UNCHANGED <<batch, deferred, outcome, answered, rootOpen, childOpen, due, window,
                 aborted, volatile, registered, OtherQueue, booting, pending,
                 recovered, crashes>>

\* Its checkpoint is settled.  No result is recorded: if the launch says
\* started, only the daemon's registry of children knows that it failed.
FailStart(l) ==
  /\ stage[l] = "failing"
  /\ stage' = [stage EXCEPT ![l] =
                 IF launchState[l] = "started" THEN "dropped" ELSE "idle"]
  /\ childOpen' = childOpen \ {l}
  /\ UNCHANGED <<admissionVars, launchState, batch, deferred, outcome, answered,
                 rootOpen, due, run, window, aborted, volatile, queueVars,
                 bootVars>>
-----------------------------------------------------------------------------
Finished(r) == window[r] = {} /\ DueOf(r) = {}

\* The child's final answer is written to its thread.
Answer(l) ==
  /\ stage[l] = "running" /\ run[l] = "live" /\ Finished(l)
  /\ stage' = [stage EXCEPT ![l] = "answered"] /\ answered' = answered \cup {l}
  /\ UNCHANGED <<admissionVars, launchState, batch, deferred, outcome, rootOpen,
                 childOpen, due, run, window, aborted, volatile, queueVars,
                 bootVars>>

\* publishTerminalOutcome, after an answer or without one: the child gives its
\* place back and its result is recorded.  A result that is not recorded stays
\* in memory; one that conflicts with an earlier one stays there for good.
Publish(l) ==
  /\ \/ stage[l] = "answered"
     \/ stage[l] = "running" /\ run[l] = "live" /\ Finished(l)
  /\ run' = [run EXCEPT ![l] = "ended"]
  /\ Deactivate(l) /\ Wake
  /\ \/ /\ outcome[l] = "none" /\ outcome' = [outcome EXCEPT ![l] = "result"]
        /\ stage' = [stage EXCEPT ![l] = "settling"] /\ UNCHANGED volatile
     \/ /\ outcome[l] = "none" /\ volatile' = volatile \cup {l}
        /\ stage' = [stage EXCEPT ![l] = "retrying"] /\ UNCHANGED outcome
     \/ /\ outcome[l] # "none" /\ volatile' = volatile \cup {l}
        /\ stage' = [stage EXCEPT ![l] = "settling"] /\ UNCHANGED outcome
  /\ UNCHANGED <<launchState, batch, deferred, answered, rootOpen, childOpen, due,
                 window, aborted, registered, OtherQueue, bootVars>>

\* Variant of AfterRetry: the checkpoint is settled in any case.
SettledAnyway(l) == "settling"

\* Whether a result is recorded decides whether the checkpoint is settled.
AfterRetry(l) == IF outcome[l] = "none" THEN "idle" ELSE "settling"

\* retryVolatileBackgroundResults, of the microtask after the failure.
RetryOnce(l) ==
  /\ stage[l] = "retrying"
  /\ \/ /\ outcome[l] = "none" /\ outcome' = [outcome EXCEPT ![l] = "result"]
        /\ volatile' = volatile \ {l}
        /\ stage' = [stage EXCEPT ![l] = "settling"]
     \/ /\ stage' = [stage EXCEPT ![l] = AfterRetry(l)]
        /\ UNCHANGED <<outcome, volatile>>
  /\ UNCHANGED <<admissionVars, launchState, batch, deferred, answered, rootOpen,
                 childOpen, due, run, window, aborted, queueVars, bootVars>>

\* The same when the parent's thread reads its results.
RetryOnRead(l) ==
  /\ l \in volatile /\ stage[l] = "idle" /\ outcome[l] = "none"
  /\ outcome' = [outcome EXCEPT ![l] = "result"] /\ volatile' = volatile \ {l}
  /\ UNCHANGED <<admissionVars, launchState, batch, deferred, answered, rootOpen,
                 childOpen, due, run, window, aborted, stage, queueVars, bootVars>>

Settle(l) ==
  /\ stage[l] = "settling" /\ stage' = [stage EXCEPT ![l] = "idle"]
  /\ childOpen' = childOpen \ {l}
  /\ UNCHANGED <<admissionVars, launchState, batch, deferred, outcome, answered,
                 rootOpen, due, run, window, aborted, volatile, queueVars,
                 bootVars>>

\* A root ends without waiting for its children.
EndRoot(r) ==
  /\ r \in Root
  /\ \/ run[r] = "live" /\ Finished(r)
     \/ run[r] = "restoring" /\ r \in aborted
  /\ run' = [run EXCEPT ![r] = "ended"] /\ rootOpen' = rootOpen \ {r}
  /\ UNCHANGED <<admissionVars, launchState, batch, deferred, outcome, answered,
                 childOpen, due, window, aborted, stage, volatile, queueVars,
                 bootVars>>

\* Variant of Stoppable: whatever has not ended is cancelled.
StoppableBegun(l) == launchState[l] \in {"queued", "starting", "started"}

Stoppable(l) == l \in Queued

\* agent_stop of a launch that waits: cancelQueuedSubagentLaunchRequest and
\* forgetLaunch.
Stop(l) ==
  /\ Stoppable(l) /\ \E r \in Root : Working(r)
  /\ launchState' = [launchState EXCEPT ![l] = "cancelled"]
  /\ deferred' = deferred \ {l} /\ registered' = registered \ {l}
  /\ Wake /\ UNCHANGED OtherQueue
  /\ UNCHANGED <<admissionVars, batch, outcome, answered, rootOpen, childOpen, due,
                 run, window, aborted, stage, volatile, bootVars>>

\* run.cancel aborts every active run of the thread; launches that wait are
\* not told.
CancelThread ==
  /\ aborted = {}
  /\ aborted' = {r \in Run : run[r] \in {"restoring", "live"}}
  /\ aborted' # {}
  /\ UNCHANGED <<admissionVars, storeVars, run, window, stage, volatile,
                 queueVars, bootVars>>
-----------------------------------------------------------------------------
\* groupQueuedLaunchRequests, in whatever order the priorities give.
Groups == {batch[l] \cap Queued : l \in Queued}
ParentOf(g) == parent[CHOOSE l \in g : TRUE]

\* Variant of Refused: the registrations go before the admission is asked.
RefusedGone(known, g) == known \ g

\* The registrations when a group is not admitted.
Refused(known, g) == known

\* promoteQueuedLaunchGroup, up to its await.  The group was read from the
\* store some awaits ago: what is queued still is started; what is starting is
\* started a second time, which its active thread refuses, and the refusal is
\* recorded; of the rest nothing is kept.
Attempt(g, known) ==
  LET r == ParentOf(g)
      S == g \cap Queued
  IN \/ /\ ~(g \subseteq known)
        /\ registered' = known /\ drain' = "running"
        /\ UNCHANGED <<admissionVars, launchState, deferred, stage, starting>>
     \/ /\ g \subseteq known /\ ~Fits(r, Cardinality(g))
        /\ registered' = Refused(known, g) /\ drain' = "running" /\ KnownTree(r)
        /\ UNCHANGED <<parent, lease, elder, children, launchState, deferred,
                       stage, starting>>
     \/ /\ g \subseteq known /\ Fits(r, Cardinality(g))
        /\ registered' = known \ g /\ drain' = "awaiting"
        /\ Promote(r, g, S)
        /\ launchState' = [l \in Launch |->
             IF l \in S THEN "starting"
             ELSE IF l \in g /\ launchState[l] = "starting" THEN "failed_to_start"
             ELSE launchState[l]]
        /\ deferred' = deferred \ S
        /\ stage' = [l \in Launch |-> IF l \in S THEN "preparing" ELSE stage[l]]
        /\ starting' = S

\* A start that comes to nothing gives its lease back.
Wakes(g, known) ==
  /\ g \subseteq known /\ ~(g \subseteq Queued)
  /\ Fits(ParentOf(g), Cardinality(g))

\* drainPromotionQueue reads the store, and goes on with the first group.
DrainRead ==
  /\ \/ drain = "scheduled"
     \/ drain = "running" /\ todo = {} /\ again
  /\ \/ /\ Queued = {} /\ registered' = {} /\ again' = FALSE
        /\ drain' = "running"
        /\ UNCHANGED <<todo, starting, admissionVars, launchState, deferred, stage>>
     \/ \E g \in Groups :
          /\ todo' = Groups \ {g} /\ Attempt(g, registered \cap Queued)
          /\ again' = Wakes(g, registered \cap Queued)
  /\ UNCHANGED <<batch, outcome, answered, rootOpen, childOpen, due, run, window,
                 aborted, volatile, bootVars>>

PromoteNext(g) ==
  /\ g \in todo /\ drain = "running"
  /\ todo' = todo \ {g} /\ Attempt(g, registered)
  /\ again' = (again \/ Wakes(g, registered))
  /\ UNCHANGED <<batch, outcome, answered, rootOpen, childOpen, due, run, window,
                 aborted, volatile, bootVars>>

\* Every start of the group is settled: its reservation is released.
DrainSettled ==
  /\ drain = "awaiting" /\ \A l \in starting : stage[l] \notin Setup
  /\ starting' = {} /\ drain' = "running"
  /\ LET left == {"promotion"} \X Launch
     IN Release(left) /\ again' = (again \/ Held(left))
  /\ UNCHANGED <<storeVars, run, window, aborted, stage, volatile, registered,
                 todo, bootVars>>

\* Variant of DrainDone: the drain returns at the group it cannot admit.
DrainReturns == ~again

\* Variant of DrainDone: a wake-up during the drain is taken for done.
DrainForgets == todo = {}

DrainDone == todo = {} /\ ~again

DrainEnd ==
  /\ drain = "running" /\ DrainDone /\ drain' = "idle"
  /\ UNCHANGED <<admissionVars, storeVars, run, window, aborted, stage, volatile,
                 registered, again, OtherQueue, bootVars>>
-----------------------------------------------------------------------------
\* The daemon dies and starts again.  Of the calls of a round under way those
\* whose result was not recorded are made again.
Crash ==
  /\ crashes < MaxCrashes /\ crashes' = crashes + 1
  /\ \E lost \in SUBSET UNION {window[r] : r \in Run} : due' = due \cup lost
  /\ Forget
  /\ run' = [r \in Run |-> "off"] /\ window' = [r \in Run |-> {}]
  /\ aborted' = {} /\ stage' = [l \in Launch |-> "idle"] /\ volatile' = {}
  /\ registered' = {} /\ drain' = "idle" /\ again' = FALSE
  /\ todo' = {} /\ starting' = {}
  /\ booting' = TRUE /\ pending' = rootOpen \cup childOpen /\ recovered' = {}
  /\ UNCHANGED <<launchState, batch, deferred, outcome, answered, rootOpen, childOpen,
                 ran>>

\* recoverDurableRunsAtDaemonStartup, a run at a time, roots first.  Recovery
\* of a root may not come about.
RecoverRoot(r) ==
  /\ booting /\ r \in pending \cap Root /\ pending' = pending \ {r}
  /\ \/ recovered' = recovered \cup {r} /\ run' = [run EXCEPT ![r] = "restoring"]
     \/ UNCHANGED <<recovered, run>>
  /\ UNCHANGED <<admissionVars, storeVars, window, aborted, stage, volatile,
                 queueVars, booting, crashes, ran>>

\* restoreQueuedSubagentLaunchesForParent: a recovered loop registers the
\* launches of its run that wait, before it makes the calls again.
RestoreQueued(r) ==
  LET back == {l \in Queued : parent[l] = r}
  IN registered' = registered \cup back /\ WakeIf(back # {}) /\ UNCHANGED OtherQueue

Restore(r) ==
  /\ run[r] = "restoring" /\ r \notin aborted /\ LoopsTurn
  /\ run' = [run EXCEPT ![r] = "live"] /\ RestoreQueued(r)
  /\ UNCHANGED <<admissionVars, storeVars, window, aborted, stage, volatile,
                 bootVars>>

\* Variant of Persisted: no transcript is looked at.
NotPersisted(l) == FALSE

\* The transcript of a child that can be recovered has its final answer.
Persisted(l) == l \in answered /\ launchState[l] \in {"starting", "started"}

\* Children with a result, and then those with a final answer in their
\* transcript: the answer becomes their result.
SettlePersisted(l) ==
  /\ booting /\ l \in pending \cap Launch /\ pending \cap Root = {}
  /\ \/ outcome[l] # "none" /\ UNCHANGED outcome
     \/ /\ outcome[l] = "none" /\ \A m \in pending : outcome[m] = "none"
        /\ Persisted(l)
        /\ outcome' = [outcome EXCEPT ![l] = "restart"]
  /\ pending' = pending \ {l} /\ childOpen' = childOpen \ {l}
  /\ UNCHANGED <<admissionVars, launchState, batch, deferred, answered, rootOpen, due,
                 run, window, aborted, stage, volatile, queueVars, booting,
                 recovered, crashes, ran>>

\* The rest are left, parents before their children, one at a time.
ToReadopt(l) ==
  /\ booting /\ l \in pending \cap Launch /\ pending \cap Root = {}
  /\ \A m \in pending \cap Launch : outcome[m] = "none" /\ ~Persisted(m)
  /\ \A m \in Launch : stage[m] # "recovering"

ParentGivenUp(l) ==
  parent[l] \in (childOpen \cap Launch) \ (pending \cup recovered)

GiveUp(l) ==
  /\ ToReadopt(l) /\ parent[l] \notin pending /\ pending' = pending \ {l}
  /\ \/ /\ launchState[l] \in {"starting", "started"} => ParentGivenUp(l)
        /\ UNCHANGED admissionVars
     \/ /\ launchState[l] \in {"starting", "started"} /\ ~ParentGivenUp(l)
        /\ ~Fits(parent[l], 1)
        /\ KnownTree(parent[l]) /\ UNCHANGED <<parent, lease, elder, children>>
  /\ UNCHANGED <<storeVars, run, window, aborted, stage, volatile, queueVars,
                 booting, recovered, crashes, ran>>

\* recoverSubagentBackgroundRun, up to its await, and after it, when the
\* child's loop begins at once.
Readopt(l) ==
  /\ ToReadopt(l) /\ parent[l] \notin pending /\ pending' = pending \ {l}
  /\ launchState[l] \in {"starting", "started"} /\ ~ParentGivenUp(l)
  /\ Fits(parent[l], 1)
  /\ lease' = [lease EXCEPT ![Own(l)] = TreeOf(parent[l])]
  /\ KnownTree(parent[l]) /\ UNCHANGED <<parent, elder, children>>
  /\ stage' = [stage EXCEPT ![l] = "recovering"]
  /\ UNCHANGED <<storeVars, run, window, aborted, volatile, queueVars,
                 booting, recovered, crashes, ran>>

Readopted(l) ==
  /\ stage[l] = "recovering" /\ Activate(l)
  /\ launchState' = [launchState EXCEPT ![l] = "started"]
  /\ stage' = [stage EXCEPT ![l] = "running"]
  /\ run' = [run EXCEPT ![l] = "live"] /\ RestoreQueued(l)
  /\ recovered' = recovered \cup {l} /\ ran' = ran \cup {l}
  /\ UNCHANGED <<batch, deferred, outcome, answered, rootOpen, childOpen, due, window,
                 aborted, volatile, booting, pending, crashes>>

ReadoptFails(l) ==
  /\ stage[l] = "recovering" /\ stage' = [stage EXCEPT ![l] = "idle"]
  /\ GiveBack(l)
  /\ UNCHANGED <<storeVars, run, window, aborted, volatile, registered,
                 OtherQueue, bootVars>>

\* Variant of Lost: a launch that did not get beyond starting is passed over.
LostStarted ==
  {l \in Launch :
     /\ outcome[l] = "none"
     /\ \/ launchState[l] = "started" /\ l \notin recovered
        \/ launchState[l] = "queued" /\ parent[l] \notin recovered}

\* reconcileSubagentLaunchesAfterRestart, and the checkpoints of the children
\* it gave up.
Lost ==
  {l \in Launch :
     /\ outcome[l] = "none"
     /\ \/ launchState[l] \in {"starting", "started"} /\ l \notin recovered
        \/ launchState[l] = "queued" /\ parent[l] \notin recovered}

Reconcile ==
  /\ booting /\ AllTried /\ booting' = FALSE
  /\ launchState' = [l \in Launch |-> IF l \in Lost THEN "interrupted" ELSE launchState[l]]
  /\ outcome' = [l \in Launch |-> IF l \in Lost THEN "restart" ELSE outcome[l]]
  /\ deferred' = (deferred \cup Queued) \ Lost
  /\ childOpen' = {l \in childOpen : stage[l] # "idle" \/ outcome'[l] = "none"}
  /\ UNCHANGED <<admissionVars, batch, answered, rootOpen, due, run, window, aborted,
                 stage, volatile, queueVars, pending, recovered, crashes, ran>>
-----------------------------------------------------------------------------
Next ==
  \/ \E r \in Run, S \in SUBSET Launch : OpenWindow(r, S)
  \/ \E r \in Run : CloseWindow(r) \/ RecoverRoot(r) \/ Restore(r) \/ EndRoot(r)
  \/ \E l \in Launch :
       \/ SpawnAnswered(l) \/ SpawnDeferred(l) \/ SpawnNow(l) \/ SkipCall(l)
       \/ Prepared(l) \/ RefuseStart(l) \/ ThrowStart(l) \/ Begin(l) \/ FailStart(l)
       \/ Answer(l) \/ Publish(l) \/ RetryOnce(l) \/ RetryOnRead(l) \/ Settle(l)
       \/ Stop(l)
       \/ SettlePersisted(l) \/ GiveUp(l) \/ Readopt(l) \/ Readopted(l) \/ ReadoptFails(l)
  \/ \E g \in todo : PromoteNext(g)
  \/ CancelThread \/ DrainRead \/ DrainSettled \/ DrainEnd \/ Crash \/ Reconcile

Spec == Init /\ [][Next]_vars
-----------------------------------------------------------------------------
(* Properties *)

\* Types; outside a drain there is nothing left of one.
TypeOK ==
  /\ limit \in Limits /\ parent \in [Launch -> Run \cup {None}]
  /\ lease \in [Lease -> Run \cup {None}]
  /\ elder \in [Run -> Holder] /\ tree \in [Run -> Run \cup {None}]
  /\ children \subseteq Launch
  /\ launchState \in [Launch -> {"none", "queued", "starting", "started", "cancelled",
                                "failed_to_start", "interrupted"}]
  /\ batch \in [Launch -> SUBSET Launch] /\ deferred \subseteq Launch
  /\ outcome \in [Launch -> {"none", "result", "restart"}]
  /\ answered \subseteq Launch /\ rootOpen \subseteq Root
  /\ childOpen \subseteq Launch /\ due \subseteq Launch
  /\ run \in [Run -> {"off", "restoring", "live", "ended"}]
  /\ window \in [Run -> SUBSET Launch] /\ aborted \subseteq Run
  /\ stage \in [Launch -> Setup \cup {"idle", "recovering", "running", "answered",
                                     "retrying", "settling", "dropped"}]
  /\ volatile \subseteq Launch /\ registered \subseteq Launch
  /\ drain \in {"idle", "scheduled", "running", "awaiting"}
  /\ again \in BOOLEAN /\ todo \subseteq SUBSET Launch /\ starting \subseteq Launch
  /\ drain \in {"idle", "scheduled"} => todo = {}
  /\ drain # "awaiting" => starting = {}
  /\ booting \in BOOLEAN /\ pending \subseteq Run /\ recovered \subseteq Run
  /\ crashes \in 0..MaxCrashes /\ ran \subseteq Launch

\* No tree gives out more places than the policy has, whatever is reserved by
\* windows and promotions, taken over, activated or recovered meanwhile
\* (reserveSlots, transferOneExistingReservation).
WithinLimit == \A t \in Run : Cardinality(Active(t)) <= limit

\* A place is held from the admission of a child to its end and no longer: none
\* leaks on a refused, failed or doubled start, and a reservation does not
\* outlive the window or the promotion it was made for (release of reserveSlots'
\* reservation, cleanupChildLifecycle).
LeaseHeld ==
  /\ \A l \in Launch :
       /\ lease[Own(l)] # None <=>
            stage[l] \in {"preparing", "checkpointed", "recovering", "running", "answered"}
       /\ l \in children <=> stage[l] \in {"running", "answered"}
       /\ lease[<<"window", l>>] # None => l \in window[parent[l]]
       /\ lease[<<"promotion", l>>] # None => drain = "awaiting"

\* A launch the agent was told is cancelled, or that was recorded as failed to
\* start, never runs, though the drain may hold a read of the queue that is
\* older (agent_stop, promoteQueuedLaunchGroup, markSubagentLaunchStarted).
GivenUpNeverRuns ==
  \A l \in Launch : launchState[l] \in {"cancelled", "failed_to_start"} =>
    stage[l] \notin {"recovering", "running", "answered"}

\* A child that has given its final answer is not run again after a restart
\* (reconcilePersistedTerminalCheckpoint: "refuse a duplicate model/tool replay").
AnsweredOnce ==
  \A l \in answered :
    stage[l] \notin {"preparing", "checkpointed", "recovering", "running"}

\* The checkpoint of a child that ran, in whichever life of the daemon, is closed
\* only once its result is durable: a result that is in memory only can be had
\* again after a crash (settleBackgroundChildCheckpoint after
\* publishTerminalOutcome, and its early return for a result that was not stored).
ResultBeforeSettlement ==
  \A l \in ran : outcome[l] = "none" => l \in childOpen

\* A launch that got as far as starting is being started, runs, or has a result
\* to be told, durable or in memory.  The exception is a launch whose start threw
\* after that was recorded (beginBackgroundChildLifecycle, startRun): nothing is
\* to be told of it until a restart, but then its child has never run, and a
\* restart gives it a result (reconcileSubagentLaunchesAfterRestart).
Accounted ==
  \A l \in Launch : ~booting /\ launchState[l] \in {"starting", "started"} =>
    \/ outcome[l] # "none" \/ l \in volatile
    \/ stage[l] \notin {"idle", "dropped"}
    \/ stage[l] = "dropped" /\ l \notin ran

\* A launch that waits is in the hands of something that can start it: the
\* promotion, or the loop of its parent, unless the parent was aborted
\* (deferLaunch, restoreQueuedLaunch, the drain's clearing of registrations).
NoQueueLost ==
  \A l \in Queued : ~booting =>
    l \in registered \cup due \/ run[parent[l]] = "restoring" \/ parent[l] \in aborted

\* A launch that was asked for together with those of g holds a place.
Outrun(g) == \E l \in g : \E m \in batch[l] : lease[Own(m)] # None

\* The promotion is never at rest while a group it could admit waits
\* (drainAgain, drainScheduled and drainRunning against every release), unless a
\* call of the same window, made after the rest had been put off, took a place by
\* itself: that leaves a smaller group, which the return of that place wakes.
NoLostWakeup ==
  drain = "idle" =>
    \A g \in Groups : g \subseteq registered /\ ~Outrun(g) =>
      ~Fits(ParentOf(g), Cardinality(g))

\* Handles keep the promise of LaunchLedger: begun once, declined before any
\* report, reported for good, whatever crashes (the launch and the terminal store).
Handle(l) ==
  IF outcome[l] # "none" THEN "reported"
  ELSE IF launchState[l] = "none" THEN "none"
  ELSE IF launchState[l] = "queued" THEN "accepted"
  ELSE IF launchState[l] \in {"starting", "started"} THEN "begun" ELSE "declined"

Ledger == INSTANCE LaunchLedger WITH handle <- [l \in Launch |-> Handle(l)]
HandlesKept == Ledger!Spec

\* The launches of a root, those its children asked for, and so on.
Descendants(r) ==
  LET below[l \in Launch] ==
        parent[l] = r \/ (parent[l] \in Launch /\ below[parent[l]])
  IN {l \in Launch : below[l]}

\* What the refusal says, "maximum ... concurrent descendant agents allowed per
\* run tree" (subagent-concurrency.ts:389, and the test "configured child capacity
\* is shared by recursive descendants in one run tree", subagent-concurrency.
\* test.ts:144): no more children of a root, and theirs, run than the policy has.
DescendantsWithinLimit == \A r \in Root : Cardinality(Descendants(r) \cap children) <= limit
=============================================================================
