------------------------- MODULE SubagentLaunchProofs -------------------------
(***************************************************************************)
(* Proofs about SubagentLaunch for any roots, any finite set of launches,  *)
(* any limits, and any number of crashes.                                  *)
(***************************************************************************)
EXTENDS SubagentLaunch, FiniteSetTheorems, TLAPS

-----------------------------------------------------------------------------
\* The course of one launch: what its stage, its record, its result and its
\* checkpoint say of each other.

\* While it is being started.
Setting(l) ==
  /\ stage[l] # "idle" => launchState[l] \notin {"none", "queued"}
  /\ stage[l] \in {"preparing", "checkpointed"} =>
       launchState[l] \in {"starting", "failed_to_start", "interrupted"}
  /\ stage[l] = "failing" =>
       launchState[l] \in {"started", "failed_to_start", "interrupted"}
  /\ stage[l] = "checkpointed" => l \in childOpen
  /\ stage[l] \in Setup \cup {"dropped"} => l \notin ran
  /\ l \in ran => launchState[l] \notin {"none", "queued"}

\* While it runs and ends.
Running(l) ==
  /\ stage[l] \in {"running", "answered", "retrying"} =>
       \/ launchState[l] = "started"
       \/ launchState[l] = "interrupted" /\ outcome[l] # "none"
  /\ stage[l] = "settling" => outcome[l] # "none"
  /\ stage[l] = "retrying" /\ outcome[l] = "none" => l \in volatile
  /\ l \in volatile => launchState[l] = "started" \/ outcome[l] # "none"
  /\ outcome[l] # "none" => launchState[l] \notin {"none", "queued"}

\* While it is recovered.
Recovering(l) ==
  /\ stage[l] = "recovering" =>
       /\ launchState[l] \in {"starting", "started"}
       /\ l \in childOpen /\ l \notin answered
  /\ l \in pending => l \in childOpen /\ stage[l] = "idle"
  /\ stage[l] = "recovering" \/ l \in pending =>
       /\ booting /\ l \notin recovered
       /\ \A g \in todo : l \notin g
  /\ l \in childOpen \cup answered => launchState[l] \notin {"none", "queued"}

\* What is left of it.
Left(l) ==
  /\ l \in ran /\ outcome[l] = "none" => l \in childOpen
  /\ (~booting \/ l \in recovered) /\ launchState[l] \in {"starting", "started"} =>
       stage[l] # "idle" \/ outcome[l] # "none" \/ l \in volatile
  /\ l \in answered => stage[l] \notin {"preparing", "checkpointed", "recovering", "running"}

Course(l) == Setting(l) /\ Running(l) /\ Recovering(l) /\ Left(l)

\* What a step makes of the handle of a launch.
Moves(l) == <<Handle(l), Handle(l)'>> \in Ledger!Edge \/ Handle(l)' = Handle(l)

Typed ==
  /\ launchState \in [Launch -> {"none", "queued", "starting", "started", "cancelled",
                                "failed_to_start", "interrupted"}]
  /\ outcome \in [Launch -> {"none", "result", "restart"}]
  /\ stage \in [Launch -> Setup \cup {"idle", "recovering", "running", "answered",
                                     "retrying", "settling", "dropped"}]
  /\ rootOpen \subseteq Root

\* The spawn call of a launch is made.
LEMMA SpawnStep ==
  ASSUME Typed, NEW k \in Launch, SpawnNow(k), NEW l \in Launch, Course(l)
  PROVE  Course(l)' /\ Moves(l)
BY DEF Course, Setting, Setup, Running, Recovering, Left, Moves, Handle, Ledger!Edge,
       Typed, SpawnNow, Register, Queued, vars, storeVars, queueVars, bootVars,
       OtherQueue

\* A start that gets as far as the checkpoint.
LEMMA PreparedStep ==
  ASSUME Typed, NEW k \in Launch, Prepared(k), NEW l \in Launch, Course(l)
  PROVE  Course(l)' /\ Moves(l)
BY DEF Course, Setting, Setup, Running, Recovering, Left, Moves, Handle, Ledger!Edge,
       Typed, Prepared, vars, storeVars, queueVars, bootVars, OtherQueue

\* A start that is refused.
LEMMA RefusedStep ==
  ASSUME Typed, NEW k \in Launch, RefuseStart(k), NEW l \in Launch, Course(l)
  PROVE  Course(l)' /\ Moves(l)
BY DEF Course, Setting, Setup, Running, Recovering, Left, Moves, Handle, Ledger!Edge,
       Typed, RefuseStart, FailedToStart, vars, storeVars, queueVars, bootVars,
       OtherQueue

\* A start that throws.
LEMMA ThrownStep ==
  ASSUME Typed, NEW k \in Launch, ThrowStart(k), NEW l \in Launch, Course(l)
  PROVE  Course(l)' /\ Moves(l)
BY DEF Course, Setting, Setup, Running, Recovering, Left, Moves, Handle, Ledger!Edge,
       Typed, ThrowStart, vars, storeVars, queueVars, bootVars, OtherQueue

\* A child begins, or is not to.
LEMMA BeginStep ==
  ASSUME Typed, NEW k \in Launch, Begin(k), NEW l \in Launch, Course(l)
  PROVE  Course(l)' /\ Moves(l)
BY DEF Course, Setting, Setup, Running, Recovering, Left, Moves, Handle, Ledger!Edge,
       Typed, Begin, vars, storeVars, queueVars, bootVars, OtherQueue

\* A start that failed is settled.
LEMMA FailedStep ==
  ASSUME Typed, NEW k \in Launch, FailStart(k), NEW l \in Launch, Course(l)
  PROVE  Course(l)' /\ Moves(l)
BY DEF Course, Setting, Setup, Running, Recovering, Left, Moves, Handle, Ledger!Edge,
       Typed, FailStart, vars, storeVars, queueVars, bootVars, OtherQueue

\* A child answers.
LEMMA AnswerStep ==
  ASSUME Typed, NEW k \in Launch, Answer(k), NEW l \in Launch, Course(l)
  PROVE  Course(l)' /\ Moves(l)
BY DEF Course, Setting, Setup, Running, Recovering, Left, Moves, Handle, Ledger!Edge,
       Typed, Answer, vars, storeVars, queueVars, bootVars, OtherQueue

\* A child ends.
LEMMA PublishStep ==
  ASSUME Typed, NEW k \in Launch, Publish(k), NEW l \in Launch, Course(l)
  PROVE  Course(l)' /\ Moves(l)
BY DEF Course, Setting, Setup, Running, Recovering, Left, Moves, Handle, Ledger!Edge,
       Typed, Publish, vars, storeVars, queueVars, bootVars, OtherQueue

\* Its result is stored later, or not.
LEMMA RetryStep ==
  ASSUME Typed, NEW k \in Launch, RetryOnce(k) \/ RetryOnRead(k), NEW l \in Launch, Course(l)
  PROVE  Course(l)' /\ Moves(l)
BY DEF Course, Setting, Setup, Running, Recovering, Left, Moves, Handle, Ledger!Edge,
       Typed, RetryOnce, AfterRetry, RetryOnRead, vars, storeVars, queueVars,
       bootVars, OtherQueue

\* Its checkpoint is settled.
LEMMA SettleStep ==
  ASSUME Typed, NEW k \in Launch, Settle(k), NEW l \in Launch, Course(l)
  PROVE  Course(l)' /\ Moves(l)
BY DEF Course, Setting, Setup, Running, Recovering, Left, Moves, Handle, Ledger!Edge,
       Typed, Settle, vars, storeVars, queueVars, bootVars, OtherQueue

\* A launch that waits is stopped.
LEMMA StopStep ==
  ASSUME Typed, NEW k \in Launch, Stop(k), NEW l \in Launch, Course(l)
  PROVE  Course(l)' /\ Moves(l)
BY DEF Course, Setting, Setup, Running, Recovering, Left, Moves, Handle, Ledger!Edge,
       Typed, Stop, Stoppable, Queued, vars, storeVars, queueVars, bootVars,
       OtherQueue

\* The recovery takes the answer of a child from its transcript.
LEMMA SettlePersistedStep ==
  ASSUME Typed, NEW k \in Launch, SettlePersisted(k), NEW l \in Launch, Course(l)
  PROVE  Course(l)' /\ Moves(l)
BY DEF Course, Setting, Setup, Running, Recovering, Left, Moves, Handle, Ledger!Edge,
       Typed, SettlePersisted, Persisted, vars, storeVars, queueVars, bootVars,
       OtherQueue

\* The recovery gives a child up.
LEMMA GiveUpStep ==
  ASSUME Typed, NEW k \in Launch, GiveUp(k), NEW l \in Launch, Course(l)
  PROVE  Course(l)' /\ Moves(l)
BY DEF Course, Setting, Setup, Running, Recovering, Left, Moves, Handle, Ledger!Edge,
       Typed, GiveUp, vars, storeVars, queueVars, bootVars, OtherQueue

\* The recovery takes a child up.
LEMMA ReadoptStep ==
  ASSUME Typed, NEW k \in Launch, Readopt(k), NEW l \in Launch, Course(l)
  PROVE  Course(l)' /\ Moves(l)
BY DEF Course, Setting, Setup, Running, Recovering, Left, Moves, Handle, Ledger!Edge,
       Typed, Readopt, ToReadopt, Persisted, vars, storeVars, queueVars, bootVars,
       OtherQueue

\* A child taken up runs.
LEMMA ReadoptedStep ==
  ASSUME Typed, NEW k \in Launch, Readopted(k), NEW l \in Launch, Course(l)
  PROVE  Course(l)' /\ Moves(l)
BY DEF Course, Setting, Setup, Running, Recovering, Left, Moves, Handle, Ledger!Edge,
       Typed, Readopted, RestoreQueued, vars, storeVars, queueVars, bootVars,
       OtherQueue

\* A child taken up cannot be run.
LEMMA ReadoptFailsStep ==
  ASSUME Typed, NEW k \in Launch, ReadoptFails(k), NEW l \in Launch, Course(l)
  PROVE  Course(l)' /\ Moves(l)
BY DEF Course, Setting, Setup, Running, Recovering, Left, Moves, Handle, Ledger!Edge,
       Typed, ReadoptFails, vars, storeVars, queueVars, bootVars, OtherQueue

\* The steps that change nothing of the course of a launch.
LEMMA OtherStep ==
  ASSUME NEW l \in Launch, Course(l),
         UNCHANGED <<launchState, outcome, answered, childOpen, stage, volatile, booting, ran>>,
         todo' \subseteq todo, pending' \subseteq pending,
         l \in recovered' <=> l \in recovered
  PROVE  Course(l)' /\ Moves(l)
BY DEF Course, Setting, Setup, Running, Recovering, Left, Moves, Handle

\* A window opens.
LEMMA WindowStep ==
  ASSUME Typed, NEW r \in Run, NEW S \in SUBSET Launch, OpenWindow(r, S),
         NEW l \in Launch, Course(l)
  PROVE  Course(l)' /\ Moves(l)
BY DEF Course, Setting, Setup, Running, Recovering, Left, Moves, Handle, Ledger!Edge,
       Typed, OpenWindow, vars, storeVars, queueVars, bootVars, OtherQueue

\* A group is promoted; of what is queued only can a recovered launch be.
LEMMA AttemptStep ==
  ASSUME Typed, NEW g, NEW known, Attempt(g, known), NEW l \in Launch, Course(l),
         UNCHANGED <<outcome, answered, childOpen, volatile, bootVars>>,
         g \in todo \/ g \subseteq Queued,
         todo' \subseteq todo \cup SUBSET Queued
  PROVE  Course(l)' /\ Moves(l)
BY DEF Course, Setting, Setup, Running, Recovering, Left, Moves, Handle, Ledger!Edge,
       Typed, Attempt, Queued, bootVars

\* The drain reads the store or goes on with a group it read.
LEMMA DrainStep ==
  ASSUME Typed, DrainRead \/ \E g \in todo : PromoteNext(g), NEW l \in Launch, Course(l)
  PROVE  Course(l)' /\ Moves(l)
<1>1. ASSUME NEW g \in todo, PromoteNext(g) PROVE Course(l)' /\ Moves(l)
  BY <1>1, AttemptStep DEF PromoteNext
<1>2. CASE DrainRead /\ Queued = {}
  BY <1>2, OtherStep DEF DrainRead, bootVars, Groups
<1>3. CASE DrainRead /\ Queued # {}
  BY <1>3, AttemptStep DEF DrainRead, bootVars, Groups
<1> QED BY <1>1, <1>2, <1>3

\* A crash leaves nothing in progress, and what is open to be recovered.
LEMMA CrashStep ==
  ASSUME Root \cap Launch = {}, Crash, Typed, NEW l \in Launch, Course(l)
  PROVE  Course(l)' /\ Moves(l)
BY DEF Course, Setting, Setup, Running, Recovering, Left, Moves, Handle, Ledger!Edge,
       Typed, Crash

\* What was not recovered is given up, with a result.
LEMMA ReconcileStep ==
  ASSUME Reconcile, Typed, NEW l \in Launch, Course(l)
  PROVE  Course(l)' /\ Moves(l)
BY DEF Course, Setting, Setup, Running, Recovering, Left, Moves, Handle, Ledger!Edge,
       Typed, Reconcile, AllTried, Lost, queueVars, bootVars

-----------------------------------------------------------------------------
\* The types of the places, and of the rest.
AdmissionType ==
  /\ limit \in Limits /\ parent \in [Launch -> Run \cup {None}]
  /\ lease \in [Lease -> Run \cup {None}]
  /\ elder \in [Run -> Holder] /\ tree \in [Run -> Run \cup {None}]
  /\ children \subseteq Launch

StoreType ==
  /\ launchState \in [Launch -> {"none", "queued", "starting", "started", "cancelled",
                                "failed_to_start", "interrupted"}]
  /\ batch \in [Launch -> SUBSET Launch] /\ deferred \subseteq Launch
  /\ outcome \in [Launch -> {"none", "result", "restart"}]
  /\ answered \subseteq Launch /\ rootOpen \subseteq Root
  /\ childOpen \subseteq Launch /\ due \subseteq Launch

DaemonType ==
  /\ run \in [Run -> {"off", "restoring", "live", "ended"}]
  /\ window \in [Run -> SUBSET Launch] /\ aborted \subseteq Run
  /\ stage \in [Launch -> Setup \cup {"idle", "recovering", "running", "answered",
                                     "retrying", "settling", "dropped"}]
  /\ volatile \subseteq Launch /\ registered \subseteq Launch
  /\ booting \in BOOLEAN /\ pending \subseteq Run /\ recovered \subseteq Run
  /\ crashes \in 0..MaxCrashes /\ ran \subseteq Launch

DrainType ==
  /\ drain \in {"idle", "scheduled", "running", "awaiting"}
  /\ again \in BOOLEAN /\ todo \subseteq SUBSET Launch /\ starting \subseteq Launch
  /\ drain \in {"idle", "scheduled"} => todo = {}
  /\ drain # "awaiting" => starting = {}

\* Together they are the type invariant.
LEMMA TypeParts == TypeOK <=> AdmissionType /\ StoreType /\ DaemonType /\ DrainType
BY DEF TypeOK, AdmissionType, StoreType, DaemonType, DrainType

\* The operations of SubagentAdmission keep its types: leases for a window.
LEMMA HoldTyped ==
  ASSUME SubagentAdmissionAssumption, AdmissionType, NEW r \in Run, NEW S \in SUBSET Launch,
         parent' \in [Launch -> Run \cup {None}], Hold(r, S)
  PROVE  AdmissionType'
BY DEF AdmissionType, SubagentAdmissionAssumption, Run, TreeOf, Hold, KnownTree,
       Senior, Spare, Lease, Holder

\* A lease of one's own.
LEMMA ClaimTyped ==
  ASSUME SubagentAdmissionAssumption, AdmissionType, NEW l \in Launch, parent[l] \in Run, Claim(l)
  PROVE  AdmissionType'
BY DEF AdmissionType, SubagentAdmissionAssumption, Run, TreeOf, Claim,
       KnownTree, Handover

\* Leases for a promotion.
LEMMA PromoteTyped ==
  ASSUME SubagentAdmissionAssumption, AdmissionType, NEW r \in Run, NEW g, NEW S, Promote(r, g, S)
  PROVE  AdmissionType'
BY DEF AdmissionType, SubagentAdmissionAssumption, Run, TreeOf, Promote,
       KnownTree, Senior, Spare, Lease, Holder

\* A child joins its tree.
LEMMA ActivateTyped ==
  ASSUME SubagentAdmissionAssumption, AdmissionType, NEW l \in Launch, Activate(l)
  PROVE  AdmissionType'
BY DEF AdmissionType, SubagentAdmissionAssumption, Run, TreeOf, Activate, Own,
       Lease, Holder

\* A child leaves its tree.
LEMMA DeactivateTyped ==
  ASSUME SubagentAdmissionAssumption, AdmissionType, NEW l \in Launch, Deactivate(l)
  PROVE  AdmissionType'
BY DEF AdmissionType, SubagentAdmissionAssumption, Run, TreeOf, Deactivate,
       Without

\* Leases are given back.
LEMMA ReleaseTyped ==
  ASSUME SubagentAdmissionAssumption, AdmissionType, NEW gone, Release(gone)
  PROVE  AdmissionType'
BY DEF AdmissionType, SubagentAdmissionAssumption, Run, TreeOf, Release, Without

\* A new process.
LEMMA ForgetTyped ==
  ASSUME SubagentAdmissionAssumption, AdmissionType, Forget
  PROVE  AdmissionType'
BY DEF AdmissionType, SubagentAdmissionAssumption, Run, TreeOf, Forget, Holder

\* A tree is made for the parent only.
LEMMA KnownTreeTyped ==
  ASSUME SubagentAdmissionAssumption, AdmissionType, NEW r \in Run, KnownTree(r), parent' \in [Launch -> Run \cup {None}],
         UNCHANGED <<lease, elder, children>>
  PROVE  AdmissionType'
BY DEF AdmissionType, SubagentAdmissionAssumption, Run, TreeOf, KnownTree
-----------------------------------------------------------------------------
\* What is known of launches that were asked for.
Asked ==
  /\ \A l \in Launch : launchState[l] # "none" => parent[l] \in Run /\ l \in batch[l]
  /\ \A l \in due : launchState[l] # "none"
  /\ \A r \in Run : \A l \in window[r] : launchState[l] # "none"
  /\ \A g \in todo : g # {} /\ \A l \in g : launchState[l] # "none"
  /\ \A l \in Launch : run[l] # "restoring"

\* A lease for a child that is taken up again.
LEMMA ReserveTyped ==
  ASSUME SubagentAdmissionAssumption, AdmissionType, NEW l \in Launch, parent[l] \in Run,
         lease' = [lease EXCEPT ![Own(l)] = TreeOf(parent[l])], KnownTree(parent[l]),
         UNCHANGED <<parent, elder, children>>
  PROVE  AdmissionType'
BY DEF AdmissionType, KnownTree, TreeOf

\* A drain that reads the store finds nothing that waits, or goes on with a
\* group of launches that wait.
LEMMA Read ==
  ASSUME DrainRead, Asked, StoreType
  PROVE  \/ /\ registered' = {} /\ drain' = "running" /\ again' = FALSE /\ Queued = {}
            /\ UNCHANGED <<todo, starting, admissionVars, launchState, deferred, stage>>
         \/ \E g \in Groups :
              /\ todo' = Groups \ {g} /\ Attempt(g, registered \cap Queued)
              /\ again' = Wakes(g, registered \cap Queued)
BY DEF DrainRead

\* A group that the drain reads is not empty and waits.
LEMMA GroupsWait ==
  ASSUME Asked, NEW g \in Groups
  PROVE  g # {} /\ g \subseteq Queued
BY DEF Groups, Asked, Queued

\* A promotion keeps the types, whatever becomes of it.
LEMMA AttemptTyped ==
  ASSUME SubagentAdmissionAssumption, AdmissionType, NEW g, NEW known,
         Attempt(g, known), ParentOf(g) \in Run
  PROVE  AdmissionType'
<1>1. CASE UNCHANGED admissionVars
  BY <1>1 DEF AdmissionType, admissionVars
<1>2. CASE KnownTree(ParentOf(g)) /\ UNCHANGED <<parent, lease, elder, children>>
  BY <1>2, KnownTreeTyped DEF AdmissionType
<1>3. CASE Promote(ParentOf(g), g, g \cap Queued)
  BY <1>3, PromoteTyped
<1> QED BY <1>1, <1>2, <1>3 DEF Attempt

\* The parent of a group is a run.
LEMMA GroupParent ==
  ASSUME NEW g, g # {}, \A l \in g : parent[l] \in Run
  PROVE  ParentOf(g) \in Run
BY DEF ParentOf


\* Every step keeps the types of the places.
LEMMA AdmissionStep ==
  ASSUME SubagentAdmissionAssumption, MaxCrashesAssumption, TypeOK, Asked, Next,
         \A l \in Launch : Course(l)
  PROVE  AdmissionType'
<1>1. ASSUME NEW r \in Run, NEW S \in SUBSET Launch, OpenWindow(r, S) PROVE AdmissionType'
  BY <1>1, TypeParts, HoldTyped, KnownTreeTyped
     DEF OpenWindow, AdmissionType, KnownTree
<1>2. ASSUME NEW r \in Run, CloseWindow(r) PROVE AdmissionType'
  BY <1>2, TypeParts, ReleaseTyped DEF CloseWindow, Course
<1>3. ASSUME NEW l \in Launch, SpawnNow(l) PROVE AdmissionType'
  BY <1>3, TypeParts, ClaimTyped, KnownTreeTyped
     DEF SpawnNow, AdmissionType, Asked
<1>4. ASSUME NEW l \in Launch, RefuseStart(l) \/ ThrowStart(l) PROVE AdmissionType'
  BY <1>4, TypeParts, ReleaseTyped DEF RefuseStart, ThrowStart, storeVars, GiveBack, Course
<1>5. ASSUME NEW l \in Launch, Begin(l) PROVE AdmissionType'
  BY <1>5, TypeParts, ActivateTyped, ReleaseTyped DEF Begin, GiveBack
<1>6. ASSUME NEW l \in Launch, Publish(l) PROVE AdmissionType'
  BY <1>6, TypeParts, DeactivateTyped DEF Publish, Course
<1>7. ASSUME NEW l \in Launch, GiveUp(l) PROVE AdmissionType'
  BY <1>7, TypeParts, KnownTreeTyped
     DEF GiveUp, ToReadopt, AdmissionType, Asked, Run, admissionVars
<1>8. ASSUME NEW l \in Launch, Readopt(l) PROVE AdmissionType'
  BY <1>8, TypeParts, ReserveTyped DEF Readopt, ToReadopt, KnownTree, Asked
<1>9. ASSUME NEW l \in Launch, Readopted(l) PROVE AdmissionType'
  BY <1>9, TypeParts, ActivateTyped DEF Readopted, Course
<1>10. ASSUME NEW l \in Launch, ReadoptFails(l) PROVE AdmissionType'
  BY <1>10, TypeParts, ReleaseTyped DEF ReadoptFails, GiveBack, Course
<1>11. ASSUME DrainRead PROVE AdmissionType'
  <2>1. CASE UNCHANGED admissionVars
    BY <2>1, TypeParts DEF AdmissionType, admissionVars
  <2>2. ASSUME NEW g \in Groups, Attempt(g, registered \cap Queued)
        PROVE  AdmissionType'
    <3>1. ParentOf(g) \in Run
      BY <2>2, GroupsWait, GroupParent DEF Asked, Queued
    <3> QED BY <2>2, <3>1, TypeParts, AttemptTyped
  <2> QED BY <1>11, <2>1, <2>2, Read, TypeParts
<1>12. ASSUME NEW g \in todo, PromoteNext(g) PROVE AdmissionType'
  BY <1>12, TypeParts, AttemptTyped, GroupParent
     DEF PromoteNext, Asked, DrainType
<1>13. ASSUME DrainSettled PROVE AdmissionType'
  BY <1>13, TypeParts, ReleaseTyped DEF DrainSettled, Course
<1>14. ASSUME Crash PROVE AdmissionType'
  BY <1>14, TypeParts, ForgetTyped DEF Crash, Course
<1>15. CASE UNCHANGED admissionVars
  BY <1>15, TypeParts DEF AdmissionType, admissionVars
<1> QED BY <1>1, <1>2, <1>3, <1>4, <1>5, <1>6, <1>7, <1>8, <1>9, <1>10, <1>11,
     <1>12, <1>13, <1>14, <1>15
     DEF Next, RecoverRoot, Restore, EndRoot, SpawnAnswered, SpawnDeferred,
         SkipCall, Prepared, FailStart, Answer, RetryOnce, RetryOnRead, Settle,
         Stop, SettlePersisted, CancelThread, DrainEnd, Reconcile

\* Every step keeps the types of the store.
LEMMA StoreStep ==
  ASSUME SubagentAdmissionAssumption, MaxCrashesAssumption, TypeOK, Asked, Next
  PROVE  StoreType'
<1>1. ASSUME NEW r \in Run, NEW S \in SUBSET Launch, OpenWindow(r, S) PROVE StoreType'
  BY <1>1, TypeParts DEF StoreType, queueVars, bootVars, OpenWindow
<1>2. ASSUME NEW r \in Run, EndRoot(r) PROVE StoreType'
  BY <1>2, TypeParts DEF StoreType, queueVars, bootVars, EndRoot
<1>3. ASSUME NEW l \in Launch, SpawnAnswered(l) PROVE StoreType'
  BY <1>3, TypeParts DEF StoreType, queueVars, bootVars, SpawnAnswered
<1>4. ASSUME NEW l \in Launch, SpawnDeferred(l) PROVE StoreType'
  BY <1>4, TypeParts DEF StoreType, SpawnDeferred, Register
<1>5. ASSUME NEW l \in Launch, SpawnNow(l) PROVE StoreType'
  BY <1>5, TypeParts DEF StoreType, SpawnNow, Register
<1>6. ASSUME NEW l \in Launch, SkipCall(l) PROVE StoreType'
  BY <1>6, TypeParts DEF StoreType, queueVars, bootVars, SkipCall
<1>7. ASSUME NEW l \in Launch, Prepared(l) PROVE StoreType'
  BY <1>7, TypeParts DEF StoreType, queueVars, bootVars, Prepared
<1>8. ASSUME NEW l \in Launch, RefuseStart(l) \/ ThrowStart(l) PROVE StoreType'
  BY <1>8, TypeParts DEF StoreType, RefuseStart, ThrowStart, storeVars, GiveBack, FailedToStart
<1>9. ASSUME NEW l \in Launch, Begin(l) PROVE StoreType'
  BY <1>9, TypeParts DEF StoreType, Begin, GiveBack
<1>10. ASSUME NEW l \in Launch, FailStart(l) PROVE StoreType'
  BY <1>10, TypeParts DEF StoreType, queueVars, bootVars, FailStart
<1>11. ASSUME NEW l \in Launch, Answer(l) PROVE StoreType'
  BY <1>11, TypeParts DEF StoreType, queueVars, bootVars, Answer
<1>12. ASSUME NEW l \in Launch, Publish(l) PROVE StoreType'
  BY <1>12, TypeParts DEF StoreType, Publish
<1>13. ASSUME NEW l \in Launch, RetryOnce(l) PROVE StoreType'
  BY <1>13, TypeParts DEF StoreType, RetryOnce, AfterRetry
<1>14. ASSUME NEW l \in Launch, RetryOnRead(l) PROVE StoreType'
  BY <1>14, TypeParts DEF StoreType, queueVars, bootVars, RetryOnRead
<1>15. ASSUME NEW l \in Launch, Settle(l) PROVE StoreType'
  BY <1>15, TypeParts DEF StoreType, queueVars, bootVars, Settle
<1>16. ASSUME NEW l \in Launch, Stop(l) PROVE StoreType'
  BY <1>16, TypeParts DEF StoreType, Stop, Stoppable
<1>17. ASSUME NEW l \in Launch, SettlePersisted(l) PROVE StoreType'
  BY <1>17, TypeParts DEF StoreType, queueVars, SettlePersisted
<1>18. ASSUME NEW l \in Launch, Readopted(l) PROVE StoreType'
  BY <1>18, TypeParts DEF StoreType, Readopted, RestoreQueued
<1>19. ASSUME DrainRead PROVE StoreType'
  <2>1. CASE Queued = {} /\ UNCHANGED <<todo, starting, launchState, deferred, stage>>
             /\ registered' = {} /\ drain' = "running" /\ again' = FALSE
    BY <1>19, <2>1, TypeParts DEF StoreType, DrainRead
  <2>2. ASSUME NEW g \in Groups, todo' = Groups \ {g}, Attempt(g, registered \cap Queued),
               again' = Wakes(g, registered \cap Queued)
        PROVE  StoreType'
    BY <1>19, <2>2, TypeParts, GroupsWait
       DEF StoreType, DrainRead, Attempt, Refused, Groups, Wakes
  <2> QED BY <1>19, <2>1, <2>2, Read, TypeParts
<1>20. ASSUME NEW g \in todo, PromoteNext(g) PROVE StoreType'
  BY <1>20, TypeParts DEF StoreType, PromoteNext, Attempt, Refused
<1>21. ASSUME Crash PROVE StoreType'
  BY <1>21, TypeParts DEF StoreType, DaemonType, Crash
<1>22. ASSUME Reconcile PROVE StoreType'
  BY <1>22, TypeParts DEF StoreType, Reconcile, Lost, Queued
<1>23. CASE \/ \E r \in Run : CloseWindow(r) \/ RecoverRoot(r) \/ Restore(r)
            \/ \E l \in Launch : GiveUp(l) \/ Readopt(l) \/ ReadoptFails(l)
            \/ CancelThread \/ DrainSettled \/ DrainEnd
  BY <1>23, TypeParts
     DEF StoreType, storeVars, CloseWindow, RecoverRoot, Restore, GiveUp,
         Readopt, ReadoptFails, CancelThread, DrainSettled, DrainEnd
<1> QED BY <1>1, <1>2, <1>3, <1>4, <1>5, <1>6, <1>7, <1>8, <1>9, <1>10, <1>11,
     <1>12, <1>13, <1>14, <1>15, <1>16, <1>17, <1>18, <1>19, <1>20, <1>21,
     <1>22, <1>23
     DEF Next

\* Every step keeps the types of the daemon's state.
LEMMA DaemonStep ==
  ASSUME SubagentAdmissionAssumption, MaxCrashesAssumption, TypeOK, Asked, Next
  PROVE  DaemonType'
<1>1. ASSUME NEW r \in Run, NEW S \in SUBSET Launch, OpenWindow(r, S) PROVE DaemonType'
  BY <1>1, TypeParts DEF DaemonType, queueVars, bootVars, OpenWindow
<1>2. ASSUME NEW r \in Run, CloseWindow(r) PROVE DaemonType'
  BY <1>2, TypeParts DEF DaemonType, bootVars, CloseWindow
<1>3. ASSUME NEW r \in Run, RecoverRoot(r) PROVE DaemonType'
  BY <1>3, TypeParts DEF DaemonType, storeVars, queueVars, RecoverRoot
<1>4. ASSUME NEW r \in Run, Restore(r) PROVE DaemonType'
  BY <1>4, TypeParts DEF DaemonType, bootVars, Restore, RestoreQueued, Queued
<1>5. ASSUME NEW r \in Run, EndRoot(r) PROVE DaemonType'
  BY <1>5, TypeParts DEF DaemonType, queueVars, bootVars, EndRoot
<1>6. ASSUME NEW l \in Launch, SpawnDeferred(l) PROVE DaemonType'
  BY <1>6, TypeParts DEF DaemonType, bootVars, SpawnDeferred, Register
<1>7. ASSUME NEW l \in Launch, SpawnNow(l) PROVE DaemonType'
  BY <1>7, TypeParts
     DEF DaemonType, queueVars, bootVars, Setup, SpawnNow, Register
<1>8. ASSUME NEW l \in Launch, Prepared(l) PROVE DaemonType'
  BY <1>8, TypeParts DEF DaemonType, queueVars, bootVars, Setup, Prepared
<1>9. ASSUME NEW l \in Launch, RefuseStart(l) \/ ThrowStart(l) PROVE DaemonType'
  BY <1>9, TypeParts
     DEF DaemonType, bootVars, RefuseStart, ThrowStart, storeVars, GiveBack, FailedToStart
<1>10. ASSUME NEW l \in Launch, Begin(l) PROVE DaemonType'
  BY <1>10, TypeParts DEF DaemonType, bootVars, Setup, Begin, GiveBack
<1>11. ASSUME NEW l \in Launch, FailStart(l) PROVE DaemonType'
  BY <1>11, TypeParts DEF DaemonType, queueVars, bootVars, FailStart
<1>12. ASSUME NEW l \in Launch, Answer(l) PROVE DaemonType'
  BY <1>12, TypeParts DEF DaemonType, queueVars, bootVars, Answer
<1>13. ASSUME NEW l \in Launch, Publish(l) PROVE DaemonType'
  BY <1>13, TypeParts DEF DaemonType, bootVars, Publish
<1>14. ASSUME NEW l \in Launch, RetryOnce(l) PROVE DaemonType'
  BY <1>14, TypeParts DEF DaemonType, queueVars, bootVars, RetryOnce, AfterRetry
<1>15. ASSUME NEW l \in Launch, RetryOnRead(l) PROVE DaemonType'
  BY <1>15, TypeParts DEF DaemonType, queueVars, bootVars, RetryOnRead
<1>16. ASSUME NEW l \in Launch, Settle(l) PROVE DaemonType'
  BY <1>16, TypeParts DEF DaemonType, queueVars, bootVars, Settle
<1>17. ASSUME NEW l \in Launch, Stop(l) PROVE DaemonType'
  BY <1>17, TypeParts DEF DaemonType, bootVars, Stop, Stoppable
<1>18. ASSUME NEW l \in Launch, SettlePersisted(l) PROVE DaemonType'
  BY <1>18, TypeParts DEF DaemonType, queueVars, SettlePersisted
<1>19. ASSUME NEW l \in Launch, GiveUp(l) PROVE DaemonType'
  BY <1>19, TypeParts DEF DaemonType, storeVars, queueVars, GiveUp
<1>20. ASSUME NEW l \in Launch, Readopt(l) PROVE DaemonType'
  BY <1>20, TypeParts DEF DaemonType, storeVars, queueVars, Readopt
<1>21. ASSUME NEW l \in Launch, Readopted(l) PROVE DaemonType'
  BY <1>21, TypeParts DEF DaemonType, Run, Readopted, RestoreQueued, Queued
<1>22. ASSUME NEW l \in Launch, ReadoptFails(l) PROVE DaemonType'
  BY <1>22, TypeParts DEF DaemonType, bootVars, ReadoptFails, GiveBack
<1>23. ASSUME CancelThread PROVE DaemonType'
  BY <1>23, TypeParts DEF DaemonType, queueVars, bootVars, CancelThread
<1>24. ASSUME DrainRead PROVE DaemonType'
  <2>1. CASE Queued = {} /\ UNCHANGED <<todo, starting, launchState, deferred, stage>>
             /\ registered' = {} /\ drain' = "running" /\ again' = FALSE
    BY <1>24, <2>1, TypeParts DEF DaemonType, DrainRead, bootVars
  <2>2. ASSUME NEW g \in Groups, todo' = Groups \ {g}, Attempt(g, registered \cap Queued),
               again' = Wakes(g, registered \cap Queued)
        PROVE  DaemonType'
    BY <1>24, <2>2, TypeParts, GroupsWait
       DEF DaemonType, DrainRead, Attempt, Refused, Groups, Wakes, bootVars,
           Setup
  <2> QED BY <1>24, <2>1, <2>2, Read, TypeParts
<1>25. ASSUME NEW g \in todo, PromoteNext(g) PROVE DaemonType'
  BY <1>25, TypeParts
     DEF DaemonType, bootVars, Setup, PromoteNext, Attempt, Refused
<1>26. ASSUME Crash PROVE DaemonType'
  BY <1>26, TypeParts DEF DaemonType, StoreType, Run, Crash
<1>27. ASSUME Reconcile PROVE DaemonType'
  BY <1>27, TypeParts DEF DaemonType, queueVars, Reconcile, Lost
<1>28. CASE \/ \E l \in Launch : SpawnAnswered(l) \/ SkipCall(l)
            \/ DrainSettled \/ DrainEnd
  BY <1>28, TypeParts
     DEF DaemonType, bootVars, queueVars, SpawnAnswered, SkipCall, DrainSettled,
         DrainEnd
<1> QED BY <1>1, <1>2, <1>3, <1>4, <1>5, <1>6, <1>7, <1>8, <1>9, <1>10, <1>11,
     <1>12, <1>13, <1>14, <1>15, <1>16, <1>17, <1>18, <1>19, <1>20, <1>21,
     <1>22, <1>23, <1>24, <1>25, <1>26, <1>27, <1>28
     DEF Next

\* Every step keeps the types of the drain.
LEMMA DrainTypeStep ==
  ASSUME SubagentAdmissionAssumption, MaxCrashesAssumption, TypeOK, Asked, Next
  PROVE  DrainType'
<1>1. ASSUME NEW r \in Run, NEW S \in SUBSET Launch, OpenWindow(r, S) PROVE DrainType'
  BY <1>1, TypeParts DEF DrainType, queueVars, bootVars, OpenWindow
<1>2. ASSUME NEW r \in Run, CloseWindow(r) PROVE DrainType'
  BY <1>2, TypeParts DEF DrainType, OtherQueue, CloseWindow, WakeIf, Wake
<1>3. ASSUME NEW r \in Run, Restore(r) PROVE DrainType'
  BY <1>3, TypeParts
     DEF DrainType, OtherQueue, Restore, RestoreQueued, WakeIf, Wake
<1>4. ASSUME NEW l \in Launch, SpawnDeferred(l) PROVE DrainType'
  BY <1>4, TypeParts DEF DrainType, OtherQueue, SpawnDeferred, Register, Wake
<1>5. ASSUME NEW l \in Launch, SpawnNow(l) PROVE DrainType'
  BY <1>5, TypeParts
     DEF DrainType, queueVars, OtherQueue, SpawnNow, Register, Wake
<1>6. ASSUME NEW l \in Launch, RefuseStart(l) \/ ThrowStart(l) PROVE DrainType'
  BY <1>6, TypeParts
     DEF DrainType, OtherQueue, RefuseStart, ThrowStart, storeVars, GiveBack, Wake, FailedToStart
<1>7. ASSUME NEW l \in Launch, Begin(l) PROVE DrainType'
  BY <1>7, TypeParts DEF DrainType, OtherQueue, Begin, GiveBack, Wake
<1>8. ASSUME NEW l \in Launch, Publish(l) PROVE DrainType'
  BY <1>8, TypeParts DEF DrainType, OtherQueue, Publish, Wake
<1>9. ASSUME NEW l \in Launch, Stop(l) PROVE DrainType'
  BY <1>9, TypeParts DEF DrainType, OtherQueue, Stop, Stoppable, Wake
<1>10. ASSUME NEW l \in Launch, Readopted(l) PROVE DrainType'
  BY <1>10, TypeParts
     DEF DrainType, OtherQueue, Readopted, RestoreQueued, WakeIf, Wake
<1>11. ASSUME NEW l \in Launch, ReadoptFails(l) PROVE DrainType'
  BY <1>11, TypeParts DEF DrainType, OtherQueue, ReadoptFails, GiveBack, Wake
<1>12. ASSUME DrainRead PROVE DrainType'
  <2>1. CASE Queued = {} /\ UNCHANGED <<todo, starting, launchState, deferred, stage>>
             /\ registered' = {} /\ drain' = "running" /\ again' = FALSE
    BY <1>12, <2>1, TypeParts DEF DrainType, DrainRead
  <2>2. ASSUME NEW g \in Groups, todo' = Groups \ {g}, Attempt(g, registered \cap Queued),
               again' = Wakes(g, registered \cap Queued)
        PROVE  DrainType'
    BY <1>12, <2>2, TypeParts, GroupsWait
       DEF DrainType, DrainRead, Attempt, Refused, Groups, Queued, Wakes
  <2> QED BY <1>12, <2>1, <2>2, Read, TypeParts
<1>13. ASSUME NEW g \in todo, PromoteNext(g) PROVE DrainType'
  BY <1>13, TypeParts DEF DrainType, PromoteNext, Attempt, Refused
<1>14. ASSUME DrainSettled PROVE DrainType'
  BY <1>14, TypeParts DEF DrainType, storeVars, bootVars, DrainSettled
<1>15. ASSUME DrainEnd PROVE DrainType'
  BY <1>15, TypeParts DEF DrainType, OtherQueue, DrainEnd, DrainDone
<1>16. ASSUME Crash PROVE DrainType'
  BY <1>16, TypeParts DEF DrainType, Crash
<1>17. CASE \/ \E r \in Run : RecoverRoot(r) \/ EndRoot(r)
            \/ \E l \in Launch :
                 \/ SpawnAnswered(l) \/ SkipCall(l) \/ Prepared(l) \/ FailStart(l)
                 \/ Answer(l) \/ RetryOnce(l) \/ RetryOnRead(l) \/ Settle(l)
                 \/ SettlePersisted(l) \/ GiveUp(l) \/ Readopt(l)
            \/ CancelThread \/ Reconcile
  BY <1>17, TypeParts
     DEF DrainType, queueVars, RecoverRoot, EndRoot, SpawnAnswered, SkipCall,
         Prepared, FailStart, Answer, RetryOnce, RetryOnRead, Settle,
         SettlePersisted, GiveUp, Readopt, CancelThread, Reconcile
<1> QED BY <1>1, <1>2, <1>3, <1>4, <1>5, <1>6, <1>7, <1>8, <1>9, <1>10, <1>11,
     <1>12, <1>13, <1>14, <1>15, <1>16, <1>17
     DEF Next
-----------------------------------------------------------------------------
\* Nobody but a window names the parent of a launch.
LEMMA ParentKept ==
  /\ \A l : Claim(l) \/ Activate(l) \/ Deactivate(l) => UNCHANGED parent
  /\ \A gone : Release(gone) => UNCHANGED parent
  /\ \A r, g, S : Promote(r, g, S) => UNCHANGED parent
  /\ Forget => UNCHANGED parent
BY DEF Claim, Activate, Deactivate, Release, Promote, Forget

\* What a promotion leaves alone: parents, what was not asked for, and the
\* registrations of what still waits.
LEMMA AttemptFacts ==
  ASSUME StoreType, DaemonType, NEW g \in SUBSET Launch, NEW known, Attempt(g, known)
  PROVE  /\ UNCHANGED parent
         /\ \A l \in Launch : launchState[l] = "none" <=> launchState'[l] = "none"
         /\ \A l \in Launch : launchState'[l] = "queued" =>
              /\ launchState[l] = "queued"
              /\ l \in known => l \in registered'
BY ParentKept DEF Attempt, admissionVars, StoreType, DaemonType, Queued, Refused


\* Asked is kept by what changes no more than the state of launches.
LEMMA AskedFrame ==
  ASSUME StoreType, DaemonType, DrainType, Asked,
         UNCHANGED <<parent, batch, due, window, run>>,
         \A l \in Launch : launchState[l] = "none" <=> launchState'[l] = "none",
         \A h \in todo' : h \in todo \/ (h # {} /\ h \subseteq Queued)
  PROVE  Asked'
BY DEF Asked, StoreType, DaemonType, DrainType, Queued

\* And by what changes no more than where runs stand.
LEMMA AskedOfRuns ==
  ASSUME Asked, UNCHANGED <<parent, launchState, batch, due, window, todo>>,
         \A l \in Launch : run'[l] # "restoring"
  PROVE  Asked'
BY DEF Asked

\* Every step keeps what is known of launches that were asked for.
LEMMA AskedStep ==
  ASSUME SubagentAdmissionAssumption, TypeOK, Asked, Next,
         \A l \in Launch : Course(l)
  PROVE  Asked'
<1>1. ASSUME NEW r \in Run, NEW S \in SUBSET Launch, OpenWindow(r, S) PROVE Asked'
  BY <1>1 DEF Asked, TypeOK, queueVars, OpenWindow, Hold, KnownTree
<1>2. ASSUME NEW r \in Run, CloseWindow(r) PROVE Asked'
  BY <1>2, ParentKept DEF Asked, storeVars, OtherQueue, CloseWindow
<1>3. ASSUME NEW r \in Run, RecoverRoot(r) PROVE Asked'
  BY <1>3, TypeParts, ParentKept
     DEF Asked, DaemonType, Run, storeVars, queueVars, admissionVars,
         RecoverRoot
<1>4. ASSUME NEW r \in Run, Restore(r) PROVE Asked'
  <2>1. UNCHANGED <<parent, launchState, batch, due, window, todo>>
    BY <1>4, ParentKept DEF storeVars, admissionVars, OtherQueue, Restore, RestoreQueued
  <2>2. \A l \in Launch : run'[l] # "restoring"
    <3>1. run \in [Run -> {"off", "restoring", "live", "ended"}] /\ Launch \subseteq Run
      BY TypeParts DEF DaemonType, Run
    <3>2. run' = [run EXCEPT ![r] = "live"] /\ \A l \in Launch : run[l] # "restoring"
      BY <1>4 DEF Restore, Asked
    <3> QED BY <3>1, <3>2
  <2> QED BY <2>1, <2>2, AskedOfRuns
<1>5. ASSUME NEW r \in Run, EndRoot(r) PROVE Asked'
  <2>1. UNCHANGED <<parent, launchState, batch, due, window, todo>>
    BY <1>5 DEF queueVars, admissionVars, EndRoot
  <2>2. \A l \in Launch : run'[l] # "restoring"
    <3>1. run \in [Run -> {"off", "restoring", "live", "ended"}] /\ Launch \subseteq Run
      BY TypeParts DEF DaemonType, Run
    <3>2. run' = [run EXCEPT ![r] = "ended"] /\ \A l \in Launch : run[l] # "restoring"
      BY <1>5 DEF EndRoot, Asked
    <3> QED BY <3>1, <3>2
  <2> QED BY <2>1, <2>2, AskedOfRuns
<1>6. ASSUME NEW l \in Launch, SpawnAnswered(l) PROVE Asked'
  BY <1>6, ParentKept DEF Asked, queueVars, admissionVars, SpawnAnswered
<1>7. ASSUME NEW l \in Launch, SpawnDeferred(l) PROVE Asked'
  BY <1>7, ParentKept
     DEF Asked, OtherQueue, admissionVars, SpawnDeferred, Register
<1>8. ASSUME NEW l \in Launch, SpawnNow(l) PROVE Asked'
  <2>1. UNCHANGED <<parent, batch, window, run, todo>> /\ due' \subseteq due
    BY <1>8, ParentKept DEF SpawnNow, KnownTree, queueVars, Register, OtherQueue
  <2>2. \A m \in Launch : launchState[m] # "none" => launchState'[m] # "none"
    BY <1>8, TypeParts DEF SpawnNow, StoreType, Queued
  <2>3. todo \subseteq SUBSET Launch /\ due \subseteq Launch /\ window \in [Run -> SUBSET Launch]
    BY TypeParts DEF StoreType, DaemonType, DrainType
  <2>4. \A m \in Launch : launchState'[m] # "none" => launchState[m] # "none"
    BY <1>8, TypeParts DEF SpawnNow, StoreType, Queued
  <2> QED BY <2>1, <2>2, <2>3, <2>4 DEF Asked
<1>9. ASSUME NEW l \in Launch, SkipCall(l) PROVE Asked'
  BY <1>9, ParentKept DEF Asked, queueVars, admissionVars, SkipCall
<1>10. ASSUME NEW l \in Launch, RefuseStart(l) \/ ThrowStart(l) PROVE Asked'
  <2>1. UNCHANGED <<parent, batch, due, window, run, todo>>
    BY <1>10 DEF RefuseStart, ThrowStart, storeVars, GiveBack, Release, OtherQueue
  <2>2. launchState' = launchState \/ FailedToStart(l)
    BY <1>10 DEF RefuseStart, ThrowStart, storeVars
  <2>3. \A m \in Launch : launchState[m] = "none" <=> launchState'[m] = "none"
    BY <2>2, TypeParts DEF FailedToStart, StoreType
  <2> QED BY <2>1, <2>3, TypeParts, AskedFrame
<1>11. ASSUME NEW l \in Launch, Begin(l) PROVE Asked'
  <2>1. UNCHANGED <<parent, batch, due, window, todo>>
    BY <1>11 DEF Begin, Activate, GiveBack, Release, OtherQueue
  <2>2. launchState' = launchState \/ launchState' = [launchState EXCEPT ![l] = "started"]
    BY <1>11 DEF Begin
  <2>3. \A m \in Launch : launchState[m] = "none" => m # l
    BY <1>11 DEF Begin, Course, Setting
  <2>4. launchState \in [Launch -> {"none", "queued", "starting", "started", "cancelled",
                                    "failed_to_start", "interrupted"}]
    BY TypeParts DEF StoreType
  <2>5. \A m \in Launch : launchState[m] = "none" <=> launchState'[m] = "none"
    BY <2>2, <2>3, <2>4
  <2>6. \A m \in Launch : run'[m] # "restoring"
    <3>1. run \in [Run -> {"off", "restoring", "live", "ended"}] /\ Launch \subseteq Run
      BY TypeParts DEF DaemonType, Run
    <3>2. /\ run' = run \/ run' = [run EXCEPT ![l] = "live"]
          /\ \A m \in Launch : run[m] # "restoring"
      BY <1>11 DEF Begin, Asked
    <3> QED BY <3>1, <3>2
  <2> QED BY <2>1, <2>5, <2>6, TypeParts DEF Asked, DrainType, StoreType, DaemonType
<1>12. ASSUME NEW l \in Launch, Publish(l) PROVE Asked'
  BY <1>12, ParentKept DEF Asked, OtherQueue, Publish
<1>13. ASSUME NEW l \in Launch, Stop(l) PROVE Asked'
  BY <1>13, ParentKept
     DEF Asked, StoreType, OtherQueue, admissionVars, Stop, Stoppable, Queued
<1>14. ASSUME NEW l \in Launch, GiveUp(l) PROVE Asked'
  BY <1>14, ParentKept
     DEF Asked, storeVars, queueVars, admissionVars, GiveUp, KnownTree
<1>15. ASSUME NEW l \in Launch, Readopted(l) PROVE Asked'
  BY <1>15, ParentKept
     DEF Asked, Course, Recovering, OtherQueue, Readopted, RestoreQueued
<1>16. ASSUME NEW l \in Launch, ReadoptFails(l) PROVE Asked'
  BY <1>16, ParentKept DEF Asked, storeVars, OtherQueue, ReadoptFails, GiveBack
<1>17. ASSUME DrainRead PROVE Asked'
  <2>1. CASE Queued = {} /\ UNCHANGED <<todo, admissionVars, launchState>> /\ registered' = {}
    BY <1>17, <2>1 DEF Asked, DrainRead, admissionVars
  <2>2. ASSUME NEW g \in Groups, todo' = Groups \ {g}, Attempt(g, registered \cap Queued)
        PROVE  Asked'
    <3>1. g \in SUBSET Launch /\ \A h \in Groups : h # {} /\ h \subseteq Queued
      BY GroupsWait DEF Queued
    <3>2. UNCHANGED <<batch, due, window, run>>
      BY <1>17 DEF DrainRead
    <3> QED BY <2>2, <3>1, <3>2, TypeParts, AttemptFacts, AskedFrame
  <2> QED BY <1>17, <2>1, <2>2, Read, TypeParts
<1>18. ASSUME NEW g \in todo, PromoteNext(g) PROVE Asked'
  <2>1. g \in SUBSET Launch /\ Attempt(g, registered)
    BY <1>18, TypeParts DEF DrainType, PromoteNext
  <2>2. UNCHANGED <<batch, due, window, run>> /\ todo' \subseteq todo
    BY <1>18 DEF PromoteNext
  <2> QED BY <2>1, <2>2, TypeParts, AttemptFacts, AskedFrame
<1>19. ASSUME DrainSettled PROVE Asked'
  BY <1>19, ParentKept DEF Asked, storeVars, DrainSettled
<1>20. ASSUME Crash PROVE Asked'
  <2>1. /\ UNCHANGED <<parent, launchState, batch>> /\ todo' = {}
        /\ \A q \in Run : window'[q] = {}
        /\ \A l \in Run : run'[l] = "off"
    BY <1>20, ParentKept DEF Crash
  <2>2. \A l \in due' : l \in due \/ \E q \in Run : l \in window[q]
    BY <1>20 DEF Crash
  <2>3. \A l \in due' : launchState[l] # "none"
    BY <2>2 DEF Asked
  <2> QED BY <2>1, <2>3 DEF Asked, Run
<1>21. ASSUME Reconcile PROVE Asked'
  <2>1. UNCHANGED <<parent, batch, due, window, run, todo>>
    BY <1>21 DEF queueVars, admissionVars, Reconcile
  <2>2. \A l \in Lost : launchState[l] # "none"
    BY DEF Lost
  <2>3. launchState' = [l \in Launch |-> IF l \in Lost THEN "interrupted" ELSE launchState[l]]
    BY <1>21 DEF Reconcile
  <2>4. \A l \in Launch : launchState[l] = "none" <=> launchState'[l] = "none"
    BY <2>2, <2>3
  <2> QED BY <2>1, <2>4, TypeParts, AskedFrame
<1>22. CASE \/ \E l \in Launch :
                 \/ Prepared(l) \/ FailStart(l) \/ Answer(l) \/ RetryOnce(l)
                 \/ RetryOnRead(l) \/ Settle(l) \/ SettlePersisted(l) \/ Readopt(l)
            \/ CancelThread \/ DrainEnd
  BY <1>22
     DEF Asked, OtherQueue, admissionVars, queueVars, storeVars, Prepared,
         FailStart, Answer, RetryOnce, RetryOnRead, Settle, SettlePersisted,
         Readopt, CancelThread, DrainEnd
<1> QED BY <1>1, <1>2, <1>3, <1>4, <1>5, <1>6, <1>7, <1>8, <1>9, <1>10, <1>11,
     <1>12, <1>13, <1>14, <1>15, <1>16, <1>17, <1>18, <1>19, <1>20, <1>21,
     <1>22
     DEF Next

\* A launch that waits is in the hands of its parent's loop or of the promotion.
Waiting(l) ==
  launchState[l] = "queued" /\ (~booting \/ parent[l] \in recovered) =>
    \/ l \in registered \cup due
    \/ run[parent[l]] = "restoring"
    \/ parent[l] \in aborted

\* Every step keeps a launch that waits in somebody's hands.
LEMMA WaitStep ==
  ASSUME SubagentAdmissionAssumption, TypeOK, Asked, Next,
         NEW w \in Launch, Course(w), Waiting(w)
  PROVE  Waiting(w)'
<1>1. ASSUME NEW r \in Run, NEW S \in SUBSET Launch, OpenWindow(r, S) PROVE Waiting(w)'
  BY <1>1, ParentKept DEF Waiting, queueVars, bootVars, OpenWindow
<1>2. ASSUME NEW r \in Run, CloseWindow(r) PROVE Waiting(w)'
  BY <1>2, ParentKept DEF Waiting, storeVars, bootVars, CloseWindow
<1>3. ASSUME NEW r \in Run, RecoverRoot(r) PROVE Waiting(w)'
  BY <1>3, TypeParts, ParentKept
     DEF Waiting, DaemonType, storeVars, queueVars, admissionVars, RecoverRoot
<1>4. ASSUME NEW r \in Run, Restore(r) PROVE Waiting(w)'
  BY <1>4, ParentKept
     DEF Waiting, storeVars, bootVars, admissionVars, Restore, RestoreQueued,
         Queued
<1>5. ASSUME NEW r \in Run, EndRoot(r) PROVE Waiting(w)'
  BY <1>5, ParentKept DEF Waiting, queueVars, bootVars, admissionVars, EndRoot
<1>6. ASSUME NEW l \in Launch, SpawnAnswered(l) PROVE Waiting(w)'
  BY <1>6, ParentKept
     DEF Waiting, queueVars, bootVars, admissionVars, SpawnAnswered
<1>7. ASSUME NEW l \in Launch, SpawnDeferred(l) PROVE Waiting(w)'
  BY <1>7, ParentKept
     DEF Waiting, bootVars, admissionVars, SpawnDeferred, Register
<1>8. ASSUME NEW l \in Launch, SpawnNow(l) PROVE Waiting(w)'
  BY <1>8, TypeParts, ParentKept
     DEF Waiting, StoreType, queueVars, bootVars, SpawnNow, Register, KnownTree
<1>9. ASSUME NEW l \in Launch, SkipCall(l) PROVE Waiting(w)'
  BY <1>9, ParentKept DEF Waiting, queueVars, bootVars, admissionVars, SkipCall
<1>10. ASSUME NEW l \in Launch, RefuseStart(l) \/ ThrowStart(l) PROVE Waiting(w)'
  BY <1>10, TypeParts, ParentKept
     DEF Waiting, StoreType, bootVars, RefuseStart, ThrowStart, storeVars, FailedToStart, GiveBack
<1>11. ASSUME NEW l \in Launch, Begin(l) PROVE Waiting(w)'
  BY <1>11, TypeParts, ParentKept
     DEF Waiting, Asked, StoreType, DaemonType, bootVars, Begin, GiveBack
<1>12. ASSUME NEW l \in Launch, Publish(l) PROVE Waiting(w)'
  BY <1>12, ParentKept DEF Waiting, Asked, AdmissionType, bootVars, Publish
<1>13. ASSUME NEW l \in Launch, Stop(l) PROVE Waiting(w)'
  BY <1>13, TypeParts, ParentKept
     DEF Waiting, StoreType, bootVars, admissionVars, Stop, Stoppable
<1>14. ASSUME NEW l \in Launch, GiveUp(l) PROVE Waiting(w)'
  BY <1>14, ParentKept
     DEF Waiting, storeVars, queueVars, admissionVars, GiveUp, KnownTree
<1>15. ASSUME NEW l \in Launch, Readopted(l) PROVE Waiting(w)'
  BY <1>15, ParentKept DEF Waiting, Readopted, RestoreQueued, Queued
<1>16. ASSUME NEW l \in Launch, ReadoptFails(l) PROVE Waiting(w)'
  BY <1>16, ParentKept DEF Waiting, storeVars, bootVars, ReadoptFails, GiveBack
<1>17. ASSUME CancelThread PROVE Waiting(w)'
  BY <1>17, ParentKept
     DEF Waiting, storeVars, queueVars, bootVars, admissionVars, CancelThread
<1>18. ASSUME DrainRead PROVE Waiting(w)'
  <2>1. CASE Queued = {} /\ UNCHANGED <<todo, admissionVars, launchState>> /\ registered' = {}
    BY <1>18, <2>1 DEF Waiting, Asked, DrainRead, Queued
  <2>2. ASSUME NEW g \in Groups, todo' = Groups \ {g}, Attempt(g, registered \cap Queued)
        PROVE  Waiting(w)'
    <3>1. g \in SUBSET Launch /\ \A h \in Groups : h # {} /\ h \subseteq Queued
      BY GroupsWait DEF Queued
    <3>2. UNCHANGED <<due, run, aborted, booting, recovered>>
      BY <1>18 DEF DrainRead, bootVars
    <3>3. parent' = parent
      BY <2>2, <3>1, TypeParts, AttemptFacts
    <3>4. launchState'[w] = "queued" => launchState[w] = "queued" /\ (w \in registered => w \in registered')
      BY <2>2, <3>1, TypeParts, AttemptFacts DEF Queued
    <3> QED BY <3>2, <3>3, <3>4 DEF Waiting
  <2> QED BY <1>18, <2>1, <2>2, Read, TypeParts
<1>19. ASSUME NEW g \in todo, PromoteNext(g) PROVE Waiting(w)'
  <2>1. g \in SUBSET Launch /\ Attempt(g, registered)
    BY <1>19, TypeParts DEF DrainType, PromoteNext
  <2> QED BY <1>19, <2>1, TypeParts, AttemptFacts
       DEF Waiting, Asked, PromoteNext, Queued, Run, StoreType, DaemonType,
           SubagentAdmissionAssumption, bootVars
<1>20. ASSUME DrainSettled PROVE Waiting(w)'
  BY <1>20, ParentKept DEF Waiting, storeVars, bootVars, DrainSettled
<1>21. ASSUME Crash PROVE Waiting(w)'
  BY <1>21, TypeParts, ParentKept DEF Waiting, Course, Crash
<1>22. ASSUME Reconcile PROVE Waiting(w)'
  BY <1>22, ParentKept
     DEF Waiting, Course, Running, queueVars, admissionVars, Reconcile, Lost
<1>23. CASE \/ \E l \in Launch :
                 \/ Prepared(l) \/ FailStart(l) \/ Answer(l) \/ RetryOnce(l)
                 \/ RetryOnRead(l) \/ Settle(l) \/ SettlePersisted(l) \/ Readopt(l)
            \/ DrainEnd
  BY <1>23
     DEF Waiting, admissionVars, bootVars, queueVars, storeVars, Prepared,
         FailStart, Answer, RetryOnce, RetryOnRead, Settle, SettlePersisted,
         Readopt, DrainEnd
<1> QED BY <1>1, <1>2, <1>3, <1>4, <1>5, <1>6, <1>7, <1>8, <1>9, <1>10, <1>11,
     <1>12, <1>13, <1>14, <1>15, <1>16, <1>17, <1>18, <1>19, <1>20, <1>21,
     <1>22, <1>23
     DEF Next
-----------------------------------------------------------------------------
\* A tree is named by a run.
LEMMA TreeIsRun ==
  ASSUME AdmissionType, NEW r \in Run
  PROVE  TreeOf(r) \in Run
BY DEF AdmissionType, TreeOf

\* What taking a place does to the leases.
LEMMA ClaimFacts ==
  ASSUME SubagentAdmissionAssumption, AdmissionType,
         NEW l \in Launch, parent[l] \in Run, Claim(l)
  PROVE  /\ lease'[Own(l)] # None
         /\ \A x \in Lease : x[1] = "launch" /\ x # Own(l) => lease'[x] = lease[x]
         /\ \A x \in Lease : x[1] # "launch" => lease'[x] \in {lease[x], None}
         /\ UNCHANGED children
<1>1. TreeOf(parent[l]) # None
  BY DEF AdmissionType, SubagentAdmissionAssumption, TreeOf, Run
<1>2. Own(l) \in Lease
  BY DEF Own, Lease, Holder
<1>3. CASE Spare(parent[l]) = {}
  BY <1>1, <1>2, <1>3 DEF Claim, AdmissionType, Own
<1>4. CASE Spare(parent[l]) # {}
  <2>1. PICK y \in Spare(parent[l]) : lease' = Handover(y, l)
    BY <1>4 DEF Claim, Elder
  <2>2. y[1] # "launch"
    BY <2>1 DEF Spare
  <2> QED BY <1>1, <1>2, <2>1, <2>2 DEF Claim, Handover, AdmissionType, Own
<1> QED BY <1>3, <1>4

\* What a promotion does to the leases.
LEMMA PromoteFacts ==
  ASSUME SubagentAdmissionAssumption, AdmissionType, NEW r \in Run,
         NEW g \in SUBSET Launch, NEW S \in SUBSET g, Promote(r, g, S)
  PROVE  /\ \A l \in S : lease'[Own(l)] # None
         /\ \A l \in Launch \ S : lease'[Own(l)] = lease[Own(l)]
         /\ \A l \in Launch : lease'[<<"window", l>>] \in {lease[<<"window", l>>], None}
         /\ UNCHANGED children
<1>1. TreeOf(r) # None
  BY DEF AdmissionType, SubagentAdmissionAssumption, TreeOf, Run
<1>2. PICK taken \in SUBSET Spare(r), left \in SUBSET g :
        lease' = [x \in Lease |->
          IF x \in taken THEN None
          ELSE IF x \in ({"promotion"} \X left) \cup {Own(l) : l \in S}
               THEN TreeOf(r) ELSE lease[x]]
  BY DEF Promote, kSubset
<1>3. \A x \in taken : x[1] # "launch"
  BY <1>2 DEF Spare
<1>4. \A l \in Launch, h \in Holder : <<h, l>> \in Lease
  BY DEF Lease
<1>5. \A l \in S : lease'[Own(l)] # None
  BY <1>1, <1>2, <1>3, <1>4 DEF Own, Holder
<1>6. \A l \in Launch \ S : lease'[Own(l)] = lease[Own(l)]
  BY <1>2, <1>3, <1>4 DEF Own, Holder
<1>7. \A l \in Launch : lease'[<<"window", l>>] \in {lease[<<"window", l>>], None}
  BY <1>2, <1>4 DEF Own, Holder
<1> QED BY <1>5, <1>6, <1>7 DEF Promote

-----------------------------------------------------------------------------
\* What a launch holds, and what is held for it.
Placed(l) ==
  /\ lease[Own(l)] # None <=>
       stage[l] \in {"preparing", "checkpointed", "recovering", "running", "answered"}
  /\ l \in children <=> stage[l] \in {"running", "answered"}
  /\ lease[<<"window", l>>] # None => launchState[l] # "none" /\ l \in window[parent[l]]
  /\ lease[<<"promotion", l>>] # None => drain = "awaiting"

\* A promotion takes places for the launches it starts.
LEMMA AttemptPlaces ==
  ASSUME SubagentAdmissionAssumption, AdmissionType, StoreType, DaemonType, DrainType,
         NEW g \in SUBSET Launch, NEW known, ParentOf(g) \in Run, Attempt(g, known),
         UNCHANGED window, drain # "awaiting",
         NEW w \in Launch, Course(w), Placed(w)
  PROVE  Placed(w)'
<1>1. UNCHANGED parent /\ (launchState[w] = "none" <=> launchState'[w] = "none")
  BY AttemptFacts
<1>2. CASE UNCHANGED <<lease, children, stage>> /\ drain' = "running"
  BY <1>1, <1>2 DEF Placed
<1>3. CASE /\ Promote(ParentOf(g), g, g \cap Queued) /\ drain' = "awaiting"
           /\ stage' = [l \in Launch |-> IF l \in g \cap Queued THEN "preparing" ELSE stage[l]]
  <2>1. g \cap Queued \in SUBSET g
    OBVIOUS
  <2>2. /\ \A l \in g \cap Queued : lease'[Own(l)] # None
        /\ \A l \in Launch \ (g \cap Queued) : lease'[Own(l)] = lease[Own(l)]
        /\ \A l \in Launch : lease'[<<"window", l>>] \in {lease[<<"window", l>>], None}
        /\ UNCHANGED children
    BY <1>3, <2>1, PromoteFacts
  <2>3. w \in Queued => stage[w] = "idle"
    BY DEF Course, Setting, Queued
  <2>4. CASE w \in g \cap Queued
    BY <1>1, <1>3, <2>2, <2>3, <2>4 DEF Placed
  <2>5. CASE w \notin g \cap Queued
    BY <1>1, <1>3, <2>2, <2>5 DEF Placed
  <2> QED BY <2>4, <2>5
<1> QED BY <1>2, <1>3 DEF Attempt, admissionVars

\* Every step keeps what a launch holds and what is held for it.
LEMMA PlaceStep ==
  ASSUME SubagentAdmissionAssumption, TypeOK, Asked, Next,
         NEW w \in Launch, Course(w), Placed(w)
  PROVE  Placed(w)'
<1>1. ASSUME NEW r \in Run, NEW S \in SUBSET Launch, OpenWindow(r, S) PROVE Placed(w)'
  BY <1>1, TypeParts
     DEF Placed, DaemonType, Own, Lease, Holder, queueVars, OpenWindow, Hold,
         KnownTree
<1>2. ASSUME NEW r \in Run, CloseWindow(r) PROVE Placed(w)'
  BY <1>2
     DEF Placed, Own, Lease, Holder, storeVars, CloseWindow, Release, Without,
         WakeIf, Wake
<1>3. ASSUME NEW r \in Run, Restore(r) PROVE Placed(w)'
  BY <1>3
     DEF Placed, storeVars, admissionVars, Restore, RestoreQueued, WakeIf, Wake
<1>4. ASSUME NEW l \in Launch, SpawnDeferred(l) PROVE Placed(w)'
  BY <1>4 DEF Placed, admissionVars, SpawnDeferred, Register, Wake
<1>5. ASSUME NEW l \in Launch, SpawnNow(l) PROVE Placed(w)'
  <2>1. /\ l \in Queued /\ parent[l] \in Run
        /\ \A m \in Launch : launchState[m] # "none" => launchState'[m] # "none"
        /\ UNCHANGED window
    BY <1>5, TypeParts DEF SpawnNow, Asked, Queued, StoreType
  <2>2. CASE Claim(l) /\ stage' = [stage EXCEPT ![l] = "preparing"] /\ UNCHANGED drain
    <3>1. /\ lease'[Own(l)] # None
          /\ \A x \in Lease : x[1] = "launch" /\ x # Own(l) => lease'[x] = lease[x]
          /\ \A x \in Lease : x[1] # "launch" => lease'[x] \in {lease[x], None}
          /\ UNCHANGED children
      BY <2>1, <2>2, TypeParts, ClaimFacts
    <3>2. UNCHANGED parent
      BY <2>2, ParentKept
    <3>3. /\ <<"window", w>> \in Lease /\ <<"promotion", w>> \in Lease /\ Own(w) \in Lease
          /\ Own(w)[1] = "launch" /\ w # l => Own(w) # Own(l)
      BY DEF Lease, Holder, Own
    <3>4. /\ lease'[<<"window", w>>] \in {lease[<<"window", w>>], None}
          /\ lease'[<<"promotion", w>>] \in {lease[<<"promotion", w>>], None}
          /\ w # l => lease'[Own(w)] = lease[Own(w)]
      BY <3>1, <3>3 DEF Own
    <3>5. w = l => stage[w] = "idle"
      BY <2>1 DEF Course, Setting, Queued
    <3>6. stage \in [Launch -> Setup \cup {"idle", "recovering", "running", "answered",
                                           "retrying", "settling", "dropped"}]
      BY TypeParts DEF DaemonType
    <3>7. CASE w = l
      BY <2>1, <2>2, <3>1, <3>2, <3>4, <3>5, <3>6, <3>7 DEF Placed
    <3>8. CASE w # l
      BY <2>1, <2>2, <3>1, <3>2, <3>4, <3>6, <3>8 DEF Placed
    <3> QED BY <3>7, <3>8
  <2>3. CASE UNCHANGED <<parent, lease, children, stage>> /\ Register(l)
    BY <2>1, <2>3 DEF Placed, Register, Wake
  <2> QED BY <1>5, <2>2, <2>3 DEF SpawnNow, queueVars
<1>6. ASSUME NEW l \in Launch, Prepared(l) PROVE Placed(w)'
  BY <1>6 DEF Placed, queueVars, admissionVars, Prepared
<1>7. ASSUME NEW l \in Launch, RefuseStart(l) \/ ThrowStart(l) PROVE Placed(w)'
  BY <1>7, TypeParts
     DEF Placed, StoreType, DaemonType, Own, Lease, Holder, RefuseStart, ThrowStart, storeVars,
         GiveBack, Release, Without, Wake, FailedToStart
<1>8. ASSUME NEW l \in Launch, Begin(l) PROVE Placed(w)'
  BY <1>8, TypeParts
     DEF Placed, StoreType, DaemonType, Own, Lease, Holder, Begin, Activate,
         GiveBack, Release, Without, Wake
<1>9. ASSUME NEW l \in Launch, FailStart(l) PROVE Placed(w)'
  BY <1>9 DEF Placed, queueVars, admissionVars, FailStart
<1>10. ASSUME NEW l \in Launch, Answer(l) PROVE Placed(w)'
  BY <1>10 DEF Placed, queueVars, admissionVars, Answer
<1>11. ASSUME NEW l \in Launch, Publish(l) PROVE Placed(w)'
  BY <1>11, TypeParts
     DEF Placed, DaemonType, Own, Lease, Holder, Publish, Deactivate, Without,
         Wake
<1>12. ASSUME NEW l \in Launch, RetryOnce(l) PROVE Placed(w)'
  BY <1>12, TypeParts
     DEF Placed, DaemonType, queueVars, admissionVars, RetryOnce, AfterRetry
<1>13. ASSUME NEW l \in Launch, Settle(l) PROVE Placed(w)'
  BY <1>13 DEF Placed, queueVars, admissionVars, Settle
<1>14. ASSUME NEW l \in Launch, Stop(l) PROVE Placed(w)'
  BY <1>14 DEF Placed, admissionVars, Stop, Stoppable, Wake
<1>15. ASSUME NEW l \in Launch, GiveUp(l) PROVE Placed(w)'
  BY <1>15 DEF Placed, storeVars, queueVars, admissionVars, GiveUp, KnownTree
<1>16. ASSUME NEW l \in Launch, Readopt(l) PROVE Placed(w)'
  <2>1. parent[l] \in Run
    BY <1>16 DEF Readopt, Asked
  <2>2. TreeOf(parent[l]) # None
    BY <2>1, TypeParts, TreeIsRun DEF SubagentAdmissionAssumption
  <2>3. /\ <<"window", w>> \in Lease /\ <<"promotion", w>> \in Lease /\ Own(w) \in Lease
        /\ Own(l) \in Lease /\ w # l => Own(w) # Own(l)
        /\ <<"window", w>> # Own(l) /\ <<"promotion", w>> # Own(l)
    BY DEF Lease, Holder, Own
  <2>4. lease \in [Lease -> Run \cup {None}]
    BY TypeParts DEF AdmissionType
  <2>5. /\ lease'[<<"window", w>>] = lease[<<"window", w>>]
        /\ lease'[<<"promotion", w>>] = lease[<<"promotion", w>>]
        /\ IF w = l THEN lease'[Own(w)] # None ELSE lease'[Own(w)] = lease[Own(w)]
    BY <1>16, <2>2, <2>3, <2>4 DEF Readopt
  <2>6. w = l => stage[w] = "idle"
    BY <1>16 DEF Readopt, ToReadopt, Course, Recovering
  <2>7. stage \in [Launch -> Setup \cup {"idle", "recovering", "running", "answered",
                                         "retrying", "settling", "dropped"}]
    BY TypeParts DEF DaemonType
  <2>8. CASE w = l
    BY <1>16, <2>5, <2>6, <2>7, <2>8 DEF Placed, Readopt, storeVars, queueVars
  <2>9. CASE w # l
    BY <1>16, <2>5, <2>7, <2>9 DEF Placed, Readopt, storeVars, queueVars
  <2> QED BY <2>8, <2>9
<1>17. ASSUME NEW l \in Launch, Readopted(l) PROVE Placed(w)'
  BY <1>17, TypeParts
     DEF Placed, DaemonType, Readopted, Activate, RestoreQueued, WakeIf, Wake
<1>18. ASSUME NEW l \in Launch, ReadoptFails(l) PROVE Placed(w)'
  BY <1>18, TypeParts
     DEF Placed, DaemonType, Own, Lease, Holder, storeVars, ReadoptFails,
         GiveBack, Release, Without, Wake
<1>19. ASSUME DrainRead PROVE Placed(w)'
  <2>1. CASE UNCHANGED <<admissionVars, launchState, stage>> /\ drain' = "running"
    BY <1>19, <2>1, TypeParts DEF Placed, DrainRead, admissionVars
  <2>2. ASSUME NEW g \in Groups, Attempt(g, registered \cap Queued)
        PROVE  Placed(w)'
    <3>1. g \in SUBSET Launch /\ ParentOf(g) \in Run
      BY <2>2, GroupsWait, GroupParent DEF Asked, Queued
    <3>2. UNCHANGED window /\ drain # "awaiting"
      BY <1>19 DEF DrainRead
    <3> QED BY <2>2, <3>1, <3>2, TypeParts, AttemptPlaces
  <2> QED BY <1>19, <2>1, <2>2, Read, TypeParts
<1>20. ASSUME NEW g \in todo, PromoteNext(g) PROVE Placed(w)'
  <2>1. g \in SUBSET Launch /\ ParentOf(g) \in Run
    BY <1>20, TypeParts, GroupParent DEF Asked, DrainType
  <2>2. Attempt(g, registered) /\ UNCHANGED window /\ drain # "awaiting"
    BY <1>20 DEF PromoteNext
  <2> QED BY <2>1, <2>2, TypeParts, AttemptPlaces
<1>21. ASSUME DrainSettled PROVE Placed(w)'
  BY <1>21
     DEF Placed, Own, Lease, Holder, storeVars, DrainSettled, Release, Without
<1>22. ASSUME DrainEnd PROVE Placed(w)'
  BY <1>22 DEF Placed, storeVars, admissionVars, DrainEnd, DrainDone
<1>23. ASSUME Crash PROVE Placed(w)'
  BY <1>23 DEF Placed, Own, Lease, Holder, Crash, Forget
<1>24. ASSUME Reconcile PROVE Placed(w)'
  BY <1>24 DEF Placed, queueVars, admissionVars, Reconcile, Lost
<1>25. CASE \/ \E r \in Run : RecoverRoot(r) \/ EndRoot(r)
            \/ \E l \in Launch : SpawnAnswered(l) \/ SkipCall(l) \/ RetryOnRead(l) \/ SettlePersisted(l)
            \/ CancelThread
  BY <1>25
     DEF Placed, admissionVars, queueVars, storeVars, RecoverRoot, EndRoot,
         SpawnAnswered, SkipCall, RetryOnRead, SettlePersisted, CancelThread
<1> QED BY <1>1, <1>2, <1>3, <1>4, <1>5, <1>6, <1>7, <1>8, <1>9, <1>10, <1>11,
     <1>12, <1>13, <1>14, <1>15, <1>16, <1>17, <1>18, <1>19, <1>20, <1>21,
     <1>22, <1>23, <1>24, <1>25
     DEF Next
-----------------------------------------------------------------------------
\* As many leases as launches.
LEMMA Tagged ==
  ASSUME NEW h, NEW S, IsFiniteSet(S)
  PROVE  IsFiniteSet({h} \X S) /\ Cardinality({h} \X S) <= Cardinality(S)
<1> DEFINE f == [l \in S |-> <<h, l>>]
<1>1. f \in [S -> {h} \X S]
  OBVIOUS
<1>2. \A x \in {h} \X S : x[2] \in S /\ f[x[2]] = x
  OBVIOUS
<1>3. f \in Surjection(S, {h} \X S)
  BY <1>1, <1>2 DEF Surjection
<1> QED BY <1>3, FS_Surjection

-----------------------------------------------------------------------------
\* No tree gives out more places than the policy has.
Bounded == \A t \in Run : Cardinality(Active(t)) <= limit

\* There are finitely many leases.
LEMMA ActiveFinite ==
  ASSUME SubagentAdmissionAssumption
  PROVE  /\ IsFiniteSet(Lease)
         /\ \A t : IsFiniteSet(Active(t)) /\ Cardinality(Active(t)) \in Nat
<1>1. \A h \in Holder : IsFiniteSet({h} \X Launch)
  BY Tagged DEF SubagentAdmissionAssumption
<1>2. Lease = ({"window"} \X Launch) \cup ({"promotion"} \X Launch) \cup ({"launch"} \X Launch)
  BY DEF Lease, Holder
<1>3. IsFiniteSet(Lease)
  BY <1>1, <1>2, FS_Union DEF Holder
<1> QED BY <1>3, FS_Subset, FS_CardinalityType DEF Active

\* At most the places N of a tree T are given out anew, and gone are free.
LEMMA Exchange ==
  ASSUME SubagentAdmissionAssumption, AdmissionType, Bounded, UNCHANGED limit,
         NEW T \in Run, NEW gone \in SUBSET Active(T), NEW N, IsFiniteSet(N),
         \A x \in gone : lease'[x] # T \/ x \in N,
         \A x \in Lease : \/ lease'[x] \in {lease[x], None}
                          \/ x \in N /\ lease'[x] = T,
         Cardinality(Active(T)) - Cardinality(gone) + Cardinality(N) <= limit
  PROVE  Bounded'
<1> SUFFICES ASSUME NEW t \in Run PROVE Cardinality(Active(t)') <= limit
  BY DEF Bounded, Active
<1>1. limit \in Nat /\ t # None
  BY DEF AdmissionType, SubagentAdmissionAssumption, Run
<1>2. CASE t # T
  <2>1. Active(t)' \subseteq Active(t)
    BY <1>1, <1>2 DEF Active
  <2> QED BY <1>1, <2>1, ActiveFinite, FS_Subset, FS_CardinalityType DEF Bounded
<1>3. CASE t = T
  <2> DEFINE A == Active(T)
             Stay == A \ gone
  <2>1. IsFiniteSet(A) /\ Cardinality(A) \in Nat
    BY ActiveFinite
  <2>2. /\ IsFiniteSet(gone) /\ IsFiniteSet(Stay)
        /\ Cardinality(gone) \in Nat /\ Cardinality(Stay) \in Nat
    BY <2>1, FS_Subset, FS_CardinalityType
  <2>3. Cardinality(A) = Cardinality(Stay) + Cardinality(gone)
    <3>1. A = Stay \cup gone /\ Stay \cap gone = {}
      OBVIOUS
    <3>2. Cardinality(Stay \cap gone) = 0
      BY <3>1, FS_EmptySet
    <3>3. Cardinality(Stay \cup gone)
            = Cardinality(Stay) + Cardinality(gone) - Cardinality(Stay \cap gone)
      BY <2>2, FS_Union
    <3> HIDE DEF A, Stay
    <3> QED BY <2>2, <3>1, <3>2, <3>3
  <2>4. Active(T)' \subseteq Stay \cup N
    BY <1>1, <1>3 DEF Active
  <2>5. /\ IsFiniteSet(Stay \cup N) /\ Cardinality(N) \in Nat
        /\ Cardinality(Stay \cap N) \in Nat
        /\ Cardinality(Stay \cup N) = Cardinality(Stay) + Cardinality(N) - Cardinality(Stay \cap N)
    BY <2>2, FS_Union, FS_Intersection, FS_CardinalityType
  <2>6. /\ Cardinality(Active(T)') \in Nat
        /\ Cardinality(Active(T)') <= Cardinality(Stay \cup N)
    BY <2>4, <2>5, FS_Subset, FS_CardinalityType
  <2>7. Cardinality(A) - Cardinality(gone) + Cardinality(N) <= limit
    OBVIOUS
  <2> HIDE DEF A, Stay
  <2> QED BY <1>1, <1>3, <2>1, <2>2, <2>3, <2>5, <2>6, <2>7
<1> QED BY <1>2, <1>3

\* Places are only given back.
LEMMA Shrink ==
  ASSUME SubagentAdmissionAssumption, AdmissionType, Bounded, UNCHANGED limit,
         \A x \in Lease : lease'[x] \in {lease[x], None}
  PROVE  Bounded'
<1> SUFFICES ASSUME NEW t \in Run PROVE Cardinality(Active(t)') <= limit
  BY DEF Bounded, Active
<1>1. limit \in Nat /\ t # None
  BY DEF AdmissionType, SubagentAdmissionAssumption, Run
<1>2. Active(t)' \subseteq Active(t)
  BY <1>1 DEF Active
<1> QED BY <1>1, <1>2, ActiveFinite, FS_Subset, FS_CardinalityType DEF Bounded

\* One place, new.
LEMMA ReserveBound ==
  ASSUME SubagentAdmissionAssumption, AdmissionType, Bounded, UNCHANGED limit,
         NEW r \in Run, NEW l \in Launch, Fits(r, 1),
         lease' = [lease EXCEPT ![Own(l)] = TreeOf(r)]
  PROVE  Bounded'
<1>1. TreeOf(r) \in Run
  BY TreeIsRun
<1>2. IsFiniteSet({Own(l)}) /\ Cardinality({Own(l)}) = 1 /\ Cardinality({}) = 0
  BY FS_Singleton, FS_EmptySet
<1>3. Cardinality(Active(TreeOf(r))) + 1 <= limit /\ Cardinality(Active(TreeOf(r))) \in Nat
  BY ActiveFinite DEF Fits
<1>4. Cardinality(Active(TreeOf(r))) - Cardinality({}) + Cardinality({Own(l)}) <= limit
  BY <1>2, <1>3
<1>5. \A x \in Lease : lease'[x] = lease[x] \/ (x \in {Own(l)} /\ lease'[x] = TreeOf(r))
  BY DEF AdmissionType
<1> QED BY <1>1, <1>2, <1>4, <1>5, Exchange

\* A place for each call of a window.
LEMMA HoldBound ==
  ASSUME SubagentAdmissionAssumption, AdmissionType, Bounded,
         NEW r \in Run, NEW S \in SUBSET Launch, Fits(r, Cardinality(S)), Hold(r, S)
  PROVE  Bounded'
<1> DEFINE T == TreeOf(r)
           N == {"window"} \X S
<1>1. T \in Run
  BY TreeIsRun
<1>2. /\ IsFiniteSet(S) /\ IsFiniteSet(N) /\ Cardinality(N) <= Cardinality(S)
      /\ Cardinality(S) \in Nat /\ Cardinality(N) \in Nat /\ Cardinality({}) = 0
  BY FS_Subset, FS_EmptySet, FS_CardinalityType, Tagged
<1>3. Cardinality(Active(T)) + Cardinality(S) <= limit /\ Cardinality(Active(T)) \in Nat
  BY ActiveFinite DEF Fits
<1>4. \A x \in Lease : lease'[x] = lease[x] \/ (x \in N /\ lease'[x] = T)
  BY DEF Hold
<1>5. UNCHANGED limit /\ limit \in Nat
  BY DEF Hold, KnownTree, AdmissionType, SubagentAdmissionAssumption
<1> HIDE DEF T, N
<1>6. Cardinality(Active(T)) - Cardinality({}) + Cardinality(N) <= limit
  BY <1>2, <1>3, <1>5
<1> QED BY <1>1, <1>2, <1>4, <1>5, <1>6, Exchange

\* A place of one's own, taken over or new.
LEMMA ClaimBound ==
  ASSUME SubagentAdmissionAssumption, AdmissionType, Bounded,
         NEW l \in Launch, parent[l] \in Run, Admits(parent[l]), Claim(l)
  PROVE  Bounded'
<1>1. UNCHANGED limit
  BY DEF Claim, KnownTree
<1>2. CASE Spare(parent[l]) = {}
  BY <1>1, <1>2, ReserveBound DEF Claim, Admits
<1>3. CASE Spare(parent[l]) # {}
  <2> DEFINE T == TreeOf(parent[l])
  <2>1. PICK y \in Spare(parent[l]) : lease' = Handover(y, l)
    BY <1>3 DEF Claim, Elder
  <2>2. T \in Run /\ y \in Active(T) /\ y # Own(l)
    BY <2>1, TreeIsRun DEF Spare, Active, Own
  <2>3. \A x \in Lease : \/ lease'[x] \in {lease[x], None}
                         \/ x \in {Own(l)} /\ lease'[x] = T
    BY <2>1 DEF Handover, AdmissionType
  <2>4. lease'[y] = None /\ None \notin Run
    BY <2>1, <2>2
       DEF Handover, AdmissionType, Active, SubagentAdmissionAssumption
  <2>5. /\ IsFiniteSet({Own(l)}) /\ Cardinality({Own(l)}) = 1 /\ Cardinality({y}) = 1
        /\ Cardinality(Active(T)) \in Nat /\ Cardinality(Active(T)) <= limit
    BY <2>2, FS_Singleton, ActiveFinite DEF Bounded
  <2>6. limit \in Nat
    BY DEF AdmissionType, SubagentAdmissionAssumption
  <2> HIDE DEF T
  <2>7. Cardinality(Active(T)) - Cardinality({y}) + Cardinality({Own(l)}) <= limit
    BY <2>5, <2>6
  <2> QED BY <1>1, <2>2, <2>3, <2>4, <2>5, <2>7, Exchange
<1> QED BY <1>2, <1>3

\* A place for each launch of a group, and as many left as were taken over.
LEMMA PromoteBound ==
  ASSUME SubagentAdmissionAssumption, AdmissionType, Bounded, NEW r \in Run,
         NEW g \in SUBSET Launch, NEW S \in SUBSET g,
         Fits(r, Cardinality(g)), Promote(r, g, S)
  PROVE  Bounded'
<1> DEFINE T == TreeOf(r)
           n == Min({Cardinality(g), Cardinality(Spare(r))})
<1>1. T \in Run /\ None \notin Run /\ UNCHANGED limit /\ limit \in Nat
  BY TreeIsRun
     DEF Promote, KnownTree, SubagentAdmissionAssumption, AdmissionType
<1>2. /\ IsFiniteSet(g) /\ IsFiniteSet(S) /\ Cardinality(g) \in Nat
      /\ Cardinality(S) \in Nat /\ Cardinality(S) <= Cardinality(g)
  BY FS_Subset, FS_CardinalityType DEF SubagentAdmissionAssumption
<1>3. PICK taken \in SUBSET Spare(r), left \in SUBSET g :
        /\ Cardinality(taken) = Cardinality(left)
        /\ lease' = [x \in Lease |->
             IF x \in taken THEN None
             ELSE IF x \in ({"promotion"} \X left) \cup {Own(l) : l \in S}
                  THEN TreeOf(r) ELSE lease[x]]
  BY DEF Promote, kSubset
<1>4. taken \in SUBSET Active(T)
  BY <1>3 DEF Spare, Active
<1> DEFINE P == {"promotion"} \X left
           O == {"launch"} \X S
           N == P \cup O
<1>5. /\ IsFiniteSet(left) /\ Cardinality(left) \in Nat
      /\ Cardinality(Active(T)) \in Nat
  BY <1>2, <1>3, FS_Subset, FS_CardinalityType, ActiveFinite
<1>6. /\ IsFiniteSet(P) /\ Cardinality(P) <= Cardinality(left)
      /\ IsFiniteSet(O) /\ Cardinality(O) <= Cardinality(S)
      /\ Cardinality(P) \in Nat /\ Cardinality(O) \in Nat
  BY <1>2, <1>5, Tagged, FS_CardinalityType
<1>7. /\ IsFiniteSet(N) /\ Cardinality(N) \in Nat
      /\ Cardinality(N) <= Cardinality(P) + Cardinality(O)
  <2>1. IsFiniteSet(P \cap O) /\ Cardinality(P \cap O) \in Nat
    BY <1>6, FS_Intersection, FS_CardinalityType
  <2>2. Cardinality(N) = Cardinality(P) + Cardinality(O) - Cardinality(P \cap O) /\ IsFiniteSet(N)
    BY <1>6, FS_Union
  <2>3. Cardinality(N) \in Nat
    BY <2>2, FS_CardinalityType
  <2> HIDE DEF P, O, N
  <2> QED BY <1>6, <2>1, <2>2, <2>3
<1>8. Cardinality(Active(T)) + Cardinality(g) <= limit
  BY DEF Fits
<1>9. \A x \in taken : lease'[x] # T
  BY <1>1, <1>3 DEF Spare
<1>10. \A x \in Lease : \/ lease'[x] \in {lease[x], None}
                        \/ x \in N /\ lease'[x] = T
  BY <1>3 DEF Own
<1> HIDE DEF T, P, O, N
<1>11. Cardinality(Active(T)) - Cardinality(taken) + Cardinality(N) <= limit
  BY <1>1, <1>2, <1>3, <1>5, <1>6, <1>7, <1>8
<1> QED BY <1>1, <1>4, <1>7, <1>9, <1>10, <1>11, Exchange

\* Giving places back keeps the bound.
LEMMA ReleaseBound ==
  ASSUME SubagentAdmissionAssumption, AdmissionType, Bounded,
         (\E gone : Release(gone)) \/ (\E l \in Launch : Deactivate(l)) \/ Forget
  PROVE  Bounded'
BY Shrink DEF Release, Deactivate, Forget, Without

\* A promotion keeps the bound.
LEMMA AttemptBound ==
  ASSUME SubagentAdmissionAssumption, AdmissionType, Bounded, NEW g \in SUBSET Launch,
         ParentOf(g) \in Run, NEW known, Attempt(g, known)
  PROVE  Bounded'
<1>1. CASE UNCHANGED <<limit, lease>>
  BY <1>1 DEF Bounded, Active
<1>2. CASE Fits(ParentOf(g), Cardinality(g)) /\ Promote(ParentOf(g), g, g \cap Queued)
  <2>1. g \cap Queued \in SUBSET g
    OBVIOUS
  <2> QED BY <1>2, <2>1, PromoteBound
<1> QED BY <1>1, <1>2 DEF Attempt, admissionVars, KnownTree

\* Every step keeps the bound.
LEMMA BoundStep ==
  ASSUME SubagentAdmissionAssumption, TypeOK, Asked, Next, Bounded,
         \A l \in Launch : Course(l)
  PROVE  Bounded'
<1>0. CASE UNCHANGED <<limit, lease>>
  BY <1>0 DEF Bounded, Active
<1>1. ASSUME NEW r \in Run, NEW S \in SUBSET Launch, OpenWindow(r, S) PROVE Bounded'
  <2>1. CASE Fits(r, Cardinality(S)) /\ Hold(r, S)
    BY <2>1, TypeParts, HoldBound
  <2> QED BY <1>0, <1>1, <2>1 DEF OpenWindow, KnownTree
<1>2. ASSUME NEW r \in Run, CloseWindow(r) PROVE Bounded'
  BY <1>2, TypeParts, ReleaseBound DEF CloseWindow
<1>3. ASSUME NEW l \in Launch, SpawnNow(l) PROVE Bounded'
  <2>1. CASE Admits(parent[l]) /\ Claim(l)
    BY <1>3, <2>1, TypeParts, ClaimBound DEF SpawnNow, Asked, Queued
  <2> QED BY <1>0, <1>3, <2>1 DEF SpawnNow, KnownTree
<1>4. ASSUME NEW l \in Launch, RefuseStart(l) \/ ThrowStart(l) PROVE Bounded'
  BY <1>4, TypeParts, ReleaseBound DEF RefuseStart, ThrowStart, storeVars, GiveBack
<1>5. ASSUME NEW l \in Launch, Begin(l) PROVE Bounded'
  BY <1>0, <1>5, TypeParts, ReleaseBound DEF Begin, GiveBack, Activate
<1>6. ASSUME NEW l \in Launch, Publish(l) PROVE Bounded'
  BY <1>6, TypeParts, ReleaseBound DEF Publish
<1>7. ASSUME NEW l \in Launch, Readopt(l) PROVE Bounded'
  BY <1>7, TypeParts, ReserveBound DEF Readopt, Asked, KnownTree
<1>8. ASSUME NEW l \in Launch, ReadoptFails(l) PROVE Bounded'
  BY <1>8, TypeParts, ReleaseBound DEF ReadoptFails, GiveBack
<1>9. ASSUME DrainRead PROVE Bounded'
  <2>1. CASE UNCHANGED admissionVars
    BY <1>0, <2>1 DEF admissionVars
  <2>2. ASSUME NEW g \in Groups, Attempt(g, registered \cap Queued)
        PROVE  Bounded'
    <3>1. g \in SUBSET Launch /\ ParentOf(g) \in Run
      BY <2>2, GroupsWait, GroupParent DEF Asked, Queued
    <3> QED BY <2>2, <3>1, TypeParts, AttemptBound
  <2> QED BY <1>9, <2>1, <2>2, Read, TypeParts
<1>10. ASSUME NEW g \in todo, PromoteNext(g) PROVE Bounded'
  <2>1. g \in SUBSET Launch /\ ParentOf(g) \in Run
    BY <1>10, TypeParts, GroupParent DEF Asked, DrainType
  <2> QED BY <1>10, <2>1, TypeParts, AttemptBound DEF PromoteNext
<1>11. ASSUME DrainSettled PROVE Bounded'
  BY <1>11, TypeParts, ReleaseBound DEF DrainSettled
<1>12. ASSUME Crash PROVE Bounded'
  BY <1>12, TypeParts, ReleaseBound DEF Crash
<1>13. CASE \/ \E r \in Run : RecoverRoot(r) \/ Restore(r) \/ EndRoot(r)
            \/ \E l \in Launch :
                 \/ SpawnAnswered(l) \/ SpawnDeferred(l) \/ SkipCall(l) \/ Prepared(l) \/ FailStart(l)
                 \/ Answer(l) \/ RetryOnce(l) \/ RetryOnRead(l) \/ Settle(l) \/ Stop(l)
                 \/ SettlePersisted(l) \/ GiveUp(l) \/ Readopted(l)
            \/ CancelThread \/ DrainEnd \/ Reconcile
  BY <1>0, <1>13
     DEF admissionVars, KnownTree, Activate, RecoverRoot, Restore, EndRoot,
         SpawnAnswered, SpawnDeferred, SkipCall, Prepared, FailStart, Answer,
         RetryOnce, RetryOnRead, Settle, Stop, SettlePersisted, GiveUp, Readopted,
         CancelThread, DrainEnd, Reconcile
<1> QED BY <1>1, <1>2, <1>3, <1>4, <1>5, <1>6, <1>7, <1>8, <1>9, <1>10, <1>11,
     <1>12, <1>13
     DEF Next
-----------------------------------------------------------------------------
\* Every step keeps the course of every launch, and moves its handle as the
\* ledger allows.
LEMMA CourseStep ==
  ASSUME SubagentAdmissionAssumption, TypeOK, Next, NEW w \in Launch, Course(w)
  PROVE  Course(w)' /\ Moves(w)
<1>0. Typed
  BY DEF TypeOK, Typed
<1>1. ASSUME NEW r \in Run, NEW S \in SUBSET Launch, OpenWindow(r, S)
      PROVE  Course(w)' /\ Moves(w)
  BY <1>0, <1>1, WindowStep
<1>2. ASSUME NEW r \in Run, RecoverRoot(r) PROVE Course(w)' /\ Moves(w)
  BY <1>2, OtherStep
     DEF RecoverRoot, storeVars, queueVars, SubagentAdmissionAssumption
<1>3. CASE \E r \in Run : CloseWindow(r) \/ Restore(r) \/ EndRoot(r)
  BY <1>3, OtherStep
     DEF CloseWindow, Restore, RestoreQueued, EndRoot, storeVars,
     queueVars, bootVars, OtherQueue
<1>4. CASE \E l \in Launch : SpawnAnswered(l) \/ SpawnDeferred(l) \/ SkipCall(l)
  BY <1>4, OtherStep
     DEF SpawnAnswered, SpawnDeferred, SkipCall, Register, queueVars,
     bootVars, OtherQueue
<1>5. CASE CancelThread \/ DrainSettled \/ DrainEnd
  BY <1>5, OtherStep
     DEF CancelThread, DrainSettled, DrainEnd, storeVars, queueVars,
     bootVars, OtherQueue
<1>6. CASE \E l \in Launch :
             \/ SpawnNow(l) \/ Prepared(l) \/ RefuseStart(l) \/ ThrowStart(l)
             \/ Begin(l) \/ FailStart(l)
  BY <1>0, <1>6, SpawnStep, PreparedStep, RefusedStep, ThrownStep, BeginStep, FailedStep
<1>7. CASE \E l \in Launch :
             Answer(l) \/ Publish(l) \/ RetryOnce(l) \/ RetryOnRead(l) \/ Settle(l) \/ Stop(l)
  BY <1>0, <1>7, AnswerStep, PublishStep, RetryStep, SettleStep, StopStep
<1>8. CASE \E l \in Launch :
             \/ SettlePersisted(l) \/ GiveUp(l) \/ Readopt(l)
             \/ Readopted(l) \/ ReadoptFails(l)
  BY <1>0, <1>8, SettlePersistedStep, GiveUpStep, ReadoptStep, ReadoptedStep,
     ReadoptFailsStep
<1>9. CASE DrainRead \/ \E g \in todo : PromoteNext(g)
  BY <1>0, <1>9, DrainStep
<1>10. CASE Crash \/ Reconcile
  BY <1>0, <1>10, CrashStep, ReconcileStep DEF SubagentAdmissionAssumption
<1> QED BY <1>1, <1>2, <1>3, <1>4, <1>5, <1>6, <1>7, <1>8, <1>9, <1>10 DEF Next

-----------------------------------------------------------------------------
\* The inductive invariant.
Inv ==
  /\ TypeOK /\ Asked /\ Bounded
  /\ \A l \in Launch : Course(l) /\ Waiting(l) /\ Placed(l)

\* It holds at first.
LEMMA InitInv ==
  ASSUME SubagentAdmissionAssumption, MaxCrashesAssumption, Init
  PROVE  Inv
<1>1. TypeOK
  <2>1. AdmissionType
    BY DEF Init, AdmissionInit, AdmissionType, Holder
  <2>2. StoreType
    BY DEF Init, StoreType
  <2>3. DaemonType
    <3>1. run \in [Run -> {"off", "restoring", "live", "ended"}]
      BY DEF Init
    <3>2. window \in [Run -> SUBSET Launch] /\ stage \in [Launch -> {"idle"}]
      BY DEF Init
    <3>3. crashes \in 0..MaxCrashes
      BY DEF Init, MaxCrashesAssumption
    <3> QED BY <3>1, <3>2, <3>3 DEF Init, DaemonType, Setup
  <2>4. DrainType
    BY DEF Init, DrainType
  <2> QED BY <2>1, <2>2, <2>3, <2>4, TypeParts
<1>2. Asked
  BY DEF Init, AdmissionInit, Asked, Run, SubagentAdmissionAssumption
<1>3. Bounded
  <2>1. \A t \in Run : Active(t) = {}
    BY DEF Init, AdmissionInit, Active, Run, SubagentAdmissionAssumption
  <2>2. limit \in Nat /\ Cardinality({}) = 0
    BY FS_EmptySet DEF Init, AdmissionInit, SubagentAdmissionAssumption
  <2> QED BY <2>1, <2>2 DEF Bounded
<1>4. \A l \in Launch : Course(l)
  BY DEF Init, Course, Setting, Setup, Running, Recovering, Left
<1>5. \A l \in Launch : Waiting(l)
  BY DEF Init, Waiting
<1>6. \A l \in Launch : Placed(l)
  BY DEF Init, AdmissionInit, Placed, Own, Lease, Holder
<1> QED BY <1>1, <1>2, <1>3, <1>4, <1>5, <1>6 DEF Inv

\* Every step keeps it, and moves each handle along the ledger's edges.
LEMMA NextInv ==
  ASSUME SubagentAdmissionAssumption, MaxCrashesAssumption, Inv, [Next]_vars
  PROVE  Inv' /\ \A l \in Launch : Moves(l)
<1>1. CASE Next
  <2>1. TypeOK'
    <3>1. \A l \in Launch : Course(l)
      BY DEF Inv
    <3>2. AdmissionType'
      BY <1>1, <3>1, AdmissionStep DEF Inv
    <3>3. StoreType' /\ DaemonType' /\ DrainType'
      BY <1>1, StoreStep, DaemonStep, DrainTypeStep DEF Inv
    <3> QED BY <3>2, <3>3
         DEF TypeOK, AdmissionType, StoreType, DaemonType, DrainType
  <2>2. Asked' /\ Bounded'
    BY <1>1, AskedStep, BoundStep DEF Inv
  <2>3. \A l \in Launch : Course(l)' /\ Moves(l) /\ Waiting(l)' /\ Placed(l)'
    BY <1>1, CourseStep, WaitStep, PlaceStep DEF Inv
  <2> QED BY <2>1, <2>2, <2>3 DEF Inv
<1>2. CASE UNCHANGED vars
  <2>1. UNCHANGED admissionVars /\ UNCHANGED storeVars /\ UNCHANGED queueVars
        /\ UNCHANGED bootVars /\ UNCHANGED <<run, window, aborted, stage, volatile>>
    BY <1>2 DEF vars
  <2>2. TypeOK'
    BY <2>1 DEF Inv, TypeOK, admissionVars, storeVars, queueVars, bootVars
  <2>3. Asked' /\ Bounded'
    <3>1. Asked'
      BY <2>1 DEF Inv, Asked, admissionVars, storeVars, queueVars
    <3>2. \A t \in Run : Active(t)' = Active(t)
      BY <2>1 DEF Active, admissionVars
    <3> QED BY <2>1, <3>1, <3>2 DEF Inv, Bounded, admissionVars
  <2>4. \A l \in Launch : Course(l)'
    BY <2>1 DEF Inv, Course, Setting, Running, Recovering, Left,
         storeVars, queueVars, bootVars
  <2>5. \A l \in Launch : Moves(l)
    BY <2>1 DEF Moves, Handle, storeVars
  <2>6. \A l \in Launch : Waiting(l)'
    BY <2>1 DEF Inv, Waiting, admissionVars, storeVars, queueVars, bootVars
  <2>7. \A l \in Launch : Placed(l)'
    BY <2>1 DEF Inv, Placed, admissionVars, storeVars, queueVars, bootVars
  <2> QED BY <2>2, <2>3, <2>4, <2>5, <2>6, <2>7 DEF Inv
<1> QED BY <1>1, <1>2

\* The invariant holds throughout.
THEOREM Invariance == Spec => []Inv
<1>1. Init => Inv
  BY InitInv, SubagentAdmissionAssumption, MaxCrashesAssumption
<1>2. Inv /\ [Next]_vars => Inv'
  BY NextInv, SubagentAdmissionAssumption, MaxCrashesAssumption
<1> QED BY <1>1, <1>2, PTL DEF Spec

-----------------------------------------------------------------------------
\* Types; outside a drain there is nothing left of one.
THEOREM Types == Spec => []TypeOK
<1>1. Inv => TypeOK
  BY DEF Inv
<1> QED BY <1>1, Invariance, PTL

\* No tree gives out more places than the policy has (reserveSlots,
\* transferOneExistingReservation), whatever the number of launches.
THEOREM PlacesBounded == Spec => []WithinLimit
<1>1. Inv => WithinLimit
  BY DEF Inv, Bounded, WithinLimit
<1> QED BY <1>1, Invariance, PTL

\* A place is held from the admission of a child to its end, and no reservation
\* outlives its window or its promotion (cleanupChildLifecycle, release).
THEOREM PlacesHeld == Spec => []LeaseHeld
<1>1. Inv => LeaseHeld
  BY DEF Inv, Placed, LeaseHeld
<1> QED BY <1>1, Invariance, PTL

\* A launch that was cancelled or failed to start never runs (agent_stop,
\* markSubagentLaunchStarted).
THEOREM GivenUpStays == Spec => []GivenUpNeverRuns
<1>1. Inv => GivenUpNeverRuns
  BY DEF Inv, Course, Running, Recovering, GivenUpNeverRuns
<1> QED BY <1>1, Invariance, PTL

\* A child that has answered is not run again (reconcilePersistedTerminal-
\* Checkpoint).
THEOREM NoSecondAnswer == Spec => []AnsweredOnce
<1>1. Inv => AnsweredOnce
  BY DEF Inv, TypeOK, Course, Left, AnsweredOnce
<1> QED BY <1>1, Invariance, PTL

\* The checkpoint of a child that ran is closed only once its result is durable
\* (settleBackgroundChildCheckpoint).
THEOREM ResultsFirst == Spec => []ResultBeforeSettlement
<1>1. Inv => ResultBeforeSettlement
  BY DEF Inv, TypeOK, Course, Left, ResultBeforeSettlement
<1> QED BY <1>1, Invariance, PTL

\* A launch that got as far as starting is being started, runs, or has a result,
\* unless its start threw, and then its child has never run (beginBackground-
\* ChildLifecycle, reconcileSubagentLaunchesAfterRestart).
THEOREM NoneUnaccounted == Spec => []Accounted
<1>1. Inv => Accounted
  BY DEF Inv, TypeOK, Course, Setting, Left, Accounted
<1> QED BY <1>1, Invariance, PTL

\* A launch that waits is in the hands of something that can start it
\* (deferLaunch, restoreQueuedLaunch, the drain).
THEOREM NoneForgotten == Spec => []NoQueueLost
<1>1. Inv => NoQueueLost
  BY DEF Inv, Waiting, Queued, NoQueueLost
<1> QED BY <1>1, Invariance, PTL

\* The durable record keeps the ledger of handles: begun once, declined before
\* any report, reported for good.
THEOREM LedgerKept == Spec => HandlesKept
<1>1. Init => Ledger!Init
  BY DEF Init, Ledger!Init, Handle
<1>2. Inv /\ [Next]_vars => [Ledger!Next]_[l \in Launch |-> Handle(l)]
  <2> SUFFICES ASSUME Inv, [Next]_vars
               PROVE  Ledger!Next
    OBVIOUS
  <2>1. \A l \in Launch : Moves(l)
    BY NextInv, SubagentAdmissionAssumption, MaxCrashesAssumption
  <2> QED BY <2>1 DEF Ledger!Next, Moves, Handle
<1> QED BY <1>1, <1>2, Invariance, PTL DEF Spec, HandlesKept, Ledger!Spec

-----------------------------------------------------------------------------
(***************************************************************************)
(* The promotion is never at rest while a group it could admit waits.      *)
(* Inv says nothing of what the drain has before it: WakeInv adds that a   *)
(* group which could be promoted is before the drain, or the drain is to   *)
(* look again (Awake), and what that rests on: the launches of a batch     *)
(* have one parent (Batched), and only who was started has children        *)
(* (Childless).  A step that gives no place back (Fuller) makes nothing    *)
(* fit that did not.                                                       *)
(***************************************************************************)

\* A group that the drain could promote if it looked.
Pressing(g) ==
  /\ g \in Groups /\ g \subseteq registered
  /\ Fits(ParentOf(g), Cardinality(g)) /\ ~Outrun(g)

\* Unless the drain is to look again, it has before it what presses.
Awake ==
  /\ drain = "idle" => ~again
  /\ drain = "scheduled" => again
  /\ ~again => \A g \in SUBSET Launch : Pressing(g) => g \in todo

\* The launches of a batch have one parent, and the drain's groups are of batches.
Batched ==
  /\ \A l \in Launch :
       IF launchState[l] = "none" THEN parent[l] = None
       ELSE \A m \in batch[l] :
              batch[m] = batch[l] /\ parent[m] = parent[l] /\ launchState[m] # "none"
  /\ \A g \in todo : \A l \in g : g \subseteq batch[l]

\* Who runs, or asked for launches, has been started.
Childless ==
  /\ \A l \in registered : launchState[l] # "none"
  /\ \A l \in Launch : launchState[l] \in {"none", "queued", "starting"} =>
       run[l] = "off" /\ \A m \in Launch : parent[m] # l

WakeInv == Inv /\ Awake /\ Batched /\ Childless

\* What is said of a group holds of each of its launches.
LEMMA GroupFacts ==
  ASSUME SubagentAdmissionAssumption, Inv, Batched, NEW g \in Groups
  PROVE  /\ g \subseteq Launch /\ g # {} /\ g \subseteq Queued
         /\ IsFiniteSet(g) /\ Cardinality(g) \in Nat
         /\ ParentOf(g) \in Run
         /\ \A l \in g : parent[l] = ParentOf(g) /\ g = batch[l] \cap Queued
<1>1. g # {} /\ g \subseteq Queued /\ g \subseteq Launch
  BY GroupsWait DEF Inv, Queued
<1>2. IsFiniteSet(g) /\ Cardinality(g) \in Nat
  BY <1>1, FS_Subset, FS_CardinalityType DEF SubagentAdmissionAssumption
<1>3. PICK k \in Queued : g = batch[k] \cap Queued
  BY DEF Groups
<1>4. \A l \in g : batch[l] = batch[k] /\ parent[l] = parent[k]
  BY <1>1, <1>3 DEF Batched, Queued
<1>5. ParentOf(g) = parent[k] /\ parent[k] \in Run
  BY <1>1, <1>3, <1>4 DEF ParentOf, Inv, Asked, Queued
<1> QED BY <1>1, <1>2, <1>3, <1>4, <1>5

\* The places of a run's children and reservations.
Used(r) == Cardinality(ChildrenOf(r)) + Cardinality(Reserved(r))

LEMMA UsedFinite ==
  ASSUME SubagentAdmissionAssumption, AdmissionType, NEW r
  PROVE  /\ IsFiniteSet(ChildrenOf(r)) /\ IsFiniteSet(Reserved(r))
         /\ Cardinality(ChildrenOf(r)) \in Nat /\ Cardinality(Reserved(r)) \in Nat
         /\ Used(r) \in Nat
<1>1. IsFiniteSet(ChildrenOf(r)) /\ IsFiniteSet(Reserved(r))
  BY ActiveFinite, FS_Subset
     DEF ChildrenOf, Reserved, AdmissionType, SubagentAdmissionAssumption
<1> QED BY <1>1, FS_CardinalityType DEF Used

\* No place of a run or its tree is given back.
Fuller(r) ==
  /\ limit' = limit /\ TreeOf(r)' = TreeOf(r)
  /\ Cardinality(Active(TreeOf(r))) <= Cardinality(Active(TreeOf(r))')
  /\ Used(r) <= Used(r)'

\* What fits then, fitted before.
LEMMA FitsLess ==
  ASSUME SubagentAdmissionAssumption, AdmissionType, AdmissionType',
         NEW r \in Run, NEW n \in Nat, Fits(r, n)', Fuller(r)
  PROVE  Fits(r, n)
<1> DEFINE a == Cardinality(Active(TreeOf(r)))
           b == Cardinality(ChildrenOf(r))
           c == Cardinality(Reserved(r))
           A == Cardinality(Active(TreeOf(r))')
           B == Cardinality(ChildrenOf(r)')
           C == Cardinality(Reserved(r)')
<1>1. a \in Nat /\ b \in Nat /\ c \in Nat /\ limit \in Nat
  BY ActiveFinite, UsedFinite DEF AdmissionType, SubagentAdmissionAssumption
<1>2. A \in Nat /\ B \in Nat /\ C \in Nat
  <2>1. IsFiniteSet(Active(TreeOf(r))') /\ IsFiniteSet(ChildrenOf(r)') /\ IsFiniteSet(Reserved(r)')
    <3>1. IsFiniteSet(Lease) /\ IsFiniteSet(Launch)
      BY ActiveFinite DEF SubagentAdmissionAssumption
    <3>2. Active(TreeOf(r))' \subseteq Lease /\ ChildrenOf(r)' \subseteq Launch /\ Reserved(r)' \subseteq Lease
      BY DEF Active, ChildrenOf, Reserved, AdmissionType
    <3> QED BY <3>1, <3>2, FS_Subset
  <2> QED BY <2>1, FS_CardinalityType
<1>3. a <= A /\ b + c <= B + C /\ limit' = limit
  BY DEF Fuller, Used
<1>4. A + n <= limit /\ B + C + n <= limit
  BY <1>3 DEF Fits, Fuller
<1> HIDE DEF a, b, c, A, B, C
<1>5. a + n <= limit /\ b + c + n <= limit
  BY <1>1, <1>2, <1>3, <1>4
<1> QED BY <1>5 DEF Fits, a, b, c

\* A group that presses afterwards pressed before, if it was there.
LEMMA PressedBefore ==
  ASSUME SubagentAdmissionAssumption, Inv, Inv', Batched, NEW g \in SUBSET Launch,
         Pressing(g)', g \in Groups, g \subseteq registered, ~Outrun(g),
         UNCHANGED ParentOf(g), Fuller(ParentOf(g))
  PROVE  Pressing(g)
<1>1. Cardinality(g) \in Nat /\ ParentOf(g) \in Run
  BY GroupFacts
<1>2. AdmissionType /\ AdmissionType'
  BY TypeParts, PTL DEF Inv
<1>3. Fits(ParentOf(g), Cardinality(g))'
  BY DEF Pressing
<1> DEFINE r == ParentOf(g)
           n == Cardinality(g)
<1>4. Fits(r, n)'
  BY <1>3
<1>5. PICK k \in Run : k = ParentOf(g)
  BY <1>1
<1>6. Fits(k, Cardinality(g))'
  BY <1>3, <1>5 DEF Fits
<1>7. Fits(k, Cardinality(g))
  BY <1>1, <1>2, <1>5, <1>6, FitsLess
<1> QED BY <1>5, <1>7 DEF Pressing

\* Nothing presses that did not, while the groups stay and no place is given back.
LEMMA StillPressing ==
  ASSUME SubagentAdmissionAssumption, Inv, Inv', Batched,
         UNCHANGED <<parent, batch>>, Groups' \subseteq Groups, registered' \subseteq registered,
         \A l \in Launch : lease[Own(l)] # None => lease'[Own(l)] # None,
         \A r \in Run : Fuller(r)
  PROVE  \A g \in SUBSET Launch : Pressing(g)' => Pressing(g)
<1> SUFFICES ASSUME NEW g \in SUBSET Launch, Pressing(g)' PROVE Pressing(g)
  OBVIOUS
<1>1. g \in Groups /\ g \subseteq registered
  BY DEF Pressing
<1>2. ~Outrun(g)
  <2>1. \A l \in g : batch[l] \subseteq Launch
    BY TypeParts DEF Inv, StoreType
  <2> QED BY <2>1 DEF Pressing, Outrun
<1>3. ParentOf(g)' = ParentOf(g)
  BY DEF ParentOf
<1> QED BY <1>1, <1>2, <1>3, GroupFacts, PressedBefore

-----------------------------------------------------------------------------
\* What takes places and gives none back.

LEMMA TreeKept ==
  ASSUME SubagentAdmissionAssumption, AdmissionType, NEW k \in Run,
         tree' = tree \/ KnownTree(k), NEW r \in Run
  PROVE  TreeOf(r)' = TreeOf(r)
<1>1. CASE tree' = tree
  BY <1>1 DEF TreeOf
<1>2. CASE KnownTree(k)
  <2>1. tree' = [tree EXCEPT ![k] = TreeOf(k)] /\ TreeOf(k) # None
    BY <1>2, TreeIsRun DEF KnownTree, SubagentAdmissionAssumption
  <2>2. CASE r = k
    BY <2>1, <2>2 DEF TreeOf, AdmissionType
  <2>3. CASE r # k
    BY <2>1, <2>3 DEF TreeOf, AdmissionType
  <2> QED BY <2>2, <2>3
<1> QED BY <1>1, <1>2

\* The places stay what they are, or more are taken.
LEMMA FullerMore ==
  ASSUME SubagentAdmissionAssumption, AdmissionType, AdmissionType', limit' = limit,
         NEW r \in Run, TreeOf(r)' = TreeOf(r),
         Active(TreeOf(r)) \subseteq Active(TreeOf(r))',
         ChildrenOf(r) \subseteq ChildrenOf(r)', Reserved(r) \subseteq Reserved(r)'
  PROVE  Fuller(r)
<1> DEFINE A == Active(TreeOf(r))'
           B == ChildrenOf(r)'
           C == Reserved(r)'
<1>1. IsFiniteSet(A) /\ IsFiniteSet(B) /\ IsFiniteSet(C)
  <2>1. IsFiniteSet(Lease) /\ IsFiniteSet(Launch)
    BY ActiveFinite DEF SubagentAdmissionAssumption
  <2>2. A \subseteq Lease /\ B \subseteq Launch /\ C \subseteq Lease
    BY DEF Active, ChildrenOf, Reserved, AdmissionType
  <2> HIDE DEF A, B, C
  <2> QED BY <2>1, <2>2, FS_Subset
<1>2. /\ Active(TreeOf(r)) \subseteq A /\ ChildrenOf(r) \subseteq B /\ Reserved(r) \subseteq C
  OBVIOUS
<1>3. Used(r)' = Cardinality(B) + Cardinality(C)
  BY DEF Used
<1>4. Cardinality(Active(TreeOf(r))') = Cardinality(A)
  OBVIOUS
<1> HIDE DEF A, B, C
<1>5. /\ Cardinality(Active(TreeOf(r))) <= Cardinality(A)
      /\ Cardinality(ChildrenOf(r)) <= Cardinality(B)
      /\ Cardinality(Reserved(r)) <= Cardinality(C)
      /\ Cardinality(B) \in Nat /\ Cardinality(C) \in Nat
  BY <1>1, <1>2, FS_Subset, FS_CardinalityType
<1>6. Used(r) <= Used(r)'
  BY <1>3, <1>5, UsedFinite DEF Used
<1> QED BY <1>4, <1>5, <1>6 DEF Fuller

\* Nothing changes but what is known of trees.
LEMMA FullerSame ==
  ASSUME SubagentAdmissionAssumption, AdmissionType, AdmissionType',
         UNCHANGED <<limit, parent, lease, children>>,
         NEW k \in Run, tree' = tree \/ KnownTree(k)
  PROVE  \A r \in Run : Fuller(r)
<1> SUFFICES ASSUME NEW r \in Run PROVE Fuller(r)
  OBVIOUS
<1>1. TreeOf(r)' = TreeOf(r)
  BY TreeKept
<1>2. Active(TreeOf(r))' = Active(TreeOf(r))
  BY <1>1 DEF Active
<1>3. ChildrenOf(r)' = ChildrenOf(r) /\ Reserved(r)' = Reserved(r)
  BY DEF ChildrenOf, Reserved
<1> QED BY <1>1, <1>2, <1>3, FullerMore

\* As many places are taken as given back.
LEMMA SwapCard ==
  ASSUME NEW X, NEW Y, NEW out, NEW in, IsFiniteSet(X), IsFiniteSet(Y), IsFiniteSet(in),
         out \subseteq X, in \cap X = {}, Cardinality(out) <= Cardinality(in),
         (X \ out) \cup in \subseteq Y
  PROVE  Cardinality(X) <= Cardinality(Y)
<1> DEFINE stay == X \ out
           new == stay \cup in
<1>1. /\ IsFiniteSet(out) /\ IsFiniteSet(stay) /\ IsFiniteSet(new)
  BY FS_Subset
<1>2. /\ Cardinality(out) \in Nat /\ Cardinality(stay) \in Nat /\ Cardinality(in) \in Nat
      /\ Cardinality(X) \in Nat /\ Cardinality(new) \in Nat /\ Cardinality({}) = 0
  BY <1>1, FS_CardinalityType, FS_EmptySet
<1>3. Cardinality(X) = Cardinality(stay) + Cardinality(out)
  <2>1. X = stay \cup out /\ stay \cap out = {}
    OBVIOUS
  <2>2. Cardinality(stay \cup out) = Cardinality(stay) + Cardinality(out) - Cardinality(stay \cap out)
    BY <1>1, FS_Union
  <2>3. Cardinality(stay \cap out) = 0
    BY <2>1, FS_EmptySet
  <2> HIDE DEF stay
  <2> QED BY <1>2, <2>1, <2>2, <2>3
<1>4. Cardinality(new) = Cardinality(stay) + Cardinality(in)
  <2>1. stay \cap in = {}
    OBVIOUS
  <2>2. Cardinality(stay \cup in) = Cardinality(stay) + Cardinality(in) - Cardinality(stay \cap in)
    BY <1>1, FS_Union
  <2>3. Cardinality(stay \cap in) = 0
    BY <2>1, FS_EmptySet
  <2> HIDE DEF stay
  <2> QED BY <1>2, <2>1, <2>2, <2>3
<1>5. Cardinality(new) <= Cardinality(Y) /\ Cardinality(Y) \in Nat
  BY FS_Subset, FS_CardinalityType
<1> HIDE DEF stay, new
<1> QED BY <1>2, <1>3, <1>4, <1>5

\* Reservations of r are taken over: others of r come in their place.
LEMMA FullerSwap ==
  ASSUME SubagentAdmissionAssumption, AdmissionType, AdmissionType',
         UNCHANGED <<limit, parent, children>>, NEW r \in Run, KnownTree(r),
         NEW out \in SUBSET Spare(r), NEW in \in SUBSET Lease,
         Cardinality(out) <= Cardinality(in),
         \A x \in in : /\ lease[x] = None /\ lease'[x] = TreeOf(r) /\ parent[x[2]] = r
                       /\ x[1] = "launch" => x[2] \notin children,
         \A x \in Lease : lease[x] # None /\ x \notin out => lease'[x] = lease[x]
  PROVE  \A k \in Run : Fuller(k)
<1> DEFINE T == TreeOf(r)
<1>0. T \in Run /\ T # None /\ None \notin Run /\ IsFiniteSet(in) /\ IsFiniteSet(Lease)
  BY TreeIsRun, ActiveFinite, FS_Subset DEF SubagentAdmissionAssumption
<1> SUFFICES ASSUME NEW k \in Run PROVE Fuller(k)
  OBVIOUS
<1>1. TreeOf(k)' = TreeOf(k) /\ TreeOf(k) # None /\ TreeOf(k) \in Run
  BY <1>0, TreeKept, TreeIsRun
<1>2. /\ IsFiniteSet(Active(TreeOf(k))) /\ IsFiniteSet(Active(TreeOf(k))')
      /\ IsFiniteSet(Reserved(k)) /\ IsFiniteSet(Reserved(k)')
      /\ ChildrenOf(k)' = ChildrenOf(k)
  <2>1. Active(TreeOf(k))' \subseteq Lease /\ Reserved(k)' \subseteq Lease
    BY DEF Active, Reserved
  <2>2. Active(TreeOf(k)) \subseteq Lease /\ Reserved(k) \subseteq Lease
    BY DEF Active, Reserved
  <2> QED BY <1>0, <2>1, <2>2, FS_Subset DEF ChildrenOf
<1>3. Cardinality(Active(TreeOf(k))) <= Cardinality(Active(TreeOf(k))')
  <2> DEFINE Y == Active(TreeOf(k))'
  <2>0. IsFiniteSet(Y)
    BY <1>2
  <2>1. CASE TreeOf(k) = T
    <3>1. out \subseteq Active(TreeOf(k)) /\ in \cap Active(TreeOf(k)) = {}
      BY <1>0, <2>1 DEF Spare, Active
    <3>2. (Active(TreeOf(k)) \ out) \cup in \subseteq Y
      BY <1>0, <1>1, <2>1 DEF Active
    <3> HIDE DEF Y
    <3> QED BY <1>0, <1>2, <2>0, <3>1, <3>2, SwapCard DEF Y
  <2>2. CASE TreeOf(k) # T
    <3>1. Active(TreeOf(k)) \subseteq Y
      BY <1>0, <1>1, <2>2 DEF Active, Spare
    <3> HIDE DEF Y
    <3> QED BY <2>0, <3>1, FS_Subset DEF Y
  <2> QED BY <2>1, <2>2
<1>4. Cardinality(Reserved(k)) <= Cardinality(Reserved(k)')
  <2> DEFINE Y == Reserved(k)'
  <2>0. IsFiniteSet(Y)
    BY <1>2
  <2>1. CASE k = r
    <3>1. out \subseteq Reserved(k) /\ in \cap Reserved(k) = {}
      BY <1>0, <2>1 DEF Spare, Reserved
    <3>2. (Reserved(k) \ out) \cup in \subseteq Y
      BY <1>0, <1>1, <2>1 DEF Reserved
    <3> HIDE DEF Y
    <3> QED BY <1>0, <1>2, <2>0, <3>1, <3>2, SwapCard DEF Y
  <2>2. CASE k # r
    <3>1. Reserved(k) \subseteq Y
      BY <1>0, <1>1, <2>2 DEF Reserved, Spare
    <3> HIDE DEF Y
    <3> QED BY <2>0, <3>1, FS_Subset DEF Y
  <2> QED BY <2>1, <2>2
<1>5. Used(k) <= Used(k)'
  <2> DEFINE b == Cardinality(ChildrenOf(k))
             c == Cardinality(Reserved(k))
             C == Cardinality(Reserved(k)')
  <2>1. b \in Nat /\ c \in Nat /\ C \in Nat
    BY <1>2, UsedFinite, FS_CardinalityType
  <2>2. Used(k)' = b + C
    BY <1>2 DEF Used
  <2>3. Used(k) = b + c /\ c <= C
    BY <1>4 DEF Used
  <2> HIDE DEF b, c, C
  <2> QED BY <2>1, <2>2, <2>3
<1> QED BY <1>1, <1>3, <1>5 DEF Fuller

-----------------------------------------------------------------------------
\* The operations on places, one by one.

\* As many leases as launches, exactly.
LEMMA TaggedAll ==
  ASSUME NEW h, NEW S, IsFiniteSet(S)
  PROVE  Cardinality(S) <= Cardinality({h} \X S)
<1> DEFINE f == [x \in {h} \X S |-> x[2]]
           P == {h} \X S
<1>1. f \in [P -> S] /\ IsFiniteSet(P)
  BY Tagged
<1>2. \A l \in S : <<h, l>> \in P /\ f[<<h, l>>] = l
  OBVIOUS
<1>3. f \in Surjection(P, S)
  BY <1>1, <1>2 DEF Surjection
<1> HIDE DEF f, P
<1>4. Cardinality(S) <= Cardinality(P)
  BY <1>1, <1>3, FS_Surjection
<1> QED BY <1>4 DEF P

\* A launch that waits holds nothing of its own.
LEMMA WaitsPlaceless ==
  ASSUME Inv, NEW l \in Launch, launchState[l] \in {"none", "queued"}
  PROVE  lease[Own(l)] = None /\ l \notin children /\ stage[l] = "idle"
<1>1. stage[l] = "idle"
  BY DEF Inv, Course, Setting
<1> QED BY <1>1 DEF Inv, Placed

\* Who has a place keeps it; who had no parent may get one.
LEMMA FullerGrown ==
  ASSUME SubagentAdmissionAssumption, AdmissionType, AdmissionType',
         UNCHANGED <<limit, children>>, NEW r \in Run, tree' = tree \/ KnownTree(r),
         \A l \in Launch : parent'[l] = parent[l] \/ parent[l] = None,
         \A x \in Lease : lease[x] # None => lease'[x] = lease[x]
  PROVE  \A k \in Run : Fuller(k)
<1> SUFFICES ASSUME NEW k \in Run PROVE Fuller(k)
  OBVIOUS
<1>1. TreeOf(k)' = TreeOf(k) /\ TreeOf(k) # None /\ k # None
  BY TreeKept, TreeIsRun DEF SubagentAdmissionAssumption
<1>2. Active(TreeOf(k)) \subseteq Active(TreeOf(k))'
  BY <1>1 DEF Active
<1>3. \A x \in Lease : x[2] \in Launch
  BY DEF Lease
<1>4. ChildrenOf(k) \subseteq ChildrenOf(k)' /\ Reserved(k) \subseteq Reserved(k)'
  BY <1>1, <1>3 DEF ChildrenOf, Reserved, AdmissionType
<1> QED BY <1>1, <1>2, <1>4, FullerMore

\* A window's places.
LEMMA HoldFuller ==
  ASSUME SubagentAdmissionAssumption, AdmissionType, AdmissionType', NEW r \in Run,
         NEW S \in SUBSET Launch, Hold(r, S),
         \A l \in Launch : parent'[l] = parent[l] \/ parent[l] = None,
         \A l \in S : lease[<<"window", l>>] = None
  PROVE  \A k \in Run : Fuller(k)
<1>1. \A x \in Lease : lease[x] # None => lease'[x] = lease[x]
  <2> SUFFICES ASSUME NEW x \in Lease, lease[x] # None PROVE lease'[x] = lease[x]
    OBVIOUS
  <2>1. x \in {"window"} \X S => x = <<"window", x[2]>> /\ x[2] \in S
    OBVIOUS
  <2>2. x \notin {"window"} \X S
    BY <2>1
  <2> QED BY <2>2 DEF Hold
<1>2. UNCHANGED <<limit, children>> /\ KnownTree(r)
  BY DEF Hold, KnownTree
<1> QED BY <1>1, <1>2, FullerGrown

\* A place of one's own that none held.
LEMMA ReserveFuller ==
  ASSUME SubagentAdmissionAssumption, AdmissionType, AdmissionType', NEW l \in Launch,
         parent[l] \in Run, KnownTree(parent[l]), UNCHANGED <<parent, children>>,
         lease[Own(l)] = None, lease' = [lease EXCEPT ![Own(l)] = TreeOf(parent[l])]
  PROVE  \A k \in Run : Fuller(k)
<1>1. \A x \in Lease : lease[x] # None => lease'[x] = lease[x]
  BY DEF AdmissionType
<1> QED BY <1>1, FullerGrown DEF KnownTree

\* A place of one's own, taken over or new.
LEMMA ClaimFuller ==
  ASSUME SubagentAdmissionAssumption, AdmissionType, AdmissionType', NEW l \in Launch,
         parent[l] \in Run, Claim(l), lease[Own(l)] = None, l \notin children
  PROVE  \A k \in Run : Fuller(k)
<1> DEFINE r == parent[l]
<1>1. KnownTree(r) /\ UNCHANGED <<parent, children>> /\ limit' = limit
  BY DEF Claim, KnownTree
<1>2. CASE Spare(r) = {}
  BY <1>1, <1>2, ReserveFuller DEF Claim
<1>3. CASE Spare(r) # {}
  <2>1. PICK y \in Spare(r) : lease' = Handover(y, l)
    BY <1>3 DEF Claim, Elder
  <2>2. /\ y[1] # "launch" /\ lease[y] = TreeOf(r) /\ y \in Lease /\ Own(l) \in Lease
        /\ y # Own(l) /\ Own(l)[1] = "launch" /\ Own(l)[2] = l
    BY <2>1 DEF Spare, Own, Lease, Holder
  <2>3. /\ {y} \in SUBSET Spare(r) /\ {Own(l)} \in SUBSET Lease
        /\ Cardinality({y}) <= Cardinality({Own(l)})
    <3>1. Cardinality({y}) = 1 /\ Cardinality({Own(l)}) = 1
      BY FS_Singleton
    <3> QED BY <2>1, <2>2, <3>1
  <2>4. lease'[Own(l)] = TreeOf(r)
    BY <2>1, <2>2 DEF Handover, AdmissionType
  <2>5. \A x \in Lease : lease[x] # None /\ x \notin {y} => lease'[x] = lease[x]
    BY <2>1, <2>2 DEF Handover, AdmissionType
  <2>6. \A x \in {Own(l)} : /\ lease[x] = None /\ lease'[x] = TreeOf(r) /\ parent[x[2]] = r
                            /\ x[1] = "launch" => x[2] \notin children
    BY <2>2, <2>4
  <2> QED BY <1>1, <2>3, <2>5, <2>6, FullerSwap
<1> QED BY <1>2, <1>3

\* The places of a promotion, as many left as taken over.
LEMMA PromoteFuller ==
  ASSUME SubagentAdmissionAssumption, AdmissionType, AdmissionType', NEW r \in Run,
         NEW g \in SUBSET Launch, NEW S \in SUBSET g, Promote(r, g, S),
         \A l \in g : parent[l] = r /\ lease[<<"promotion", l>>] = None,
         \A l \in S : lease[Own(l)] = None /\ l \notin children
  PROVE  \A k \in Run : Fuller(k)
<1>1. PICK taken \in SUBSET Spare(r), left \in SUBSET g :
        /\ Cardinality(taken) = Cardinality(left)
        /\ lease' = [x \in Lease |->
             IF x \in taken THEN None
             ELSE IF x \in ({"promotion"} \X left) \cup {Own(l) : l \in S}
                  THEN TreeOf(r) ELSE lease[x]]
  BY DEF Promote, kSubset
<1> DEFINE P == {"promotion"} \X left
           O == {"launch"} \X S
           new == P \cup O
<1>2. TreeOf(r) # None /\ \A x \in taken : lease[x] # None
  BY TreeIsRun DEF Spare, SubagentAdmissionAssumption
<1>3. \A x \in new : lease[x] = None /\ parent[x[2]] = r /\ (x[1] = "launch" => x[2] \notin children)
  <2>1. ASSUME NEW x \in P
        PROVE  lease[x] = None /\ parent[x[2]] = r /\ x[1] # "launch"
    <3>1. x = <<"promotion", x[2]>> /\ x[2] \in left
      OBVIOUS
    <3>2. x[1] = "promotion" /\ x[2] \in g
      BY <3>1
    <3> HIDE DEF P
    <3> QED BY <3>1, <3>2
  <2>2. ASSUME NEW x \in O
        PROVE  lease[x] = None /\ parent[x[2]] = r /\ x[2] \notin children
    <3>1. x = Own(x[2]) /\ x[2] \in S
      BY DEF Own
    <3> HIDE DEF O
    <3> QED BY <3>1
  <2> QED BY <2>1, <2>2
<1>4. new \in SUBSET Lease
  BY DEF Lease, Holder
<1>5. new = ({"promotion"} \X left) \cup {Own(l) : l \in S}
  <2>1. O = {Own(l) : l \in S}
    <3>1. \A x \in O : x = Own(x[2]) /\ x[2] \in S
      BY DEF Own
    <3>2. \A l \in S : Own(l) \in O
      BY DEF Own
    <3> HIDE DEF O
    <3> QED BY <3>1, <3>2
  <2> QED BY <2>1
<1>6. \A x \in new : lease'[x] = TreeOf(r)
  <2>1. \A x \in new : x \notin taken /\ x \in Lease
    BY <1>2, <1>3, <1>4
  <2> HIDE DEF new
  <2> QED BY <1>5, <1>1, <2>1
<1>7. \A x \in Lease : lease[x] # None /\ x \notin taken => lease'[x] = lease[x]
  <2>1. \A x \in Lease : lease[x] # None => x \notin new
    BY <1>3
  <2> HIDE DEF new
  <2> QED BY <1>5, <1>1, <2>1
<1>8. Cardinality(taken) <= Cardinality(new)
  <2>1. /\ IsFiniteSet(left) /\ IsFiniteSet(new) /\ IsFiniteSet(P)
    <3>1. IsFiniteSet(Lease) /\ IsFiniteSet(Launch)
      BY ActiveFinite DEF SubagentAdmissionAssumption
    <3>2. P \subseteq new /\ left \subseteq Launch
      OBVIOUS
    <3> HIDE DEF new, P
    <3>3. IsFiniteSet(new) /\ IsFiniteSet(left)
      BY <1>4, <3>1, <3>2, FS_Subset
    <3> QED BY <3>2, <3>3, FS_Subset
  <2>2. Cardinality(left) <= Cardinality(P)
    BY <2>1, TaggedAll
  <2>3. P \subseteq new
    OBVIOUS
  <2> HIDE DEF P, new
  <2>4. Cardinality(P) <= Cardinality(new)
    BY <2>1, <2>3, FS_Subset
  <2>5. Cardinality(left) \in Nat /\ Cardinality(P) \in Nat /\ Cardinality(new) \in Nat
    BY <2>1, FS_CardinalityType
  <2> QED BY <1>1, <2>2, <2>4, <2>5
<1>9. KnownTree(r) /\ UNCHANGED <<limit, parent, children>>
  BY DEF Promote, KnownTree
<1> HIDE DEF new, P, O
<1> QED BY <1>1, <1>3, <1>4, <1>6, <1>7, <1>8, <1>9, FullerSwap

\* A child that begins to run holds one place as before.
LEMMA ActivateFuller ==
  ASSUME SubagentAdmissionAssumption, AdmissionType, AdmissionType', NEW l \in Launch,
         Activate(l), l \notin children, NEW k \in Run, k # l
  PROVE  Fuller(k)
<1>1. TreeOf(k)' = TreeOf(k) /\ UNCHANGED <<limit, parent, lease>>
  BY DEF Activate, TreeOf, AdmissionType
<1>2. Active(TreeOf(k))' = Active(TreeOf(k))
  BY <1>1 DEF Active
<1> DEFINE A == ChildrenOf(k)
           B == Reserved(k)
           C == ChildrenOf(k)'
           D == Reserved(k)'
<1>3. IsFiniteSet(A) /\ IsFiniteSet(B) /\ IsFiniteSet(C) /\ IsFiniteSet(D)
  <2>1. C \subseteq Launch /\ D \subseteq Lease
    BY DEF ChildrenOf, Reserved, AdmissionType
  <2>2. IsFiniteSet(Lease) /\ IsFiniteSet(Launch)
    BY ActiveFinite DEF SubagentAdmissionAssumption
  <2> HIDE DEF C, D
  <2>3. IsFiniteSet(C) /\ IsFiniteSet(D)
    BY <2>1, <2>2, FS_Subset
  <2> QED BY <2>3, UsedFinite
<1>4. /\ Cardinality(A) \in Nat /\ Cardinality(B) \in Nat
      /\ Cardinality(C) \in Nat /\ Cardinality(D) \in Nat
  <2> HIDE DEF A, B, C, D
  <2> QED BY <1>3, FS_CardinalityType
<1>5. Used(k) = Cardinality(A) + Cardinality(B) /\ Used(k)' = Cardinality(C) + Cardinality(D)
  BY DEF Used
<1>6. CASE parent[l] = k
  <2>1. C = A \cup {l} /\ l \notin A
    BY <1>1, <1>6 DEF Activate, ChildrenOf
  <2>2. B \ {Own(l)} \subseteq D
    BY <1>1 DEF Activate, Reserved, Own, Lease, Holder
  <2> HIDE DEF A, B, C, D
  <2>3. Cardinality(C) = Cardinality(A) + 1
    BY <1>3, <2>1, FS_AddElement
  <2>4. Cardinality(B) <= Cardinality(B \ {Own(l)}) + 1 /\ IsFiniteSet(B \ {Own(l)})
        /\ Cardinality(B \ {Own(l)}) \in Nat
    <3>1. IsFiniteSet(B \ {Own(l)}) /\ Cardinality(B \ {Own(l)}) \in Nat
      BY <1>3, FS_CardinalityType, FS_Subset
    <3>2. CASE Own(l) \in B
      <4>1. Cardinality(B \ {Own(l)}) = Cardinality(B) - 1
        BY <1>3, <3>2, FS_RemoveElement
      <4> QED BY <1>4, <3>1, <4>1
    <3>3. CASE Own(l) \notin B
      <4>1. B \ {Own(l)} = B
        BY <3>3
      <4> QED BY <1>4, <3>1, <4>1
    <3> QED BY <3>2, <3>3
  <2>5. Cardinality(B \ {Own(l)}) <= Cardinality(D)
    BY <1>3, <2>2, FS_Subset
  <2>6. Cardinality(A) + Cardinality(B) <= Cardinality(C) + Cardinality(D)
    BY <1>4, <2>3, <2>4, <2>5
  <2>7. Used(k) <= Used(k)'
    BY <1>5, <2>6
  <2>8. Cardinality(Active(TreeOf(k))) <= Cardinality(Active(TreeOf(k))')
    BY <1>2, ActiveFinite
  <2> QED BY <1>1, <2>7, <2>8 DEF Fuller
<1>7. CASE parent[l] # k
  <2>1. A \subseteq C /\ B \subseteq D
    BY <1>1, <1>7 DEF Activate, ChildrenOf, Reserved
  <2> QED BY <1>1, <1>2, <2>1, FullerMore
<1> QED BY <1>6, <1>7

-----------------------------------------------------------------------------
\* The steps, and what presses the drain.

\* Who is woken looks again.
LEMMA Woken ==
  ASSUME Wake
  PROVE  Awake'
BY DEF Wake, Awake

\* Nothing new presses, and the drain does what it did.
LEMMA StillAwake ==
  ASSUME Awake, UNCHANGED <<drain, again, todo>>,
         \A g \in SUBSET Launch : Pressing(g)' => Pressing(g)
  PROVE  Awake'
BY DEF Awake

\* The groups are made of batches and of what waits.
LEMMA SameGroups ==
  ASSUME UNCHANGED batch, Queued' = Queued
  PROVE  Groups' = Groups
BY DEF Groups

\* A step that touches no place and no launch that waits.
LEMMA FramePresses ==
  ASSUME SubagentAdmissionAssumption, Inv, Inv', Batched,
         UNCHANGED <<limit, parent, lease, children, batch>>,
         tree' = tree \/ \E k \in Run : KnownTree(k),
         Groups' \subseteq Groups, registered' \subseteq registered
  PROVE  \A g \in SUBSET Launch : Pressing(g)' => Pressing(g)
<1>1. AdmissionType /\ AdmissionType'
  BY TypeParts, PTL DEF Inv
<1>2. \A r \in Run : Fuller(r)
  BY <1>1, FullerSame
<1> QED BY <1>2, StillPressing

\* The steps of which none concerns the promotion.
LEMMA FrameAwake ==
  ASSUME SubagentAdmissionAssumption, WakeInv, Inv',
         \/ \E r \in Run : RecoverRoot(r) \/ EndRoot(r)
         \/ \E l \in Launch :
              \/ SpawnAnswered(l) \/ SkipCall(l) \/ Prepared(l) \/ FailStart(l)
              \/ Answer(l) \/ RetryOnce(l) \/ RetryOnRead(l) \/ Settle(l)
              \/ SettlePersisted(l) \/ GiveUp(l)
         \/ CancelThread
  PROVE  Awake'
<1>1. /\ UNCHANGED <<limit, parent, lease, children, batch, launchState, registered>>
      /\ UNCHANGED <<drain, again, todo>>
      /\ tree' = tree \/ \E k \in Run : KnownTree(k)
  BY DEF RecoverRoot, EndRoot, SpawnAnswered, SkipCall, Prepared, FailStart, Answer,
         RetryOnce, RetryOnRead, Settle, SettlePersisted, GiveUp, CancelThread,
         KnownTree, admissionVars, storeVars, queueVars, WakeInv, Inv, Asked
<1>2. Groups' = Groups
  BY <1>1, SameGroups DEF Queued
<1> QED BY <1>1, <1>2, FramePresses, StillAwake DEF WakeInv

\* The steps that wake the promotion whatever they find.
LEMMA WakingAwake ==
  ASSUME \E l \in Launch :
           \/ SpawnDeferred(l) \/ RefuseStart(l) \/ ThrowStart(l) \/ Publish(l) \/ Stop(l) \/ ReadoptFails(l)
  PROVE  Awake'
<1>1. Wake
  BY DEF SpawnDeferred, Register, RefuseStart, ThrowStart, GiveBack, Publish, Stop, ReadoptFails
<1> QED BY <1>1, Woken

\* A round asks for launches.
LEMMA OpenAwake ==
  ASSUME SubagentAdmissionAssumption, WakeInv, Inv', NEW r \in Run,
         NEW S \in SUBSET Launch, OpenWindow(r, S)
  PROVE  Awake'
<1>0. AdmissionType /\ AdmissionType' /\ StoreType
  BY TypeParts, PTL DEF WakeInv, Inv
<1>1. \A k \in Run : Fuller(k)
  <2>1. \A l \in Launch : parent'[l] = parent[l] \/ parent[l] = None
    BY DEF OpenWindow, WakeInv, Batched
  <2>2. \A l \in S : lease[<<"window", l>>] = None
    BY DEF OpenWindow, WakeInv, Inv, Placed
  <2>3. CASE Hold(r, S)
    BY <1>0, <2>1, <2>2, <2>3, HoldFuller
  <2>4. CASE KnownTree(r) /\ UNCHANGED <<lease, children>>
    <3>1. UNCHANGED limit
      BY <2>4 DEF KnownTree
    <3> QED BY <1>0, <2>1, <2>4, <3>1, FullerGrown
  <2> QED BY <2>3, <2>4 DEF OpenWindow
<1>2. \A l \in Launch : lease'[Own(l)] = lease[Own(l)]
  BY DEF OpenWindow, Hold, Own, Lease, Holder
<1>3. ASSUME NEW g \in SUBSET Launch, Pressing(g)' PROVE Pressing(g)
  <2>1. g \in Groups' /\ g \subseteq registered
    BY <1>3 DEF Pressing, OpenWindow, queueVars
  <2>2. \A l \in g : l \in Queued /\ l \notin S
    <3>1. g \subseteq Queued'
      BY <2>1 DEF Groups
    <3> QED BY <2>1, <3>1 DEF OpenWindow, WakeInv, Childless, Queued
  <2>3. PICK k \in Queued' : g = batch'[k] \cap Queued'
    BY <2>1 DEF Groups
  <2>4. k \in g
    BY <2>3 DEF Inv, Asked, Queued
  <2>5. k \in Queued /\ k \notin S /\ batch'[k] = batch[k]
    BY <2>2, <2>4 DEF OpenWindow, Queued
  <2>6. g = batch[k] \cap Queued
    BY <2>2, <2>3, <2>5 DEF OpenWindow, Queued, WakeInv, Batched
  <2>7. g \in Groups
    BY <2>5, <2>6 DEF Groups
  <2>8. \A l \in g : parent'[l] = parent[l] /\ batch'[l] = batch[l]
    BY <2>2 DEF OpenWindow, Queued
  <2>9. ParentOf(g)' = ParentOf(g)
    BY <2>4, <2>8 DEF ParentOf
  <2>10. ~Outrun(g)
    BY <1>0, <1>2, <1>3, <2>8 DEF Pressing, Outrun, StoreType
  <2>11. ParentOf(g) \in Run
    BY <2>7, GroupFacts DEF WakeInv
  <2> QED BY <1>1, <1>3, <2>1, <2>7, <2>9, <2>10, <2>11, PressedBefore DEF WakeInv
<1> QED BY <1>3, StillAwake DEF OpenWindow, queueVars, WakeInv

\* A window closes: what nobody took over is given back.
LEMMA CloseAwake ==
  ASSUME SubagentAdmissionAssumption, WakeInv, Inv', NEW r \in Run, CloseWindow(r)
  PROVE  Awake'
<1> DEFINE left == {"window"} \X window[r]
<1>1. CASE Held(left)
  BY <1>1, Woken DEF CloseWindow, WakeIf
<1>2. CASE ~Held(left)
  <2>1. UNCHANGED <<limit, parent, tree, children, batch, launchState, registered>>
        /\ UNCHANGED <<drain, again, todo>> /\ lease' = Without(left)
    BY <1>2 DEF CloseWindow, Release, WakeIf, storeVars, OtherQueue
  <2>2. lease \in [Lease -> Run \cup {None}]
    BY DEF WakeInv, Inv, TypeOK
  <2>3. lease' = lease
    BY <1>2, <2>1, <2>2 DEF Held, Without
  <2>4. Groups' = Groups
    BY <2>1, SameGroups DEF Queued
  <2> QED BY <2>1, <2>3, <2>4, FramePresses, StillAwake DEF WakeInv
<1> QED BY <1>1, <1>2

\* A recovered loop finds nothing of its own that waits, or wakes the promotion.
LEMMA RestoreAwake ==
  ASSUME SubagentAdmissionAssumption, WakeInv, Inv', NEW r \in Run, Restore(r)
  PROVE  Awake'
<1>1. CASE Wake
  BY <1>1, Woken
<1>2. CASE UNCHANGED <<again, drain>> /\ registered' = registered
  <2>1. /\ UNCHANGED <<limit, parent, lease, tree, children, batch, launchState>>
        /\ UNCHANGED <<drain, again, todo>>
    BY <1>2 DEF Restore, RestoreQueued, admissionVars, storeVars, OtherQueue
  <2>2. Groups' = Groups
    BY <2>1, SameGroups DEF Queued
  <2> QED BY <1>2, <2>1, <2>2, FramePresses, StillAwake DEF WakeInv
<1> QED BY <1>1, <1>2 DEF Restore, RestoreQueued, WakeIf

\* A call that is admitted leaves no smaller group of its batch to be promoted.
LEMMA SpawnAwake ==
  ASSUME SubagentAdmissionAssumption, WakeInv, Inv', NEW l \in Launch, SpawnNow(l)
  PROVE  Awake'
<1>1. CASE Register(l)
  BY <1>1, Woken DEF Register
<1>2. CASE Claim(l) /\ UNCHANGED queueVars /\ launchState' = [launchState EXCEPT ![l] = "starting"]
  <2>0. AdmissionType /\ AdmissionType' /\ StoreType
    BY TypeParts, PTL DEF WakeInv, Inv
  <2>1. l \in Queued /\ parent[l] \in Run /\ UNCHANGED <<parent, batch>>
    BY <1>2, ParentKept DEF SpawnNow, WakeInv, Inv, Asked, Queued
  <2>2. lease[Own(l)] = None /\ l \notin children
    BY <2>1, WaitsPlaceless DEF WakeInv, Queued
  <2>3. \A k \in Run : Fuller(k)
    BY <1>2, <2>0, <2>1, <2>2, ClaimFuller
  <2>4. /\ lease'[Own(l)] # None
        /\ \A x \in Lease : x[1] = "launch" /\ x # Own(l) => lease'[x] = lease[x]
    BY <1>2, <2>0, <2>1, ClaimFacts
  <2>5. \A m \in Launch : lease[Own(m)] # None => lease'[Own(m)] # None
    BY <2>4 DEF Own, Lease, Holder
  <2>6. Queued' = Queued \ {l}
    BY <1>2, <2>0 DEF Queued, StoreType
  <2>7. ASSUME NEW g \in SUBSET Launch, Pressing(g)' PROVE Pressing(g)
    <3>1. g \in Groups' /\ g \subseteq registered /\ ~Outrun(g)'
      BY <1>2, <2>7 DEF Pressing, queueVars
    <3>2. PICK k \in Queued' : g = batch[k] \cap Queued'
      BY <2>1, <3>1 DEF Groups
    <3>3. k \in Queued /\ k \in g
      BY <2>6, <3>2 DEF WakeInv, Inv, Asked, Queued
    <3>4. l \notin batch[k]
      BY <2>1, <2>4, <3>1, <3>3 DEF Outrun
    <3>5. g = batch[k] \cap Queued
      BY <2>6, <3>2, <3>4
    <3>6. g \in Groups
      BY <3>3, <3>5 DEF Groups
    <3>7. ParentOf(g)' = ParentOf(g) /\ ParentOf(g) \in Run
      BY <2>1, <3>6, GroupFacts DEF ParentOf, WakeInv
    <3>8. ~Outrun(g)
      BY <2>0, <2>1, <2>5, <3>1 DEF Outrun, StoreType
    <3> QED BY <2>3, <2>7, <3>1, <3>6, <3>7, <3>8, PressedBefore DEF WakeInv
  <2> QED BY <1>2, <2>7, StillAwake DEF queueVars, WakeInv
<1> QED BY <1>1, <1>2 DEF SpawnNow

\* A child begins to run in its place, and no launch that waits is its own.
LEMMA ActivatePresses ==
  ASSUME SubagentAdmissionAssumption, Inv, Inv', Batched, NEW l \in Launch, Activate(l),
         l \notin children, UNCHANGED batch, Queued' = Queued, registered' = registered,
         \A m \in Queued : parent[m] # l
  PROVE  \A g \in SUBSET Launch : Pressing(g)' => Pressing(g)
<1> SUFFICES ASSUME NEW g \in SUBSET Launch, Pressing(g)' PROVE Pressing(g)
  OBVIOUS
<1>0. AdmissionType /\ AdmissionType' /\ StoreType
  BY TypeParts, PTL DEF Inv
<1>1. UNCHANGED <<parent, lease>>
  BY DEF Activate
<1>2. g \in Groups /\ g \subseteq registered
  BY SameGroups DEF Pressing
<1>3. ~Outrun(g)
  BY <1>0, <1>1 DEF Pressing, Outrun, StoreType
<1>4. /\ g \subseteq Queued /\ g # {} /\ ParentOf(g) \in Run
      /\ \A m \in g : parent[m] = ParentOf(g)
  BY <1>2, GroupFacts
<1>5. ParentOf(g)' = ParentOf(g) /\ ParentOf(g) # l
  BY <1>1, <1>4 DEF ParentOf
<1>6. \A k \in Run : k # l => Fuller(k)
  BY <1>0, ActivateFuller
<1> QED BY <1>2, <1>3, <1>4, <1>5, <1>6, PressedBefore

\* A child begins, or its place is given back.
LEMMA BeginAwake ==
  ASSUME SubagentAdmissionAssumption, WakeInv, Inv', NEW l \in Launch, Begin(l)
  PROVE  Awake'
<1>1. CASE Wake
  BY <1>1, Woken
<1>2. CASE /\ launchState[l] = "starting" /\ Activate(l) /\ UNCHANGED <<again, drain>>
           /\ launchState' = [launchState EXCEPT ![l] = "started"]
  <2>0. StoreType
    BY TypeParts DEF WakeInv, Inv
  <2>1. /\ UNCHANGED <<batch, registered, todo>> /\ Queued' = Queued
    BY <1>2, <2>0 DEF Begin, OtherQueue, Queued, StoreType
  <2>2. l \notin children
    BY DEF Begin, WakeInv, Inv, Placed
  <2>3. \A m \in Queued : parent[m] # l
    BY <1>2 DEF WakeInv, Childless, Queued
  <2> QED BY <1>2, <2>1, <2>2, <2>3, ActivatePresses, StillAwake DEF WakeInv
<1> QED BY <1>1, <1>2 DEF Begin, GiveBack

\* A child is taken up again, in a place that is reserved first.
LEMMA ReadoptAwake ==
  ASSUME SubagentAdmissionAssumption, WakeInv, Inv', NEW l \in Launch, Readopt(l)
  PROVE  Awake'
<1>0. AdmissionType /\ AdmissionType' /\ StoreType
  BY TypeParts, PTL DEF WakeInv, Inv
<1>1. /\ UNCHANGED <<parent, batch, launchState, registered, children>>
      /\ UNCHANGED <<drain, again, todo>> /\ KnownTree(parent[l])
      /\ lease' = [lease EXCEPT ![Own(l)] = TreeOf(parent[l])]
  BY DEF Readopt, storeVars, queueVars
<1>2. parent[l] \in Run
  BY DEF Readopt, WakeInv, Inv, Asked
<1>3. lease[Own(l)] = None
  BY DEF Readopt, ToReadopt, WakeInv, Inv, Course, Recovering, Placed
<1>4. \A k \in Run : Fuller(k)
  BY <1>0, <1>1, <1>2, <1>3, ReserveFuller
<1>5. \A m \in Launch : lease[Own(m)] # None => lease'[Own(m)] # None
  BY <1>0, <1>1, <1>3 DEF AdmissionType, Own, Lease, Holder
<1>6. Groups' = Groups
  BY <1>1, SameGroups DEF Queued
<1> QED BY <1>1, <1>4, <1>5, <1>6, StillPressing, StillAwake DEF WakeInv

LEMMA ReadoptedAwake ==
  ASSUME SubagentAdmissionAssumption, WakeInv, Inv', NEW l \in Launch, Readopted(l)
  PROVE  Awake'
<1> DEFINE back == {m \in Queued : parent[m] = l}
<1>1. CASE back # {}
  BY <1>1, Woken DEF Readopted, RestoreQueued, WakeIf
<1>2. CASE back = {}
  <2>0. StoreType
    BY TypeParts DEF WakeInv, Inv
  <2>1. launchState[l] # "queued"
    BY DEF Readopted, WakeInv, Inv, Course, Recovering
  <2>2. /\ UNCHANGED <<batch, todo, again, drain>> /\ Activate(l) /\ Queued' = Queued
        /\ registered' = registered
    BY <1>2, <2>0, <2>1
       DEF Readopted, RestoreQueued, WakeIf, OtherQueue, Queued, StoreType
  <2>3. l \notin children
    BY DEF Readopted, WakeInv, Inv, Placed
  <2>4. \A m \in Queued : parent[m] # l
    BY <1>2
  <2> QED BY <2>2, <2>3, <2>4, ActivatePresses, StillAwake DEF WakeInv
<1> QED BY <1>1, <1>2

\* The drain goes through the groups: the one it looks at does not press
\* afterwards, and no other presses that did not.
LEMMA AttemptPresses ==
  ASSUME SubagentAdmissionAssumption, Inv, Inv', Batched, NEW g \in SUBSET Launch,
         g # {}, \A l \in g : g \subseteq batch[l] /\ launchState[l] # "none",
         NEW known, known \subseteq registered, Attempt(g, known), ~Wakes(g, known),
         UNCHANGED batch, drain # "awaiting",
         NEW h \in SUBSET Launch, Pressing(h)'
  PROVE  Pressing(h) /\ h # g
<1> DEFINE r == ParentOf(g)
<1>0. AdmissionType /\ AdmissionType' /\ StoreType
  BY TypeParts, PTL DEF Inv
<1>1. r \in Run /\ \A l \in g : parent[l] = r
  <2>1. \A l, m \in g : parent[l] = parent[m] /\ parent[l] \in Run
    BY DEF Batched, Inv, Asked
  <2> QED BY <2>1 DEF ParentOf
<1>2. h \in Groups' /\ h \subseteq registered' /\ ~Outrun(h)'
  BY DEF Pressing
<1>3. h # {}
  BY <1>2 DEF Inv, Asked, Groups, Queued
<1>4. CASE /\ ~(g \subseteq known) /\ registered' = known
           /\ UNCHANGED <<admissionVars, launchState>>
  <2>1. Groups' = Groups
    BY <1>4, SameGroups DEF Queued
  <2>2. Pressing(h)
    BY <1>4, <2>1, FramePresses DEF admissionVars
  <2> QED BY <1>2, <1>4, <2>2
<1>5. CASE /\ ~Fits(r, Cardinality(g)) /\ registered' = Refused(known, g) /\ KnownTree(r)
           /\ UNCHANGED <<parent, lease, elder, children, launchState>>
  <2>1. Groups' = Groups
    BY <1>5, SameGroups DEF Queued
  <2>2. Pressing(h)
    BY <1>1, <1>5, <2>1, FramePresses DEF Refused, KnownTree
  <2> QED BY <1>5, <2>2 DEF Pressing
<1>6. CASE /\ g \subseteq known /\ Fits(r, Cardinality(g)) /\ registered' = known \ g
           /\ Promote(r, g, g \cap Queued)
           /\ launchState' = [l \in Launch |->
                IF l \in g \cap Queued THEN "starting"
                ELSE IF l \in g /\ launchState[l] = "starting" THEN "failed_to_start"
                ELSE launchState[l]]
  <2>1. g \subseteq Queued
    BY <1>6 DEF Wakes
  <2>2. \A l \in g : /\ lease[<<"promotion", l>>] = None
                     /\ lease[Own(l)] = None /\ l \notin children
    BY <2>1, WaitsPlaceless DEF Inv, Placed, Queued
  <2>3. Promote(r, g, g)
    <3>1. g \cap Queued = g
      BY <2>1
    <3> QED BY <1>6, <3>1
  <2>4. \A k \in Run : Fuller(k)
    BY <1>0, <1>1, <2>2, <2>3, PromoteFuller
  <2>5. /\ \A l \in g : lease'[Own(l)] # None
        /\ \A l \in Launch \ g : lease'[Own(l)] = lease[Own(l)]
        /\ UNCHANGED parent
    <3>1. r \in Run
      BY <1>1
    <3>2. UNCHANGED parent
      BY <2>3, ParentKept
    <3> HIDE DEF r
    <3>3. /\ \A l \in g : lease'[Own(l)] # None
          /\ \A l \in Launch \ g : lease'[Own(l)] = lease[Own(l)]
      BY <1>0, <2>3, <3>1, PromoteFacts
    <3> QED BY <3>2, <3>3
  <2>6. Queued' = Queued \ g
    BY <1>6, <2>1 DEF Queued
  <2>7. PICK k \in Queued' : h = batch[k] \cap Queued'
    BY <1>2 DEF Groups
  <2>8. k \in Queued /\ k \in h
    BY <2>6, <2>7 DEF Inv, Asked, Queued
  <2>9. batch[k] \cap g = {}
    BY <1>2, <2>5, <2>8 DEF Outrun
  <2>10. h = batch[k] \cap Queued
    BY <2>6, <2>7, <2>9
  <2>11. h \in Groups
    BY <2>8, <2>10 DEF Groups
  <2>12. ParentOf(h)' = ParentOf(h) /\ ParentOf(h) \in Run
    BY <2>5, <2>11, GroupFacts DEF ParentOf
  <2>13. ~Outrun(h)
    BY <1>0, <1>2, <2>2, <2>5 DEF Outrun, StoreType
  <2>14. h \subseteq registered /\ h # g
    BY <1>2, <1>3, <1>6
  <2> QED BY <2>4, <2>11, <2>12, <2>13, <2>14, PressedBefore
<1> QED BY <1>4, <1>5, <1>6 DEF Attempt

\* The drain reads the store.
LEMMA ReadAwake ==
  ASSUME SubagentAdmissionAssumption, WakeInv, Inv', DrainRead
  PROVE  Awake'
<1>0. StoreType /\ drain' # "idle" /\ drain' # "scheduled" /\ drain # "awaiting" /\ UNCHANGED batch
  BY TypeParts DEF DrainRead, Attempt, WakeInv, Inv
<1>1. CASE Queued = {} /\ UNCHANGED launchState
  <2>1. Groups' = {}
    BY <1>1 DEF Groups, Queued
  <2> QED BY <1>0, <2>1 DEF Awake, Pressing
<1>2. ASSUME NEW g \in Groups, todo' = Groups \ {g}, Attempt(g, registered \cap Queued),
             again' = Wakes(g, registered \cap Queued)
      PROVE  Awake'
  <2>1. /\ g \subseteq Launch /\ g # {} /\ g \subseteq Queued
        /\ \A l \in g : g = batch[l] \cap Queued
    BY GroupFacts DEF WakeInv
  <2>2. ~Wakes(g, registered \cap Queued)
    BY <2>1 DEF Wakes
  <2>3. \A l \in g : g \subseteq batch[l] /\ launchState[l] # "none"
    BY <2>1 DEF Queued
  <2>4. \A h \in SUBSET Launch : Pressing(h)' => Pressing(h) /\ h # g
    BY <1>0, <1>2, <2>1, <2>2, <2>3, AttemptPresses DEF WakeInv
  <2>5. \A h \in SUBSET Launch : Pressing(h)' => h \in todo'
    BY <1>2, <2>4 DEF Pressing
  <2> QED BY <1>0, <2>5 DEF Awake
<1> QED BY <1>0, <1>1, <1>2, Read DEF WakeInv, Inv

\* It goes on with a group it has read.
LEMMA NextAwake ==
  ASSUME SubagentAdmissionAssumption, WakeInv, Inv', NEW g \in todo, PromoteNext(g)
  PROVE  Awake'
<1>0. /\ StoreType /\ drain' # "idle" /\ drain' # "scheduled" /\ drain # "awaiting"
      /\ UNCHANGED batch /\ todo' = todo \ {g} /\ g \in SUBSET Launch
      /\ Attempt(g, registered) /\ again' = (again \/ Wakes(g, registered))
  BY TypeParts DEF PromoteNext, Attempt, WakeInv, Inv, DrainType
<1>1. CASE again'
  BY <1>0, <1>1 DEF Awake
<1>2. CASE ~again'
  <2>1. ~again /\ ~Wakes(g, registered)
    BY <1>0, <1>2
  <2>2. g # {} /\ \A l \in g : g \subseteq batch[l] /\ launchState[l] # "none"
    BY DEF WakeInv, Batched, Inv, Asked
  <2>3. \A h \in SUBSET Launch : Pressing(h)' => Pressing(h) /\ h # g
    BY <1>0, <2>1, <2>2, AttemptPresses DEF WakeInv
  <2>4. \A h \in SUBSET Launch : Pressing(h)' => h \in todo'
    BY <1>0, <2>1, <2>3 DEF WakeInv, Awake
  <2> QED BY <1>0, <2>4 DEF Awake
<1> QED BY <1>1, <1>2

\* It has seen the starts of a group through: what is left is given back.
LEMMA SettledAwake ==
  ASSUME SubagentAdmissionAssumption, WakeInv, Inv', DrainSettled
  PROVE  Awake'
<1> DEFINE left == {"promotion"} \X Launch
<1>1. /\ UNCHANGED <<limit, parent, tree, children, batch, launchState, registered, todo>>
      /\ drain' = "running" /\ again' = (again \/ Held(left)) /\ lease' = Without(left)
  BY DEF DrainSettled, Release, storeVars
<1>2. CASE again'
  BY <1>1, <1>2 DEF Awake
<1>3. CASE ~again'
  <2>1. lease \in [Lease -> Run \cup {None}] /\ ~again /\ ~Held(left)
    BY <1>1, <1>3 DEF WakeInv, Inv, TypeOK
  <2>2. lease' = lease
    BY <1>1, <2>1 DEF Held, Without
  <2>3. Groups' = Groups
    BY <1>1, SameGroups DEF Queued
  <2>4. \A g \in SUBSET Launch : Pressing(g)' => Pressing(g)
    BY <1>1, <2>2, <2>3, FramePresses DEF WakeInv
  <2> QED BY <1>1, <2>1, <2>4 DEF WakeInv, Awake
<1> QED BY <1>2, <1>3

\* It ends when it has nothing before it and was not woken.
LEMMA EndAwake ==
  ASSUME SubagentAdmissionAssumption, WakeInv, Inv', DrainEnd
  PROVE  Awake'
<1>1. /\ UNCHANGED <<limit, parent, lease, tree, children, batch, launchState, registered>>
      /\ drain' = "idle" /\ todo = {} /\ ~again /\ UNCHANGED <<again, todo>>
  BY DEF DrainEnd, DrainDone, admissionVars, storeVars, OtherQueue
<1>2. Groups' = Groups
  BY <1>1, SameGroups DEF Queued
<1>3. \A g \in SUBSET Launch : Pressing(g)' => Pressing(g)
  BY <1>1, <1>2, FramePresses DEF WakeInv
<1> QED BY <1>1, <1>3 DEF WakeInv, Awake

\* A new process has no registrations.
LEMMA CrashAwake ==
  ASSUME Inv', Crash
  PROVE  Awake'
<1>1. {} \notin Groups'
  BY DEF Inv, Asked, Groups, Queued
<1> QED BY <1>1 DEF Crash, Awake, Pressing

\* What is given up at the start is given up by the batch.
LEMMA ReconcileAwake ==
  ASSUME SubagentAdmissionAssumption, WakeInv, Inv', Reconcile
  PROVE  Awake'
<1>1. /\ UNCHANGED <<limit, parent, lease, tree, children, batch, registered>>
      /\ UNCHANGED <<drain, again, todo>>
      /\ launchState' = [l \in Launch |-> IF l \in Lost THEN "interrupted" ELSE launchState[l]]
  BY DEF Reconcile, admissionVars, queueVars
<1>2. Queued' = Queued \ Lost
  BY <1>1 DEF Queued
<1>3. \A l \in Queued : l \in Lost <=> parent[l] \notin recovered
  BY DEF Queued, Lost, WakeInv, Inv, Course, Running
<1>4. \A k \in Queued, l \in Queued : l \in batch[k] => parent[l] = parent[k]
  BY DEF WakeInv, Batched, Queued
<1>5. ASSUME NEW g \in Groups' PROVE g \in Groups
  <2>1. PICK k \in Queued' : g = batch[k] \cap Queued'
    BY <1>1 DEF Groups
  <2>2. k \in Queued /\ g = batch[k] \cap Queued
    BY <1>2, <1>3, <1>4, <2>1
  <2> QED BY <2>2 DEF Groups
<1> QED BY <1>1, <1>5, FramePresses, StillAwake DEF WakeInv

\* Every step leaves the promotion something to do or to be told of what presses.
LEMMA AwakeStep ==
  ASSUME SubagentAdmissionAssumption, WakeInv, Inv', Next
  PROVE  Awake'
<1>1. CASE \E r \in Run, S \in SUBSET Launch : OpenWindow(r, S)
  BY <1>1, OpenAwake
<1>2. CASE \E r \in Run : CloseWindow(r) \/ Restore(r)
  BY <1>2, CloseAwake, RestoreAwake
<1>3. CASE \E l \in Launch : SpawnNow(l) \/ Begin(l) \/ Readopt(l) \/ Readopted(l)
  BY <1>3, SpawnAwake, BeginAwake, ReadoptAwake, ReadoptedAwake
<1>4. CASE \/ \E g \in todo : PromoteNext(g)
           \/ DrainRead \/ DrainSettled \/ DrainEnd \/ Crash \/ Reconcile
  BY <1>4, NextAwake, ReadAwake, SettledAwake, EndAwake, CrashAwake, ReconcileAwake
<1> QED BY <1>1, <1>2, <1>3, <1>4, WakingAwake, FrameAwake DEF Next

-----------------------------------------------------------------------------
\* What a step leaves of batches and of who was started, unless a window opens.
Settled ==
  /\ UNCHANGED <<parent, batch>> /\ todo' \subseteq todo \cup Groups
  /\ registered' \subseteq registered \cup Queued
  /\ \A l \in Launch :
       /\ launchState'[l] = "none" <=> launchState[l] = "none"
       /\ launchState'[l] \in {"none", "queued", "starting"} =>
            /\ launchState[l] \in {"none", "queued", "starting"}
            /\ run'[l] \in {run[l], "off"}

\* The drain leaves it.
LEMMA AttemptSettled ==
  ASSUME StoreType, DaemonType, NEW g \in SUBSET Launch, NEW known,
         known \subseteq registered, Attempt(g, known), UNCHANGED <<batch, run>>,
         todo' \subseteq todo \cup Groups
  PROVE  Settled
<1>1. UNCHANGED parent /\ \A l \in Launch : launchState[l] = "none" <=> launchState'[l] = "none"
  BY AttemptFacts
<1>2. \A l \in Launch : launchState'[l] \in {"none", "queued", "starting"} =>
        launchState[l] \in {"none", "queued", "starting"}
  BY DEF Attempt, StoreType, Queued
<1>3. registered' \subseteq registered
  BY DEF Attempt, Refused
<1> QED BY <1>1, <1>2, <1>3 DEF Settled

\* So does every other step.
LEMMA SettledStep ==
  ASSUME SubagentAdmissionAssumption, Inv, Next,
         ~\E r \in Run, S \in SUBSET Launch : OpenWindow(r, S)
  PROVE  Settled
<1>0. AdmissionType /\ StoreType /\ DaemonType /\ DrainType /\ Root \cap Launch = {}
  BY TypeParts DEF Inv, SubagentAdmissionAssumption
<1>1. CASE \E r \in Run : CloseWindow(r)
  BY <1>0, <1>1, ParentKept DEF Settled, CloseWindow, storeVars, OtherQueue
<1>2. ASSUME NEW r \in Run, Restore(r) PROVE Settled
  <2>1. r \notin Launch
    BY <1>2 DEF Restore, Inv, Asked
  <2> QED BY <1>0, <1>2, <2>1
       DEF Settled, Restore, RestoreQueued, storeVars, admissionVars, OtherQueue, DaemonType
<1>3. ASSUME NEW r \in Run, RecoverRoot(r) \/ EndRoot(r) PROVE Settled
  <2>1. r \notin Launch
    BY <1>0, <1>3 DEF RecoverRoot, EndRoot
  <2>2. \A l \in Launch : run'[l] = run[l]
    BY <1>0, <1>3, <2>1 DEF RecoverRoot, EndRoot, DaemonType, Run
  <2>3. UNCHANGED <<parent, batch, todo, registered, launchState>>
    BY <1>3 DEF RecoverRoot, EndRoot, storeVars, admissionVars, queueVars
  <2> QED BY <2>2, <2>3 DEF Settled
<1>4. CASE \E l \in Launch :
             \/ SpawnAnswered(l) \/ SpawnDeferred(l) \/ SkipCall(l) \/ Prepared(l)
             \/ FailStart(l) \/ Answer(l) \/ RetryOnce(l) \/ RetryOnRead(l) \/ Settle(l)
             \/ SettlePersisted(l) \/ GiveUp(l) \/ Readopt(l) \/ ReadoptFails(l)
  BY <1>0, <1>4, ParentKept
     DEF Settled, SpawnAnswered, SpawnDeferred, Register, SkipCall, Prepared, FailStart,
         Answer, RetryOnce, RetryOnRead, Settle, SettlePersisted, GiveUp, Readopt,
         ReadoptFails, GiveBack, storeVars, admissionVars, queueVars, OtherQueue
<1>5. ASSUME NEW l \in Launch, SpawnNow(l) PROVE Settled
  <2>1. registered' \subseteq registered \cup Queued /\ UNCHANGED <<parent, batch, todo, run>>
    BY <1>5, ParentKept DEF SpawnNow, Register, queueVars, OtherQueue
  <2>2. \A m \in Launch : /\ launchState'[m] = "none" <=> launchState[m] = "none"
                          /\ launchState[m] \in {"none", "queued", "starting"} <=>
                               launchState'[m] \in {"none", "queued", "starting"}
    BY <1>0, <1>5 DEF SpawnNow, StoreType, Queued
  <2> QED BY <2>1, <2>2 DEF Settled
<1>6. ASSUME NEW l \in Launch, RefuseStart(l) \/ ThrowStart(l) PROVE Settled
  BY <1>0, <1>6, ParentKept
     DEF Settled, RefuseStart, ThrowStart, storeVars, GiveBack, FailedToStart, OtherQueue, StoreType
<1>7. ASSUME NEW l \in Launch, Begin(l) PROVE Settled
  <2>1. UNCHANGED <<parent, batch, todo, registered>>
    BY <1>7, ParentKept DEF Begin, GiveBack, OtherQueue
  <2>2. CASE launchState[l] = "starting" /\ launchState' = [launchState EXCEPT ![l] = "started"]
             /\ (run' = run \/ run' = [run EXCEPT ![l] = "live"])
    <3>1. \A m \in Launch \ {l} : launchState'[m] = launchState[m] /\ run'[m] = run[m]
      <4>1. run \in [Run -> {"off", "restoring", "live", "ended"}] /\ Launch \subseteq Run
        BY <1>0 DEF DaemonType, Run
      <4>2. launchState \in [Launch -> {"none", "queued", "starting", "started", "cancelled",
                                        "failed_to_start", "interrupted"}]
        BY <1>0 DEF StoreType
      <4> QED BY <2>2, <4>1, <4>2
    <3>2. launchState[l] = "starting" /\ launchState'[l] = "started"
      BY <1>0, <2>2 DEF StoreType
    <3> QED BY <2>1, <3>1, <3>2 DEF Settled
  <2>3. CASE UNCHANGED <<launchState, run>>
    BY <2>1, <2>3 DEF Settled
  <2> QED BY <1>7, <2>2, <2>3 DEF Begin
<1>8. ASSUME NEW l \in Launch, Publish(l) PROVE Settled
  <2>1. launchState[l] \in {"started", "interrupted"}
    BY <1>8 DEF Publish, Inv, Course, Running
  <2> QED BY <1>0, <1>8, <2>1, ParentKept DEF Settled, Publish, OtherQueue, DaemonType
<1>9. ASSUME NEW l \in Launch, Stop(l) PROVE Settled
  BY <1>0, <1>9 DEF Settled, Stop, Stoppable, Queued, admissionVars, OtherQueue, StoreType
<1>10. ASSUME NEW l \in Launch, Readopted(l) PROVE Settled
  <2>1. launchState[l] \in {"starting", "started"}
    BY <1>10 DEF Readopted, Inv, Course, Recovering
  <2> QED BY <1>0, <1>10, <2>1, ParentKept
       DEF Settled, Readopted, RestoreQueued, OtherQueue, StoreType, DaemonType
<1>11. ASSUME NEW g \in todo, PromoteNext(g) PROVE Settled
  BY <1>0, <1>11, AttemptSettled DEF PromoteNext, DrainType
<1>12. CASE DrainRead
  <2>1. UNCHANGED <<batch, run>>
    BY <1>12 DEF DrainRead
  <2>2. CASE registered' = {} /\ UNCHANGED <<todo, admissionVars, launchState>>
    BY <2>1, <2>2 DEF Settled, admissionVars
  <2>3. ASSUME NEW g \in Groups, todo' = Groups \ {g}, Attempt(g, registered \cap Queued)
        PROVE  Settled
    <3>1. g \in SUBSET Launch
      BY DEF Groups, Queued
    <3> QED BY <1>0, <2>1, <2>3, <3>1, AttemptSettled
  <2> QED BY <1>0, <1>12, <2>2, <2>3, Read DEF Inv
<1>13. CASE DrainSettled \/ DrainEnd \/ CancelThread
  BY <1>13, ParentKept
     DEF Settled, DrainSettled, DrainEnd, CancelThread, storeVars, admissionVars,
         queueVars, OtherQueue
<1>14. CASE Crash
  BY <1>14, ParentKept DEF Settled, Crash, Run
<1>15. CASE Reconcile
  BY <1>0, <1>15 DEF Settled, Reconcile, Lost, admissionVars, queueVars, StoreType
<1> QED BY <1>1, <1>2, <1>3, <1>4, <1>5, <1>6, <1>7, <1>8, <1>9, <1>10, <1>11, <1>12,
           <1>13, <1>14, <1>15 DEF Next

\* Every step keeps the batches together.
LEMMA BatchedStep ==
  ASSUME SubagentAdmissionAssumption, WakeInv, Next
  PROVE  Batched'
<1>0. StoreType /\ AdmissionType /\ DrainType
  BY TypeParts DEF WakeInv, Inv
<1>1. ASSUME NEW r \in Run, NEW S \in SUBSET Launch, OpenWindow(r, S) PROVE Batched'
  <2>1. /\ \A l \in S : /\ launchState[l] = "none" /\ launchState'[l] = "queued"
                        /\ batch'[l] = S /\ parent'[l] = r
        /\ \A l \in Launch \ S : /\ launchState'[l] = launchState[l]
                                 /\ batch'[l] = batch[l] /\ parent'[l] = parent[l]
        /\ todo' = todo
    BY <1>1 DEF OpenWindow, queueVars
  <2>2. ASSUME NEW l \in Launch
        PROVE  IF launchState'[l] = "none" THEN parent'[l] = None
               ELSE \A m \in batch'[l] : /\ batch'[m] = batch'[l] /\ parent'[m] = parent'[l]
                                         /\ launchState'[m] # "none"
    <3>1. CASE l \in S
      BY <2>1, <3>1
    <3>2. CASE l \notin S /\ launchState[l] # "none"
      <4>1. \A m \in batch[l] : /\ m \in Launch \ S /\ batch[m] = batch[l]
                                /\ parent[m] = parent[l] /\ launchState[m] # "none"
        BY <1>0, <2>1, <3>2 DEF WakeInv, Batched, StoreType
      <4>2. batch'[l] = batch[l] /\ parent'[l] = parent[l]
        BY <2>1, <3>2
      <4>3. \A m \in batch[l] : /\ batch'[m] = batch[m] /\ parent'[m] = parent[m]
                                /\ launchState'[m] = launchState[m]
        BY <2>1, <4>1
      <4>4. launchState'[l] # "none"
        BY <2>1, <3>2
      <4> QED BY <4>1, <4>2, <4>3, <4>4
    <3>3. CASE l \notin S /\ launchState[l] = "none"
      BY <2>1, <3>3 DEF WakeInv, Batched
    <3> QED BY <3>1, <3>2, <3>3
  <2>3. ASSUME NEW g \in todo, NEW l \in g PROVE g \subseteq batch'[l]
    <3>1. l \in Launch \ S /\ g \subseteq batch[l]
      BY <1>0, <2>1 DEF WakeInv, Batched, Inv, Asked, DrainType
    <3> QED BY <2>1, <3>1
  <2> QED BY <2>1, <2>2, <2>3 DEF Batched
<1>2. CASE Settled
  <2>1. ASSUME NEW g \in Groups, NEW l \in g PROVE g \subseteq batch[l]
    BY GroupFacts DEF WakeInv
  <2>2. \A l \in Launch : batch[l] \subseteq Launch
    BY <1>0 DEF StoreType
  <2>3. \A g \in todo' : \A l \in g : g \subseteq batch[l]
    BY <1>2, <2>1 DEF Settled, WakeInv, Batched
  <2> QED BY <1>2, <2>2, <2>3 DEF Settled, WakeInv, Batched
<1> QED BY <1>1, <1>2, SettledStep DEF WakeInv

\* Only who was started runs, and asks for launches.
LEMMA ChildlessStep ==
  ASSUME SubagentAdmissionAssumption, WakeInv, Next
  PROVE  Childless'
<1>0. StoreType /\ DaemonType
  BY TypeParts DEF WakeInv, Inv
<1>1. ASSUME NEW r \in Run, NEW S \in SUBSET Launch, OpenWindow(r, S) PROVE Childless'
  <2>1. /\ \A l \in S : /\ launchState[l] = "none" /\ launchState'[l] = "queued"
                        /\ parent'[l] = r
        /\ \A l \in Launch \ S : /\ launchState'[l] = launchState[l]
                                 /\ parent'[l] = parent[l]
        /\ run' = run /\ registered' = registered /\ run[r] = "live"
    BY <1>1 DEF OpenWindow, queueVars, Working
  <2>2. \A l \in registered : launchState'[l] # "none"
    BY <1>0, <2>1 DEF WakeInv, Childless, DaemonType
  <2>3. ASSUME NEW l \in Launch, launchState'[l] \in {"none", "queued", "starting"}
        PROVE  run'[l] = "off" /\ \A m \in Launch : parent'[m] # l
    <3>1. launchState[l] \in {"none", "queued", "starting"}
      BY <2>1, <2>3
    <3>2. run[l] = "off" /\ l # r /\ \A m \in Launch : parent[m] # l
      BY <2>1, <3>1 DEF WakeInv, Childless
    <3> QED BY <2>1, <3>2
  <2> QED BY <2>1, <2>2, <2>3 DEF Childless
<1>2. CASE Settled
  <2>1. registered \subseteq Launch
    BY <1>0 DEF DaemonType
  <2> QED BY <1>2, <2>1 DEF Settled, WakeInv, Childless, Queued
<1> QED BY <1>1, <1>2, SettledStep DEF WakeInv

\* At first nothing was asked for.
LEMMA InitWake ==
  ASSUME SubagentAdmissionAssumption, MaxCrashesAssumption, Init
  PROVE  WakeInv
<1>1. Inv
  BY InitInv
<1>2. Groups = {} /\ drain = "idle" /\ again = FALSE /\ todo = {} /\ registered = {}
  BY DEF Init, Groups, Queued
<1>3. Awake
  BY <1>2 DEF Awake, Pressing
<1>4. Batched /\ Childless
  BY <1>2 DEF Init, AdmissionInit, Batched, Childless, SubagentAdmissionAssumption, Run
<1> QED BY <1>1, <1>3, <1>4 DEF WakeInv

\* Whatever presses is before the drain, or the drain is to look again.
THEOREM WakingHolds == Spec => []WakeInv
<1>1. Init => WakeInv
  BY InitWake, SubagentAdmissionAssumption, MaxCrashesAssumption
<1>2. WakeInv /\ [Next]_vars => WakeInv'
  <2> SUFFICES ASSUME WakeInv, [Next]_vars PROVE WakeInv'
    OBVIOUS
  <2>1. Inv'
    BY NextInv, SubagentAdmissionAssumption, MaxCrashesAssumption DEF WakeInv
  <2>2. CASE Next
    BY <2>1, <2>2, AwakeStep, BatchedStep, ChildlessStep, SubagentAdmissionAssumption DEF WakeInv
  <2>3. CASE UNCHANGED vars
    <3>1. UNCHANGED <<limit, parent, lease, tree, children, batch, launchState, registered>>
          /\ UNCHANGED <<drain, again, todo, run>>
      BY <2>3 DEF vars, admissionVars, storeVars, queueVars
    <3>2. Groups' = Groups
      BY <3>1, SameGroups DEF Queued
    <3>3. Awake'
      BY <2>1, <3>1, <3>2, FramePresses, StillAwake, SubagentAdmissionAssumption DEF WakeInv
    <3>4. Batched' /\ Childless'
      BY <3>1 DEF WakeInv, Batched, Childless
    <3> QED BY <2>1, <3>3, <3>4 DEF WakeInv
  <2> QED BY <2>2, <2>3
<1> QED BY <1>1, <1>2, PTL DEF Spec

\* The promotion is never at rest while a group it could admit waits, unless a
\* launch of the same batch holds a place (drainAgain, drainScheduled and
\* drainRunning of subagent-concurrency.ts against every release).
THEOREM DrainNeverRests == Spec => []NoLostWakeup
<1>1. WakeInv => NoLostWakeup
  <2> SUFFICES ASSUME WakeInv, drain = "idle", NEW g \in Groups, g \subseteq registered,
                      ~Outrun(g), Fits(ParentOf(g), Cardinality(g))
               PROVE  FALSE
    BY DEF NoLostWakeup
  <2>1. Pressing(g) /\ g \in SUBSET Launch
    BY DEF Pressing, Groups, Queued
  <2>2. ~again /\ todo = {}
    BY DEF WakeInv, Awake, Inv, TypeOK
  <2> QED BY <2>1, <2>2 DEF WakeInv, Awake
<1> QED BY <1>1, WakingHolds, PTL
=============================================================================
