------------------------- MODULE ModelRoundProofs -------------------------
(***************************************************************************)
(* Proofs about ModelRound for any number of hosts, rounds, retries, runs  *)
(* and crashes.                                                            *)
(***************************************************************************)
EXTENDS ModelRound, TLAPS

-----------------------------------------------------------------------------
\* The answer of the open round is in the checkpoint.
Recorded == active # None /\ Settlement # None

\* The parts of TypeOK.
RequestType == RequestTypeOK /\ coordinate \in [id : RequestId, host : Host] \cup {None}

CheckpointType ==
  /\ run \in 1..MaxRuns /\ status \in {"running", "done"} \cup Failure
  /\ nextRound \in Round /\ settledUsage \in Nat /\ continuation \subseteq Item
  /\ active \in ActiveRound \cup {None} /\ (active # None => active.round = nextRound)

FileType ==
  /\ transcript \in [Round -> {"none", "called", "resulted"}]
  /\ Journaled \subseteq Round
  /\ effects \in [Round -> Nat] /\ crashes \in 0..MaxCrashes

LoopType ==
  /\ attempt \in 0..MaxRetries /\ reqAttempt \in 0..1
  /\ resume \in RequestId \cup {None} /\ served \in Host \cup {None}
  /\ answer \in Answer \cup {Quiet, Interrupted, Lost}
  /\ history \subseteq Item /\ totals \in Nat
  /\ failure \in Failure \cup {"none"}
  /\ pc \in {"open", "started", "reopened", "prepared", "reading", "observed",
             "candidate", "journal", "recovered", "structured", "acting", "tools",
             "calling", "assess", "continue", "complete", "settle", "end",
             "ended", "down"}

\* The loop holds the host the coordinate names while it deals with it.
AtHost ==
  pc \in {"started", "reopened", "prepared", "reading"} =>
    coordinate # None /\ served = coordinate.host

\* Before its request is prepared a round need not be in the checkpoint.
Begun ==
  pc \notin {"open", "started", "reopened", "end", "ended", "down"} => active # None

\* An answer that was read is still in the artifact of the coordinate's host,
\* an interrupted one leaves no coordinate.
Read ==
  /\ pc \in {"observed", "candidate"} =>
       /\ answer.kind \in GoodKind =>
            coordinate # None /\ artifact[coordinate.host] = answer
       /\ answer.kind = "interrupted" => coordinate = None /\ answer = Interrupted
  /\ pc = "candidate" => answer.kind \in GoodKind \cup {"interrupted"}

\* A recorded answer agrees with the artifact, or there is no coordinate any
\* more; the loop can only come by it through the request it recovers.
Answers ==
  Recorded =>
    /\ coordinate # None => /\ artifact[coordinate.host] = Settlement.answer
                            /\ Settlement.answer.kind \in GoodKind
    /\ pc = "open" => resume # None
    /\ pc # "reading"
    /\ pc = "observed" => answer.kind \in GoodKind

\* How far the settlement is, by where the loop stands.
Progress ==
  /\ pc \in {"journal", "structured", "acting", "tools", "calling", "assess",
             "continue"} => Recorded /\ Settlement.phase # "committed"
  /\ pc \in {"journal", "structured"} => Settlement.phase = "candidate"
  /\ pc = "acting" => Settlement.phase = "effects" /\ effects[nextRound] = 0
  /\ pc = "settle" => Recorded
  /\ pc = "recovered" => Committed
  /\ pc = "complete" => Committed /\ Settlement.disposition = "continue"

\* A committed settlement says how the run goes on; it does so only when
\* there is another round.
Disposed ==
  Recorded =>
    /\ Settlement.phase = "committed" => Settlement.disposition \in {"continue", "terminal"}
    /\ Settlement.disposition = "continue" => nextRound + 1 \in Round

\* Nothing took effect ahead of the ledger.
Calm ==
  /\ \A r \in Round : r > nextRound => effects[r] = 0
  /\ Stage \in {"open", "answered"} => effects[nextRound] = 0

\* A run is over when its checkpoint says so; a loop that ends without a
\* failure ends an open round.
Over ==
  /\ status = "running" <=> pc # "ended"
  /\ pc = "end" /\ failure = "none" => active # None

Inv ==
  /\ RequestType /\ CheckpointType /\ FileType /\ LoopType
  /\ DoubtIsFenced /\ TotalsAgree
  /\ AtHost /\ Begun /\ Read /\ Answers /\ Progress /\ Disposed /\ Calm /\ Over

-----------------------------------------------------------------------------
\* None is told from everything it stands in for.
LEMMA NoneDiffers ==
  /\ \A a \in Answer : a # None
  /\ \A c \in [id : RequestId, host : Host] : c # None
  /\ \A i \in RequestId : i # None
  /\ \A x \in ActiveRound : x # None
  /\ \A s \in Settled : s # None
BY NoneAssumption

\* What an action that leaves the variables of a part alone keeps.
LEMMA FrameRequest ==
  ASSUME Inv, UNCHANGED requestVars  PROVE RequestType' /\ DoubtIsFenced'
BY DEF Inv, RequestType, RequestTypeOK, DoubtIsFenced, InDoubt, requestVars

LEMMA FrameCheckpoint ==
  ASSUME Inv, UNCHANGED checkpointVars, UNCHANGED effects
  PROVE  CheckpointType' /\ Disposed' /\ Calm'
BY DEF Inv, CheckpointType, Disposed, Calm, Stage, Recorded, Settlement,
       checkpointVars

LEMMA FrameFiles ==
  ASSUME Inv, UNCHANGED <<fileVars, effects, crashes>>  PROVE FileType'
BY DEF Inv, FileType, Journaled, fileVars

LEMMA FrameTotals ==
  ASSUME Inv, pc # "down", UNCHANGED <<active, settledUsage, totals>>
  PROVE  TotalsAgree'
BY DEF Inv, TotalsAgree, Unsettled, Settlement

-----------------------------------------------------------------------------
\* The updates the actions are made of.
LEMMA ReleaseTyped ==
  ASSUME RequestType, NEW n \in Host, Release(n)  PROVE RequestType'
<1>1. host' \in [Host -> {"unused", "idle", "sent", "done", "lost", "gone",
                          "stopped", "abandoned"}]
    BY DEF RequestType, RequestTypeOK, Release, AfterStop
<1>2. \A m \in Host : host'[m] = "done" <=> host[m] = "done"
    BY DEF Release, AfterStop
<1>3. coordinate' \in [id : RequestId, host : Host] \cup {None}
    BY DEF RequestType, Release, AfterClear
<1> QED  BY <1>1, <1>2, <1>3 DEF RequestType, RequestTypeOK, Release

\* An answer that is recorded is not asked for any more: its host has gone.
LEMMA RecordedIsDone ==
  ASSUME Inv, Recorded, coordinate # None
  PROVE  Settlement.answer \in Answer /\ host[coordinate.host] = "done"
<1>1. Settlement \in Settled
    BY DEF Inv, CheckpointType, Recorded, Settlement, ActiveRound
<1>2. Settlement.answer \in Answer
    BY <1>1 DEF Inv, Answers, Settled, Interrupted, GoodKind
<1>3. artifact[coordinate.host] # None
    BY <1>2, NoneDiffers DEF Inv, Answers
<1>4. coordinate.host \in Host
    BY DEF Inv, RequestType
<1> QED  BY <1>2, <1>3, <1>4 DEF Inv, RequestType, RequestTypeOK

\* A commit makes a complete settlement of the recorded one.
LEMMA Settling ==
  ASSUME active \in ActiveRound, active.settlement \in Settled,
         NEW d \in {"continue", "terminal"}, NEW nudge \in SUBSET Item,
         NEW why \in Failure \cup {"none"}, SettleAs(d, nudge, why)
  PROVE  /\ active' \in ActiveRound /\ active'.round = active.round
         /\ active'.id = active.id /\ active'.settlement \in Settled
         /\ active'.settlement.answer = active.settlement.answer
         /\ active'.settlement.phase = "committed"
         /\ active'.settlement.disposition = d
         /\ settledUsage' = settledUsage + 1
<1> DEFINE s == [active.settlement EXCEPT !.phase = "committed", !.disposition = d,
                                          !.nudge = nudge, !.failure = why]
<1>1. /\ s \in Settled /\ s.answer = active.settlement.answer
      /\ s.phase = "committed" /\ s.disposition = d
    BY DEF Settled
<1>2. active' = [active EXCEPT !.settlement = s] /\ settledUsage' = settledUsage + 1
    BY DEF SettleAs
<1> HIDE DEF s
<1> QED  BY <1>1, <1>2 DEF ActiveRound

\* A change of phase leaves the rest of the round alone.
LEMMA Phasing ==
  ASSUME active \in ActiveRound, NEW p \in DOMAIN PhaseOrder, active' = AtLeast(p)
  PROVE  /\ active' \in ActiveRound /\ active'.round = active.round
         /\ active'.id = active.id /\ active'.settlement = active.settlement
         /\ active'.attempt = active.attempt
BY DEF AtLeast, Phase, ActiveRound

\* The candidate is a settlement of the answer that was read.
LEMMA Recording ==
  ASSUME Inv, RecordCandidate
  PROVE  /\ active \in ActiveRound /\ active' \in ActiveRound
         /\ active'.round = active.round /\ active'.id = active.id
         /\ active'.settlement = Candidate(answer)
         /\ Candidate(answer) \in Settled
<1>1. active \in ActiveRound
    BY DEF Inv, RecordCandidate, Begun, CheckpointType
<1>2. answer \in Answer \cup {Interrupted}
    BY DEF Inv, RecordCandidate, Read, LoopType, GoodKind, Quiet, Lost
<1>3. Candidate(answer) \in Settled
    BY <1>2 DEF Candidate, Settled
<1>4. active' = [active EXCEPT !.settlement = Candidate(answer)]
    BY DEF RecordCandidate
<1> QED  BY <1>1, <1>3, <1>4 DEF ActiveRound

LEMMA IdentityTyped == ASSUME Inv PROVE Identity \in RequestId
BY DEF Inv, Identity, RequestId, LoopType, CheckpointType

-----------------------------------------------------------------------------
(* Each action keeps the invariant.                                        *)

LEMMA ResumeLostKeeps == ASSUME Inv, ResumeLost PROVE Inv'
<1>1. RequestType' /\ DoubtIsFenced' /\ CheckpointType' /\ Disposed' /\
     Calm' /\ FileType' /\ TotalsAgree'
    BY FrameRequest, FrameCheckpoint, FrameFiles, FrameTotals DEF
       ResumeLost, checkpointVars, loopVars, Fail, Named
<1>2. LoopType'
    BY DEF Inv, ResumeLost, Fail, LoopType, Failure, attemptVars, streamVars
<1>3. AtHost' /\ Begun' /\ Read'
    BY DEF Inv, ResumeLost, Fail, AtHost, Begun, Read
<1>4. Answers' /\ Progress' /\ Over'
    BY DEF Inv, ResumeLost, Fail, Answers, Recorded, Settlement, Progress,
       Over, requestVars, checkpointVars
<1> QED  BY <1>1, <1>2, <1>3, <1>4 DEF Inv

LEMMA UnresolvedKeeps == ASSUME Inv, Unresolved PROVE Inv'
<1>1. RequestType' /\ DoubtIsFenced' /\ CheckpointType' /\ Disposed' /\
     Calm' /\ FileType' /\ TotalsAgree'
    BY FrameRequest, FrameCheckpoint, FrameFiles, FrameTotals DEF
       Unresolved, checkpointVars, loopVars, Fail, Named, PreviousSettled
<1>2. LoopType'
    BY DEF Inv, Unresolved, Fail, LoopType, Failure, attemptVars, streamVars
<1>3. AtHost' /\ Begun' /\ Read'
    BY DEF Inv, Unresolved, Fail, AtHost, Begun, Read
<1>4. Answers' /\ Progress' /\ Over'
    BY DEF Inv, Unresolved, Fail, Answers, Recorded, Settlement, Progress,
       Over, checkpointVars
<1> QED  BY <1>1, <1>2, <1>3, <1>4 DEF Inv

LEMMA ReopenKeeps == ASSUME Inv, Reopen PROVE Inv'
<1>1. RequestType' /\ DoubtIsFenced' /\ CheckpointType' /\ Disposed' /\
     Calm' /\ FileType' /\ TotalsAgree'
    BY FrameRequest, FrameCheckpoint, FrameFiles, FrameTotals DEF Reopen,
       checkpointVars
<1>2. LoopType'
    BY DEF Inv, Reopen, GoTo, Named, LoopType, RequestType, attemptVars
<1>3. AtHost' /\ Begun' /\ Read'
    BY DEF Inv, Reopen, GoTo, Named, AtHost, Begun, Read, requestVars
<1>4. Answers' /\ Progress' /\ Over'
    BY DEF Inv, Reopen, GoTo, Answers, Recorded, Settlement, Progress, Over,
       requestVars, checkpointVars
<1> QED  BY <1>1, <1>2, <1>3, <1>4 DEF Inv

LEMMA StartKeeps == ASSUME Inv, Start PROVE Inv'
<1>0. PICK n \in Host : StartHost(n, Identity) /\ served' = n
    BY DEF Start
<1>a. coordinate' = [id |-> Identity, host |-> n] /\ coordinate' # None
    BY <1>0, IdentityTyped, NoneDiffers DEF StartHost
<1>1. CheckpointType' /\ Disposed' /\ Calm' /\ FileType' /\ TotalsAgree'
    BY FrameCheckpoint, FrameFiles, FrameTotals DEF Start, checkpointVars
<1>2. LoopType'
    BY <1>0 DEF Inv, Start, GoTo, LoopType, attemptVars
<1>3. AtHost'
    BY <1>0, <1>a DEF AtHost
<1>4. Begun' /\ Read'
    BY <1>0 DEF Inv, Start, GoTo, Begun, Read
<1>5. Answers' /\ Progress' /\ Over'
    BY <1>0 DEF Inv, Start, MayStart, GoTo, Answers, Recorded, Settlement,
       Progress, Over, checkpointVars
<1>6. RequestType'
  <2>1. host' \in [Host -> {"unused", "idle", "sent", "done", "lost", "gone",
                            "stopped", "abandoned"}]
      BY <1>0 DEF Inv, RequestType, RequestTypeOK, StartHost
  <2>2. \A m \in Host : host'[m] = "done" <=> host[m] = "done"
      BY <1>0 DEF Inv, StartHost
  <2> QED  BY <1>0, <1>a, <2>1, <2>2, IdentityTyped DEF Inv, RequestType,
             RequestTypeOK, StartHost
<1>7. DoubtIsFenced'
    BY <1>0 DEF Inv, Start, MayStart, PreviousSettled, StartHost,
       DoubtIsFenced, InDoubt, RequestType, RequestTypeOK
<1> QED  BY <1>1, <1>2, <1>3, <1>4, <1>5, <1>6, <1>7 DEF Inv

LEMMA StartFailsKeeps == ASSUME Inv, StartFails PROVE Inv'
<1>1. RequestType' /\ DoubtIsFenced' /\ CheckpointType' /\ Disposed' /\
     Calm' /\ FileType' /\ TotalsAgree'
    BY FrameRequest, FrameCheckpoint, FrameFiles, FrameTotals DEF
       StartFails, checkpointVars, loopVars, Fail
<1>2. LoopType'
    BY DEF Inv, StartFails, Fail, LoopType, Failure, attemptVars, streamVars
<1>3. AtHost' /\ Begun' /\ Read'
    BY DEF Inv, StartFails, Fail, AtHost, Begun, Read
<1>4. Answers' /\ Progress' /\ Over'
    BY DEF Inv, StartFails, Fail, Answers, Recorded, Settlement, Progress,
       Over, requestVars, checkpointVars
<1> QED  BY <1>1, <1>2, <1>3, <1>4 DEF Inv

LEMMA PrepareKeeps == ASSUME Inv, Prepare PROVE Inv'
<1>0. active' \in ActiveRound /\ active'.round = nextRound
     /\ (Recorded' => active' = active)
    BY DEF Inv, Prepare, RecordPrepared, Asked, ActiveRound, CheckpointType,
       LoopType, RequestType, AtHost, PhaseOrder, Recorded, Settlement,
       IsSamePrepared
<1>1. RequestType' /\ DoubtIsFenced' /\ FileType'
    BY FrameRequest, FrameFiles DEF Prepare
<1>2. LoopType'
    BY <1>0 DEF Inv, Prepare, GoTo, LoopType, attemptVars, streamVars
<1>3. AtHost' /\ Begun' /\ Read'
    BY <1>0, NoneDiffers DEF Inv, Prepare, GoTo, AtHost, Begun, Read,
       requestVars, streamVars
<1>4. Answers' /\ Progress' /\ Over'
    BY <1>0 DEF Inv, Prepare, GoTo, Answers, Recorded, Settlement, Progress,
       Over, requestVars
<1>5. CheckpointType'
    BY <1>0 DEF Inv, Prepare, CheckpointType
<1>6. TotalsAgree'
    BY <1>0 DEF Inv, Prepare, RecordPrepared, MayReplace, TotalsAgree,
       Unsettled, Settlement
<1>7. Disposed' /\ Calm'
    BY <1>0 DEF Inv, Prepare, RecordPrepared, MayReplace, Disposed,
       Recorded, Settlement, Calm, Stage
<1> QED  BY <1>1, <1>2, <1>3, <1>4, <1>5, <1>6, <1>7 DEF Inv

LEMMA PrepareRefusedKeeps == ASSUME Inv, PrepareRefused PROVE Inv'
<1>1. CheckpointType' /\ Disposed' /\ Calm' /\ FileType' /\ TotalsAgree'
    BY FrameCheckpoint, FrameFiles, FrameTotals DEF PrepareRefused,
       checkpointVars
<1>2. LoopType'
    BY DEF Inv, PrepareRefused, Fail, LoopType, Failure, attemptVars,
       streamVars
<1>3. AtHost' /\ Begun' /\ Read'
    BY DEF Inv, PrepareRefused, Fail, AtHost, Begun, Read
<1>4. Answers' /\ Progress' /\ Over'
    BY DEF Inv, PrepareRefused, Fail, Release, AfterClear, Answers,
       Recorded, Settlement, Progress, Over, requestVars, checkpointVars
<1>5. RequestType'
    BY ReleaseTyped DEF Inv, PrepareRefused, AtHost, RequestType,
       RequestTypeOK, requestVars
<1>6. DoubtIsFenced'
    BY DEF Inv, PrepareRefused, Release, AfterStop, AfterClear,
       DoubtIsFenced, InDoubt, RequestType, RequestTypeOK, requestVars
<1> QED  BY <1>1, <1>2, <1>3, <1>4, <1>5, <1>6 DEF Inv

LEMMA DeliverKeeps == ASSUME Inv, Deliver PROVE Inv'
<1>1. CheckpointType' /\ Disposed' /\ Calm' /\ FileType' /\ TotalsAgree'
    BY FrameCheckpoint, FrameFiles, FrameTotals DEF Deliver, checkpointVars
<1>2. LoopType'
    BY DEF Inv, Deliver, GoTo, LoopType, attemptVars
<1>3. AtHost' /\ Begun' /\ Read'
    BY DEF Inv, Deliver, Commit, GoTo, AtHost, Begun, Read, checkpointVars
<1>4. Answers'
    BY RecordedIsDone DEF Inv, Deliver, Commit, Alive, AtHost, Answers,
       Recorded, Settlement, checkpointVars
<1>5. Progress' /\ Over'
    BY DEF Inv, Deliver, GoTo, Progress, Over, checkpointVars
<1>6. RequestType'
    BY DEF Inv, Deliver, Commit, Alive, RequestType, RequestTypeOK
<1>7. DoubtIsFenced'
    BY DEF Inv, Deliver, Commit, DoubtIsFenced, InDoubt, AtHost
<1> QED  BY <1>1, <1>2, <1>3, <1>4, <1>5, <1>6, <1>7 DEF Inv

LEMMA ReplayKeeps == ASSUME Inv, Replay PROVE Inv'
<1>1. RequestType' /\ DoubtIsFenced' /\ CheckpointType' /\ Disposed' /\
     Calm' /\ FileType' /\ TotalsAgree'
    BY FrameRequest, FrameCheckpoint, FrameFiles, FrameTotals DEF Replay,
       checkpointVars
<1>2. LoopType'
    BY DEF Inv, Replay, GoTo, LoopType, RequestType, RequestTypeOK, AtHost,
       attemptVars
<1>3. AtHost' /\ Begun' /\ Read'
    BY DEF Inv, Replay, GoTo, AtHost, RequestType, Begun, Read, GoodKind,
       Answer, Lost, RequestTypeOK, requestVars, checkpointVars
<1>4. Answers'
    BY RecordedIsDone, NoneDiffers DEF Inv, Replay, GoTo, AtHost, Answers,
       Recorded, Settlement, requestVars, checkpointVars
<1>5. Progress' /\ Over'
    BY DEF Inv, Replay, GoTo, Progress, Over, checkpointVars
<1> QED  BY <1>1, <1>2, <1>3, <1>4, <1>5 DEF Inv

LEMMA FirstEventKeeps == ASSUME Inv, FirstEvent PROVE Inv'
<1>0. active' \in ActiveRound /\ active'.round = nextRound
     /\ active'.id = active.id /\ active'.settlement = active.settlement
     /\ active'.attempt = active.attempt
    BY Phasing DEF Inv, FirstEvent, PhaseOrder, CheckpointType, Begun
<1>1. RequestType' /\ DoubtIsFenced' /\ FileType'
    BY FrameRequest, FrameFiles DEF FirstEvent
<1>2. LoopType'
    BY <1>0 DEF Inv, FirstEvent, LoopType, loopVars, attemptVars, streamVars
<1>3. AtHost' /\ Begun' /\ Read'
    BY <1>0, NoneDiffers DEF Inv, FirstEvent, AtHost, Begun, Read,
       requestVars, loopVars, streamVars
<1>4. Answers' /\ Progress' /\ Over'
    BY <1>0 DEF Inv, FirstEvent, Answers, Recorded, Settlement, Begun,
       Progress, Over, loopVars
<1>5. CheckpointType'
    BY <1>0 DEF Inv, FirstEvent, CheckpointType
<1>6. TotalsAgree'
    BY <1>0, NoneDiffers DEF Inv, FirstEvent, TotalsAgree, Unsettled,
       Settlement, Begun, loopVars
<1>7. Disposed' /\ Calm'
    BY <1>0, NoneDiffers DEF Inv, FirstEvent, Disposed, Recorded,
       Settlement, Begun, Calm, Stage
<1> QED  BY <1>1, <1>2, <1>3, <1>4, <1>5, <1>6, <1>7 DEF Inv

LEMMA ReadEndKeeps == ASSUME Inv, ReadEnd PROVE Inv'
<1>1. CheckpointType' /\ Disposed' /\ Calm' /\ FileType' /\ TotalsAgree'
    BY FrameCheckpoint, FrameFiles, FrameTotals DEF ReadEnd, checkpointVars
<1>2. LoopType'
    BY DEF Inv, ReadEnd, GoTo, LoopType, RequestType, RequestTypeOK, AtHost,
       attemptVars
<1>3. AtHost' /\ Begun' /\ Read'
    BY DEF Inv, ReadEnd, GoTo, AtHost, RequestType, Begun, Read, GoodKind,
       Answer, Lost, RequestTypeOK, requestVars, checkpointVars
<1>4. Answers' /\ Progress' /\ Over'
    BY DEF Inv, ReadEnd, GoTo, Answers, Recorded, Settlement, Progress,
       Over, checkpointVars
<1>5. RequestType'
    BY ReleaseTyped DEF Inv, ReadEnd, AtHost, RequestType, RequestTypeOK,
       requestVars
<1>6. DoubtIsFenced'
    BY DEF Inv, ReadEnd, Release, AfterStop, AfterClear, DoubtIsFenced,
       InDoubt, RequestType, RequestTypeOK, requestVars
<1> QED  BY <1>1, <1>2, <1>3, <1>4, <1>5, <1>6 DEF Inv

LEMMA InterruptKeeps == ASSUME Inv, Interrupt PROVE Inv'
<1>1. CheckpointType' /\ Disposed' /\ Calm' /\ FileType' /\ TotalsAgree'
    BY FrameCheckpoint, FrameFiles, FrameTotals DEF Interrupt,
       checkpointVars
<1>2. LoopType'
    BY DEF Inv, Interrupt, GoTo, LoopType, attemptVars
<1>3. AtHost' /\ Begun' /\ Read'
    BY DEF Inv, Interrupt, GoTo, Release, AfterClear, AtHost, Begun, Read,
       GoodKind, Interrupted, checkpointVars
<1>4. Answers' /\ Progress' /\ Over'
    BY DEF Inv, Interrupt, GoTo, Answers, Recorded, Settlement, Progress,
       Over, checkpointVars
<1>5. RequestType'
    BY ReleaseTyped DEF Inv, Interrupt, AtHost, RequestType
<1>6. DoubtIsFenced'
    BY DEF Inv, Interrupt, Release, AfterStop, AfterClear, DoubtIsFenced,
       InDoubt, RequestType, RequestTypeOK
<1> QED  BY <1>1, <1>2, <1>3, <1>4, <1>5, <1>6 DEF Inv

LEMMA CancelKeeps == ASSUME Inv, Cancel PROVE Inv'
<1>1. CheckpointType' /\ Disposed' /\ Calm' /\ FileType' /\ TotalsAgree'
    BY FrameCheckpoint, FrameFiles, FrameTotals DEF Cancel, checkpointVars
<1>2. LoopType'
    BY DEF Inv, Cancel, Fail, LoopType, Failure, attemptVars, streamVars
<1>3. AtHost' /\ Begun' /\ Read'
    BY DEF Inv, Cancel, Fail, AtHost, Begun, Read
<1>4. Answers' /\ Progress' /\ Over'
    BY DEF Inv, Cancel, Fail, Answers, Recorded, Settlement, Progress, Over,
       requestVars, checkpointVars
<1>5. RequestType'
    BY ReleaseTyped DEF Inv, Cancel, AtHost, RequestType, RequestTypeOK,
       requestVars
<1>6. DoubtIsFenced'
    BY DEF Inv, Cancel, Release, AfterStop, AfterClear, DoubtIsFenced,
       InDoubt, RequestType, RequestTypeOK, requestVars
<1> QED  BY <1>1, <1>2, <1>3, <1>4, <1>5, <1>6 DEF Inv

LEMMA AuthRefreshKeeps == ASSUME Inv, AuthRefresh PROVE Inv'
<1>1. RequestType' /\ DoubtIsFenced' /\ CheckpointType' /\ Disposed' /\
     Calm' /\ FileType' /\ TotalsAgree'
    BY FrameRequest, FrameCheckpoint, FrameFiles, FrameTotals DEF
       AuthRefresh, checkpointVars, loopVars, GoTo
<1>2. LoopType'
    BY DEF Inv, AuthRefresh, GoTo, LoopType, streamVars
<1>3. AtHost' /\ Begun' /\ Read'
    BY DEF Inv, AuthRefresh, GoTo, AtHost, Begun, Read
<1>4. Answers' /\ Progress' /\ Over'
    BY DEF Inv, AuthRefresh, GoTo, Answers, Recorded, Settlement, Progress,
       GoodKind, Over, checkpointVars
<1> QED  BY <1>1, <1>2, <1>3, <1>4 DEF Inv

LEMMA ObserveKeeps == ASSUME Inv, Observe PROVE Inv'
<1>0. active' \in ActiveRound /\ active'.round = nextRound
     /\ active'.id = active.id /\ active'.settlement = active.settlement
     /\ active'.attempt = active.attempt
    BY Phasing DEF Inv, Observe, PhaseOrder, CheckpointType, Begun
<1>1. RequestType' /\ DoubtIsFenced' /\ FileType'
    BY FrameRequest, FrameFiles DEF Observe
<1>2. LoopType'
    BY <1>0, BoundsAssumption DEF Inv, Observe, RetriesLeft, GoTo, Fail,
       LoopType, Item, Failure, ActiveRound, attemptVars, streamVars
<1>3. AtHost' /\ Begun' /\ Read'
    BY <1>0, NoneDiffers DEF Inv, Observe, GoTo, Fail, AtHost, Begun, Read,
       requestVars, streamVars
<1>4. Answers' /\ Progress' /\ Over'
    BY <1>0 DEF Inv, Observe, GoTo, Fail, Answers, Recorded, Settlement,
       Begun, Progress, GoodKind, Over, requestVars
<1>5. CheckpointType'
    BY <1>0 DEF Inv, Observe, CheckpointType
<1>6. TotalsAgree'
    BY <1>0, NoneDiffers DEF Inv, Observe, TotalsAgree, Unsettled,
       Settlement, Begun
<1>7. Disposed' /\ Calm'
    BY <1>0, NoneDiffers DEF Inv, Observe, Disposed, Recorded, Settlement,
       Begun, Calm, Stage
<1> QED  BY <1>1, <1>2, <1>3, <1>4, <1>5, <1>6, <1>7 DEF Inv

LEMMA RecordCandidateKeeps == ASSUME Inv, RecordCandidate PROVE Inv'
<1>0. active' \in ActiveRound /\ active'.round = nextRound
     /\ active'.id = active.id /\ active'.settlement = Candidate(answer)
     /\ Candidate(answer) \in Settled
    BY Recording DEF Inv, CheckpointType, RecordCandidate, Begun
<1>1. RequestType' /\ DoubtIsFenced' /\ FileType'
    BY FrameRequest, FrameFiles DEF RecordCandidate
<1>2. LoopType'
    BY <1>0 DEF Inv, RecordCandidate, GoTo, LoopType, attemptVars,
       streamVars
<1>3. AtHost' /\ Begun' /\ Read'
    BY <1>0, NoneDiffers DEF Inv, RecordCandidate, GoTo, AtHost, Begun, Read
<1>4. Answers' /\ Progress' /\ Over'
    BY <1>0, NoneDiffers DEF Inv, RecordCandidate, Candidate, GoTo, Answers,
       Recorded, Settlement, Read, Progress, ActiveRound, Over, requestVars
<1>5. CheckpointType'
    BY <1>0 DEF Inv, RecordCandidate, CheckpointType
<1>6. TotalsAgree'
    BY <1>0, NoneDiffers DEF Inv, RecordCandidate, Candidate, TotalsAgree,
       Unsettled, Settlement, CheckpointType, Settled
<1>7. Disposed' /\ Calm'
    BY <1>0 DEF Inv, RecordCandidate, Candidate, Disposed, Settlement, Calm,
       Stage
<1> QED  BY <1>1, <1>2, <1>3, <1>4, <1>5, <1>6, <1>7 DEF Inv

LEMMA KnownCandidateKeeps == ASSUME Inv, KnownCandidate PROVE Inv'
<1>1. RequestType' /\ DoubtIsFenced' /\ CheckpointType' /\ Disposed' /\
     Calm' /\ FileType' /\ TotalsAgree'
    BY FrameRequest, FrameCheckpoint, FrameFiles, FrameTotals DEF
       KnownCandidate, checkpointVars, loopVars, Repeatable, Fail,
       FailSettled, GoTo
<1>2. LoopType'
    BY DEF Inv, KnownCandidate, Fail, FailSettled, GoTo, LoopType, Failure,
       attemptVars, streamVars
<1>3. AtHost' /\ Begun' /\ Read'
    BY DEF Inv, KnownCandidate, Fail, FailSettled, GoTo, AtHost, Begun,
       Read, checkpointVars
<1>4. Answers' /\ Progress' /\ Over'
    BY DEF Inv, KnownCandidate, Repeatable, Fail, FailSettled, GoTo,
       Answers, Recorded, Settlement, Begun, Progress, Committed, Over,
       requestVars, checkpointVars
<1> QED  BY <1>1, <1>2, <1>3, <1>4 DEF Inv

LEMMA ResolveKeeps == ASSUME Inv, Resolve PROVE Inv'
<1>1. RequestType' /\ DoubtIsFenced' /\ CheckpointType' /\ Disposed' /\
     Calm' /\ FileType' /\ TotalsAgree'
    BY FrameRequest, FrameCheckpoint, FrameFiles, FrameTotals DEF Resolve,
       checkpointVars
<1>2. LoopType'
    BY DEF Inv, Resolve, GoTo, LoopType, CheckpointType, Committed,
       Settlement, Progress, ActiveRound, Settled, attemptVars, streamVars
<1>3. AtHost' /\ Begun' /\ Read'
    BY DEF Inv, Resolve, GoTo, AtHost, Begun, Read, checkpointVars
<1>4. Answers' /\ Progress' /\ Over'
    BY DEF Inv, Resolve, GoTo, Answers, Recorded, Settlement, Progress,
       Committed, Over, requestVars, checkpointVars
<1> QED  BY <1>1, <1>2, <1>3, <1>4 DEF Inv

LEMMA RecordRoundKeeps == ASSUME Inv, RecordRound PROVE Inv'
<1>1. RequestType' /\ DoubtIsFenced' /\ CheckpointType' /\ Disposed' /\
     Calm' /\ TotalsAgree'
    BY FrameRequest, FrameCheckpoint, FrameTotals DEF RecordRound,
       checkpointVars
<1>2. LoopType'
    BY DEF Inv, RecordRound, Plain, GoTo, LoopType, CheckpointType, Item,
       attemptVars, streamVars
<1>3. AtHost' /\ Begun' /\ Read'
    BY DEF Inv, RecordRound, GoTo, AtHost, Begun, Read, checkpointVars
<1>4. Answers' /\ Progress' /\ Over'
    BY DEF Inv, RecordRound, GoTo, Answers, Recorded, Settlement, Progress,
       Over, requestVars, checkpointVars
<1>5. FileType'
    BY DEF Inv, RecordRound, JournalEntry, FileType, Journaled,
       CheckpointType
<1> QED  BY <1>1, <1>2, <1>3, <1>4, <1>5 DEF Inv

LEMMA BeginEffectsKeeps == ASSUME Inv, BeginEffects PROVE Inv'
<1>0. active' \in ActiveRound /\ active'.round = nextRound
     /\ active'.id = active.id /\ active'.settlement \in Settled
     /\ active'.settlement = [active.settlement EXCEPT !.phase = "effects"]
    BY DEF Inv, BeginEffects, ActiveRound, Settled, CheckpointType,
       Progress, Recorded, Settlement
<1>1. RequestType' /\ DoubtIsFenced' /\ FileType'
    BY FrameRequest, FrameFiles DEF BeginEffects
<1>2. LoopType'
    BY <1>0 DEF Inv, BeginEffects, GoTo, LoopType, attemptVars, streamVars
<1>3. AtHost' /\ Begun' /\ Read'
    BY <1>0, NoneDiffers DEF Inv, BeginEffects, GoTo, AtHost, Begun, Read
<1>4. Answers' /\ Progress' /\ Over'
    BY <1>0, NoneDiffers DEF Inv, BeginEffects, GoTo, Answers, Recorded,
       Settlement, Progress, ActiveRound, Calm, Stage, Over, requestVars
<1>5. CheckpointType'
    BY <1>0 DEF Inv, BeginEffects, CheckpointType
<1>6. TotalsAgree'
    BY <1>0, NoneDiffers DEF Inv, BeginEffects, TotalsAgree, Unsettled,
       Settlement, Progress, Recorded
<1>7. Disposed' /\ Calm'
    BY <1>0 DEF Inv, BeginEffects, Disposed, Settlement, Progress, Calm,
       Stage
<1> QED  BY <1>1, <1>2, <1>3, <1>4, <1>5, <1>6, <1>7 DEF Inv

LEMMA ActKeeps == ASSUME Inv, Act PROVE Inv'
<1>1. RequestType' /\ DoubtIsFenced' /\ TotalsAgree'
    BY FrameRequest, FrameTotals DEF Act, checkpointVars
<1>2. LoopType'
    BY DEF Inv, Act, GoTo, FailSettled, LoopType, Failure, attemptVars,
       streamVars
<1>3. AtHost' /\ Begun' /\ Read'
    BY DEF Inv, Act, GoTo, FailSettled, AtHost, Begun, Read, checkpointVars
<1>4. Answers' /\ Progress' /\ Over'
    BY DEF Inv, Act, GoTo, FailSettled, Answers, Recorded, Settlement,
       Progress, Over, requestVars, checkpointVars
<1>5. CheckpointType'
    BY DEF Inv, Act, CheckpointType, checkpointVars
<1>6. FileType'
    BY DEF Inv, Act, FileType, Journaled, CheckpointType, fileVars
<1>7. Disposed' /\ Calm'
    BY DEF Inv, Act, Disposed, Recorded, Settlement, Progress, Calm, Stage,
       Round, checkpointVars
<1> QED  BY <1>1, <1>2, <1>3, <1>4, <1>5, <1>6, <1>7 DEF Inv

LEMMA CallToolsKeeps == ASSUME Inv, CallTools PROVE Inv'
<1>1. RequestType' /\ DoubtIsFenced' /\ CheckpointType' /\ Disposed' /\
     Calm' /\ TotalsAgree'
    BY FrameRequest, FrameCheckpoint, FrameTotals DEF CallTools,
       checkpointVars
<1>2. LoopType'
    BY DEF Inv, CallTools, GoTo, LoopType, attemptVars, streamVars
<1>3. AtHost' /\ Begun' /\ Read'
    BY DEF Inv, CallTools, GoTo, AtHost, Begun, Read, checkpointVars
<1>4. Answers' /\ Progress' /\ Over'
    BY DEF Inv, CallTools, GoTo, Answers, Recorded, Settlement, Progress,
       Over, requestVars, checkpointVars
<1>5. FileType'
    BY DEF Inv, CallTools, FileType, Journaled
<1> QED  BY <1>1, <1>2, <1>3, <1>4, <1>5 DEF Inv

LEMMA ToolsReturnKeeps == ASSUME Inv, ToolsReturn PROVE Inv'
<1>1. RequestType' /\ DoubtIsFenced' /\ CheckpointType' /\ Disposed' /\
     Calm' /\ TotalsAgree'
    BY FrameRequest, FrameCheckpoint, FrameTotals DEF ToolsReturn,
       checkpointVars
<1>2. LoopType'
    BY DEF Inv, ToolsReturn, GoTo, FailSettled, LoopType, CheckpointType,
       Item, Failure, attemptVars, streamVars
<1>3. AtHost' /\ Begun' /\ Read'
    BY DEF Inv, ToolsReturn, GoTo, FailSettled, AtHost, Begun, Read,
       checkpointVars
<1>4. Answers' /\ Progress' /\ Over'
    BY DEF Inv, ToolsReturn, GoTo, FailSettled, Answers, Recorded,
       Settlement, Progress, Over, requestVars, checkpointVars
<1>5. FileType'
    BY DEF Inv, ToolsReturn, FileType, Journaled
<1> QED  BY <1>1, <1>2, <1>3, <1>4, <1>5 DEF Inv

LEMMA AssessKeeps == ASSUME Inv, Assess PROVE Inv'
<1>a. active \in ActiveRound /\ active.round = nextRound /\ active.settlement \in Settled
    BY DEF Inv, Assess, CheckpointType, Progress, Recorded, Settlement,
       ActiveRound
<1>b. \A nudge \in {{}, {<<"nudge", nextRound>>}} : nudge \in SUBSET Item
    BY DEF Inv, CheckpointType, Item
<1>c. \/ active' = active /\ settledUsage' = settledUsage /\ pc' = "settle"
         /\ history' = history /\ failure' \in Failure \cup {"none"}
      \/ /\ pc' = "complete" /\ nextRound + 1 \in Round /\ failure' = failure
         /\ \E nudge \in SUBSET Item : /\ SettleAs("continue", nudge, "none")
                                       /\ history' = history \cup nudge
    BY <1>b DEF Inv, LoopType, Assess, GoTo, FailSettled, Failure
<1>0. active' \in ActiveRound /\ active'.round = nextRound
     /\ active'.id = active.id /\ active'.settlement \in Settled
     /\ active'.settlement.answer = active.settlement.answer
     /\ \/ active' = active /\ settledUsage' = settledUsage /\ pc' = "settle"
        \/ /\ active'.settlement.phase = "committed" /\ pc' = "complete"
           /\ active'.settlement.disposition = "continue" /\ nextRound + 1 \in Round
           /\ settledUsage' = settledUsage + 1
    BY <1>b, <1>c, <1>a, Settling DEF Inv
<1>1. RequestType' /\ DoubtIsFenced' /\ FileType'
    BY FrameRequest, FrameFiles DEF Assess
<1>2. LoopType'
    BY <1>c DEF Inv, Assess, LoopType, attemptVars, streamVars
<1>3. AtHost' /\ Begun' /\ Read'
    BY <1>0, NoneDiffers DEF Inv, AtHost, Begun, Read
<1>4. Answers' /\ Progress' /\ Over'
    BY <1>0, NoneDiffers DEF Inv, Assess, Answers, Recorded, Settlement,
       Progress, Committed, Over, requestVars
<1>5. CheckpointType'
    BY <1>0, <1>a DEF Inv, Assess, CheckpointType
<1>6. TotalsAgree'
  <2>1. Unsettled = 1
      BY <1>a DEF Inv, Assess, Progress, Recorded, Unsettled
  <2>2. pc' = "complete" => Unsettled' = 0
      BY <1>0 DEF Unsettled, Settlement
  <2>3. active' = active => Unsettled' = Unsettled
      BY DEF Unsettled, Settlement
  <2> QED  BY <1>0, <2>1, <2>2, <2>3 DEF Inv, Assess, TotalsAgree,
             CheckpointType
<1>7. Disposed' /\ Calm'
    BY <1>0, NoneDiffers DEF Inv, Assess, Disposed, Settlement, Progress,
       Calm, Stage
<1> QED  BY <1>1, <1>2, <1>3, <1>4, <1>5, <1>6, <1>7 DEF Inv

LEMMA CompleteKeeps == ASSUME Inv, Complete PROVE Inv'
<1>0. /\ nextRound + 1 \in Round /\ Settlement \in Settled
     /\ Settlement.phase = "committed" /\ Settlement.disposition = "continue"
    BY DEF Inv, Complete, Progress, Committed, Disposed, Recorded,
       CheckpointType, ActiveRound, Settlement
<1>1. RequestType' /\ DoubtIsFenced' /\ FileType'
    BY FrameRequest, FrameFiles DEF Complete
<1>2. LoopType'
    BY <1>0, BoundsAssumption DEF Inv, Complete, GoTo, LoopType, streamVars
<1>3. AtHost' /\ Begun' /\ Read'
    BY <1>0 DEF Inv, Complete, GoTo, AtHost, Begun, Read
<1>4. Answers' /\ Progress' /\ Over'
    BY <1>0 DEF Inv, Complete, GoTo, Answers, Recorded, Progress, Over
<1>5. CheckpointType'
    BY <1>0 DEF Inv, Complete, CheckpointType, Settled
<1>6. TotalsAgree'
    BY <1>0 DEF Inv, Complete, TotalsAgree, Unsettled
<1>7. Disposed' /\ Calm'
    BY <1>0 DEF Inv, Complete, Disposed, Recorded, CheckpointType, Calm,
       Round
<1> QED  BY <1>1, <1>2, <1>3, <1>4, <1>5, <1>6, <1>7 DEF Inv

LEMMA SettleTerminalKeeps == ASSUME Inv, SettleTerminal PROVE Inv'
<1>a. active \in ActiveRound /\ active.round = nextRound /\ active.settlement \in Settled
    BY DEF Inv, SettleTerminal, Progress, Recorded, CheckpointType,
       Settlement, ActiveRound
<1>0. active' \in ActiveRound /\ active'.round = nextRound
     /\ active'.id = active.id /\ active'.settlement \in Settled
     /\ active'.settlement.answer = active.settlement.answer
     /\ \/ active' = active /\ settledUsage' = settledUsage /\ Committed
        \/ /\ active'.settlement.phase = "committed" /\ ~Committed
           /\ active'.settlement.disposition = "terminal"
           /\ settledUsage' = settledUsage + 1
    BY <1>a, Settling DEF Inv, SettleTerminal, AlreadySettled, LoopType
<1>1. RequestType' /\ DoubtIsFenced' /\ FileType'
    BY FrameRequest, FrameFiles DEF SettleTerminal
<1>2. LoopType'
    BY <1>0 DEF Inv, SettleTerminal, GoTo, LoopType, attemptVars, streamVars
<1>3. AtHost' /\ Begun' /\ Read'
    BY <1>0 DEF Inv, SettleTerminal, GoTo, AtHost, Begun, Read
<1>4. Answers' /\ Progress' /\ Over'
    BY <1>0, NoneDiffers DEF Inv, SettleTerminal, GoTo, Answers, Settlement,
       Progress, Over, requestVars
<1>5. CheckpointType'
    BY <1>0 DEF Inv, SettleTerminal, CheckpointType
<1>6. TotalsAgree'
    BY <1>0 DEF Inv, SettleTerminal, TotalsAgree, Unsettled, Settlement,
       Progress, Recorded, Committed, LoopType
<1>7. Disposed' /\ Calm'
    BY <1>0, NoneDiffers DEF Inv, SettleTerminal, Disposed, Settlement,
       Progress, Calm, Stage
<1> QED  BY <1>1, <1>2, <1>3, <1>4, <1>5, <1>6, <1>7 DEF Inv

LEMMA EndRunKeeps == ASSUME Inv, EndRun PROVE Inv'
<1>1. RequestType' /\ DoubtIsFenced' /\ FileType' /\ TotalsAgree'
    BY FrameRequest, FrameFiles, FrameTotals DEF EndRun
<1>2. LoopType'
    BY DEF Inv, EndRun, GoTo, LoopType, attemptVars, streamVars
<1>3. AtHost' /\ Begun' /\ Read'
    BY DEF Inv, EndRun, GoTo, AtHost, Begun, Read
<1>4. Answers' /\ Progress' /\ Over'
    BY DEF Inv, EndRun, GoTo, Answers, Recorded, Settlement, Progress,
       LoopType, Over, Failure, requestVars
<1>5. CheckpointType'
    BY DEF Inv, EndRun, CheckpointType, LoopType
<1>6. Disposed' /\ Calm'
    BY DEF Inv, EndRun, Disposed, Recorded, Settlement, Calm, Stage
<1> QED  BY <1>1, <1>2, <1>3, <1>4, <1>5, <1>6 DEF Inv

LEMMA NewRunKeeps == ASSUME Inv, NewRun PROVE Inv'
<1>1. RequestType' /\ DoubtIsFenced'
    BY FrameRequest DEF NewRun
<1>2. LoopType'
    BY BoundsAssumption DEF Inv, NewRun, LoopType
<1>3. AtHost' /\ Begun' /\ Read'
    BY DEF Inv, NewRun, AtHost, Begun, Read
<1>4. Answers' /\ Progress' /\ Over'
    BY DEF Inv, NewRun, Answers, Recorded, Progress, Over
<1>5. CheckpointType'
    BY BoundsAssumption DEF Inv, NewRun, CheckpointType, Round
<1>6. FileType'
    BY DEF Inv, NewRun, FileType, Journaled
<1>7. TotalsAgree'
    BY DEF Inv, NewRun, TotalsAgree, Unsettled
<1>8. Disposed' /\ Calm'
    BY BoundsAssumption DEF Inv, NewRun, Disposed, Recorded, Calm, Round
<1> QED  BY <1>1, <1>2, <1>3, <1>4, <1>5, <1>6, <1>7, <1>8 DEF Inv

LEMMA CrashKeeps == ASSUME Inv, Crash PROVE Inv'
<1>1. RequestType' /\ DoubtIsFenced' /\ CheckpointType' /\ Disposed' /\
     Calm'
    BY FrameRequest, FrameCheckpoint DEF Crash
<1>2. LoopType'
    BY BoundsAssumption DEF Inv, Crash, LoopType
<1>3. AtHost' /\ Begun' /\ Read'
    BY DEF Inv, Crash, AtHost, Begun, Read
<1>4. Answers' /\ Progress' /\ Over'
    BY DEF Inv, Crash, Answers, Recorded, Settlement, Progress, Over,
       requestVars, checkpointVars
<1>5. FileType'
    BY BoundsAssumption DEF Inv, Crash, FileType, Journaled, fileVars
<1>6. TotalsAgree'
    BY DEF Inv, Crash, TotalsAgree
<1> QED  BY <1>1, <1>2, <1>3, <1>4, <1>5, <1>6 DEF Inv

LEMMA RecoverKeeps == ASSUME Inv, Recover PROVE Inv'
<1>0. Answered \in [Round -> {"none", "called", "resulted"}]
    BY DEF Inv, FileType, Answered
<1>1. RequestType' /\ DoubtIsFenced' /\ CheckpointType' /\ Disposed' /\
     Calm'
    BY FrameRequest, FrameCheckpoint DEF Recover
<1>2. LoopType'
  <2>1. Rebuilt(Answered) \subseteq Item
      BY <1>0 DEF Inv, FileType, Rebuilt, Item
  <2>2. active # None => active.attempt \in 0..MaxRetries /\ active.id \in RequestId
      BY DEF Inv, CheckpointType, ActiveRound
  <2>3. settledUsage + Unsettled \in Nat
      BY DEF Inv, CheckpointType, Unsettled
  <2> QED  BY <2>1, <2>2, <2>3, BoundsAssumption DEF Inv, Recover,
             CheckpointType, LoopType, GoTo, streamVars
<1>3. AtHost' /\ Begun' /\ Read'
    BY <1>0 DEF Inv, Recover, GoTo, AtHost, Begun, Read
<1>4. Answers' /\ Progress' /\ Over'
    BY <1>0, NoneDiffers DEF Inv, Recover, GoTo, Answers, Recorded,
       Settlement, Progress, CheckpointType, ActiveRound, Over, requestVars,
       checkpointVars
<1>5. FileType'
    BY <1>0 DEF Inv, Recover, FileType, Journaled
<1>6. TotalsAgree'
    BY <1>0 DEF Inv, Recover, TotalsAgree, Unsettled, Settlement,
       checkpointVars
<1> QED  BY <1>1, <1>2, <1>3, <1>4, <1>5, <1>6 DEF Inv

LEMMA GiveUpKeeps == ASSUME Inv, GiveUp PROVE Inv'
<1>1. CheckpointType' /\ Disposed' /\ Calm' /\ FileType'
    BY FrameCheckpoint, FrameFiles DEF GiveUp
<1>2. LoopType'
    BY DEF Inv, GiveUp, LoopType, loopVars, attemptVars, streamVars
<1>3. AtHost' /\ Begun' /\ Read'
    BY DEF Inv, GiveUp, AtHost, Begun, Read, loopVars
<1>4. Answers' /\ Progress' /\ Over'
    BY DEF Inv, GiveUp, Abandon, Answers, Progress, Over, checkpointVars,
       loopVars
<1>5. RequestType'
    BY DEF Inv, GiveUp, Abandon, RequestType, RequestTypeOK
<1>6. DoubtIsFenced'
    BY DEF Inv, GiveUp, Abandon, DoubtIsFenced, InDoubt, RequestType,
       RequestTypeOK
<1>7. TotalsAgree'
    BY DEF Inv, GiveUp, TotalsAgree, Unsettled, Settlement, checkpointVars,
       loopVars
<1> QED  BY <1>1, <1>2, <1>3, <1>4, <1>5, <1>6, <1>7 DEF Inv

\* A host that answers or dies has not been read to its end.
LEMMA HostStepKeeps == ASSUME Inv, NEW n \in Host, HostStep(n)  PROVE Inv'
<1>1. CheckpointType' /\ Disposed' /\ Calm' /\ FileType' /\ LoopType' /\ TotalsAgree'
      /\ AtHost' /\ Begun' /\ Progress' /\ Over'
  <2>1. UNCHANGED <<checkpointVars, fileVars, loopVars, effects, crashes, coordinate>>
      BY DEF HostStep, HostDies, HostAnswers
  <2> QED
      BY <2>1, FrameCheckpoint, FrameFiles
      DEF Inv, LoopType, TotalsAgree, Unsettled, AtHost, Begun, Progress, Over,
          Recorded, Committed, Settlement, loopVars, attemptVars, streamVars,
          checkpointVars
<1>2. /\ host' \in [Host -> {"unused", "idle", "sent", "done", "lost", "gone",
                             "stopped", "abandoned"}]
      /\ artifact' \in [Host -> Answer \cup {None}]
      /\ \A m \in Host : artifact'[m] # None <=> host'[m] = "done"
      /\ coordinate' = coordinate
    BY NoneDiffers
    DEF Inv, RequestType, RequestTypeOK, HostStep, HostDies, HostAnswers, Alive
<1>3. \A m \in Host : host[m] = "done" => artifact'[m] = artifact[m]
    BY DEF Inv, RequestType, RequestTypeOK, HostStep, HostDies, HostAnswers, Alive
<1>4. RequestType'
    BY <1>2 DEF Inv, RequestType, RequestTypeOK
<1>5. DoubtIsFenced'
    BY DEF Inv, DoubtIsFenced, InDoubt, RequestType, RequestTypeOK, HostStep,
           HostDies, HostAnswers, Alive
<1>6. Read'
  <2>1. ASSUME pc \in {"observed", "candidate"}, answer.kind \in GoodKind
        PROVE  artifact'[coordinate.host] = artifact[coordinate.host]
    <3>1. answer \in Answer
        BY <2>1 DEF Inv, LoopType, Quiet, Interrupted, Lost, GoodKind
    <3>2. coordinate.host \in Host /\ artifact[coordinate.host] # None
        BY <2>1, <3>1, NoneDiffers DEF Inv, Read, RequestType
    <3> QED  BY <3>2, <1>3 DEF Inv, RequestType, RequestTypeOK
  <2> QED
      BY <2>1, <1>2
      DEF Inv, Read, HostStep, loopVars, streamVars
<1>7. Answers'
  <2>1. ASSUME Recorded, coordinate # None
        PROVE  artifact'[coordinate.host] = artifact[coordinate.host]
      BY <2>1, <1>3, RecordedIsDone DEF Inv, RequestType
  <2> QED
      BY <2>1, <1>2
      DEF Inv, Answers, Recorded, Settlement, HostStep, loopVars, attemptVars,
          streamVars, checkpointVars
<1> QED  BY <1>1, <1>4, <1>5, <1>6, <1>7 DEF Inv

-----------------------------------------------------------------------------
LEMMA InitHolds == ASSUME Init  PROVE Inv
<1>1. RequestType /\ FileType /\ LoopType
    BY BoundsAssumption
    DEF Init, RequestInit, RunInit, RequestType, RequestTypeOK, FileType,
        Journaled, LoopType
<1>2. CheckpointType
    BY BoundsAssumption DEF Init, RunInit, CheckpointType, Round
<1> QED
    BY <1>1, <1>2, BoundsAssumption
    DEF Init, RequestInit, RunInit, Inv, DoubtIsFenced, InDoubt, TotalsAgree,
        Unsettled, AtHost, Begun, Read, Answers, Progress, Disposed, Calm, Stage,
        Over, Recorded, Round

LEMMA StutterKeeps == ASSUME Inv, UNCHANGED vars  PROVE Inv'
<1>1. RequestType' /\ DoubtIsFenced' /\ CheckpointType' /\ Disposed' /\ Calm' /\ FileType'
    BY FrameRequest, FrameCheckpoint, FrameFiles DEF vars
<1> QED
    BY <1>1
    DEF Inv, LoopType, TotalsAgree, Unsettled, AtHost, Begun, Read, Answers,
        Progress, Over, Recorded, Committed, Settlement, vars, loopVars,
        attemptVars, streamVars, checkpointVars, requestVars

LEMMA StepKeeps == ASSUME Inv, [Next]_vars  PROVE Inv'
<1>1. ASSUME LoopStep  PROVE Inv'
    BY <1>1, ResumeLostKeeps, UnresolvedKeeps, ReopenKeeps, StartKeeps,
       StartFailsKeeps, PrepareKeeps, PrepareRefusedKeeps, DeliverKeeps,
       ReplayKeeps, FirstEventKeeps, ReadEndKeeps, AuthRefreshKeeps, ObserveKeeps,
       RecordCandidateKeeps, KnownCandidateKeeps, ResolveKeeps, RecordRoundKeeps,
       BeginEffectsKeeps, ActKeeps, CallToolsKeeps, ToolsReturnKeeps, AssessKeeps,
       CompleteKeeps, SettleTerminalKeeps, EndRunKeeps DEF LoopStep
<1>2. ASSUME Next, ~LoopStep  PROVE Inv'
    BY <1>2, InterruptKeeps, CancelKeeps, NewRunKeeps, CrashKeeps, RecoverKeeps,
       GiveUpKeeps, HostStepKeeps DEF Next
<1> QED  BY <1>1, <1>2, StutterKeeps

\* The invariant holds of every run, whatever the constants are.
THEOREM Invariance == Spec => []Inv
<1>1. Init => Inv
    BY InitHolds
<1>2. Inv /\ [Next]_vars => Inv'
    BY StepKeeps
<1> QED  BY <1>1, <1>2, PTL DEF Spec

\* Every variable keeps its type: the checkpoint's round is the loop's, and its
\* settlement, once there, is complete.
THEOREM Types == Spec => []TypeOK
<1>1. Inv => TypeOK
    BY DEF Inv, RequestType, CheckpointType, FileType, LoopType, TypeOK
<1> QED  BY <1>1, Invariance, PTL

\* Whatever crashes, at most one request of the thread is in doubt, the one the
\* coordinate names.
THEOREM Fenced == Spec => []DoubtIsFenced
<1>1. Inv => DoubtIsFenced
    BY DEF Inv
<1> QED  BY <1>1, Invariance, PTL

\* What the client is told of the usage is what is settled and what is recorded.
THEOREM ChargedOnce == Spec => []TotalsAgree
<1>1. Inv => TotalsAgree
    BY DEF Inv
<1> QED  BY <1>1, Invariance, PTL

-----------------------------------------------------------------------------
\* Only the commit frame sends a request.
LEMMA OnlyDeliverSends ==
  ASSUME Inv, [Next]_vars, ~Deliver, NEW n \in Host, host'[n] = "sent"
  PROVE  host[n] = "sent"
<1>1. ASSUME NEW m \in Host, Release(m)  PROVE host[n] = "sent"
    BY <1>1 DEF Inv, RequestType, RequestTypeOK, Release, AfterStop
<1>2. CASE UNCHANGED requestVars
    BY <1>2 DEF requestVars
<1>3. CASE Start
    BY <1>3 DEF Start, StartHost, Inv, RequestType, RequestTypeOK
<1>4. CASE PrepareRefused \/ ReadEnd \/ Interrupt \/ Cancel
  <2>1. served \in Host \/ UNCHANGED requestVars
      BY <1>4, NoneDiffers
      DEF Inv, RequestType, AtHost, PrepareRefused, ReadEnd, Interrupt, Cancel
  <2>2. Release(served) \/ UNCHANGED requestVars
      BY <1>4 DEF PrepareRefused, ReadEnd, Interrupt, Cancel
  <2> QED  BY <2>1, <2>2, <1>1, <1>2
<1>5. CASE GiveUp
    BY <1>5 DEF GiveUp, Abandon, Inv, RequestType, RequestTypeOK
<1>6. ASSUME NEW m \in Host, HostStep(m)  PROVE host[n] = "sent"
    BY <1>6 DEF HostStep, HostDies, HostAnswers, Inv, RequestType, RequestTypeOK
<1>7. CASE UNCHANGED vars
    BY <1>2, <1>7 DEF vars
<1> QED
    BY <1>2, <1>3, <1>4, <1>5, <1>6, <1>7
    DEF Next, LoopStep, ResumeLost, Unresolved, Reopen, StartFails, Prepare,
        Replay, FirstEvent, AuthRefresh, Observe, RecordCandidate, KnownCandidate,
        Resolve, RecordRound, BeginEffects, Act, CallTools, ToolsReturn, Assess,
        Complete, SettleTerminal, EndRun, NewRun, Crash, Recover

\* A request is not sent for a round whose answer is recorded.
THEOREM NotAskedAgain == Spec => AnsweredIsNotAsked
<1>1. ASSUME Inv, [Next]_vars, NEW n \in Host, host[n] = "idle", host'[n] = "sent"
      PROVE  active.settlement = None
  <2>1. Deliver
      BY <1>1, OnlyDeliverSends
  <2>2. n = coordinate.host /\ coordinate # None /\ active # None
      BY <1>1, <2>1
      DEF Inv, AtHost, Begun, Deliver, Commit, RequestType, RequestTypeOK
  <2> QED  BY <1>1, <2>2, RecordedIsDone DEF Recorded, Settlement
<1>2. Inv /\ [Next]_vars =>
        [\A n \in Host : host[n] = "idle" /\ host'[n] = "sent" =>
                         active.settlement = None]_vars
    BY <1>1
<1> QED  BY <1>2, Invariance, PTL DEF Spec, AnsweredIsNotAsked

-----------------------------------------------------------------------------
(* The refinement.                                                         *)

LEMMA LedgerStutter ==
  ASSUME UNCHANGED <<nextRound, settledUsage, status, effects>>, Stage' = Stage
  PROVE  UNCHANGED Ledger!vars
BY DEF Ledger!vars

LEMMA LedgerFrame ==
  ASSUME UNCHANGED <<checkpointVars, effects>>  PROVE UNCHANGED Ledger!vars
BY LedgerStutter DEF checkpointVars, Stage, Settlement

LEMMA LedgerStep ==
  ASSUME Inv, [Next]_vars  PROVE [Ledger!Next]_(Ledger!vars)
<1>1. Inv'
    BY StepKeeps
<1>2. CASE Prepare
  <2>1. Stage' = Stage
      BY <1>1, <1>2, NoneDiffers
      DEF Prepare, RecordPrepared, MayReplace, Stage, Settlement, Inv,
          CheckpointType
  <2> QED  BY <1>2, <2>1, LedgerStutter DEF Prepare
<1>3. CASE FirstEvent \/ Observe
  <2>1. Stage' = Stage
    <3>1. active \in ActiveRound
        BY <1>3 DEF FirstEvent, Observe, Inv, Begun, CheckpointType
    <3>2. PICK p \in DOMAIN PhaseOrder : active' = AtLeast(p)
        BY <1>3 DEF FirstEvent, Observe, PhaseOrder
    <3>3. active' \in ActiveRound /\ active'.settlement = active.settlement
        BY <3>1, <3>2, Phasing
    <3> QED  BY <3>1, <3>3, NoneDiffers DEF Stage, Settlement
  <2> QED  BY <1>3, <2>1, LedgerStutter DEF FirstEvent, Observe
<1>4. CASE RecordCandidate
  <2>1. Stage = "open" /\ Stage' = "answered"
    <3>1. active # None /\ active' # None /\ Candidate(answer) # None
        BY <1>4, Recording, NoneDiffers
    <3>2. active.settlement = None /\ active'.settlement = Candidate(answer)
        BY <1>4, Recording DEF RecordCandidate, Settlement
    <3> QED  BY <3>1, <3>2 DEF Stage, Settlement, Candidate
  <2> QED  BY <1>4, <2>1 DEF RecordCandidate, Inv, Over, Failure, Ledger!Next, Ledger!Find
<1>5. CASE BeginEffects
  <2>1. Stage = "answered" /\ Stage' = "acting"
      BY <1>1, <1>5, NoneDiffers
      DEF BeginEffects, Stage, Settlement, Recorded, Inv, Progress,
          CheckpointType, ActiveRound, Settled
  <2> QED  BY <1>5, <2>1 DEF BeginEffects, Inv, Over, Failure, Ledger!Next, Ledger!Begin
<1>6. CASE Act
  <2>1. Stage = "acting" /\ Stage' = "acting" /\ effects[nextRound] = 0
      BY <1>6 DEF Act, Stage, Settlement, Recorded, Inv, Progress, checkpointVars
  <2>2. effects'[nextRound'] = 1 /\ nextRound' = nextRound
      BY <1>6, <2>1 DEF Act, Inv, FileType, CheckpointType, checkpointVars
  <2> QED
      BY <1>6, <2>1, <2>2
      DEF Act, Inv, Over, Failure, Ledger!Next, Ledger!Act, checkpointVars
<1>7. CASE Assess \/ SettleTerminal
  <2>1. active' = active /\ settledUsage' = settledUsage => Stage' = Stage
      BY DEF Stage, Settlement
  <2>2. \/ active' = active /\ settledUsage' = settledUsage
        \/ /\ Stage \in {"answered", "acting"} /\ Stage' \in {"continue", "terminal"}
           /\ settledUsage' = settledUsage + 1
    <3>1. active \in ActiveRound /\ active.settlement \in Settled
        BY <1>7 DEF Assess, SettleTerminal, Inv, Progress, Recorded, Settlement,
                    CheckpointType, ActiveRound
    <3>2. Committed \/ Stage \in {"answered", "acting"}
        BY <3>1, NoneDiffers DEF Committed, Stage, Settlement, Settled
    <3>3. Committed => SettleTerminal
        BY <1>7 DEF Assess, Inv, Progress, Committed
    <3>4. \/ active' = active /\ settledUsage' = settledUsage
          \/ /\ ~Committed
             /\ \E d \in {"continue", "terminal"}, why \in Failure \cup {"none"},
                   nudge \in SUBSET Item : SettleAs(d, nudge, why)
      <4>1. {<<"nudge", nextRound>>} \in SUBSET Item
          BY DEF Inv, CheckpointType, Item
      <4> QED
          BY <1>7, <3>3, <4>1
          DEF Assess, SettleTerminal, AlreadySettled, Inv, LoopType
    <3> QED
        BY <3>1, <3>2, <3>4, Settling, NoneDiffers DEF Stage, Settlement
  <2> QED
      BY <1>7, <2>1, <2>2, LedgerStutter
      DEF Assess, SettleTerminal, Inv, Over, Failure, Ledger!Next, Ledger!Settle
<1>8. CASE Complete
  <2>1. Stage = "continue" /\ Stage' = "open" /\ nextRound + 1 \in Round
      BY <1>8 DEF Complete, Stage, Settlement, Committed, Recorded, Inv, Progress,
                  Disposed
  <2>2. effects'[nextRound'] = 0
      BY <1>8, <2>1 DEF Complete, Inv, Calm, CheckpointType, Round
  <2> QED
      BY <1>8, <2>1, <2>2
      DEF Complete, Inv, Over, Failure, Ledger!Next, Ledger!Advance
<1>9. CASE EndRun
  <2>1. Stage' = Stage
      BY <1>9 DEF EndRun, Stage, Settlement
  <2>2. status = "running" /\ status' \in {"done"} \cup Failure
      BY <1>9 DEF EndRun, Inv, Over, LoopType
  <2>3. status' = "done" => Stage = "terminal"
      BY <1>9 DEF EndRun, Inv, Over, LoopType, Failure, Stage, Settlement, Committed
  <2> QED
      BY <1>9, <2>1, <2>2, <2>3 DEF EndRun, Failure, Ledger!Next, Ledger!End
<1>10. CASE NewRun
  <2>1. Stage' = "open" /\ effects'[nextRound'] = 0 /\ status # "running"
      BY <1>10, BoundsAssumption DEF NewRun, Stage, Round, Inv, Over
  <2> QED
      BY <1>10, <2>1
      DEF NewRun, Inv, CheckpointType, Failure, Ledger!Next, Ledger!NewRun,
          Ledger!Fresh
<1>11. CASE UNCHANGED <<checkpointVars, effects>>
    BY <1>11, LedgerFrame
<1> QED
    BY <1>2, <1>3, <1>4, <1>5, <1>6, <1>7, <1>8, <1>9, <1>10, <1>11
    DEF Next, LoopStep, ResumeLost, Unresolved, Reopen, Start, StartFails,
        PrepareRefused, Deliver, Replay, ReadEnd, AuthRefresh, KnownCandidate,
        Resolve, RecordRound, CallTools, ToolsReturn, Interrupt, Cancel, Crash,
        Recover, GiveUp, HostStep, vars

\* The rounds keep the ledger: an answer is charged once, effects are begun
\* before they happen and happen once, a settled round stays settled, and a run
\* is done only on a settled final answer.
THEOREM LedgerKept == Spec => KeepsLedger
<1>1. Init => Ledger!Fresh
    BY BoundsAssumption DEF Init, RunInit, Ledger!Fresh, Stage, Round, Failure
<1>2. Inv /\ [Next]_vars => [Ledger!Next]_(Ledger!vars)
    BY LedgerStep
<1> QED  BY <1>1, <1>2, Invariance, PTL DEF Spec, KeepsLedger, Ledger!Spec
=============================================================================
