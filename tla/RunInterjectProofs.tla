-------------------------- MODULE RunInterjectProofs --------------------------
(***************************************************************************)
(* Proofs about RunInterject for any set of messages and any number of     *)
(* recoveries.                                                             *)
(***************************************************************************)
EXTENDS RunInterject, SequenceTheorems, FiniteSetTheorems,
        WellFoundedInduction, TLAPS

-----------------------------------------------------------------------------
\* What Without takes out is one element, the first with that number.

\* A set of positions has a least one.
LEMMA LeastPosition ==
  ASSUME NEW I, I \subseteq Nat, I # {}
  PROVE  Min(I) \in I
<1> DEFINE T == {1..i : i \in I}
<1>1. T \subseteq FiniteSubsetsOf(Nat)
  BY FS_Interval DEF FiniteSubsetsOf
<1>2. PICK X \in T : \A Y \in T : ~ (<<Y, X>> \in StrictSubsetOrdering(Nat))
  <2>1. IsWellFoundedOn(StrictSubsetOrdering(Nat), FiniteSubsetsOf(Nat))
    BY FS_StrictSubsetOrderingWellFounded
  <2>2. T # {} OBVIOUS
  <2> HIDE DEF T
  <2> QED BY <1>1, <2>1, <2>2, WFMin
<1>3. PICK x \in I : X = 1..x
  OBVIOUS
<1>4. ASSUME NEW y \in I PROVE x <= y
  <2>1. ~ (<<1..y, 1..x>> \in StrictSubsetOrdering(Nat))
    BY <1>2, <1>3
  <2>2. CASE y < x
    <3>1. 1..y \subseteq 1..x /\ x \in 1..x /\ x \notin 1..y
      BY <2>2
    <3> QED BY <2>1, <3>1 DEF StrictSubsetOrdering
  <2> QED BY <2>2
<1> QED
  BY <1>4 DEF Min

LEMMA WithoutRemoves ==
  ASSUME NEW S, NEW q \in Seq(S), NEW n
  PROVE  \/ Without(q, n) = q /\ \A i \in 1..Len(q) : q[i].seq # n
         \/ \E k \in 1..Len(q) : q[k].seq = n /\ Without(q, n) = RemoveAt(q, k)
<1> DEFINE I == {i \in 1..Len(q) : q[i].seq = n}
<1>1. CASE I = {}
  BY <1>1 DEF Without, RemoveFirstMatch
<1>2. CASE I # {}
  <2>1. Min(I) \in I
    BY <1>2, LeastPosition, I \subseteq Nat
  <2>2. Without(q, n) = RemoveAt(q, Min(I))
    BY <1>2 DEF Without, RemoveFirstMatch, SelectInSeq
  <2> QED BY <2>1, <2>2
<1> QED BY <1>1, <1>2

LEMMA RemoveAtElements ==
  ASSUME NEW S, NEW q \in Seq(S), NEW k \in 1..Len(q)
  PROVE  /\ RemoveAt(q, k) \in Seq(S)
         /\ Len(RemoveAt(q, k)) = Len(q) - 1
         /\ \A i \in 1..Len(q) - 1 :
              RemoveAt(q, k)[i] = IF i < k THEN q[i] ELSE q[i + 1]
<1> DEFINE a == SubSeq(q, 1, k - 1)
           b == SubSeq(q, k + 1, Len(q))
<1>0. Len(q) \in Nat /\ k \in Nat /\ 1 <= k /\ k <= Len(q)
  BY LenProperties
<1>1. a \in Seq(S) /\ Len(a) = k - 1 /\ \A i \in 1..k - 1 : a[i] = q[i]
  BY <1>0, SubSeqProperties
<1>2. b \in Seq(S) /\ Len(b) = Len(q) - k /\ \A i \in 1..Len(q) - k : b[i] = q[k + i]
  BY <1>0, SubSeqProperties
<1> HIDE DEF a, b
<1>3. /\ a \o b \in Seq(S) /\ Len(a \o b) = Len(a) + Len(b)
      /\ \A i \in 1..Len(a) + Len(b) :
           (a \o b)[i] = IF i <= Len(a) THEN a[i] ELSE b[i - Len(a)]
  BY <1>1, <1>2, ConcatProperties
<1>4. RemoveAt(q, k) = a \o b
  BY DEF RemoveAt, a, b
<1>5. Len(a) + Len(b) = Len(q) - 1
  BY <1>0, <1>1, <1>2
<1>6. ASSUME NEW i \in 1..Len(q) - 1
      PROVE  (a \o b)[i] = IF i < k THEN q[i] ELSE q[i + 1]
  <2>1. (a \o b)[i] = IF i <= Len(a) THEN a[i] ELSE b[i - Len(a)]
    BY <1>3, <1>5
  <2>2. CASE i < k
    <3>1. i \in 1..k - 1 /\ i <= Len(a)
      BY <1>0, <1>1, <2>2
    <3> QED BY <1>1, <2>1, <2>2, <3>1
  <2>3. CASE ~(i < k)
    <3>1. ~(i <= Len(a)) /\ i - (k - 1) \in 1..Len(q) - k /\ k + (i - (k - 1)) = i + 1
      BY <1>0, <1>1, <2>3
    <3>2. b[i - (k - 1)] = q[i + 1]
      BY <1>2, <3>1
    <3> QED BY <1>1, <2>1, <2>3, <3>1, <3>2
  <2> QED BY <2>2, <2>3
<1> QED
  BY <1>3, <1>4, <1>5, <1>6

\* It keeps the type of a queue and the order of its numbers.
LEMMA WithoutTyped ==
  ASSUME NEW S, NEW q \in Seq(S), NEW n
  PROVE  Without(q, n) \in Seq(S)
BY WithoutRemoves, RemoveAtElements

Rising(q) ==
  \A i, j \in DOMAIN q : i < j => q[i].seq < q[j].seq

\* Every element of what is left stood in the queue before.
LEMMA WithoutKeeps ==
  ASSUME NEW S, NEW q \in Seq(S), NEW n
  PROVE  \A i \in DOMAIN Without(q, n) : \E j \in DOMAIN q : Without(q, n)[i] = q[j]
<1>1. CASE Without(q, n) = q
  BY <1>1
<1>2. ASSUME NEW k \in 1..Len(q), Without(q, n) = RemoveAt(q, k)
      PROVE  \A i \in DOMAIN RemoveAt(q, k) : \E j \in DOMAIN q : RemoveAt(q, k)[i] = q[j]
  <2> DEFINE r == RemoveAt(q, k)
  <2>1. /\ r \in Seq(S) /\ Len(r) = Len(q) - 1
        /\ \A i \in 1..Len(q) - 1 : r[i] = IF i < k THEN q[i] ELSE q[i + 1]
    BY RemoveAtElements
  <2> HIDE DEF r
  <2>2. Len(q) \in Nat /\ DOMAIN q = 1..Len(q) /\ DOMAIN r = 1..Len(q) - 1
    BY <2>1, LenProperties
  <2>3. ASSUME NEW i \in 1..Len(q) - 1
        PROVE  \E j \in 1..Len(q) : r[i] = q[j]
    <3>1. i \in 1..Len(q) /\ i + 1 \in 1..Len(q)
      BY <2>2
    <3> QED BY <2>1, <3>1
  <2> QED BY <2>2, <2>3 DEF r
<1> QED BY <1>1, <1>2, WithoutRemoves

LEMMA WithoutRises ==
  ASSUME NEW q \in Seq(Item), NEW n, Rising(q)
  PROVE  Rising(Without(q, n))
<1>1. CASE Without(q, n) = q
  BY <1>1
<1>2. ASSUME NEW k \in 1..Len(q) PROVE Rising(RemoveAt(q, k))
  <2> DEFINE r == RemoveAt(q, k)
             at(i) == IF i < k THEN i ELSE i + 1
  <2>1. /\ r \in Seq(Item) /\ Len(r) = Len(q) - 1
        /\ \A i \in 1..Len(q) - 1 : r[i] = IF i < k THEN q[i] ELSE q[i + 1]
    BY RemoveAtElements
  <2> HIDE DEF r
  <2>2. SUFFICES ASSUME NEW i \in 1..Len(q) - 1, NEW j \in 1..Len(q) - 1, i < j
                 PROVE  r[i].seq < r[j].seq
    BY <2>1 DEF Rising, r
  <2>3. Len(q) \in Nat
    BY LenProperties
  <2>4. at(i) \in 1..Len(q) /\ at(j) \in 1..Len(q) /\ at(i) < at(j)
    BY <2>2, <2>3
  <2>5. r[i] = q[at(i)] /\ r[j] = q[at(j)]
    BY <2>1
  <2> QED BY <2>4, <2>5 DEF Rising
<1> QED BY <1>1, <1>2, WithoutRemoves

-----------------------------------------------------------------------------
\* The inductive invariant: the types, what the loop and the store's queue
\* carry, and the order of the numbers in the checkpoint, the message being
\* applied and the waiting ones apart.
Carried ==
  /\ pc \in {"enqueue", "claim", "append", "complete"} => cur \in Item
  /\ \A i \in DOMAIN asked : asked[i].kind = "enqueue" => asked[i].item \in Item

Ordered ==
  /\ \A i \in DOMAIN pending : pending[i].seq <= interjectSeq
  /\ Rising(pending)
  /\ applying # NoItem =>
       /\ applying.seq <= interjectSeq
       /\ \A i \in DOMAIN pending : applying.seq < pending[i].seq

Types == /\ BufferTypeOK /\ LoopTypeOK /\ CheckpointTypeOK /\ CallTypeOK
         /\ ClientTypeOK /\ RecoveryTypeOK

Inv == Types /\ Carried /\ Ordered /\ FlushHasReason

LEMMA NoItemIsNone == NoItem \notin Item
BY RunInterjectAssumption DEF NoItem, Item

LEMMA InitInv == Init => Inv
<1> SUFFICES ASSUME Init PROVE Inv
  OBVIOUS
<1> USE DEF Init, NoItem
<1>0. <<>> \in Seq(Item)
  BY EmptySeq
<1>1. BufferTypeOK /\ LoopTypeOK
  BY <1>0 DEF BufferTypeOK, LoopTypeOK
<1>2. CheckpointTypeOK
  BY DEF CheckpointTypeOK
<1>3. CallTypeOK
  BY DEF CallTypeOK
<1>4. ClientTypeOK /\ RecoveryTypeOK
  <2>1. NoListing \in [seq : Nat \cup {-1}, queue : Seq(Item)]
    BY <1>0 DEF NoListing
  <2> QED BY <2>1 DEF ClientTypeOK, RecoveryTypeOK
<1>5. Carried /\ Ordered /\ FlushHasReason
  BY DEF Carried, Ordered, Rising, FlushHasReason
<1> QED BY <1>1, <1>2, <1>3, <1>4, <1>5 DEF Inv, Types

\* What each party leaves alone.
LEMMA StoreFrame == Store => UNCHANGED OutsideStore
BY DEF Store, EnqueueInterject, ClaimInterject, CompleteInterject,
       CancelInterject, SettleRun, ClaimModelRound

LEMMA ClientFrame ==
  Client => UNCHANGED <<durableVars, recoveryVars, loopVars, drifted>>
BY DEF Client, Interject, InterjectAnswered, Cancel, CancelAnswered, Flush, Abort

LEMMA ExecutorFrame ==
  Executor => UNCHANGED <<clientVars, recoveryVars, drifted, status,
                          interjectSeq, applying, pending, entered>>
BY DEF Executor, RoundStarts, Enqueued, Claimed, AppendTranscript, Completed,
       RoundGoesOn, ToolCalls, ToolsDone, ResultResolved, RoundFails,
       LoopThrows, BufferCloses, SettleTerminal, SettleFailure, Settled,
       Elsewhere, durableVars

LEMMA RecoveryFrame == Recovery => UNCHANGED <<durableVars, clientVars>>
BY DEF Recovery, ListCheckpoint, RecoveryStarts, RoundClaimed, RecoveryRestores,
       RecoveryFails, Elsewhere

-----------------------------------------------------------------------------
\* The buffer.
LEMMA WithdrawnBuffer ==
  ASSUME BufferTypeOK, FlushHasReason, NEW n, Withdrawn(n)
  PROVE  BufferTypeOK' /\ FlushHasReason'
<1>1. items' \in Seq(Item)
  BY WithoutTyped DEF Withdrawn, BufferTypeOK
<1>2. BufferTypeOK'
  BY <1>1 DEF Withdrawn, BufferTypeOK
<1> QED BY <1>2 DEF Withdrawn, FlushHasReason, BufferTypeOK

LEMMA CancelledBuffer ==
  ASSUME BufferTypeOK, FlushHasReason, NEW n, CancelPending(n)
  PROVE  BufferTypeOK' /\ FlushHasReason'
<1>1. CASE Withdrawn(n)
  BY <1>1, WithdrawnBuffer
<1>2. CASE UNCHANGED bufferVars
  BY <1>2 DEF bufferVars, BufferTypeOK, FlushHasReason
<1> QED BY <1>1, <1>2 DEF CancelPending

LEMMA SameBuffer ==
  BufferTypeOK /\ FlushHasReason /\ UNCHANGED bufferVars
    => BufferTypeOK' /\ FlushHasReason'
BY DEF bufferVars, BufferTypeOK, FlushHasReason

LEMMA LeavesBuffer ==
  Leaves => BufferTypeOK' /\ FlushHasReason'
<1> SUFFICES ASSUME Leaves PROVE BufferTypeOK' /\ FlushHasReason'
  OBVIOUS
<1>1. items' \in Seq(Item) /\ received' \in Nat
  BY EmptySeq DEF Leaves
<1>2. ~ accepting' /\ ~ flushRequested' /\ ~ undelivered'
  BY DEF Leaves
<1>3. {accepting', flushRequested', undelivered'} \subseteq BOOLEAN
  BY DEF Leaves
<1> QED BY <1>1, <1>2, <1>3 DEF BufferTypeOK, FlushHasReason

LEMMA ClientBuffer ==
  ASSUME Types, FlushHasReason, Client
  PROVE  BufferTypeOK' /\ FlushHasReason'
<1> USE DEF Types
<1>1. ASSUME NEW m \in Message, Interject(m)
      PROVE  BufferTypeOK' /\ FlushHasReason'
  <2>1. [seq |-> received + 1, msg |-> m] \in Item
    BY DEF BufferTypeOK, Item
  <2>2. items' \in Seq(Item) /\ items' # <<>>
    BY <1>1, <2>1, AppendProperties DEF Interject, BufferTypeOK
  <2> QED BY <1>1, <2>2 DEF Interject, BufferTypeOK, FlushHasReason
<1>2. ASSUME NEW m \in Message, InterjectAnswered(m)
      PROVE  BufferTypeOK' /\ FlushHasReason'
  <2>1. CancelPending(mine[m]) \/ UNCHANGED bufferVars
    BY <1>2 DEF InterjectAnswered
  <2> QED BY <2>1, CancelledBuffer, SameBuffer
<1>3. ASSUME NEW m \in Message, CancelAnswered(m)
      PROVE  BufferTypeOK' /\ FlushHasReason'
  <2>1. CancelPending(mine[m]) \/ UNCHANGED bufferVars
    BY <1>3 DEF CancelAnswered
  <2> QED BY <2>1, CancelledBuffer, SameBuffer
<1>4. ASSUME NEW m \in Message, Cancel(m)
      PROVE  BufferTypeOK' /\ FlushHasReason'
  BY <1>4, SameBuffer DEF Cancel
<1>5. CASE Flush
  BY <1>5 DEF Flush, BufferTypeOK, FlushHasReason
<1>6. CASE Abort
  BY <1>6, SameBuffer DEF Abort
<1> QED BY <1>1, <1>2, <1>3, <1>4, <1>5, <1>6 DEF Client

LEMMA ExecutorBuffer ==
  ASSUME Types, FlushHasReason, Executor
  PROVE  BufferTypeOK' /\ FlushHasReason'
<1> USE DEF Types
<1>1. ASSUME \/ ToolCalls \/ ToolsDone \/ AppendTranscript \/ LoopThrows
             \/ SettleTerminal
      PROVE  UNCHANGED bufferVars
  BY <1>1 DEF ToolCalls, ToolsDone, AppendTranscript, LoopThrows, SettleTerminal
<1>2. CASE SettleFailure \/ Settled
  BY <1>2, SameBuffer, LeavesBuffer DEF SettleFailure, Settled
<1>3. CASE Enqueued \/ Claimed
  BY <1>3, SameBuffer, WithdrawnBuffer DEF Enqueued, Claimed
<1>4. CASE Completed
  <2>1. Without(items, cur.seq) \in Seq(Item)
    BY WithoutTyped DEF BufferTypeOK
  <2> QED BY <1>4, <2>1, SameBuffer
          DEF Completed, BufferTypeOK, FlushHasReason
<1>5. CASE RoundStarts
  <2>1. UNCHANGED <<items, received, flushRequested>>
    BY <1>5 DEF RoundStarts, bufferVars
  <2>2. undelivered' \in BOOLEAN /\ (undelivered' => undelivered)
    <3>1. undelivered' = FALSE \/ undelivered' = undelivered
      BY <1>5 DEF RoundStarts, ModelListens, bufferVars
    <3>2. CASE undelivered' = FALSE
      BY <3>2
    <3>3. CASE undelivered' = undelivered
      BY <3>3 DEF BufferTypeOK
    <3> QED BY <3>1, <3>2, <3>3
  <2>3. accepting' \in BOOLEAN
    BY <1>5 DEF RoundStarts, bufferVars, BufferTypeOK
  <2> QED BY <2>1, <2>2, <2>3 DEF BufferTypeOK, FlushHasReason
<1>6. CASE RoundGoesOn \/ BufferCloses
  <2>1. UNCHANGED <<items, received, flushRequested>>
    BY <1>6 DEF RoundGoesOn, BufferCloses
  <2>2. undelivered' \in BOOLEAN /\ (undelivered' => undelivered)
    <3>1. undelivered' = FALSE \/ undelivered' = undelivered
      BY <1>6 DEF RoundGoesOn, BufferCloses, ModelListens
    <3>2. CASE undelivered' = FALSE
      BY <3>2
    <3>3. CASE undelivered' = undelivered
      BY <3>3 DEF BufferTypeOK
    <3> QED BY <3>1, <3>2, <3>3
  <2>3. accepting' \in BOOLEAN
    BY <1>6 DEF RoundGoesOn, BufferCloses, BufferTypeOK
  <2> QED BY <2>1, <2>2, <2>3 DEF BufferTypeOK, FlushHasReason
<1>7. CASE ResultResolved \/ RoundFails
  <2>1. accepting' \in {accepting, FALSE}
    BY <1>7 DEF ResultResolved, RoundFails
  <2>2. UNCHANGED <<items, received, flushRequested, undelivered>>
    BY <1>7 DEF ResultResolved, RoundFails
  <2> QED BY <2>1, <2>2 DEF BufferTypeOK, FlushHasReason
<1> QED BY <1>1, <1>2, <1>3, <1>4, <1>5, <1>6, <1>7, SameBuffer DEF Executor

LEMMA RecoveryBuffer ==
  ASSUME Types, FlushHasReason, Recovery
  PROVE  BufferTypeOK' /\ FlushHasReason'
<1> USE DEF Types
<1>1. CASE RecoveryRestores
  <2>1. listed.queue \in Seq(Item) /\ listed.seq \in Nat \cup {-1}
    BY DEF RecoveryTypeOK
  <2>2. items' \in Seq(Item) /\ Len(items') = Len(listed.queue) + Len(items)
    BY <1>1, <2>1, ConcatProperties
       DEF RecoveryRestores, Restored, BufferTypeOK
  <2>3. items # <<>> => items' # <<>>
    <3>1. Len(listed.queue) \in Nat /\ Len(items) \in Nat
      BY <2>1, LenProperties DEF BufferTypeOK
    <3>2. items # <<>> => Len(items) # 0
      BY EmptySeq DEF BufferTypeOK
    <3> QED BY <2>2, <3>1, <3>2
  <2>4. received' \in Nat
    BY <1>1, <2>1 DEF RecoveryRestores, Restored, BufferTypeOK
  <2> QED BY <1>1, <2>2, <2>3, <2>4
          DEF RecoveryRestores, BufferTypeOK, FlushHasReason
<1>2. CASE ListCheckpoint \/ RoundClaimed
  BY <1>2, SameBuffer DEF ListCheckpoint, RoundClaimed
<1>3. CASE RecoveryStarts
  BY <1>3 DEF RecoveryStarts, BufferTypeOK, FlushHasReason
<1>4. CASE RecoveryFails
  BY <1>4, LeavesBuffer DEF RecoveryFails
<1> QED BY <1>1, <1>2, <1>3, <1>4 DEF Recovery

LEMMA BufferStep ==
  ASSUME Inv, Next
  PROVE  BufferTypeOK' /\ FlushHasReason'
<1>1. CASE Store
  BY <1>1, StoreFrame, SameBuffer DEF OutsideStore, Inv, Types
<1>2. CASE Crash
  BY <1>2, LeavesBuffer DEF Crash
<1> QED BY <1>1, <1>2, ClientBuffer, ExecutorBuffer, RecoveryBuffer
        DEF Next, Inv

-----------------------------------------------------------------------------
\* The loop.
LEMMA LoopStep ==
  ASSUME Inv, Next
  PROVE  /\ LoopTypeOK'
         /\ pc' \in {"enqueue", "claim", "append", "complete"} => cur' \in Item
<1> USE DEF Inv, Types
<1>1. CASE UNCHANGED <<aborted, loopVars>>
  BY <1>1 DEF loopVars, LoopTypeOK, Carried
<1>2. CASE Leaves
  BY <1>2 DEF Leaves, LoopTypeOK
<1>3. CASE Client
  BY <1>3, ClientFrame, <1>1 DEF Client, Interject, InterjectAnswered, Cancel,
     CancelAnswered, Flush, Abort, loopVars, LoopTypeOK, Carried
<1>4. ASSUME aborted' = aborted,
             NEW p \in {"top", "claim", "append", "complete", "applied",
                        "model", "tools", "settle", "commit", "failed",
                        "commitFailure", "restoring"},
             p \in {"claim", "append", "complete"} => cur \in Item,
             Goes(p)
      PROVE  LoopTypeOK' /\ (p \in {"claim", "append", "complete"} => cur' \in Item)
  BY <1>4 DEF Goes, LoopTypeOK
<1>5. ASSUME aborted' = aborted, NEW how \in {"done", "error", "aborted"}, Ends(how)
      PROVE  LoopTypeOK' /\ pc' = "ending"
  BY <1>5 DEF Ends, LoopTypeOK
<1>6. ASSUME aborted' = aborted, Throws
      PROVE  LoopTypeOK' /\ pc' = "failed"
  BY <1>6 DEF Throws, LoopTypeOK
<1>7. CASE RoundStarts
  <2>1. aborted' = aborted
    BY <1>7 DEF RoundStarts, Elsewhere
  <2>2. CASE items # <<>> /\ pc' = "enqueue" /\ cur' = Head(items) /\ outcome' = outcome
    <3>1. cur' \in Item
      BY <2>2, HeadTailProperties DEF BufferTypeOK
    <3> QED BY <2>1, <2>2, <3>1 DEF LoopTypeOK
  <2>3. CASE Ends("aborted")
    BY <1>5, <2>1, <2>3
  <2>4. CASE Goes("model")
    BY <1>4, <2>1, <2>4 DEF Goes
  <2> QED BY <1>7, <2>2, <2>3, <2>4 DEF RoundStarts, ModelListens
<1>8. CASE Enqueued
  <2>1. aborted' = aborted /\ cur \in Item
    BY <1>8 DEF Enqueued, Elsewhere, Carried
  <2>2. Goes("claim") \/ Goes("applied") \/ Throws
    BY <1>8 DEF Enqueued
  <2> QED BY <1>4, <1>6, <2>1, <2>2 DEF Goes
<1>9. CASE Claimed
  <2>1. aborted' = aborted /\ cur \in Item
    BY <1>9 DEF Claimed, Elsewhere, Carried
  <2>2. Goes("append") \/ Goes("applied") \/ Throws
    BY <1>9 DEF Claimed
  <2> QED BY <1>4, <1>6, <2>1, <2>2 DEF Goes
<1>10. CASE AppendTranscript
  <2>1. aborted' = aborted /\ cur \in Item
    BY <1>10 DEF AppendTranscript, Carried
  <2> QED BY <1>4, <1>10, <2>1 DEF AppendTranscript, Goes
<1>11. CASE Completed \/ RoundGoesOn \/ ToolCalls \/ ToolsDone \/ BufferCloses
  <2>1. aborted' = aborted
    BY <1>11 DEF Completed, RoundGoesOn, ToolCalls, ToolsDone, BufferCloses,
                 Elsewhere
  <2>2. \/ Goes("applied") \/ Goes("model") \/ Goes("tools") \/ Goes("top")
        \/ Goes("settle") \/ Throws
    BY <1>11 DEF Completed, RoundGoesOn, ToolCalls, ToolsDone, BufferCloses,
                 ModelListens
  <2> QED BY <1>4, <1>6, <2>1, <2>2 DEF Goes
<1>12. CASE ResultResolved \/ RoundFails \/ LoopThrows
  <2>1. aborted' = aborted
    BY <1>12 DEF ResultResolved, RoundFails, LoopThrows, Elsewhere
  <2>2. \/ Goes("top") \/ Ends("done") \/ Ends("aborted") \/ Ends("error") \/ Throws
    BY <1>12 DEF ResultResolved, RoundFails, LoopThrows
  <2> QED BY <1>4, <1>5, <1>6, <2>1, <2>2 DEF Goes
<1>13. CASE SettleTerminal
  <2>1. aborted' = aborted
    BY <1>13 DEF SettleTerminal, Elsewhere
  <2>2. Goes("commit") \/ Throws
    BY <1>13 DEF SettleTerminal, AskToSettle
  <2> QED BY <1>4, <1>6, <2>1, <2>2 DEF Goes
<1>14. CASE SettleFailure
  <2>1. Leaves \/ (aborted' = aborted /\ Goes("commitFailure"))
    BY <1>14 DEF SettleFailure, AskToSettle
  <2> QED BY <1>2, <1>4, <2>1 DEF Goes, Leaves
<1>15. CASE Settled
  <2>1. Leaves \/ (aborted' = aborted /\ Goes("failed"))
    BY <1>15 DEF Settled
  <2> QED BY <1>2, <1>4, <2>1 DEF Goes, Leaves
<1>16. CASE Recovery
  <2>1. CASE ListCheckpoint
    BY <1>1, <2>1 DEF ListCheckpoint
  <2>2. CASE RecoveryStarts
    BY <2>2 DEF RecoveryStarts, LoopTypeOK
  <2>3. CASE RoundClaimed \/ RecoveryRestores
    <3>1. aborted' = aborted /\ (Goes("restoring") \/ Goes("top"))
      BY <2>3 DEF RoundClaimed, RecoveryRestores, Elsewhere
    <3> QED BY <1>4, <3>1 DEF Goes
  <2>4. CASE RecoveryFails
    BY <1>2, <2>4 DEF RecoveryFails, Leaves
  <2> QED BY <1>16, <2>1, <2>2, <2>3, <2>4 DEF Recovery
<1>17. CASE Store
  BY <1>1, <1>17, StoreFrame DEF OutsideStore
<1>18. CASE Crash
  BY <1>2, <1>18 DEF Crash, Leaves
<1> QED BY <1>3, <1>7, <1>8, <1>9, <1>10, <1>11, <1>12, <1>13, <1>14, <1>15,
           <1>16, <1>17, <1>18 DEF Next, Executor

-----------------------------------------------------------------------------
\* The store's queue and its answers.
Kinds == {"enqueue", "claim", "complete", "cancel", "settle", "discard", "round"}
Calls == [by : Caller, item : Item \cup {NoItem}, kind : Kinds]
Codes == {"none", "ok", "unchanged", "conflict", "busy", "not_pending",
          "terminal", "error"}
CallsOK == /\ CallTypeOK
           /\ \A i \in DOMAIN asked : asked[i].kind = "enqueue" => asked[i].item \in Item

LEMMA AskedCall ==
  ASSUME CallsOK, NEW c \in Caller, NEW kind \in Kinds, NEW item \in Item \cup {NoItem},
         kind = "enqueue" => item \in Item, Ask(c, kind, item),
         reply' \in [Caller -> Codes]
  PROVE  CallsOK'
<1> DEFINE call == [by |-> c, kind |-> kind, item |-> item]
<1>1. call \in Calls /\ call.kind = kind /\ call.item = item
  BY DEF Calls
<1> HIDE DEF call
<1>2. asked \in Seq(Calls) /\ asked' = Append(asked, call)
  BY DEF CallsOK, CallTypeOK, Calls, Kinds, Ask, call
<1>3. /\ asked' \in Seq(Calls) /\ Len(asked') = Len(asked) + 1
      /\ \A i \in 1..Len(asked) : asked'[i] = asked[i]
      /\ asked'[Len(asked) + 1] = call
  BY <1>1, <1>2, AppendProperties
<1>4. Len(asked) \in Nat /\ DOMAIN asked = 1..Len(asked)
      /\ DOMAIN asked' = 1..Len(asked) + 1
  BY <1>2, <1>3, LenProperties
<1>5. ASSUME NEW i \in DOMAIN asked', asked'[i].kind = "enqueue"
      PROVE  asked'[i].item \in Item
  <2>1. CASE i = Len(asked) + 1
    BY <1>1, <1>3, <1>5, <2>1
  <2>2. CASE i \in 1..Len(asked)
    BY <1>3, <1>4, <1>5, <2>2 DEF CallsOK
  <2> QED BY <1>4, <1>5, <2>1, <2>2
<1> QED BY <1>3, <1>5 DEF CallsOK, CallTypeOK, Calls, Kinds, Codes

LEMMA AnsweredCall ==
  ASSUME CallsOK, asked # <<>>, NEW code \in Codes, Answer(code)
  PROVE  CallsOK'
<1>1. asked \in Seq(Calls)
  BY DEF CallsOK, CallTypeOK, Calls, Kinds
<1>2. Head(asked) \in Calls /\ asked' \in Seq(Calls) /\ Len(asked') = Len(asked) - 1
      /\ \A i \in 1..Len(asked') : asked'[i] = asked[i + 1]
  BY <1>1, HeadTailProperties DEF Answer
<1>3. Len(asked) \in Nat /\ DOMAIN asked = 1..Len(asked)
      /\ DOMAIN asked' = 1..Len(asked) - 1
  BY <1>1, <1>2, LenProperties
<1>4. reply' \in [Caller -> Codes]
  BY <1>2 DEF Answer, CallsOK, CallTypeOK, Codes, Calls
<1>5. ASSUME NEW i \in DOMAIN asked', asked'[i].kind = "enqueue"
      PROVE  asked'[i].item \in Item
  <2>1. i \in 1..Len(asked') /\ i + 1 \in DOMAIN asked
    BY <1>2, <1>3
  <2> QED BY <1>2, <1>5, <2>1 DEF CallsOK
<1> QED BY <1>2, <1>4, <1>5 DEF CallsOK, CallTypeOK, Calls, Kinds, Codes

LEMMA ConsumedReply ==
  ASSUME CallTypeOK, NEW c \in Caller, Consumed(c)
  PROVE  reply' \in [Caller -> Codes]
BY DEF Consumed, CallTypeOK, Codes

LEMMA SameCalls ==
  CallsOK /\ asked' = asked /\ reply' \in [Caller -> Codes] => CallsOK'
BY DEF CallsOK, CallTypeOK, Codes

LEMMA StoreCalls ==
  ASSUME CallsOK, Store
  PROVE  CallsOK'
<1>1. asked # <<>>
  BY DEF Store, EnqueueInterject, ClaimInterject, CompleteInterject,
         CancelInterject, SettleRun, ClaimModelRound, Turn
<1>2. PICK code \in Codes : Answer(code)
  <2>1. CASE EnqueueInterject
    BY <2>1 DEF EnqueueInterject, Only, WriteFails, Codes
  <2>2. CASE ClaimInterject
    BY <2>2 DEF ClaimInterject, Only, WriteFails, Codes
  <2>3. CASE CompleteInterject
    BY <2>3 DEF CompleteInterject, Only, WriteFails, Codes
  <2>4. CASE CancelInterject
    BY <2>4 DEF CancelInterject, Only, WriteFails, Codes
  <2>5. CASE SettleRun
    BY <2>5 DEF SettleRun, Only, Codes
  <2>6. CASE ClaimModelRound
    BY <2>6 DEF ClaimModelRound, Only, Codes
  <2> QED BY <2>1, <2>2, <2>3, <2>4, <2>5, <2>6 DEF Store
<1> QED BY <1>1, <1>2, AnsweredCall

LEMMA CallStep ==
  ASSUME Inv, Next
  PROVE  CallsOK'
<1>0. CallsOK /\ Loop \in Caller /\ Message \subseteq Caller
      /\ reply \in [Caller -> Codes] /\ CallTypeOK
  BY DEF Inv, Types, Carried, CallsOK, Caller, CallTypeOK, Codes
<1>1. CASE UNCHANGED callVars
  BY <1>0, <1>1, SameCalls DEF callVars
<1>2. ASSUME NEW c \in Caller, Consumed(c), asked' = asked
      PROVE  CallsOK'
  BY <1>0, <1>2, SameCalls, ConsumedReply
<1>3. ASSUME NEW kind \in Kinds \ {"enqueue"}, NEW c \in Caller,
             NEW item \in Item \cup {NoItem}, Ask(c, kind, item),
             reply' \in [Caller -> Codes]
      PROVE  CallsOK'
  BY <1>0, <1>3, AskedCall
<1>4. ASSUME NEW c \in Caller, NEW item \in Item, Ask(c, "enqueue", item),
             reply' = reply
      PROVE  CallsOK'
  BY <1>0, <1>4, AskedCall DEF Kinds
<1>5. CASE Client
  <2>1. ASSUME NEW m \in Message, Interject(m)
        PROVE  CallsOK'
    <3>1. [seq |-> received + 1, msg |-> m] \in Item
      BY DEF Inv, Types, BufferTypeOK, Item
    <3> QED BY <1>0, <1>4, <2>1, <3>1 DEF Interject
  <2>2. ASSUME NEW m \in Message, InterjectAnswered(m) \/ CancelAnswered(m)
        PROVE  CallsOK'
    BY <1>0, <1>2, <2>2 DEF InterjectAnswered, CancelAnswered
  <2>3. ASSUME NEW m \in Message, Cancel(m)
        PROVE  CallsOK'
    <3>1. [seq |-> mine[m], msg |-> m] \in Item
      BY DEF Inv, Types, ClientTypeOK, Item
    <3> QED BY <1>0, <1>3, <2>3, <3>1 DEF Cancel, Kinds
  <2>4. CASE Flush \/ Abort
    BY <1>1, <2>4 DEF Flush, Abort, callVars
  <2> QED BY <1>5, <2>1, <2>2, <2>3, <2>4 DEF Client
<1>6. CASE Executor
  <2>1. CASE RoundStarts
    <3>1. CASE Ask(Loop, "enqueue", Head(items)) /\ items # <<>> /\ reply' = reply
      <4>1. Head(items) \in Item
        BY <3>1, HeadTailProperties DEF Inv, Types, BufferTypeOK
      <4> QED BY <1>0, <1>4, <3>1, <4>1
    <3> QED BY <1>1, <2>1, <3>1 DEF RoundStarts
  <2>2. CASE Enqueued
    <3>1. cur \in Item
      BY <2>2 DEF Enqueued, Inv, Carried
    <3>2. Consumed(Loop) /\ (Ask(Loop, "claim", cur) \/ asked' = asked)
      BY <2>2 DEF Enqueued
    <3> QED BY <1>0, <1>2, <1>3, <3>1, <3>2, ConsumedReply DEF Kinds
  <2>3. CASE Claimed \/ Completed \/ Settled
    BY <1>0, <1>2, <2>3 DEF Claimed, Completed, Settled
  <2>4. CASE AppendTranscript
    <3>1. cur \in Item
      BY <2>4 DEF AppendTranscript, Inv, Carried
    <3> QED BY <1>0, <1>3, <2>4, <3>1 DEF AppendTranscript, Kinds
  <2>5. CASE SettleTerminal \/ SettleFailure
    <3>1. reply' = reply
      BY <2>5 DEF SettleTerminal, SettleFailure
    <3>2. \/ asked' = asked
          \/ Ask(Loop, "discard", NoItem) \/ Ask(Loop, "settle", NoItem)
      BY <2>5 DEF SettleTerminal, SettleFailure, AskToSettle
    <3> QED BY <1>0, <1>1, <1>3, <3>1, <3>2 DEF Kinds, callVars
  <2>6. CASE \/ RoundGoesOn \/ ToolCalls \/ ToolsDone \/ ResultResolved
             \/ RoundFails \/ LoopThrows \/ BufferCloses
    BY <1>1, <2>6 DEF RoundGoesOn, ToolCalls, ToolsDone, ResultResolved,
                      RoundFails, LoopThrows, BufferCloses
  <2> QED BY <1>6, <2>1, <2>2, <2>3, <2>4, <2>5, <2>6 DEF Executor
<1>7. CASE Recovery
  <2>1. CASE RecoveryStarts
    BY <1>0, <1>3, <2>1 DEF RecoveryStarts, Kinds
  <2>2. CASE RoundClaimed \/ RecoveryFails
    BY <1>0, <1>2, <2>2 DEF RoundClaimed, RecoveryFails
  <2>3. CASE ListCheckpoint \/ RecoveryRestores
    BY <1>1, <2>3 DEF ListCheckpoint, RecoveryRestores
  <2> QED BY <1>7, <2>1, <2>2, <2>3 DEF Recovery
<1>8. CASE Crash
  <2>1. asked' = <<>> /\ reply' \in [Caller -> Codes]
    BY <1>8 DEF Crash, Codes
  <2>2. asked' \in Seq(Calls) /\ DOMAIN asked' = {}
    BY <2>1, EmptySeq
  <2> QED BY <2>1, <2>2 DEF CallsOK, CallTypeOK, Calls, Kinds, Codes
<1> QED BY <1>0, <1>5, <1>6, <1>7, <1>8, StoreCalls DEF Next

-----------------------------------------------------------------------------
\* The checkpoint.
CheckpointOK == CheckpointTypeOK /\ Ordered

LEMMA SameCheckpoint ==
  CheckpointOK /\ UNCHANGED durableVars => CheckpointOK'
BY DEF durableVars, CheckpointOK, CheckpointTypeOK, Ordered, Rising

LEMMA EnqueueOrdered ==
  ASSUME Inv, EnqueueInterject
  PROVE  CheckpointOK'
<1> DEFINE item == Head(asked).item
<1>0. CheckpointOK
  BY DEF Inv, Types, CheckpointOK
<1>1. CASE UNCHANGED durableVars
  BY <1>0, <1>1, SameCheckpoint
<1>2. CASE /\ pending' = Append(pending, item) /\ interjectSeq' = item.seq
           /\ item.seq = interjectSeq + 1 /\ entered' = entered \cup {item.msg}
           /\ UNCHANGED <<status, applying, transcript>>
  <2>1. item \in Item
    <3>1. asked \in Seq(Calls) /\ asked # <<>> /\ Head(asked).kind = "enqueue"
      BY DEF Inv, Types, CallTypeOK, Calls, Kinds, EnqueueInterject, Turn
    <3>2. 1 \in DOMAIN asked /\ Head(asked) = asked[1]
      BY <3>1, EmptySeq, LenProperties, HeadTailProperties
    <3> QED BY <3>1, <3>2 DEF Inv, Carried
  <2> HIDE DEF item
  <2>2. pending \in Seq(Item) /\ interjectSeq \in Nat
    BY <1>0 DEF CheckpointOK, CheckpointTypeOK
  <2>3. /\ pending' \in Seq(Item) /\ Len(pending') = Len(pending) + 1
        /\ \A i \in 1..Len(pending) : pending'[i] = pending[i]
        /\ pending'[Len(pending) + 1] = item
    BY <1>2, <2>1, <2>2, AppendProperties
  <2>4. Len(pending) \in Nat /\ DOMAIN pending = 1..Len(pending)
        /\ DOMAIN pending' = 1..Len(pending) + 1
    BY <2>2, <2>3, LenProperties
  <2>5. \A i \in 1..Len(pending) : pending[i].seq \in Nat /\ pending[i].seq <= interjectSeq
    <3>1. \A i \in 1..Len(pending) : pending[i] \in Item
      BY <2>2, <2>4
    <3> QED BY <1>0, <2>4, <3>1 DEF CheckpointOK, Ordered, Item
  <2>6. \A i \in DOMAIN pending' : pending'[i].seq <= interjectSeq'
    <3> SUFFICES ASSUME NEW i \in DOMAIN pending' PROVE pending'[i].seq <= interjectSeq'
      OBVIOUS
    <3>1. CASE i = Len(pending) + 1
      BY <1>2, <2>2, <2>3, <3>1
    <3>2. CASE i \in 1..Len(pending)
      BY <1>2, <2>2, <2>3, <2>5, <3>2
    <3> QED BY <2>4, <3>1, <3>2
  <2>7. Rising(pending')
    <3> SUFFICES ASSUME NEW i \in DOMAIN pending', NEW j \in DOMAIN pending', i < j
                 PROVE  pending'[i].seq < pending'[j].seq
      BY DEF Rising
    <3>1. i \in 1..Len(pending)
      BY <2>4
    <3>2. CASE j = Len(pending) + 1
      BY <1>2, <2>2, <2>3, <2>5, <3>1, <3>2
    <3>3. CASE j \in 1..Len(pending)
      BY <1>0, <2>3, <2>4, <3>1, <3>3 DEF CheckpointOK, Ordered, Rising
    <3> QED BY <2>4, <3>2, <3>3
  <2>8. applying' # NoItem =>
          /\ applying'.seq <= interjectSeq'
          /\ \A i \in DOMAIN pending' : applying'.seq < pending'[i].seq
    <3> SUFFICES ASSUME applying # NoItem
                 PROVE  /\ applying.seq <= interjectSeq'
                        /\ \A i \in DOMAIN pending' : applying.seq < pending'[i].seq
      BY <1>2
    <3>1. applying.seq \in Nat /\ applying.seq <= interjectSeq
      BY <1>0 DEF CheckpointOK, CheckpointTypeOK, Ordered, Item
    <3>2. ASSUME NEW i \in DOMAIN pending' PROVE applying.seq < pending'[i].seq
      <4>1. CASE i = Len(pending) + 1
        BY <1>2, <2>2, <2>3, <3>1, <4>1
      <4>2. CASE i \in 1..Len(pending)
        BY <1>0, <2>3, <2>4, <4>2 DEF CheckpointOK, Ordered
      <4> QED BY <2>4, <4>1, <4>2
    <3> QED BY <1>2, <2>2, <3>1, <3>2
  <2>9. interjectSeq' \in Nat /\ entered' \subseteq Message
    BY <1>0, <1>2, <2>1 DEF CheckpointOK, CheckpointTypeOK, Item
  <2> QED BY <1>0, <1>2, <2>3, <2>6, <2>7, <2>8, <2>9
          DEF CheckpointOK, CheckpointTypeOK, Ordered
<1> QED BY <1>1, <1>2 DEF EnqueueInterject, Only, WriteFails, Taken, TakesNext

LEMMA ClaimOrdered ==
  ASSUME CheckpointOK, ClaimInterject
  PROVE  CheckpointOK'
<1>1. CASE UNCHANGED durableVars
  BY <1>1, SameCheckpoint
<1>2. CASE /\ pending # <<>> /\ applying' = Head(pending) /\ pending' = Tail(pending)
           /\ UNCHANGED <<status, interjectSeq, transcript, entered>>
  <2>1. pending \in Seq(Item) /\ interjectSeq \in Nat
    BY DEF CheckpointOK, CheckpointTypeOK
  <2>2. /\ Head(pending) = pending[1] /\ Head(pending) \in Item
        /\ pending' \in Seq(Item) /\ Len(pending') = Len(pending) - 1
        /\ \A i \in 1..Len(pending') : pending'[i] = pending[i + 1]
    BY <1>2, <2>1, HeadTailProperties
  <2>3. /\ Len(pending) \in Nat /\ DOMAIN pending = 1..Len(pending)
        /\ Len(pending) # 0 /\ DOMAIN pending' = 1..Len(pending) - 1
    BY <1>2, <2>1, <2>2, EmptySeq, LenProperties
  <2>4. \A i \in DOMAIN pending' : /\ pending'[i] = pending[i + 1]
                                   /\ i + 1 \in DOMAIN pending /\ 1 < i + 1
    BY <2>2, <2>3
  <2>5. 1 \in DOMAIN pending
    BY <2>3
  <2>6. \A i \in DOMAIN pending' : applying'.seq < pending'[i].seq
    BY <1>2, <2>2, <2>4, <2>5 DEF CheckpointOK, Ordered, Rising
  <2>7. applying'.seq <= interjectSeq' /\ applying' \in Item
    BY <1>2, <2>2, <2>5 DEF CheckpointOK, Ordered
  <2>8. \A i \in DOMAIN pending' : pending'[i].seq <= interjectSeq'
    BY <1>2, <2>4 DEF CheckpointOK, Ordered
  <2>9. Rising(pending')
    <3> SUFFICES ASSUME NEW i \in DOMAIN pending', NEW j \in DOMAIN pending', i < j
                 PROVE  pending'[i].seq < pending'[j].seq
      BY DEF Rising
    <3>1. i + 1 < j + 1
      BY <2>3
    <3> QED BY <2>4, <3>1 DEF CheckpointOK, Ordered, Rising
  <2> QED BY <1>2, <2>2, <2>6, <2>7, <2>8, <2>9
          DEF CheckpointOK, CheckpointTypeOK, Ordered
<1> QED BY <1>1, <1>2 DEF ClaimInterject, Only, WriteFails

LEMMA CancelOrdered ==
  ASSUME CheckpointOK, CancelInterject
  PROVE  CheckpointOK'
<1> DEFINE n == Head(asked).item.seq
<1>1. CASE UNCHANGED durableVars
  BY <1>1, SameCheckpoint
<1>2. CASE /\ pending' = Without(pending, n)
           /\ applying' = IF applying.seq = n THEN NoItem ELSE applying
           /\ UNCHANGED <<status, interjectSeq, transcript, entered>>
  <2> HIDE DEF n
  <2>1. pending' \in Seq(Item) /\ Rising(pending')
    BY <1>2, WithoutTyped, WithoutRises
       DEF CheckpointOK, CheckpointTypeOK, Ordered
  <2>2. \A i \in DOMAIN pending' : \E j \in DOMAIN pending : pending'[i] = pending[j]
    BY <1>2, WithoutKeeps DEF CheckpointOK, CheckpointTypeOK
  <2>3. applying' = NoItem \/ applying' = applying
    BY <1>2
  <2>4. \A i \in DOMAIN pending' : pending'[i].seq <= interjectSeq'
    BY <1>2, <2>2 DEF CheckpointOK, Ordered
  <2>5. applying' # NoItem =>
          /\ applying'.seq <= interjectSeq'
          /\ \A i \in DOMAIN pending' : applying'.seq < pending'[i].seq
    BY <1>2, <2>2, <2>3 DEF CheckpointOK, Ordered
  <2> QED BY <1>2, <2>1, <2>3, <2>4, <2>5
          DEF CheckpointOK, CheckpointTypeOK, Ordered
<1> QED BY <1>1, <1>2 DEF CancelInterject, Only, WriteFails

LEMMA CheckpointStep ==
  ASSUME Inv, Next
  PROVE  CheckpointOK'
<1>0. CheckpointOK
  BY DEF Inv, Types, CheckpointOK
<1>1. CASE Store
  <2>1. CASE CompleteInterject
    <3>1. \/ UNCHANGED durableVars
          \/ /\ applying' = NoItem
             /\ UNCHANGED <<status, interjectSeq, pending, transcript, entered>>
      BY <2>1 DEF CompleteInterject, Only, WriteFails
    <3> QED BY <1>0, <3>1, SameCheckpoint
            DEF CheckpointOK, CheckpointTypeOK, Ordered, Rising
  <2>2. CASE SettleRun
    <3>1. CASE UNCHANGED durableVars
      BY <1>0, <3>1, SameCheckpoint
    <3>2. CASE /\ status' \in {"aborted", "settled"} /\ applying' = NoItem
               /\ pending' = <<>>
               /\ UNCHANGED <<interjectSeq, transcript, entered>>
      <4>1. pending' \in Seq(Item) /\ DOMAIN pending' = {}
        BY <3>2, EmptySeq
      <4> QED BY <1>0, <3>2, <4>1
              DEF CheckpointOK, CheckpointTypeOK, Ordered, Rising
    <3> QED BY <2>2, <3>1, <3>2 DEF SettleRun, Only
  <2>3. CASE ClaimModelRound
    BY <1>0, <2>3, SameCheckpoint DEF ClaimModelRound, Only
  <2> QED BY <1>0, <1>1, <2>1, <2>2, <2>3, EnqueueOrdered, ClaimOrdered,
             CancelOrdered DEF Store
<1>2. CASE Client
  BY <1>0, <1>2, ClientFrame, SameCheckpoint
<1>3. CASE Recovery
  BY <1>0, <1>3, RecoveryFrame, SameCheckpoint
<1>4. CASE Executor
  <2>1. UNCHANGED <<status, interjectSeq, applying, pending, entered>>
    BY <1>4, ExecutorFrame
  <2>2. transcript' \in Seq(Item)
    <3>1. CASE AppendTranscript
      <4>1. cur \in Item /\ transcript \in Seq(Item)
        BY <3>1 DEF AppendTranscript, Inv, Carried, Types, CheckpointTypeOK
      <4> QED BY <3>1, <4>1, AppendProperties DEF AppendTranscript
    <3>2. CASE ~AppendTranscript
      BY <1>0, <1>4, <3>2
         DEF Executor, RoundStarts, Enqueued, Claimed, Completed, RoundGoesOn,
             ToolCalls, ToolsDone, ResultResolved, RoundFails, LoopThrows,
             BufferCloses, SettleTerminal, SettleFailure, Settled, Elsewhere,
             durableVars, CheckpointOK, CheckpointTypeOK
    <3> QED BY <3>1, <3>2
  <2> QED BY <1>0, <2>1, <2>2 DEF CheckpointOK, CheckpointTypeOK, Ordered, Rising
<1>5. CASE Crash
  BY <1>0, <1>5, SameCheckpoint DEF Crash
<1> QED BY <1>1, <1>2, <1>3, <1>4, <1>5 DEF Next

-----------------------------------------------------------------------------
\* The client's side and recovery.
LEMMA ClientTypeStep ==
  ASSUME Inv, Next
  PROVE  ClientTypeOK'
<1> USE DEF Inv, Types
<1>1. CASE UNCHANGED clientVars
  BY <1>1 DEF clientVars, ClientTypeOK
<1>2. CASE Client
  <2>1. ASSUME NEW m \in Message, Interject(m)
        PROVE  ClientTypeOK'
    BY <2>1 DEF Interject, ClientTypeOK, BufferTypeOK
  <2>2. ASSUME NEW m \in Message,
               InterjectAnswered(m) \/ Cancel(m) \/ CancelAnswered(m)
        PROVE  ClientTypeOK'
    BY <2>2 DEF InterjectAnswered, Cancel, CancelAnswered, ClientTypeOK
  <2>3. CASE Flush \/ Abort
    BY <1>1, <2>3 DEF Flush, Abort
  <2> QED BY <1>2, <2>1, <2>2, <2>3 DEF Client
<1>3. CASE Crash
  BY <1>3 DEF Crash, ClientTypeOK
<1>4. CASE Store \/ Executor \/ Recovery
  BY <1>1, <1>4, StoreFrame, ExecutorFrame, RecoveryFrame DEF OutsideStore
<1> QED BY <1>2, <1>3, <1>4 DEF Next

LEMMA QueueTyped ==
  CheckpointTypeOK => Queue \in Seq(Item)
<1> SUFFICES ASSUME CheckpointTypeOK PROVE Queue \in Seq(Item)
  OBVIOUS
<1>1. pending \in Seq(Item) /\ <<>> \in Seq(Item)
  BY EmptySeq DEF CheckpointTypeOK
<1>2. CASE applying = NoItem
  BY <1>1, <1>2, ConcatProperties DEF Queue
<1>3. CASE applying # NoItem
  <2>1. <<applying>> \in Seq(Item)
    BY <1>3 DEF CheckpointTypeOK
  <2> QED BY <1>1, <1>3, <2>1, ConcatProperties DEF Queue
<1> QED BY <1>2, <1>3

LEMMA RecoveryTypeStep ==
  ASSUME Inv, Next
  PROVE  RecoveryTypeOK'
<1> USE DEF Inv, Types
<1>0. NoListing \in [seq : Nat \cup {-1}, queue : Seq(Item)]
  BY EmptySeq DEF NoListing
<1>1. CASE Store
  BY <1>1 DEF Store, EnqueueInterject, ClaimInterject, CompleteInterject,
              CancelInterject, SettleRun, ClaimModelRound, OutsideStore,
              recoveryVars, Only, WriteFails, RecoveryTypeOK
<1>2. CASE Client
  BY <1>2, ClientFrame DEF recoveryVars, RecoveryTypeOK
<1>3. CASE Executor
  BY <1>3, ExecutorFrame DEF recoveryVars, RecoveryTypeOK
<1>4. CASE Recovery
  <2>1. CASE ListCheckpoint
    <3>1. listed' \in [seq : Nat \cup {-1}, queue : Seq(Item)]
      BY <2>1, QueueTyped DEF ListCheckpoint, CheckpointTypeOK
    <3> QED BY <2>1, <3>1 DEF ListCheckpoint, RecoveryTypeOK
  <2>2. CASE RecoveryStarts
    BY <2>2 DEF RecoveryStarts, RecoveryTypeOK
  <2>3. CASE RoundClaimed
    BY <2>3 DEF RoundClaimed, Elsewhere, recoveryVars, RecoveryTypeOK
  <2>4. CASE RecoveryRestores
    <3>1. drifted' \in BOOLEAN
      BY <2>4 DEF RecoveryRestores
    <3> QED BY <1>0, <2>4, <3>1 DEF RecoveryRestores, RecoveryTypeOK
  <2>5. CASE RecoveryFails
    BY <1>0, <2>5 DEF RecoveryFails, RecoveryTypeOK
  <2> QED BY <1>4, <2>1, <2>2, <2>3, <2>4, <2>5 DEF Recovery
<1>5. CASE Crash
  BY <1>0, <1>5 DEF Crash, RecoveryTypeOK
<1> QED BY <1>1, <1>2, <1>3, <1>4, <1>5 DEF Next

-----------------------------------------------------------------------------
LEMMA NextInv == Inv /\ Next => Inv'
<1> SUFFICES ASSUME Inv, Next PROVE Inv'
  OBVIOUS
<1>1. BufferTypeOK' /\ FlushHasReason'
  BY BufferStep
<1>2. /\ LoopTypeOK'
      /\ pc' \in {"enqueue", "claim", "append", "complete"} => cur' \in Item
  BY LoopStep
<1>3. CallsOK'
  BY CallStep
<1>4. CheckpointOK'
  BY CheckpointStep
<1>5. ClientTypeOK' /\ RecoveryTypeOK'
  BY ClientTypeStep, RecoveryTypeStep
<1> QED BY <1>1, <1>2, <1>3, <1>4, <1>5 DEF Inv, Types, Carried, CallsOK, CheckpointOK

LEMMA StutterInv == Inv /\ UNCHANGED vars => Inv'
<1> SUFFICES ASSUME Inv, UNCHANGED vars PROVE Inv'
  OBVIOUS
<1> USE DEF Inv, Types, vars
<1>1. BufferTypeOK' /\ FlushHasReason'
  BY SameBuffer
<1>2. LoopTypeOK' /\ Carried'
  BY DEF loopVars, callVars, LoopTypeOK, Carried
<1>3. CheckpointTypeOK' /\ Ordered'
  BY SameCheckpoint DEF CheckpointOK
<1>4. CallTypeOK' /\ ClientTypeOK' /\ RecoveryTypeOK'
  BY DEF callVars, clientVars, recoveryVars, CallTypeOK, ClientTypeOK, RecoveryTypeOK
<1> QED BY <1>1, <1>2, <1>3, <1>4

\* The invariant holds in every run, for any set of messages and any number of
\* recoveries.
THEOREM InterjectInvariance == Spec => []Inv
<1>1. Inv /\ [Next]_vars => Inv'
  BY NextInv, StutterInv
<1> QED BY <1>1, InitInv, PTL DEF Spec

\* What the invariant says of the list the parser checks.
LEMMA OrderedParses == Types /\ Ordered => CheckpointParses
<1> SUFFICES ASSUME Types, Ordered PROVE CheckpointParses
  OBVIOUS
<1>1. pending \in Seq(Item)
  BY DEF Types, CheckpointTypeOK
<1>2. CASE applying = NoItem
  <2>1. Queue = pending
    BY <1>1, <1>2, ConcatEmptySeq DEF Queue
  <2> QED BY <2>1 DEF CheckpointParses, Ordered, Rising
<1>3. CASE applying # NoItem
  <2>1. applying \in Item /\ Queue = <<applying>> \o pending
    BY <1>3 DEF Types, CheckpointTypeOK, Queue
  <2>2. <<applying>> \in Seq(Item) /\ Len(<<applying>>) = 1 /\ <<applying>>[1] = applying
    BY <2>1
  <2>3. /\ Len(Queue) = 1 + Len(pending) /\ Queue \in Seq(Item)
        /\ \A i \in 1..1 + Len(pending) :
             Queue[i] = IF i <= 1 THEN <<applying>>[i] ELSE pending[i - 1]
    BY <1>1, <2>1, <2>2, ConcatProperties
  <2>4. Len(pending) \in Nat /\ DOMAIN pending = 1..Len(pending)
        /\ DOMAIN Queue = 1..1 + Len(pending)
    BY <1>1, <2>3, LenProperties
  <2>5. Queue[1] = applying
    BY <2>2, <2>3, <2>4
  <2>6. \A i \in DOMAIN Queue : i = 1 \/ (i - 1 \in DOMAIN pending /\ Queue[i] = pending[i - 1])
    BY <2>3, <2>4
  <2>7. \A i \in DOMAIN Queue : Queue[i].seq <= interjectSeq
    BY <1>3, <2>5, <2>6 DEF Ordered
  <2>8. ASSUME NEW i \in DOMAIN Queue, NEW j \in DOMAIN Queue, i < j
        PROVE  Queue[i].seq < Queue[j].seq
    <3>1. j # 1 /\ i \in Nat /\ j \in Nat
      BY <2>4, <2>8
    <3>2. j - 1 \in DOMAIN pending /\ Queue[j] = pending[j - 1]
      BY <2>6, <3>1
    <3>3. CASE i = 1
      BY <1>3, <2>5, <3>2, <3>3 DEF Ordered
    <3>4. CASE i # 1
      <4>1. i - 1 \in DOMAIN pending /\ Queue[i] = pending[i - 1] /\ i - 1 < j - 1
        BY <2>6, <2>8, <3>1, <3>4
      <4> QED BY <3>2, <4>1 DEF Ordered, Rising
    <3> QED BY <3>3, <3>4
  <2> QED BY <2>7, <2>8 DEF CheckpointParses
<1> QED BY <1>2, <1>3

\* Every variable keeps its type, and the checkpoint always parses: whatever the
\* client, the loop and the crashes do, no mutation writes interjects out of
\* order or past the count, on which the next read would throw.
THEOREM CheckpointAlwaysParses == Spec => []TypeOK
<1>1. Inv => TypeOK
  BY OrderedParses DEF Inv, Types, TypeOK
<1> QED BY <1>1, InterjectInvariance, PTL

\* A flush interrupt is never kept without a message that waits for it, so a
\* model round is not cut short for nothing.
THEOREM FlushKeepsItsReason == Spec => []FlushHasReason
<1>1. Inv => FlushHasReason
  BY DEF Inv
<1> QED BY <1>1, InterjectInvariance, PTL
=============================================================================
