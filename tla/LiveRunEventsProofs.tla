------------------------- MODULE LiveRunEventsProofs -------------------------
(***************************************************************************)
(* The invariants of LiveRunEvents and its refinement of DurableRunLog,    *)
(* proved for every number of sockets, events and attempts.                *)
(***************************************************************************)
EXTENDS LiveRunEvents, TLAPS

-----------------------------------------------------------------------------
\* The inductive invariant, by parts.

\* An entry exists once the run was started, and only the terminal event takes
\* the seq after MaxEvents.
Started ==
  /\ live \/ executor # "idle" \/ batch # {} => attempt >= 1
  /\ nextSeq > MaxEvents => terminal

\* A commit in flight is known to the executor and to the entry alike; the seq
\* of its envelope is still the next one.
CommitLock ==
  /\ terminalCommitPending <=> executor \in {"committing", "settling", "persisted"}
  /\ terminalCommitPending => commitSeq = nextSeq /\ ~terminal

Window ==
  /\ firstResidentSeq >= 0 /\ firstResidentSeq <= nextSeq
  /\ attempt > 0 => DOMAIN history = firstResidentSeq..(nextSeq - 1)

\* The journal task: what it holds was published before, by this attempt, and
\* what it wrote is an interval.
Task ==
  /\ batchWritten => \E lo, hi \in Seqs : lo <= hi /\ batch = lo..hi
  /\ batch = {} => ~batchWritten /\ (persistenceError \/ pending = {})
  /\ \A n \in batch \cup pending :
       /\ n < nextSeq
       /\ n \in DOMAIN history =>
            history[n] = [attempt |-> attempt, terminal |-> FALSE]

\* The watermark follows the journal.
Watermark ==
  /\ batchWritten => \A n \in batch : n < eventCount
  /\ persistedThroughSeq <= eventCount
  /\ ~terminal => persistedThroughSeq < eventCount
  /\ live => firstResidentSeq <= eventCount

\* Whatever was published is journaled or still waiting for it.
NothingForgotten ==
  ~persistenceError /\ ~terminal =>
    \A n \in 0..(nextSeq - 1) : n < eventCount \/ n \in batch \cup pending

\* Until the run is settled, the journal is not ahead of an entry in use, unless
\* it was overtaken.
NotBehind ==
  (live \/ executor # "idle") /\ ~overtaken /\ checkpoint.status # "terminal" =>
    eventCount <= nextSeq

\* The checkpoint is closed once, at the end of the journal.
Ending ==
  /\ executor = "persisted" =>
       commitSeq <= eventCount /\ checkpoint.status = "terminal"
         /\ checkpoint.cursor = commitSeq
  /\ checkpoint.status # "terminal" =>
       checkpoint.cursor = NoSeq /\ ~checkpoint.acknowledged
  /\ checkpoint.status = "terminal" => checkpoint.cursor # NoSeq
  /\ TerminalMeetsJournal

Inv ==
  /\ TypeOK /\ Started /\ CommitLock /\ Window /\ Task /\ Watermark
  /\ NothingForgotten /\ NotBehind /\ Ending

-----------------------------------------------------------------------------
\* The last seq of an interval, with or without an earlier watermark.
LEMMA LatestOfInterval ==
  ASSUME NEW lo \in Int, NEW hi \in Int, lo <= hi
  PROVE  Latest(lo..hi) = hi
<1>1. hi \in lo..hi /\ \A m \in lo..hi : m <= hi
  OBVIOUS
<1>2. \A n \in lo..hi : (\A m \in lo..hi : m <= n) => n = hi
  BY <1>1
<1> QED
  BY <1>1, <1>2 DEF Latest

LEMMA LatestWith ==
  ASSUME NEW lo \in Int, NEW hi \in Int, lo <= hi, NEW w \in Int
  PROVE  Latest((lo..hi) \cup {w}) = IF hi <= w THEN w ELSE hi
<1> DEFINE S == (lo..hi) \cup {w}
           top == IF hi <= w THEN w ELSE hi
<1>1. top \in S /\ \A m \in S : m <= top
  OBVIOUS
<1>2. \A n \in S : (\A m \in S : m <= n) => n = top
  BY <1>1
<1> QED
  BY <1>1, <1>2 DEF Latest

LEMMA BelowInterval ==
  ASSUME NEW c \in Nat, NEW d \in Nat, c < d, NEW n \in 0..(c - 1)
  PROVE  n \in 0..(d - 1) /\ ~(n \in c..(d - 1))
<1>1. n \in 0..(d - 1)
  OBVIOUS
<1>2. ~(n \in c..(d - 1))
  OBVIOUS
<1> QED BY <1>1, <1>2

LEMMA IntervalInside ==
  ASSUME NEW c \in Nat, NEW d \in Nat, NEW n \in c..(d - 1)
  PROVE  n \in 0..(d - 1)
OBVIOUS

LEMMA IntervalEnd ==
  ASSUME NEW c \in Nat, NEW d \in Nat, NEW m \in Nat, c < d, d <= m
  PROVE  /\ d - 1 \in c..(d - 1) /\ c <= d - 1
         /\ c \in 0..m /\ d - 1 \in 0..m
         /\ \A n \in c..(d - 1) : n < d
         /\ \A n \in Nat : d - 1 < n => d <= n
OBVIOUS

\* An accepted batch lengthens the journal by exactly its seqs.
LEMMA AppendExtends ==
  ASSUME TypeOK, NEW seqs \in SUBSET Queued, NEW k \in 1..MaxAttempts,
         AppendAccepted(seqs), Append(seqs, k)
  PROVE  /\ eventCount' \in Seqs /\ eventCount < eventCount'
         /\ seqs = eventCount..(eventCount' - 1)
         /\ DOMAIN journal' = 0..(eventCount' - 1)
         /\ \A n \in 0..(eventCount - 1) : journal'[n] = journal[n]
         /\ \A n \in seqs : journal'[n] = [attempt |-> k, terminal |-> FALSE]
         /\ \A n \in DOMAIN journal' : journal'[n] \in Event
<1> USE LiveRunEventsAssumption
<1>1. PICK last \in Seqs : last >= eventCount /\ seqs = eventCount..last
  BY DEF AppendAccepted
<1>2. eventCount' = last + 1
  BY <1>1, LatestOfInterval DEF Append, TypeOK, Seqs
<1>3. last \in Queued
  <2>1. eventCount \in Seqs
    BY DEF TypeOK
  <2>2. last \in eventCount..last
    BY <1>1, <2>1 DEF Seqs
  <2> QED BY <1>1, <2>2
<1>4. eventCount' \in Seqs /\ eventCount < eventCount'
      /\ seqs = eventCount..(eventCount' - 1)
  BY <1>1, <1>2, <1>3 DEF TypeOK, Seqs, Queued
<1>5. DOMAIN journal = 0..(eventCount - 1) /\ eventCount \in Nat
  BY DEF TypeOK, Seqs
<1>6. DOMAIN journal' = 0..(eventCount' - 1)
  <2>1. DOMAIN journal' = (0..(eventCount - 1)) \cup seqs
    BY <1>5 DEF Append
  <2>2. eventCount' \in Nat /\ eventCount \in Nat
    BY <1>4, <1>5 DEF Seqs
  <2> QED BY <1>4, <2>1, <2>2
<1>7. [attempt |-> k, terminal |-> FALSE] \in Event
  BY DEF Event
<1>8. \A n \in DOMAIN journal' :
        journal'[n] = IF n \in seqs THEN [attempt |-> k, terminal |-> FALSE]
                                    ELSE journal[n]
  BY DEF Append
<1>9. \A n \in 0..(eventCount - 1) : journal'[n] = journal[n]
  <2>1. ASSUME NEW n \in 0..(eventCount - 1)
        PROVE  n \in DOMAIN journal' /\ n \notin seqs
    <3>1. eventCount' \in Nat /\ eventCount \in Nat /\ eventCount < eventCount'
      BY <1>4, <1>5 DEF Seqs
    <3>2. n \in 0..(eventCount' - 1) /\ ~(n \in eventCount..(eventCount' - 1))
      BY <3>1, BelowInterval
    <3> QED BY <1>4, <1>6, <3>2, Zenon
  <2> QED BY <2>1, <1>8
<1>10. \A n \in seqs : journal'[n] = [attempt |-> k, terminal |-> FALSE]
  BY <1>8 DEF Append
<1>11. \A n \in DOMAIN journal : journal[n] \in Event
  BY DEF TypeOK
<1>12. \A n \in DOMAIN journal' : journal'[n] \in Event
  BY <1>7, <1>8, <1>11 DEF Append
<1> QED
  BY <1>4, <1>6, <1>9, <1>10, <1>12

-----------------------------------------------------------------------------
\* A fresh entry over the first count journaled events.
LEMMA NewEntry ==
  ASSUME Inv, NEW count \in 0..eventCount, CreateEntry(count),
         sinks' \in SUBSET Socket, executor' = "preparing",
         checkpoint.status # "terminal", UNCHANGED <<durableVars, open>>
  PROVE  Inv'
<1> USE LiveRunEventsAssumption
<1>1. /\ eventCount \in Nat /\ eventCount <= MaxEvents /\ count \in Nat
      /\ count <= eventCount /\ attempt \in Nat /\ attempt < MaxAttempts
      /\ attempt' = attempt + 1 /\ nextSeq' = count
      /\ firstResidentSeq' = 0 /\ persistedThroughSeq' = count - 1
      /\ overtaken' = (count < eventCount)
  <2>1. eventCount \in 0..MaxEvents /\ attempt \in 0..MaxAttempts
    BY DEF Inv, TypeOK, Seqs
  <2>2. eventCount \in Nat /\ eventCount <= MaxEvents /\ attempt \in Nat
    BY <2>1
  <2>3. count \in Nat /\ count <= eventCount
    BY <2>2
  <2> QED BY <2>2, <2>3 DEF CreateEntry
<1>2. /\ eventCount' = eventCount /\ journal' = journal
      /\ checkpoint' = checkpoint /\ batch' = {} /\ pending' = {}
      /\ ~batchWritten' /\ ~terminal' /\ ~terminalCommitPending' /\ live'
  BY DEF CreateEntry, durableVars
<1>3. /\ DOMAIN history' = 0..(count - 1)
      /\ \A n \in 0..(count - 1) : history'[n] = journal[n]
  BY DEF CreateEntry, Journaled
<1>4. DOMAIN journal = 0..(eventCount - 1)
      /\ \A n \in DOMAIN journal : journal[n] \in Event
  BY DEF Inv, TypeOK
<1>5. \A n \in 0..(count - 1) : n \in 0..(eventCount - 1) /\ n \in Seqs
  BY <1>1 DEF Seqs
<1>6. orphan' \in [1..MaxAttempts -> SUBSET Queued]
  BY DEF Inv, TypeOK, CreateEntry, Unwritten
<1>7. DOMAIN replay' = Socket
  BY DEF CreateEntry
<1>8. DOMAIN history' \subseteq Seqs /\ \A n \in DOMAIN history' : history'[n] \in Event
  BY <1>3, <1>4, <1>5
<1>9. /\ persistedThroughSeq' \in {NoSeq} \cup Seqs /\ nextSeq' \in 0..(MaxEvents + 1)
      /\ firstResidentSeq' \in Seqs /\ attempt' \in 0..MaxAttempts
  BY <1>1 DEF NoSeq, Seqs
<1>10. TypeOK'
  <2>1. /\ live' \in BOOLEAN /\ batchWritten' \in BOOLEAN
        /\ persistenceError' \in BOOLEAN /\ terminal' \in BOOLEAN
        /\ terminalCommitPending' \in BOOLEAN
        /\ commitSeq' \in {NoSeq} \cup Seqs
    BY Zenon DEF CreateEntry
  <2>3. overtaken' \in BOOLEAN
    <3>1. CASE count < eventCount
      BY <1>1, <3>1
    <3>2. CASE ~(count < eventCount)
      BY <1>1, <3>2
    <3> QED BY <3>1, <3>2
  <2>2. /\ open' \subseteq Socket /\ eventCount' \in Seqs
        /\ threadTaken' \in BOOLEAN /\ answered' \in BOOLEAN
        /\ DOMAIN journal' = 0..(eventCount' - 1)
        /\ \A n \in DOMAIN journal' : journal'[n] \in Event
        /\ checkpoint' \in [status : {"none", "running", "terminal"},
                            cursor : NoSeq..(MaxEvents + 1),
                            acknowledged : BOOLEAN]
    BY DEF Inv, TypeOK, durableVars
  <2> QED BY <1>2, <1>6, <1>7, <1>8, <1>9, <2>1, <2>2, <2>3 DEF TypeOK
<1>11. Started' /\ CommitLock'
  BY <1>1, <1>2 DEF Started, CommitLock
<1>12. Window'
  BY <1>1, <1>3 DEF Window
<1>13. Task'
  BY <1>2 DEF Task
<1>14. Watermark'
  BY <1>1, <1>2 DEF Watermark
<1>15. NothingForgotten' /\ NotBehind'
  <2>1. \A n \in 0..(count - 1) : n < eventCount
    BY <1>1
  <2>2. count < eventCount \/ eventCount <= count
    BY <1>1
  <2>3. nextSeq' = count /\ overtaken' = (count < eventCount)
    BY <1>1
  <2>4. eventCount' = eventCount
    BY <1>2
  <2>5. NothingForgotten'
    BY <2>1, <2>3, <2>4 DEF NothingForgotten
  <2> QED BY <2>2, <2>3, <2>4, <2>5 DEF NotBehind
<1>16. Ending'
  BY <1>2 DEF Inv, Ending, TerminalMeetsJournal
<1> QED
  BY <1>10, <1>11, <1>12, <1>13, <1>14, <1>15, <1>16 DEF Inv

\* The journal grows while the checkpoint runs: what relates the entry to it
\* survives when the new events are the entry's own, or it counts as overtaken.
LEMMA JournalGrows ==
  ASSUME Inv, NEW seqs \in SUBSET Queued, NEW k \in 1..MaxAttempts,
         AppendAccepted(seqs), Append(seqs, k),
         UNCHANGED <<live, attempt, seqVars, pending, batch, persistenceError,
                     endVars, sinks, executor, open, replay>>,
         batchWritten' \in BOOLEAN,
         orphan' \in [1..MaxAttempts -> SUBSET Queued],
         overtaken' \in BOOLEAN,
         batchWritten' => batchWritten \/ batch = seqs,
         batch = {} => batchWritten' = batchWritten,
         ~overtaken' => k = attempt /\ ~overtaken /\ seqs \subseteq batch
  PROVE  Inv'
<1> USE LiveRunEventsAssumption
<1> DEFINE c == eventCount
           d == eventCount'
<1>1. TypeOK
  BY DEF Inv
<1>2. /\ d \in Seqs /\ c < d /\ seqs = c..(d - 1)
      /\ DOMAIN journal' = 0..(d - 1)
      /\ \A n \in 0..(c - 1) : journal'[n] = journal[n]
      /\ \A n \in seqs : journal'[n] = [attempt |-> k, terminal |-> FALSE]
      /\ \A n \in DOMAIN journal' : journal'[n] \in Event
  BY <1>1, AppendExtends
<1>3. /\ c \in Nat /\ d \in Nat /\ c <= MaxEvents /\ d <= MaxEvents
      /\ DOMAIN journal = 0..(c - 1)
  BY <1>1, <1>2 DEF TypeOK, Seqs
<1>4. /\ checkpoint.status = "running" /\ checkpoint' = checkpoint
      /\ threadTaken' = threadTaken /\ answered' = answered
  BY DEF AppendAccepted, Append
<1>5. TypeOK'
  BY <1>1, <1>2, <1>4 DEF TypeOK, seqVars, endVars
<1>6. Started' /\ CommitLock' /\ Window'
  BY DEF Inv, Started, CommitLock, Window, seqVars, endVars
<1>7. Task'
  <2>1. ASSUME batchWritten'
        PROVE  \E lo, hi \in Seqs : lo <= hi /\ batch = lo..hi
    <3>1. CASE batchWritten
      BY <3>1 DEF Inv, Task
    <3>2. CASE batch = seqs
      <4>0. c < d
        BY <1>2
      <4>1. c \in Seqs /\ (d - 1) \in Seqs /\ c <= d - 1
        BY <1>3, <4>0, IntervalEnd DEF Seqs
      <4> QED BY <1>2, <3>2, <4>1
    <3> QED BY <2>1, <3>1, <3>2
  <2> QED BY <2>1 DEF Inv, Task, seqVars
<1>8. Watermark'
  <2>1. ASSUME batchWritten', NEW n \in batch PROVE n < d
    <3>0. n \in Nat
      BY <1>1 DEF TypeOK, Queued
    <3>1. CASE batchWritten
      <4>1. n < c
        BY <3>1 DEF Inv, Watermark
      <4> QED BY <1>2, <1>3, <3>0, <4>1
    <3>2. CASE batch = seqs
      <4>1. n \in c..(d - 1)
        BY <1>2, <3>2
      <4> QED BY <1>2, <1>3, <4>1, IntervalEnd
    <3> QED BY <2>1, <3>1, <3>2
  <2>2. persistedThroughSeq \in Int /\ firstResidentSeq \in Int
    BY <1>1 DEF TypeOK, NoSeq, Seqs
  <2> QED BY <1>2, <1>3, <2>1, <2>2 DEF Inv, Watermark, seqVars, endVars
<1>9. NothingForgotten'
  <2>1. nextSeq \in Nat
    BY <1>1 DEF TypeOK
  <2>2. \A n \in 0..(nextSeq - 1) : n < c => n < d
    BY <1>2, <1>3, <2>1
  <2> QED BY <2>2 DEF Inv, NothingForgotten, seqVars, endVars
<1>10. ASSUME ~overtaken' PROVE d <= nextSeq
  <2>0. c < d
    BY <1>2
  <2>1. d - 1 \in c..(d - 1)
    BY <1>3, <2>0, IntervalEnd
  <2>2. d - 1 \in batch
    BY <1>2, <1>10, <2>1, Zenon
  <2>3. d - 1 < nextSeq
    BY <2>2, Zenon DEF Inv, Task
  <2>4. nextSeq \in Nat
    BY <1>1 DEF TypeOK
  <2> QED BY <1>3, <2>0, <2>3, <2>4, IntervalEnd
<1>11. NotBehind'
  BY <1>10 DEF NotBehind, seqVars
<1>12. Ending'
  <2>1. executor = "persisted" => commitSeq <= d
    <3>1. commitSeq \in Int
      BY <1>1 DEF TypeOK, NoSeq, Seqs
    <3> QED BY <1>2, <1>3, <3>1 DEF Inv, Ending
  <2> QED BY <1>4, <2>1 DEF Inv, Ending, TerminalMeetsJournal, endVars
<1> QED
  BY <1>5, <1>6, <1>7, <1>8, <1>9, <1>11, <1>12 DEF Inv

-----------------------------------------------------------------------------
\* Steps that leave the entry and the journal alone: what is left to show is the
\* types, and that the checkpoint is as it should be.
LEMMA Undisturbed ==
  ASSUME Inv, TypeOK', Ending',
         UNCHANGED <<entryVars, journal, eventCount, overtaken>>,
         executor' \in {"committing", "settling", "persisted"}
           <=> executor \in {"committing", "settling", "persisted"},
         executor = "idle" => executor' = "idle",
         checkpoint.status = "terminal" => checkpoint'.status = "terminal"
  PROVE  Inv'
<1>1. Started' /\ CommitLock' /\ Window'
  BY DEF Inv, Started, CommitLock, Window, entryVars, seqVars, taskVars, endVars
<1>2. Task' /\ Watermark'
  BY DEF Inv, Task, Watermark, entryVars, seqVars, taskVars, endVars
<1>3. NothingForgotten' /\ NotBehind'
  BY DEF Inv, NothingForgotten, NotBehind,
         entryVars, seqVars, taskVars, endVars
<1> QED
  BY <1>1, <1>2, <1>3 DEF Inv

LEMMA ExecutorSteps ==
  ASSUME Inv, BeginDurable \/ InputFails \/ RunThrows \/ SettleFailureGivesUp
              \/ Answer
  PROVE  Inv'
<1>1. CASE BeginDurable
  <2>1. TypeOK'
    <3>1. TypeOK
      BY DEF Inv
    <3>2. checkpoint' \in [status : {"none", "running", "terminal"},
                          cursor : NoSeq..(MaxEvents + 1), acknowledged : BOOLEAN]
      BY <1>1, <3>1 DEF TypeOK, BeginDurable
    <3>3. /\ executor' = "running"
          /\ UNCHANGED <<entryVars, sinks, journal, eventCount, threadTaken, answered,
                         open, replay, recoveryVars>>
      BY <1>1 DEF BeginDurable
    <3> QED BY <3>1, <3>2, <3>3
           DEF TypeOK, entryVars, seqVars, taskVars, endVars, recoveryVars
  <2>2. Ending'
    BY <1>1 DEF Inv, Ending, TerminalMeetsJournal, BeginDurable, entryVars,
               endVars, recoveryVars
  <2> QED BY <1>1, <2>1, <2>2, Undisturbed DEF BeginDurable, recoveryVars
<1>2. CASE InputFails \/ RunThrows \/ SettleFailureGivesUp
  <2>1. TypeOK'
    <3>1. executor' \in {"closing", "failed"}
      BY <1>2 DEF InputFails, RunThrows, SettleFailureGivesUp
    <3>2. UNCHANGED <<entryVars, sinks, durableVars, open, replay, recoveryVars>>
      BY <1>2 DEF InputFails, RunThrows, SettleFailureGivesUp
    <3>3. UNCHANGED <<live, attempt, nextSeq, firstResidentSeq, persistedThroughSeq,
                      history, pending, batch, batchWritten, persistenceError,
                      terminal, terminalCommitPending, commitSeq, sinks, open,
                      journal, eventCount, checkpoint, threadTaken, answered,
                      replay, orphan, overtaken>>
      BY <3>2 DEF entryVars, seqVars, taskVars, endVars, durableVars, recoveryVars
    <3>4. TypeOK
      BY DEF Inv
    <3> QED BY <3>1, <3>3, <3>4 DEF TypeOK
  <2>2. Ending'
    BY <1>2 DEF Inv, Ending, TerminalMeetsJournal, InputFails, RunThrows,
               SettleFailureGivesUp, entryVars, endVars, durableVars,
               recoveryVars
  <2> QED BY <1>2, <2>1, <2>2, Undisturbed
          DEF InputFails, RunThrows, SettleFailureGivesUp, durableVars,
              recoveryVars
<1>3. CASE Answer
  <2>1. TypeOK'
    BY <1>3 DEF Inv, TypeOK, Answer, entryVars, seqVars, taskVars, endVars,
               recoveryVars
  <2>2. Ending'
    BY <1>3 DEF Inv, Ending, TerminalMeetsJournal, Answer, entryVars, endVars,
               recoveryVars
  <2> QED BY <1>3, <2>1, <2>2, Undisturbed DEF Answer, recoveryVars
<1> QED
  BY <1>1, <1>2, <1>3

LEMMA SocketSteps ==
  ASSUME Inv, NEW s \in Socket, NEW from,
         OpenSocket(s) \/ CollectReplay(s, from)
  PROVE  Inv'
<1>1. TypeOK'
  <2>1. CASE OpenSocket(s)
    BY <2>1 DEF Inv, TypeOK, OpenSocket, entryVars, seqVars, taskVars, endVars,
               durableVars, recoveryVars
  <2>2. CASE CollectReplay(s, from)
    BY <2>2 DEF Inv, TypeOK, CollectReplay, entryVars, seqVars, taskVars,
               endVars, durableVars, recoveryVars
  <2> QED BY <2>1, <2>2
<1>2. Ending'
  BY DEF Inv, Ending, TerminalMeetsJournal, OpenSocket, CollectReplay, entryVars,
         endVars, durableVars, recoveryVars
<1> QED
  BY <1>1, <1>2, Undisturbed DEF OpenSocket, CollectReplay, durableVars,
                                recoveryVars

LEMMA OrphanFailsStep ==
  ASSUME Inv, NEW k \in DOMAIN orphan, OrphanFails(k)
  PROVE  Inv'
<1>1. TypeOK'
  BY DEF Inv, TypeOK, OrphanFails, entryVars, seqVars, taskVars, endVars,
         durableVars
<1>2. Ending'
  BY DEF Inv, Ending, TerminalMeetsJournal, OrphanFails, entryVars, endVars,
         durableVars
<1> QED
  BY <1>1, <1>2, Undisturbed DEF OrphanFails, durableVars

LEMMA AcknowledgeStep ==
  ASSUME Inv, NEW end, Acknowledge(end)
  PROVE  Inv'
<1>1. checkpoint' \in [status : {"none", "running", "terminal"},
                       cursor : NoSeq..(MaxEvents + 1), acknowledged : BOOLEAN]
  BY DEF Inv, TypeOK, Acknowledge
<1>2. TypeOK'
  BY <1>1 DEF Inv, TypeOK, Acknowledge, entryVars, seqVars, taskVars, endVars,
             recoveryVars
<1>3. Ending'
  BY DEF Inv, Ending, TerminalMeetsJournal, Acknowledge, entryVars, endVars,
         recoveryVars
<1> QED
  BY <1>2, <1>3, Undisturbed DEF Acknowledge, recoveryVars

LEMMA NextRunStep ==
  ASSUME Inv, NextRunTakesThread
  PROVE  Inv'
<1>1. TypeOK'
  BY DEF Inv, TypeOK, NextRunTakesThread, entryVars, seqVars, taskVars, endVars,
         recoveryVars
<1>2. Ending'
  BY DEF Inv, Ending, TerminalMeetsJournal, NextRunTakesThread, entryVars,
         endVars, recoveryVars
<1> QED
  BY <1>1, <1>2, Undisturbed DEF NextRunTakesThread, recoveryVars

-----------------------------------------------------------------------------
\* The terminal commit.
LEMMA CommitBeginStep ==
  ASSUME Inv, NEW from \in {"running", "failed"},
         NEW to \in {"committing", "settling"}, CommitBegin(from, to)
  PROVE  Inv'
<1>1. TypeOK'
  <2>1. nextSeq \in Seqs
    BY LiveRunEventsAssumption DEF Inv, TypeOK, Started, CommitBegin, Seqs
  <2> QED BY <2>1 DEF Inv, TypeOK, CommitBegin, seqVars, taskVars, durableVars,
                     recoveryVars
<1>2. Started' /\ CommitLock' /\ Window'
  BY DEF Inv, Started, CommitLock, Window, CommitBegin, seqVars, taskVars
<1>3. Task' /\ Watermark' /\ NothingForgotten'
  BY DEF Inv, Task, Watermark, NothingForgotten, CommitBegin, seqVars, taskVars,
         durableVars
<1>4. NotBehind'
  BY DEF Inv, NotBehind, CommitBegin, seqVars, taskVars, durableVars,
         recoveryVars
<1>5. Ending'
  BY DEF Inv, Ending, TerminalMeetsJournal, CommitBegin, durableVars,
         recoveryVars
<1> QED
  BY <1>1, <1>2, <1>3, <1>4, <1>5 DEF Inv

LEMMA CommitFailsStep ==
  ASSUME Inv, CommitFails
  PROVE  Inv'
<1>1. TypeOK'
  <2>1. /\ terminalCommitPending' = FALSE /\ commitSeq' = NoSeq
        /\ executor' \in {"failed", "closing"}
    BY DEF CommitFails
  <2>2. UNCHANGED <<live, attempt, nextSeq, firstResidentSeq, persistedThroughSeq,
                    history, pending, batch, batchWritten, persistenceError,
                    terminal, sinks, open, journal, eventCount, checkpoint,
                    threadTaken, answered, replay, orphan, overtaken>>
    BY DEF CommitFails, seqVars, taskVars, durableVars, recoveryVars
  <2>3. TypeOK
    BY DEF Inv
  <2>4. /\ terminalCommitPending' \in BOOLEAN /\ commitSeq' \in {NoSeq} \cup Seqs
        /\ executor' \in {"idle", "preparing", "running", "committing", "failed",
                          "settling", "persisted", "closing"}
    BY <2>1
  <2>5. /\ live' \in BOOLEAN /\ attempt' \in 0..MaxAttempts
        /\ nextSeq' \in 0..(MaxEvents + 1) /\ firstResidentSeq' \in Seqs
        /\ persistedThroughSeq' \in {NoSeq} \cup Seqs
        /\ DOMAIN history' \subseteq Seqs
        /\ \A n \in DOMAIN history' : history'[n] \in Event
    BY <2>2, <2>3 DEF TypeOK
  <2>6. /\ pending' \subseteq Queued /\ batch' \subseteq Queued
        /\ batchWritten' \in BOOLEAN /\ persistenceError' \in BOOLEAN
        /\ terminal' \in BOOLEAN /\ sinks' \subseteq Socket /\ open' \subseteq Socket
        /\ eventCount' \in Seqs /\ threadTaken' \in BOOLEAN /\ answered' \in BOOLEAN
        /\ DOMAIN journal' = 0..(eventCount' - 1)
        /\ \A n \in DOMAIN journal' : journal'[n] \in Event
    BY <2>2, <2>3 DEF TypeOK
  <2>7. /\ checkpoint' \in [status : {"none", "running", "terminal"},
                            cursor : NoSeq..(MaxEvents + 1), acknowledged : BOOLEAN]
        /\ DOMAIN replay' = Socket
        /\ orphan' \in [1..MaxAttempts -> SUBSET Queued] /\ overtaken' \in BOOLEAN
    BY <2>2, <2>3 DEF TypeOK
  <2> QED BY <2>4, <2>5, <2>6, <2>7 DEF TypeOK
<1>2. Started' /\ CommitLock' /\ Window'
  BY DEF Inv, Started, CommitLock, Window, CommitFails, Committing, seqVars,
         taskVars
<1>3. Task' /\ Watermark' /\ NothingForgotten'
  BY DEF Inv, Task, Watermark, NothingForgotten, CommitFails, seqVars, taskVars,
         durableVars
<1>4. NotBehind'
  BY DEF Inv, NotBehind, CommitFails, Committing, seqVars, taskVars,
         durableVars, recoveryVars
<1>5. Ending'
  BY DEF Inv, Ending, TerminalMeetsJournal, CommitFails, durableVars,
         recoveryVars
<1> QED
  BY <1>1, <1>2, <1>3, <1>4, <1>5 DEF Inv

\* Once the history is flushed, the terminal seq cannot pass the journal; and
\* the journal passes it only where it was overtaken.
LEMMA CommitPersistStep ==
  ASSUME Inv, CommitPersist
  PROVE  Inv'
<1> USE LiveRunEventsAssumption
<1>1. /\ terminalCommitPending /\ commitSeq = nextSeq /\ ~terminal
      /\ executor \in {"committing", "settling"} /\ live /\ batch = {}
      /\ ~persistenceError
  BY DEF Inv, CommitLock, CommitPersist, Committing, Flushed
<1>2. pending = {}
  BY <1>1 DEF Inv, Task
<1>3. nextSeq \in Nat /\ eventCount \in Nat /\ commitSeq \in {NoSeq} \cup Seqs
  BY DEF Inv, TypeOK, Seqs
<1>4. \A n \in 0..(nextSeq - 1) : n < eventCount
  BY <1>1, <1>2 DEF Inv, NothingForgotten
<1>5. commitSeq <= eventCount
  <2>1. CASE nextSeq = 0
    BY <1>1, <1>3, <2>1
  <2>2. CASE nextSeq > 0
    <3>1. nextSeq - 1 \in 0..(nextSeq - 1)
      BY <1>3, <2>2
    <3>2. nextSeq - 1 < eventCount
      BY <1>4, <3>1
    <3> QED BY <1>1, <1>3, <3>2
  <2> QED BY <1>3, <2>1, <2>2
<1>6. ~overtaken => eventCount <= commitSeq
  BY <1>1 DEF Inv, NotBehind, CommitPersist
<1>7. ~overtaken => commitSeq = eventCount
  <2>1. commitSeq \in Nat
    BY <1>1, <1>3
  <2> QED BY <1>3, <1>5, <1>6, <2>1
<1>8. /\ checkpoint'.status = "terminal" /\ checkpoint'.cursor = commitSeq
      /\ checkpoint' \in [status : {"none", "running", "terminal"},
                          cursor : NoSeq..(MaxEvents + 1),
                          acknowledged : BOOLEAN]
  <2>1. checkpoint \in [status : {"none", "running", "terminal"},
                        cursor : NoSeq..(MaxEvents + 1),
                        acknowledged : BOOLEAN]
    BY DEF Inv, TypeOK
  <2>2. commitSeq \in NoSeq..(MaxEvents + 1)
    BY <1>3 DEF NoSeq, Seqs
  <2> QED BY <2>1, <2>2 DEF CommitPersist
<1>9. TypeOK'
  BY <1>8 DEF Inv, TypeOK, CommitPersist, entryVars, seqVars, taskVars, endVars,
             recoveryVars
<1>10. Ending'
  <2>1. commitSeq # NoSeq
    BY <1>1, <1>3 DEF NoSeq
  <2> QED BY <1>5, <1>7, <1>8, <2>1
          DEF Ending, TerminalMeetsJournal, CommitPersist, entryVars, endVars,
              recoveryVars
<1> QED
  BY <1>1, <1>9, <1>10, Undisturbed DEF CommitPersist, recoveryVars

LEMMA CommitDoneStep ==
  ASSUME Inv, CommitDone
  PROVE  Inv'
<1> USE LiveRunEventsAssumption
<1> DEFINE e == [attempt |-> attempt, terminal |-> TRUE]
<1>1. /\ terminalCommitPending /\ commitSeq = nextSeq /\ attempt >= 1
      /\ commitSeq <= eventCount
  BY DEF Inv, Started, CommitLock, Ending, CommitDone
<1>2. /\ nextSeq \in Seqs /\ nextSeq \in Nat /\ nextSeq <= MaxEvents
      /\ attempt \in 1..MaxAttempts /\ eventCount \in Nat
      /\ firstResidentSeq \in Nat
  <2>1. /\ nextSeq \in 0..(MaxEvents + 1) /\ commitSeq \in {NoSeq} \cup Seqs
        /\ attempt \in 0..MaxAttempts /\ eventCount \in Seqs
        /\ firstResidentSeq \in Seqs
    BY DEF Inv, TypeOK
  <2> QED BY <1>1, <2>1 DEF NoSeq, Seqs
<1>3. /\ DOMAIN history' = DOMAIN history \cup {nextSeq}
      /\ history'[nextSeq] = e
      /\ \A m \in DOMAIN history : m # nextSeq => history'[m] = history[m]
  <2>1. history' = Put(history, nextSeq, e)
    BY <1>1 DEF CommitDone
  <2> QED BY <2>1 DEF Put
<1>4. /\ nextSeq' = nextSeq + 1 /\ persistedThroughSeq' = nextSeq
      /\ ~terminalCommitPending' /\ terminal' /\ commitSeq' = NoSeq
      /\ executor' = "closing" /\ sinks' = sinks \cap open
  BY <1>1 DEF CommitDone
<1>5. DOMAIN history = firstResidentSeq..(nextSeq - 1)
      /\ firstResidentSeq <= nextSeq
  BY <1>1, <1>2 DEF Inv, Window
<1>6. TypeOK'
  <2>1. /\ DOMAIN history' \subseteq Seqs
        /\ \A n \in DOMAIN history' : history'[n] \in Event
    <3>1. e \in Event
      BY <1>2 DEF Event
    <3>2. DOMAIN history \subseteq Seqs
          /\ \A n \in DOMAIN history : history[n] \in Event
      BY DEF Inv, TypeOK
    <3> QED BY <1>2, <1>3, <3>1, <3>2
  <2>2. nextSeq' \in 0..(MaxEvents + 1) /\ persistedThroughSeq' \in {NoSeq} \cup Seqs
    BY <1>2, <1>4
  <2> QED BY <1>4, <2>1, <2>2
          DEF Inv, TypeOK, CommitDone, taskVars, durableVars, recoveryVars
<1>7. Started' /\ CommitLock'
  BY <1>4 DEF Inv, Started, CommitDone, CommitLock, taskVars
<1>8. Window'
  <2>1. DOMAIN history' = firstResidentSeq..nextSeq
    BY <1>2, <1>3, <1>5
  <2>2. nextSeq' - 1 = nextSeq
    BY <1>2, <1>4
  <2> QED BY <1>2, <1>4, <1>5, <2>1, <2>2 DEF Window, CommitDone
<1>9. Task'
  <2>1. ASSUME NEW n \in batch \cup pending
        PROVE  /\ n < nextSeq + 1
               /\ n \in DOMAIN history' =>
                    history'[n] = [attempt |-> attempt, terminal |-> FALSE]
    <3>1. n < nextSeq /\ n \in Nat
      <4>1. n \in Queued
        BY DEF Inv, TypeOK
      <4> QED BY <4>1 DEF Inv, Task, Queued
    <3>2. n # nextSeq
      BY <1>2, <3>1
    <3>3. n \in DOMAIN history' =>
            history'[n] = [attempt |-> attempt, terminal |-> FALSE]
      BY <1>3, <3>2 DEF Inv, Task
    <3> QED BY <1>2, <3>1, <3>3
  <2> QED BY <1>4, <2>1 DEF Inv, Task, CommitDone, taskVars
<1>10. Watermark'
  BY <1>1, <1>2, <1>4 DEF Inv, Watermark, CommitDone, taskVars, durableVars
<1>11. NothingForgotten'
  BY <1>4 DEF NothingForgotten
<1>12. NotBehind'
  <2>1. eventCount <= nextSeq => eventCount <= nextSeq + 1
    BY <1>2
  <2> QED BY <1>4, <2>1 DEF Inv, NotBehind, CommitDone, durableVars, recoveryVars
<1>13. Ending'
  BY <1>4 DEF Inv, Ending, TerminalMeetsJournal, CommitDone, durableVars,
             recoveryVars
<1> QED
  BY <1>6, <1>7, <1>8, <1>9, <1>10, <1>11, <1>12, <1>13 DEF Inv

-----------------------------------------------------------------------------
\* publishRunEvent: the new event goes to the end of the window and of the
\* queue of the journal task.
LEMMA PublishStep ==
  ASSUME Inv, Publish
  PROVE  Inv'
<1> USE LiveRunEventsAssumption
<1> DEFINE e == [attempt |-> attempt, terminal |-> FALSE]
<1>1. /\ live /\ ~persistenceError /\ ~terminalCommitPending /\ ~terminal
      /\ attempt >= 1 /\ nextSeq < MaxEvents
  BY DEF Inv, Started, Publish, PublishAllowed
<1>2. /\ nextSeq \in Nat /\ nextSeq \in Queued /\ nextSeq \in Seqs
      /\ attempt \in 1..MaxAttempts /\ eventCount \in Nat
      /\ firstResidentSeq \in Nat
  <2>1. /\ nextSeq \in 0..(MaxEvents + 1) /\ attempt \in 0..MaxAttempts
        /\ eventCount \in Seqs /\ firstResidentSeq \in Seqs
    BY DEF Inv, TypeOK
  <2> QED BY <1>1, <2>1 DEF Seqs, Queued
<1>3. /\ DOMAIN history' = DOMAIN history \cup {nextSeq}
      /\ history'[nextSeq] = e
      /\ \A m \in DOMAIN history : m # nextSeq => history'[m] = history[m]
  <2>1. history' = Put(history, nextSeq, e)
    BY DEF Publish
  <2> QED BY <2>1 DEF Put
<1>4. /\ nextSeq' = nextSeq + 1
      /\ batch' \cup pending' = (batch \cup pending) \cup {nextSeq}
      /\ batch # {} => batch' = batch
      /\ batch' # {}
      /\ sinks' = sinks \cap open
  BY DEF Publish
<1>5. DOMAIN history = firstResidentSeq..(nextSeq - 1)
      /\ firstResidentSeq <= nextSeq
  BY <1>1, <1>2 DEF Inv, Window
<1>6. TypeOK'
  <2>1. /\ DOMAIN history' \subseteq Seqs
        /\ \A n \in DOMAIN history' : history'[n] \in Event
    <3>1. e \in Event
      BY <1>2 DEF Event
    <3>2. DOMAIN history \subseteq Seqs
          /\ \A n \in DOMAIN history : history[n] \in Event
      BY DEF Inv, TypeOK
    <3> QED BY <1>2, <1>3, <3>1, <3>2
  <2>2. nextSeq' \in 0..(MaxEvents + 1)
    BY <1>1, <1>2, <1>4
  <2>3. pending' \subseteq Queued /\ batch' \subseteq Queued
    BY <1>2, <1>4 DEF Inv, TypeOK
  <2>4. /\ attempt' = attempt /\ firstResidentSeq' = firstResidentSeq
        /\ persistedThroughSeq' = persistedThroughSeq /\ live' = live
        /\ batchWritten' = batchWritten /\ persistenceError' = persistenceError
        /\ terminal' = terminal /\ commitSeq' = commitSeq
        /\ terminalCommitPending' = terminalCommitPending
        /\ UNCHANGED <<durableVars, executor, open, replay, recoveryVars>>
    BY DEF Publish, endVars
  <2> QED BY <1>4, <2>1, <2>2, <2>3, <2>4
          DEF Inv, TypeOK, durableVars, recoveryVars
<1>7. Started' /\ CommitLock'
  <2>1. ~(nextSeq' > MaxEvents)
    BY <1>1, <1>2, <1>4
  <2> QED BY <1>1, <2>1 DEF Inv, Started, CommitLock, Publish, endVars
<1>8. Window'
  <2>1. DOMAIN history' = firstResidentSeq..nextSeq
    BY <1>2, <1>3, <1>5
  <2>2. nextSeq' - 1 = nextSeq
    BY <1>2, <1>4
  <2> QED BY <1>2, <1>4, <1>5, <2>1, <2>2 DEF Window, Publish
<1>9. Task'
  <2>1. ASSUME NEW n \in (batch \cup pending) \cup {nextSeq}
        PROVE  /\ n < nextSeq + 1
               /\ n \in DOMAIN history' => history'[n] = e
    <3>1. CASE n = nextSeq
      BY <1>2, <1>3, <3>1
    <3>2. CASE n # nextSeq
      <4>1. n \in batch \cup pending
        BY <3>2
      <4>2. n < nextSeq /\ (n \in DOMAIN history => history[n] = e)
        BY <4>1 DEF Inv, Task
      <4>3. n \in Nat
        <5>1. n \in Queued
          BY <4>1 DEF Inv, TypeOK
        <5> QED BY <5>1 DEF Queued
      <4> QED BY <1>2, <1>3, <3>2, <4>2, <4>3
    <3> QED BY <3>1, <3>2
  <2>2. batchWritten => batch' = batch
    BY <1>4 DEF Inv, Task
  <2> QED BY <1>4, <2>1, <2>2 DEF Inv, Task, Publish
<1>10. Watermark'
  <2>1. batchWritten => batch' = batch
    BY <1>4 DEF Inv, Task
  <2> QED BY <2>1 DEF Inv, Watermark, Publish, endVars, durableVars
<1>11. NothingForgotten'
  <2>1. ASSUME NEW n \in 0..nextSeq
        PROVE  n < eventCount \/ n \in (batch \cup pending) \cup {nextSeq}
    <3>1. n = nextSeq \/ n \in 0..(nextSeq - 1)
      BY <1>2
    <3> QED BY <1>1, <3>1 DEF Inv, NothingForgotten
  <2>2. nextSeq' - 1 = nextSeq
    BY <1>2, <1>4
  <2> QED BY <1>4, <2>1, <2>2 DEF NothingForgotten, Publish, durableVars
<1>12. NotBehind'
  <2>1. eventCount <= nextSeq => eventCount <= nextSeq + 1
    BY <1>2
  <2> QED BY <1>4, <2>1 DEF Inv, NotBehind, Publish, durableVars, recoveryVars
<1>13. Ending'
  BY DEF Inv, Ending, TerminalMeetsJournal, Publish, endVars, durableVars,
         recoveryVars
<1> QED
  BY <1>6, <1>7, <1>8, <1>9, <1>10, <1>11, <1>12, <1>13 DEF Inv

-----------------------------------------------------------------------------
\* Pruning keeps the window: the last event alone, or all of it.  It drops
\* nothing above the watermark.
LEMMA Pruned ==
  ASSUME Inv, NEW term, NEW attached, PruneHistory(term, attached),
         UNCHANGED <<nextSeq, attempt>>
  PROVE  /\ Window' /\ firstResidentSeq' \in Seqs
         /\ DOMAIN history' \subseteq DOMAIN history
         /\ \A n \in DOMAIN history' : history'[n] = history[n]
         /\ live => firstResidentSeq' <= eventCount
<1> USE LiveRunEventsAssumption
<1>1. /\ firstResidentSeq \in Nat /\ firstResidentSeq \in Seqs /\ nextSeq \in Nat
      /\ nextSeq <= MaxEvents + 1 /\ eventCount \in Nat
      /\ persistedThroughSeq \in Int
  BY DEF Inv, TypeOK, Seqs, NoSeq
<1>2. CASE Prunable(term, attached)
  <2>1. /\ firstResidentSeq' = nextSeq - 1
        /\ history' = From(history, nextSeq - 1)
        /\ firstResidentSeq < nextSeq - 1 /\ persistedThroughSeq >= nextSeq - 1
    BY <1>2 DEF PruneHistory, Prunable
  <2>2. DOMAIN history' = {m \in DOMAIN history : m >= nextSeq - 1}
        /\ \A n \in DOMAIN history' : history'[n] = history[n]
    BY <2>1 DEF From
  <2>3. ASSUME attempt > 0
        PROVE  DOMAIN history' = (nextSeq - 1)..(nextSeq - 1)
    <3>1. DOMAIN history = firstResidentSeq..(nextSeq - 1)
      BY <2>3 DEF Inv, Window
    <3>2. \A m \in firstResidentSeq..(nextSeq - 1) :
            m >= nextSeq - 1 <=> m = nextSeq - 1
      BY <1>1
    <3>3. nextSeq - 1 \in firstResidentSeq..(nextSeq - 1)
          /\ (nextSeq - 1)..(nextSeq - 1) = {nextSeq - 1}
      BY <1>1, <2>1
    <3> QED BY <2>2, <3>1, <3>2, <3>3
  <2>4. Window'
    BY <1>1, <2>1, <2>3 DEF Window
  <2>5. firstResidentSeq' \in Seqs
    BY <1>1, <2>1 DEF Seqs
  <2>6. live => firstResidentSeq' <= eventCount
    BY <1>1, <2>1 DEF Inv, Watermark
  <2> QED BY <2>2, <2>4, <2>5, <2>6
<1>3. CASE ~Prunable(term, attached)
  BY <1>1, <1>3 DEF PruneHistory, Inv, Window, Watermark
<1> QED
  BY <1>2, <1>3

LEMMA FinishRunStep ==
  ASSUME Inv, FinishRun
  PROVE  Inv'
<1>1. /\ Window' /\ firstResidentSeq' \in Seqs
      /\ DOMAIN history' \subseteq DOMAIN history
      /\ \A n \in DOMAIN history' : history'[n] = history[n]
      /\ live => firstResidentSeq' <= eventCount
  BY Pruned DEF FinishRun
<1>2. live' \in BOOLEAN /\ terminal' \in BOOLEAN /\ (live' => live)
      /\ (terminal => terminal')
  <2>1. live \in BOOLEAN /\ terminal \in BOOLEAN
    BY DEF Inv, TypeOK
  <2> QED BY <2>1, Zenon DEF FinishRun
<1>3. TypeOK'
  BY <1>1, <1>2 DEF Inv, TypeOK, FinishRun, taskVars, durableVars, recoveryVars
<1>4. Started' /\ CommitLock'
  BY <1>2 DEF Inv, Started, CommitLock, FinishRun, taskVars
<1>5. Task'
  BY <1>1 DEF Inv, Task, FinishRun, taskVars
<1>6. Watermark' /\ NothingForgotten'
  BY <1>1, <1>2 DEF Inv, Watermark, NothingForgotten, FinishRun, taskVars,
                   durableVars
<1>7. NotBehind'
  BY <1>1, <1>2 DEF Inv, NotBehind, FinishRun, durableVars,
                   recoveryVars
<1>8. Ending'
  BY DEF Inv, Ending, TerminalMeetsJournal, FinishRun, durableVars, recoveryVars
<1> QED
  BY <1>1, <1>3, <1>4, <1>5, <1>6, <1>7, <1>8 DEF Inv

LEMMA CloseSocketStep ==
  ASSUME Inv, NEW s \in Socket, CloseSocket(s)
  PROVE  Inv'
<1>1. /\ Window' /\ firstResidentSeq' \in Seqs
      /\ DOMAIN history' \subseteq DOMAIN history
      /\ \A n \in DOMAIN history' : history'[n] = history[n]
      /\ live => firstResidentSeq' <= eventCount
  BY Pruned DEF CloseSocket
<1>2. sinks' \subseteq Socket /\ open' \subseteq Socket
  BY DEF Inv, TypeOK, CloseSocket
<1>3. TypeOK'
  BY <1>1, <1>2 DEF Inv, TypeOK, CloseSocket, taskVars, endVars, durableVars,
                   recoveryVars
<1>4. Started' /\ CommitLock'
  BY DEF Inv, Started, CommitLock, CloseSocket, taskVars, endVars
<1>5. Task'
  BY <1>1 DEF Inv, Task, CloseSocket, taskVars
<1>6. Watermark' /\ NothingForgotten'
  BY <1>1 DEF Inv, Watermark, NothingForgotten, CloseSocket, taskVars, endVars,
             durableVars
<1>7. NotBehind'
  BY <1>1 DEF Inv, NotBehind, CloseSocket, durableVars, recoveryVars
<1>8. Ending'
  BY DEF Inv, Ending, TerminalMeetsJournal, CloseSocket, endVars, durableVars,
         recoveryVars
<1> QED
  BY <1>1, <1>3, <1>4, <1>5, <1>6, <1>7, <1>8 DEF Inv

LEMMA DeliverReplayStep ==
  ASSUME Inv, NEW s \in Socket, DeliverReplay(s)
  PROVE  Inv'
<1>1. live' \in BOOLEAN /\ (live' => live) /\ sinks' \subseteq Socket
  BY DEF Inv, TypeOK, DeliverReplay
<1>2. DOMAIN replay' = Socket
  BY DEF Inv, TypeOK, DeliverReplay
<1>3. TypeOK'
  BY <1>1, <1>2 DEF Inv, TypeOK, DeliverReplay, seqVars, taskVars, endVars,
                   durableVars, recoveryVars
<1>4. Started' /\ CommitLock' /\ Window'
  BY <1>1 DEF Inv, Started, CommitLock, Window, DeliverReplay, seqVars, taskVars,
             endVars
<1>5. Task' /\ Watermark' /\ NothingForgotten'
  BY <1>1 DEF Inv, Task, Watermark, NothingForgotten, DeliverReplay, seqVars,
             taskVars, endVars, durableVars
<1>6. NotBehind'
  BY <1>1 DEF Inv, NotBehind, DeliverReplay, seqVars, durableVars,
             recoveryVars
<1>7. Ending'
  BY DEF Inv, Ending, TerminalMeetsJournal, DeliverReplay, endVars, durableVars,
         recoveryVars
<1> QED
  BY <1>3, <1>4, <1>5, <1>6, <1>7 DEF Inv

-----------------------------------------------------------------------------
\* The journal task.
LEMMA JournalConfirmedStep ==
  ASSUME Inv, JournalConfirmed
  PROVE  Inv'
<1> USE LiveRunEventsAssumption
<1>1. PICK lo \in Seqs, hi \in Seqs : lo <= hi /\ batch = lo..hi
  BY DEF Inv, Task, JournalConfirmed
<1>2. /\ lo \in Int /\ hi \in Int /\ lo <= hi /\ persistedThroughSeq \in Int
      /\ eventCount \in Int
  BY <1>1 DEF Inv, TypeOK, Seqs, NoSeq
<1>3. persistedThroughSeq' \in {hi, persistedThroughSeq}
  BY <1>1, <1>2, LatestWith DEF JournalConfirmed
<1>4. hi < eventCount
  <2>1. hi \in batch
    BY <1>1, <1>2
  <2> QED BY <2>1 DEF Inv, Watermark, JournalConfirmed
<1>5. /\ batch' = pending /\ pending' = {} /\ batchWritten' = FALSE
  BY DEF JournalConfirmed
<1>6. TypeOK'
  <2>1. persistedThroughSeq' \in {NoSeq} \cup Seqs
    BY <1>1, <1>3 DEF Inv, TypeOK
  <2>2. /\ pending \subseteq Queued /\ pending' \subseteq Queued
        /\ batch' \subseteq Queued /\ batchWritten' \in BOOLEAN
    BY <1>5 DEF Inv, TypeOK
  <2>3. UNCHANGED <<live, attempt, nextSeq, firstResidentSeq, history,
                    persistenceError, endVars, sinks, durableVars, executor,
                    open, replay, recoveryVars>>
    BY DEF JournalConfirmed
  <2> QED BY <2>1, <2>2, <2>3
          DEF Inv, TypeOK, endVars, durableVars, recoveryVars
<1>7. Started' /\ CommitLock' /\ Window'
  BY DEF Inv, Started, CommitLock, Window, JournalConfirmed, endVars
<1>8. Task'
  BY <1>5 DEF Inv, Task, JournalConfirmed
<1>9. Watermark'
  BY <1>2, <1>3, <1>4, <1>5
  DEF Inv, Watermark, JournalConfirmed, endVars, durableVars
<1>10. NothingForgotten'
  <2>1. \A n \in batch : n < eventCount
    BY DEF Inv, Watermark, JournalConfirmed
  <2> QED BY <1>5, <2>1 DEF Inv, NothingForgotten, JournalConfirmed, endVars,
                           durableVars
<1>11. NotBehind'
  BY DEF Inv, NotBehind, JournalConfirmed, durableVars, recoveryVars
<1>12. Ending'
  BY DEF Inv, Ending, TerminalMeetsJournal, JournalConfirmed, endVars,
         durableVars, recoveryVars
<1> QED
  BY <1>6, <1>7, <1>8, <1>9, <1>10, <1>11, <1>12 DEF Inv

LEMMA JournalFailsStep ==
  ASSUME Inv, JournalFails
  PROVE  Inv'
<1>1. TypeOK'
  BY DEF Inv, TypeOK, JournalFails, seqVars, endVars, durableVars, recoveryVars
<1>2. Started' /\ CommitLock' /\ Window'
  BY DEF Inv, Started, CommitLock, Window, JournalFails, seqVars, endVars
<1>3. Task' /\ Watermark' /\ NothingForgotten'
  BY DEF Inv, Task, Watermark, NothingForgotten, JournalFails, seqVars, endVars,
         durableVars
<1>4. NotBehind' /\ Ending'
  BY DEF Inv, NotBehind, Ending, TerminalMeetsJournal, JournalFails,
         seqVars, endVars, durableVars, recoveryVars
<1> QED
  BY <1>1, <1>2, <1>3, <1>4 DEF Inv

LEMMA JournalAppendStep ==
  ASSUME Inv, JournalAppend
  PROVE  Inv'
<1>1. /\ batch \in SUBSET Queued /\ attempt \in 1..MaxAttempts
      /\ orphan \in [1..MaxAttempts -> SUBSET Queued] /\ overtaken \in BOOLEAN
  BY LiveRunEventsAssumption DEF Inv, TypeOK, Started, JournalAppend
<1> QED
  BY <1>1, JournalGrows DEF JournalAppend, recoveryVars

LEMMA OrphanAppendStep ==
  ASSUME Inv, NEW k \in DOMAIN orphan, OrphanAppend(k)
  PROVE  Inv'
<1>1. PICK last \in orphan[k] :
        LET seqs == {n \in orphan[k] : n <= last} IN
        /\ AppendAccepted(seqs) /\ Append(seqs, k)
        /\ orphan' = [orphan EXCEPT ![k] = @ \ seqs]
        /\ overtaken' = TRUE
        /\ UNCHANGED <<entryVars, sinks, executor, open, replay>>
  BY DEF OrphanAppend
<1> DEFINE seqs == {n \in orphan[k] : n <= last}
<1>2. /\ orphan \in [1..MaxAttempts -> SUBSET Queued] /\ k \in 1..MaxAttempts
      /\ batchWritten \in BOOLEAN
  BY DEF Inv, TypeOK
<1>3. seqs \in SUBSET Queued
  BY <1>2
<1>4. orphan' \in [1..MaxAttempts -> SUBSET Queued]
  BY <1>1, <1>2
<1>5. AppendAccepted(seqs) /\ Append(seqs, k) /\ overtaken'
      /\ UNCHANGED <<entryVars, sinks, executor, open, replay>>
  BY <1>1
<1> HIDE DEF seqs
<1> QED
  BY <1>2, <1>3, <1>4, <1>5, JournalGrows DEF entryVars, taskVars

-----------------------------------------------------------------------------
\* Settlements without an entry, new entries and crashes.
LEMMA ReconcileStep ==
  ASSUME Inv, NEW count \in 0..eventCount, Reconcile(count)
  PROVE  Inv'
<1> USE LiveRunEventsAssumption
<1>1. /\ eventCount \in Nat /\ eventCount <= MaxEvents
      /\ count \in Nat /\ count <= eventCount
  BY DEF Inv, TypeOK, Seqs
<1>2. PICK c \in SettlementCursor(count) :
        checkpoint' = [checkpoint EXCEPT !.status = "terminal", !.cursor = c]
  BY DEF Reconcile
<1>3. /\ c \in {count, count + 1} /\ c \in NoSeq..(MaxEvents + 1)
      /\ c # NoSeq
  BY <1>1 DEF SettlementCursor, NoSeq
<1>4. /\ checkpoint' \in [status : {"none", "running", "terminal"},
                          cursor : NoSeq..(MaxEvents + 1),
                          acknowledged : BOOLEAN]
      /\ checkpoint'.status = "terminal" /\ checkpoint'.cursor = c
  BY <1>2, <1>3 DEF Inv, TypeOK
<1>5. overtaken' = (count < eventCount)
  BY DEF Reconcile
<1>6. UNCHANGED <<entryVars, sinks, journal, eventCount, threadTaken, answered,
                  executor, open, replay, orphan>>
  BY DEF Reconcile
<1>7. TypeOK'
  <2>1. overtaken' \in BOOLEAN
    <3>1. CASE count < eventCount
      BY <1>1, <1>5, <3>1
    <3>2. CASE ~(count < eventCount)
      BY <1>1, <1>5, <3>2
    <3> QED BY <3>1, <3>2
  <2> QED BY <1>4, <1>6, <2>1
          DEF Inv, TypeOK, entryVars, seqVars, taskVars, endVars
<1>8. Started' /\ CommitLock' /\ Window'
  BY <1>6 DEF Inv, Started, CommitLock, Window, entryVars, seqVars, taskVars,
             endVars
<1>9. Task' /\ Watermark' /\ NothingForgotten'
  BY <1>6 DEF Inv, Task, Watermark, NothingForgotten, entryVars, seqVars,
             taskVars, endVars
<1>10. NotBehind'
  BY <1>4 DEF NotBehind
<1>11. Ending'
  <2>1. executor # "persisted"
    BY DEF Reconcile, Inv, Ending
  <2>2. ~overtaken' => count = eventCount
    <3>1. CASE count < eventCount
      BY <1>1, <1>5, <3>1
    <3>2. CASE ~(count < eventCount)
      BY <1>1, <3>2
    <3> QED BY <3>1, <3>2
  <2>3. TerminalMeetsJournal'
    BY <1>3, <1>4, <1>6, <2>2 DEF TerminalMeetsJournal
  <2> QED BY <1>3, <1>4, <1>6, <2>1, <2>3 DEF Ending
<1> QED
  BY <1>7, <1>8, <1>9, <1>10, <1>11 DEF Inv

LEMMA NewEntrySteps ==
  ASSUME Inv, (\E s \in Socket : StartRun(s))
              \/ (\E owners \in SUBSET open : Recover(owners))
  PROVE  Inv'
<1>1. eventCount \in Nat
  BY LiveRunEventsAssumption DEF Inv, TypeOK, Seqs
<1>2. ASSUME NEW s \in Socket, StartRun(s)
      PROVE  Inv'
  <2>1. 0 \in 0..eventCount
    BY <1>1
  <2>2. sinks' \in SUBSET Socket
    BY <1>2 DEF StartRun
  <2> QED BY <1>2, <2>1, <2>2, NewEntry DEF StartRun
<1>3. ASSUME NEW owners \in SUBSET open, Recover(owners)
      PROVE  Inv'
  <2>1. eventCount \in 0..eventCount
    BY <1>1
  <2>2. sinks' \in SUBSET Socket
    BY <1>3 DEF Recover, Inv, TypeOK
  <2> QED BY <1>3, <2>1, <2>2, NewEntry DEF Recover, Recoverable
<1> QED
  BY <1>2, <1>3

LEMMA CrashStep ==
  ASSUME Inv, Crash
  PROVE  Inv'
<1> USE LiveRunEventsAssumption
<1>1. /\ live' = FALSE /\ executor' = "idle" /\ nextSeq' = 0
      /\ firstResidentSeq' = 0 /\ persistedThroughSeq' = NoSeq
      /\ DOMAIN history' = {} /\ pending' = {} /\ batch' = {}
      /\ batchWritten' = FALSE /\ persistenceError' = FALSE
      /\ terminal' = FALSE /\ terminalCommitPending' = FALSE
      /\ commitSeq' = NoSeq /\ sinks' = {} /\ open' = {}
      /\ UNCHANGED <<attempt, durableVars, overtaken>>
  BY DEF Crash
<1>2. orphan' \in [1..MaxAttempts -> SUBSET Queued] /\ DOMAIN replay' = Socket
  BY DEF Crash, Inv, TypeOK
<1>3. 0 \in Seqs /\ 0 \in 0..(MaxEvents + 1)
  BY DEF Seqs
<1>4. TypeOK'
  BY <1>1, <1>2, <1>3 DEF Inv, TypeOK, durableVars
<1>5. Started' /\ CommitLock' /\ Window' /\ Task'
  BY <1>1 DEF Started, CommitLock, Window, Task
<1>6. Watermark' /\ NothingForgotten'
  <2>1. eventCount' \in Nat
    BY <1>1 DEF Inv, TypeOK, Seqs, durableVars
  <2> QED BY <1>1, <2>1 DEF Watermark, NothingForgotten, NoSeq
<1>7. NotBehind'
  BY <1>1 DEF NotBehind
<1>8. Ending'
  BY <1>1 DEF Inv, Ending, TerminalMeetsJournal, durableVars
<1> QED
  BY <1>4, <1>5, <1>6, <1>7, <1>8 DEF Inv

-----------------------------------------------------------------------------
LEMMA InitInv == Init => Inv
<1> SUFFICES ASSUME Init PROVE Inv
  OBVIOUS
<1> USE LiveRunEventsAssumption
<1>1. 0 \in Seqs /\ 0 \in 0..(MaxEvents + 1) /\ NoSeq \in NoSeq..(MaxEvents + 1)
      /\ 0..(0 - 1) = {} /\ 0 \in 0..MaxAttempts
  BY DEF Seqs, NoSeq
<1>2. DOMAIN history = {} /\ DOMAIN journal = {}
  BY DEF Init
<1>3. checkpoint \in [status : {"none", "running", "terminal"},
                      cursor : NoSeq..(MaxEvents + 1), acknowledged : BOOLEAN]
  BY <1>1 DEF Init
<1>4. orphan \in [1..MaxAttempts -> SUBSET Queued]
  BY DEF Init
<1>5. TypeOK
  BY <1>1, <1>2, <1>3, <1>4 DEF Init, TypeOK
<1>6. Started /\ CommitLock /\ Window /\ Task
  BY DEF Init, Started, CommitLock, Window, Task
<1>7. Watermark /\ NothingForgotten /\ NotBehind
  BY DEF Init, Watermark, NothingForgotten, NotBehind, NoSeq
<1>8. Ending
  BY DEF Init, Ending, TerminalMeetsJournal
<1> QED
  BY <1>5, <1>6, <1>7, <1>8 DEF Inv

\* Every step of the daemon, a client or a crash keeps the invariant.
LEMMA NextInv == Inv /\ [Next]_vars => Inv'
<1> SUFFICES ASSUME Inv, [Next]_vars PROVE Inv'
  OBVIOUS
<1>1. CASE Run
  <2>1. CASE BeginDurable \/ InputFails \/ RunThrows \/ SettleFailureGivesUp
             \/ Answer
    BY <2>1, ExecutorSteps
  <2>2. CASE Publish
    BY <2>2, PublishStep
  <2>3. CASE SettleTerminal
    BY <2>3, CommitBeginStep DEF SettleTerminal
  <2>4. CASE SettleFailure
    BY <2>4, CommitBeginStep DEF SettleFailure
  <2>5. CASE CommitPersist
    BY <2>5, CommitPersistStep
  <2>6. CASE CommitFails
    BY <2>6, CommitFailsStep
  <2>7. CASE CommitDone
    BY <2>7, CommitDoneStep
  <2>8. CASE FinishRun
    BY <2>8, FinishRunStep
  <2> QED
    BY <1>1, <2>1, <2>2, <2>3, <2>4, <2>5, <2>6, <2>7, <2>8 DEF Run
<1>2. CASE Journaling
  BY <1>2, JournalAppendStep, JournalConfirmedStep, JournalFailsStep
  DEF Journaling
<1>3. CASE Orphans
  BY <1>3, OrphanAppendStep, OrphanFailsStep DEF Orphans
<1>4. CASE Sockets
  <2>1. CASE \E s \in Socket : StartRun(s)
    BY <2>1, NewEntrySteps
  <2>2. ASSUME NEW s \in Socket, OpenSocket(s)
        PROVE  Inv'
    BY <2>2, SocketSteps
  <2>3. ASSUME NEW s \in Socket, CloseSocket(s)
        PROVE  Inv'
    BY <2>3, CloseSocketStep
  <2>4. ASSUME NEW s \in Socket, DeliverReplay(s)
        PROVE  Inv'
    BY <2>4, DeliverReplayStep
  <2>5. ASSUME NEW s \in Socket, NEW after \in {NoSeq} \cup Seqs,
               CollectReplay(s, after)
        PROVE  Inv'
    BY <2>5, SocketSteps
  <2> QED BY <1>4, <2>1, <2>2, <2>3, <2>4, <2>5 DEF Sockets
<1>5. CASE \E owners \in SUBSET open : Recover(owners)
  BY <1>5, NewEntrySteps
<1>6. CASE ReconcileAnswered
  <2>1. eventCount \in 0..eventCount
    BY LiveRunEventsAssumption DEF Inv, TypeOK, Seqs
  <2> QED BY <1>6, <2>1, ReconcileStep DEF ReconcileAnswered
<1>7. CASE \E cursor \in Seqs : Acknowledge(cursor)
  BY <1>7, AcknowledgeStep
<1>8. CASE NextRunTakesThread
  BY <1>8, NextRunStep
<1>9. CASE Crash
  BY <1>9, CrashStep
<1>10. CASE UNCHANGED vars
  <2>1. TypeOK' /\ Ending'
    BY <1>10 DEF Inv, TypeOK, Ending, TerminalMeetsJournal, vars, entryVars,
                seqVars, taskVars, endVars, durableVars, recoveryVars
  <2> QED BY <1>10, <2>1, Undisturbed DEF vars, durableVars, recoveryVars
<1> QED
  BY <1>1, <1>2, <1>3, <1>4, <1>5, <1>6, <1>7, <1>8, <1>9, <1>10 DEF Next

\* Every reachable state of the store, its journal and its checkpoint satisfies
\* the inductive invariant.
THEOREM Invariance == Spec => []Inv
  BY InitInv, NextInv, PTL DEF Spec

-----------------------------------------------------------------------------
\* Type correctness of the live store, for any sockets and any bounds.
THEOREM TypeCorrect == Spec => []TypeOK
<1>1. Inv => TypeOK
  BY DEF Inv
<1> QED
  BY <1>1, Invariance, PTL

\* The resident array of an entry and its two counters never drift apart,
\* whatever publishes, commits and prunes interleave.
THEOREM WindowNeverDrifts == Spec => []ResidentWindow
<1>1. Inv => ResidentWindow
  BY DEF Inv, Window, ResidentWindow
<1> QED
  BY <1>1, Invariance, PTL

\* What pruneDetachedTerminalHistory dropped from memory is in the journal.
THEOREM PruningLosesNothing == Spec => []DroppedIsJournaled
<1>1. Inv => DroppedIsJournaled
  BY DEF Inv, Watermark, DroppedIsJournaled
<1> QED
  BY <1>1, Invariance, PTL

\* Memory and journal agree on every event both hold.  Two facts go with it: an
\* entry still in the map when its run is settled is the one whose commit settled
\* it, and what memory and journal hold in common only changes together.
Closed == live /\ checkpoint.status = "terminal" => executor = "persisted" \/ terminal

Agreement ==
  live /\ ~overtaken =>
    \A n \in DOMAIN history \cap DOMAIN journal : history[n] = journal[n]

LEMMA ClosedStep ==
  ASSUME Inv, Closed, [Next]_vars
  PROVE  Closed'
<1>1. CASE Run
  <2>1. CASE BeginDurable \/ InputFails \/ RunThrows \/ SettleFailureGivesUp
             \/ Answer
    BY <2>1 DEF Closed, BeginDurable, InputFails, RunThrows,
       SettleFailureGivesUp, Answer, entryVars, endVars, durableVars, Inv, TypeOK
  <2>2. CASE Publish
    BY <2>2 DEF Closed, Publish, endVars, durableVars
  <2>3. CASE SettleTerminal \/ SettleFailure
    BY <2>3 DEF Closed, SettleTerminal, SettleFailure, CommitBegin, durableVars
  <2>4. CASE CommitPersist
    BY <2>4 DEF Closed, CommitPersist, Committing, Inv, CommitLock, entryVars,
       endVars
  <2>5. CASE CommitFails
    BY <2>5 DEF Closed, CommitFails, Committing, Inv, CommitLock, durableVars
  <2>6. CASE CommitDone
    BY <2>6 DEF Closed, CommitDone
  <2>7. CASE FinishRun
    BY <2>7 DEF Closed, FinishRun, durableVars
  <2> QED BY <1>1, <2>1, <2>2, <2>3, <2>4, <2>5, <2>6, <2>7 DEF Run
<1>2. CASE Journaling
  BY <1>2 DEF Closed, Journaling, JournalAppend, Append, JournalConfirmed,
     JournalFails, endVars, durableVars
<1>3. CASE Orphans
  <2>1. UNCHANGED <<live, checkpoint, executor, terminal>>
    BY <1>3 DEF Orphans, OrphanAppend, OrphanFails, Append, entryVars, endVars,
       durableVars
  <2> QED BY <2>1 DEF Closed
<1>4. CASE Sockets
  <2>1. ASSUME NEW s \in Socket, StartRun(s)
        PROVE  Closed'
    BY <2>1 DEF Closed, StartRun, durableVars
  <2>2. ASSUME NEW s \in Socket, OpenSocket(s)
        PROVE  Closed'
    BY <2>2 DEF Closed, OpenSocket, entryVars, endVars, durableVars
  <2>3. ASSUME NEW s \in Socket, CloseSocket(s)
        PROVE  Closed'
    BY <2>3 DEF Closed, CloseSocket, endVars, durableVars
  <2>4. ASSUME NEW s \in Socket, DeliverReplay(s)
        PROVE  Closed'
    BY <2>4 DEF Closed, DeliverReplay, endVars, durableVars
  <2>5. ASSUME NEW s \in Socket, NEW after \in {NoSeq} \cup Seqs,
               CollectReplay(s, after)
        PROVE  Closed'
    BY <2>5 DEF Closed, CollectReplay, entryVars, endVars, durableVars
  <2> QED BY <1>4, <2>1, <2>2, <2>3, <2>4, <2>5 DEF Sockets
<1>5. CASE \E owners \in SUBSET open : Recover(owners)
  BY <1>5 DEF Closed, Recover, Recoverable, durableVars
<1>6. CASE ReconcileAnswered \/ NextRunTakesThread \/ Crash \/ UNCHANGED vars
  BY <1>6 DEF Closed, ReconcileAnswered, Recoverable, Reconcile,
     NextRunTakesThread, Crash, vars, entryVars, endVars, durableVars
<1>7. CASE \E cursor \in Seqs : Acknowledge(cursor)
  BY <1>7 DEF Closed, Acknowledge, entryVars, endVars, Inv, TypeOK
<1> QED
  BY <1>1, <1>2, <1>3, <1>4, <1>5, <1>6, <1>7 DEF Next

\* The seq an entry in use takes next is not in the journal yet.
LEMMA NextIsFresh ==
  ASSUME Inv, ~overtaken, live \/ executor # "idle",
         checkpoint.status # "terminal" \/ executor = "persisted"
  PROVE  nextSeq \notin DOMAIN journal
<1>1. nextSeq \in Nat /\ eventCount \in Nat /\ DOMAIN journal = 0..(eventCount - 1)
  BY LiveRunEventsAssumption DEF Inv, TypeOK, Seqs
<1>2. eventCount <= nextSeq
  <2>1. CASE checkpoint.status # "terminal"
    BY <2>1 DEF Inv, NotBehind
  <2>2. CASE executor = "persisted"
    <3>1. checkpoint.status = "terminal" /\ checkpoint.cursor = nextSeq
      BY <2>2 DEF Inv, Ending, CommitLock
    <3>2. checkpoint.cursor \in {eventCount, eventCount + 1}
      BY <3>1 DEF Inv, Ending, TerminalMeetsJournal
    <3> QED BY <1>1, <3>1, <3>2
  <2> QED BY <2>1, <2>2
<1> QED
  BY <1>1, <1>2

LEMMA AgreementStep ==
  ASSUME Inv, Closed, Agreement, [Next]_vars
  PROVE  Agreement'
<1>0. ASSUME UNCHANGED <<journal, overtaken>>, live' => live,
             DOMAIN history' \subseteq DOMAIN history,
             \A n \in DOMAIN history' : history'[n] = history[n]
      PROVE  Agreement'
  BY <1>0 DEF Agreement
<1>1. ASSUME UNCHANGED <<journal, overtaken, live>>,
             NEW e, history' = Put(history, nextSeq, e),
             live, ~overtaken => nextSeq \notin DOMAIN journal
      PROVE  Agreement'
  BY <1>1 DEF Agreement, Put
<1>2. CASE Publish
  <2>1. checkpoint.status # "terminal" /\ live
    BY <1>2 DEF Publish, PublishAllowed, Closed, Inv, CommitLock
  <2> QED BY <1>1, <1>2, <2>1, NextIsFresh DEF Publish, durableVars, recoveryVars
<1>3. CASE CommitDone
  <2>1. commitSeq = nextSeq /\ executor = "persisted"
    BY <1>3 DEF CommitDone, Inv, CommitLock
  <2>2. CASE live
    BY <1>1, <1>3, <2>1, <2>2, NextIsFresh DEF CommitDone, durableVars, recoveryVars
  <2>3. CASE ~live
    BY <1>3, <2>3 DEF CommitDone, Agreement
  <2> QED BY <2>2, <2>3
<1>4. CASE FinishRun
  <2>1. /\ DOMAIN history' \subseteq DOMAIN history
        /\ \A n \in DOMAIN history' : history'[n] = history[n]
    BY <1>4, Pruned DEF FinishRun
  <2> QED BY <1>0, <1>4, <2>1 DEF FinishRun, durableVars, recoveryVars
<1>5. ASSUME NEW s \in Socket, CloseSocket(s)
      PROVE  Agreement'
  <2>1. /\ DOMAIN history' \subseteq DOMAIN history
        /\ \A n \in DOMAIN history' : history'[n] = history[n]
    BY <1>5, Pruned DEF CloseSocket
  <2> QED BY <1>0, <1>5, <2>1 DEF CloseSocket, durableVars, recoveryVars
<1>6. CASE BeginDurable \/ InputFails \/ RunThrows \/ SettleFailureGivesUp
           \/ Answer \/ CommitPersist
  BY <1>0, <1>6 DEF BeginDurable, InputFails, RunThrows, SettleFailureGivesUp,
     Answer, CommitPersist, entryVars, seqVars, durableVars, recoveryVars
<1>7. CASE SettleTerminal \/ SettleFailure \/ CommitFails \/ JournalConfirmed
           \/ JournalFails
  BY <1>0, <1>7 DEF SettleTerminal, SettleFailure, CommitBegin, CommitFails,
     JournalConfirmed, JournalFails, seqVars, durableVars, recoveryVars
<1>8. CASE JournalAppend
  <2>1. batch \in SUBSET Queued /\ attempt \in 1..MaxAttempts /\ TypeOK
    BY <1>8, LiveRunEventsAssumption DEF Inv, TypeOK, Started, JournalAppend
  <2>2. /\ batch = eventCount..(eventCount' - 1)
        /\ DOMAIN journal' = 0..(eventCount' - 1)
        /\ \A n \in 0..(eventCount - 1) : journal'[n] = journal[n]
        /\ \A n \in batch : journal'[n] = [attempt |-> attempt, terminal |-> FALSE]
    BY <1>8, <2>1, AppendExtends DEF JournalAppend
  <2>3. /\ eventCount \in Nat /\ eventCount' \in Nat
        /\ DOMAIN journal = 0..(eventCount - 1)
    <3>1. eventCount' \in Seqs
      BY <1>8, <2>1, AppendExtends DEF JournalAppend
    <3> QED BY <2>1, <3>1 DEF TypeOK, Seqs
  <2>4. UNCHANGED <<live, history, overtaken>>
    BY <1>8 DEF JournalAppend, seqVars, recoveryVars
  <2> SUFFICES ASSUME live, ~overtaken,
                      NEW n \in DOMAIN history, n \in DOMAIN journal'
               PROVE  history[n] = journal'[n]
    BY <2>4 DEF Agreement
  <2>5. CASE n \in batch
    <3>1. history[n] = [attempt |-> attempt, terminal |-> FALSE]
      BY <2>5 DEF Inv, Task
    <3> QED BY <2>2, <2>5, <3>1
  <2>6. CASE n \notin batch
    <3>1. n \in 0..(eventCount - 1)
      BY <2>2, <2>3, <2>6
    <3> QED BY <2>2, <2>3, <3>1 DEF Agreement
  <2> QED BY <2>5, <2>6
<1>9. ASSUME NEW k \in DOMAIN orphan, OrphanAppend(k)
      PROVE  Agreement'
  BY <1>9 DEF OrphanAppend, Agreement
<1>10. ASSUME NEW k \in DOMAIN orphan, OrphanFails(k)
       PROVE  Agreement'
  BY <1>0, <1>10 DEF OrphanFails, entryVars, seqVars, durableVars
<1>11. ASSUME NEW s \in Socket, DeliverReplay(s)
       PROVE  Agreement'
  <2>1. live' => live
    BY <1>11 DEF DeliverReplay
  <2> QED BY <1>0, <1>11, <2>1 DEF DeliverReplay, seqVars, durableVars, recoveryVars
<1>12. ASSUME NEW s \in Socket,
              OpenSocket(s) \/ \E after \in {NoSeq} \cup Seqs : CollectReplay(s, after)
       PROVE  Agreement'
  BY <1>0, <1>12 DEF OpenSocket, CollectReplay, entryVars, seqVars, durableVars,
     recoveryVars
<1>13. ASSUME NEW count, CreateEntry(count), UNCHANGED durableVars
       PROVE  Agreement'
  BY <1>13 DEF CreateEntry, Journaled, Agreement, durableVars
<1>14. ASSUME NEW s \in Socket, StartRun(s)
       PROVE  Agreement'
  BY <1>13, <1>14 DEF StartRun
<1>15. ASSUME NEW owners \in SUBSET open, Recover(owners)
       PROVE  Agreement'
  BY <1>13, <1>15 DEF Recover
<1>16. CASE ReconcileAnswered
  BY <1>16 DEF ReconcileAnswered, Recoverable, Reconcile, Agreement, entryVars
<1>17. ASSUME NEW cursor \in Seqs, Acknowledge(cursor)
       PROVE  Agreement'
  BY <1>0, <1>17 DEF Acknowledge, entryVars, seqVars, recoveryVars
<1>18. CASE NextRunTakesThread \/ UNCHANGED vars
  BY <1>0, <1>18 DEF NextRunTakesThread, vars, entryVars, seqVars, durableVars,
     recoveryVars
<1>19. CASE Crash
  BY <1>19 DEF Crash, Agreement
<1> QED
  BY <1>2, <1>3, <1>4, <1>5, <1>6, <1>7, <1>8, <1>9, <1>10, <1>11, <1>12, <1>14,
     <1>15, <1>16, <1>17, <1>18, <1>19
  DEF Next, Run, Journaling, Orphans, Sockets

THEOREM MemoryAgrees == Spec => []JournalAgrees
<1>1. Init => Closed /\ Agreement
  BY DEF Init, Closed, Agreement
<1>2. Inv /\ Closed /\ Agreement /\ [Next]_vars => (Closed /\ Agreement)'
  BY ClosedStep, AgreementStep
<1>3. Agreement => JournalAgrees
  BY DEF Agreement, JournalAgrees
<1> QED
  BY <1>1, <1>2, <1>3, Invariance, PTL DEF Spec

\* The terminal commit puts its event right behind the journal, unless an
\* abandoned journal task wrote behind the back of the entry.
THEOREM TerminalAtTheEnd == Spec => []TerminalMeetsJournal
<1>1. Inv => TerminalMeetsJournal
  BY DEF Inv, Ending
<1> QED
  BY <1>1, Invariance, PTL

-----------------------------------------------------------------------------
\* The journal and the checkpoint are an append-only log that closes once.

LEMMA AppendRefines ==
  ASSUME Inv, NEW seqs \in SUBSET Queued, NEW k \in 1..MaxAttempts,
         AppendAccepted(seqs), Append(seqs, k)
  PROVE  Durable!AppendBatch
<1> USE LiveRunEventsAssumption
<1>1. TypeOK
  BY DEF Inv
<1>2. /\ eventCount' \in Seqs /\ eventCount < eventCount'
      /\ seqs = eventCount..(eventCount' - 1)
      /\ DOMAIN journal' = 0..(eventCount' - 1)
      /\ \A n \in 0..(eventCount - 1) : journal'[n] = journal[n]
      /\ \A n \in DOMAIN journal' : journal'[n] \in Event
  BY <1>1, AppendExtends
<1>3. eventCount \in Nat /\ eventCount' \in Nat /\ eventCount' <= MaxEvents
  BY <1>1, <1>2 DEF TypeOK, Seqs
<1>4. eventCount' \in (eventCount + 1)..MaxEvents
  BY <1>2, <1>3
<1>5. \A n \in eventCount..(eventCount' - 1) : n \in 0..(eventCount' - 1)
  BY <1>3, IntervalInside
<1>6. \A n \in eventCount..(eventCount' - 1) : journal'[n] \in Event
  BY <1>2, <1>5
<1>7. checkpoint.cursor = NoSeq /\ checkpoint' = checkpoint
  BY DEF Inv, Ending, AppendAccepted, Append
<1> QED
  BY <1>2, <1>4, <1>6, <1>7 DEF Durable!AppendBatch, Durable!NoCursor, NoSeq

LEMMA CloseRefines ==
  ASSUME Inv, Inv', checkpoint.status = "running",
         checkpoint'.status = "terminal",
         checkpoint'.acknowledged = checkpoint.acknowledged,
         checkpoint'.cursor <= eventCount + 1,
         UNCHANGED <<journal, eventCount>>
  PROVE  Durable!Close
<1> USE LiveRunEventsAssumption
<1>1. checkpoint.cursor = NoSeq /\ checkpoint'.cursor # NoSeq
  BY DEF Inv, Ending
<1>2. checkpoint'.cursor \in NoSeq..(MaxEvents + 1) /\ eventCount \in Nat
  BY DEF Inv, TypeOK, Seqs
<1>3. checkpoint'.cursor \in 0..(eventCount + 1)
  BY <1>1, <1>2 DEF NoSeq
<1> QED
  BY <1>1, <1>3 DEF Durable!Close, Durable!NoCursor, NoSeq

LEMMA StepRefines ==
  ASSUME Inv, Inv', [Next]_vars
  PROVE  [Durable!LogNext]_(Durable!logVars)
<1> USE LiveRunEventsAssumption
<1>1. CASE JournalAppend
  <2>1. batch \in SUBSET Queued /\ attempt \in 1..MaxAttempts
    BY <1>1 DEF Inv, TypeOK, Started, JournalAppend
  <2> QED BY <1>1, <2>1, AppendRefines DEF JournalAppend, Durable!LogNext
<1>2. ASSUME NEW k \in DOMAIN orphan, OrphanAppend(k)
      PROVE  Durable!LogNext
  <2>1. orphan \in [1..MaxAttempts -> SUBSET Queued]
    BY DEF Inv, TypeOK
  <2>2. PICK last \in orphan[k] :
          /\ AppendAccepted({n \in orphan[k] : n <= last})
          /\ Append({n \in orphan[k] : n <= last}, k)
    BY <1>2 DEF OrphanAppend
  <2>3. {n \in orphan[k] : n <= last} \in SUBSET Queued /\ k \in 1..MaxAttempts
    BY <2>1
  <2> QED BY <2>2, <2>3, AppendRefines DEF Durable!LogNext
<1>3. CASE CommitPersist
  <2>1. /\ checkpoint'.status = "terminal"
        /\ checkpoint'.acknowledged = checkpoint.acknowledged
        /\ checkpoint'.cursor = commitSeq /\ commitSeq' = commitSeq
        /\ executor' = "persisted" /\ checkpoint.status = "running"
        /\ UNCHANGED <<journal, eventCount>>
    BY <1>3 DEF CommitPersist, Inv, TypeOK, entryVars, endVars
  <2>2. commitSeq <= eventCount
    BY <2>1 DEF Inv, Ending
  <2>3. commitSeq <= eventCount + 1
    BY <2>2 DEF Inv, TypeOK, Seqs, NoSeq
  <2> QED BY <2>1, <2>3, CloseRefines DEF Durable!LogNext
<1>4. CASE ReconcileAnswered
  <2>1. PICK c \in SettlementCursor(eventCount) :
          checkpoint' = [checkpoint EXCEPT !.status = "terminal", !.cursor = c]
    BY <1>4 DEF ReconcileAnswered, Reconcile
  <2>2. c <= eventCount + 1
    BY DEF SettlementCursor, Inv, TypeOK, Seqs
  <2>3. /\ checkpoint'.status = "terminal"
        /\ checkpoint'.acknowledged = checkpoint.acknowledged
        /\ checkpoint'.cursor = c /\ checkpoint.status = "running"
        /\ UNCHANGED <<journal, eventCount>>
    BY <1>4, <2>1 DEF ReconcileAnswered, Reconcile, Inv, TypeOK
  <2> QED BY <2>2, <2>3, CloseRefines DEF Durable!LogNext
<1>5. ASSUME NEW cursor \in Seqs, Acknowledge(cursor)
      PROVE  Durable!LogNext
  <2>1. checkpoint.cursor # NoSeq
    BY <1>5 DEF Acknowledge, Seqs, NoSeq
  <2>2. /\ checkpoint'.cursor = checkpoint.cursor /\ checkpoint'.acknowledged = TRUE
        /\ UNCHANGED <<journal, eventCount>>
    BY <1>5 DEF Acknowledge, Inv, TypeOK
  <2> QED BY <2>1, <2>2
          DEF Durable!LogNext, Durable!Acknowledged, Durable!NoCursor, NoSeq
<1>6. CASE BeginDurable
  BY <1>6 DEF BeginDurable, Inv, TypeOK, Durable!logVars
<1>7. ASSUME UNCHANGED <<journal, eventCount, checkpoint>>
      PROVE  UNCHANGED Durable!logVars
  BY <1>7 DEF Durable!logVars
<1>8. CASE InputFails \/ Publish \/ Answer \/ RunThrows \/ SettleTerminal
           \/ SettleFailure \/ CommitFails \/ SettleFailureGivesUp \/ CommitDone
           \/ FinishRun
  BY <1>7, <1>8 DEF InputFails, Publish, Answer, RunThrows, SettleTerminal,
     SettleFailure, CommitBegin, CommitFails, SettleFailureGivesUp, CommitDone,
     FinishRun, durableVars
<1>9. CASE JournalConfirmed \/ JournalFails \/ NextRunTakesThread \/ Crash
           \/ UNCHANGED vars
  BY <1>7, <1>9 DEF JournalConfirmed, JournalFails, NextRunTakesThread, Crash,
     vars, durableVars
<1>10. ASSUME NEW k \in DOMAIN orphan, OrphanFails(k)
       PROVE  UNCHANGED Durable!logVars
  BY <1>7, <1>10 DEF OrphanFails, durableVars
<1>11. CASE Sockets
  <2>1. UNCHANGED durableVars
    BY <1>11 DEF Sockets, StartRun, OpenSocket, CloseSocket, DeliverReplay,
       CollectReplay
  <2> QED BY <1>7, <2>1 DEF durableVars
<1>12. CASE \E owners \in SUBSET open : Recover(owners)
  BY <1>7, <1>12 DEF Recover, durableVars
<1> QED
  BY <1>1, <1>2, <1>3, <1>4, <1>5, <1>6, <1>8, <1>9, <1>10, <1>11, <1>12
  DEF Next, Run, Journaling, Orphans

\* The journal file and the terminal cursor implement the durable run log:
\* events are appended and never rewritten, nothing is appended once the run is
\* terminal, and the cursor is set once and never moves.
THEOREM ImplementsDurableLog == Spec => DurableLog
<1>1. Init => Durable!LogInit
  BY DEF Init, Durable!LogInit, Durable!NoCursor, NoSeq
<1>2. Inv /\ Inv' /\ [Next]_vars => [Durable!LogNext]_(Durable!logVars)
  BY StepRefines
<1> QED
  BY <1>1, <1>2, Invariance, PTL DEF Spec, DurableLog, Durable!LogSpec
=============================================================================
