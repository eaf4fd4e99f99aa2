-------------------------- MODULE RunChannelProofs ---------------------------
(***************************************************************************)
(* What the clients of a run hold, proved for every number of clients,     *)
(* sockets, events and attempts: the store keeps its invariant under the   *)
(* handshakes of all sockets, a hole comes only from a bind that raced,    *)
(* and the terminal event a client shows is the end of the durable run.    *)
(***************************************************************************)
EXTENDS RunChannel, LiveRunEventsProofs

-----------------------------------------------------------------------------
\* The steps of the store under the handshakes.  They are those of Next, but a
\* recovery and a settlement start from the count of journaled events that some
\* handshake read earlier.
RecoverAt(count, owners) ==
  /\ Recoverable
  /\ CreateEntry(count)
  /\ sinks' = owners /\ executor' = "preparing"
  /\ UNCHANGED <<durableVars, open>>

NewEntryStep ==
  \/ \E s \in Socket : StartRun(s)
  \/ \E count \in 0..eventCount, owners \in SUBSET Socket : RecoverAt(count, owners)

SocketStep ==
  \E s \in Socket : \/ OpenSocket(s) \/ CloseSocket(s) \/ DeliverReplay(s)
                    \/ \E from \in {NoSeq} \cup Nat : CollectReplay(s, from)

SettledStep ==
  \/ \E count \in 0..eventCount : Reconcile(count)
  \/ \E end \in Nat : Acknowledge(end)
  \/ NextRunTakesThread

StoreMoves ==
  \/ Run \/ Journaling \/ Orphans \/ NewEntryStep \/ SocketStep \/ SettledStep
  \/ UNCHANGED vars

StoreNext == StoreMoves \/ Crash

LEMMA StoreKeepsInv ==
  ASSUME Inv, StoreNext
  PROVE  Inv'
<1>1. CASE Run \/ Journaling \/ Orphans \/ Crash \/ UNCHANGED vars
  BY <1>1, NextInv DEF Next
<1>2. CASE NewEntryStep
  <2>1. ASSUME NEW s \in Socket, StartRun(s)
        PROVE  Inv'
    BY <2>1, NewEntrySteps
  <2>2. ASSUME NEW count \in 0..eventCount, NEW owners \in SUBSET Socket,
               RecoverAt(count, owners)
        PROVE  Inv'
    <3>1. sinks' \in SUBSET Socket /\ checkpoint.status # "terminal"
      BY <2>2 DEF RecoverAt, Recoverable
    <3> QED BY <2>2, <3>1, NewEntry DEF RecoverAt
  <2> QED BY <1>2, <2>1, <2>2 DEF NewEntryStep
<1>3. CASE SocketStep
  <2>1. ASSUME NEW s \in Socket, OpenSocket(s)
        PROVE  Inv'
    BY <2>1, SocketSteps
  <2>2. ASSUME NEW s \in Socket, CloseSocket(s)
        PROVE  Inv'
    BY <2>2, CloseSocketStep
  <2>3. ASSUME NEW s \in Socket, DeliverReplay(s)
        PROVE  Inv'
    BY <2>3, DeliverReplayStep
  <2>4. ASSUME NEW s \in Socket, NEW from, CollectReplay(s, from)
        PROVE  Inv'
    BY <2>4, SocketSteps
  <2> QED BY <1>3, <2>1, <2>2, <2>3, <2>4 DEF SocketStep
<1>4. CASE SettledStep
  BY <1>4, ReconcileStep, AcknowledgeStep, NextRunStep DEF SettledStep
<1> QED
  BY <1>1, <1>2, <1>3, <1>4 DEF StoreNext, StoreMoves

-----------------------------------------------------------------------------
\* A collection of events, keyed by seq, is sound at a state of the run: each is
\* journaled, of an attempt that is over, or below what comes next (or the end
\* of a settled run), and a terminal one is the end the checkpoint names.
Sound(f, count, try, next, end) ==
  \A n \in DOMAIN f :
    /\ n \in Nat /\ f[n] \in [attempt : Nat, terminal : BOOLEAN]
    /\ \/ n < count
       \/ f[n].attempt < try
       \/ f[n].attempt = try /\ n < next
       \/ f[n].attempt = try /\ end.status = "terminal" /\ n <= end.cursor
    /\ f[n].terminal => /\ end.status = "terminal" /\ end.cursor = n
                        /\ f[n].attempt = try

SoundNow(f) == Sound(f, eventCount, attempt, nextSeq, checkpoint)
SoundThen(f) == Sound(f, eventCount', attempt', nextSeq', checkpoint')

\* Outside a crash a run only moves on, and not any more once it is settled.
Forward ==
  /\ eventCount <= eventCount'
  /\ (attempt' = attempt /\ nextSeq <= nextSeq') \/ attempt < attempt'
  /\ checkpoint.status = "terminal" =>
       /\ checkpoint'.status = "terminal" /\ checkpoint'.cursor = checkpoint.cursor
       /\ attempt' = attempt

Counts == /\ eventCount \in Nat /\ attempt \in Nat /\ nextSeq \in Nat
          /\ checkpoint.cursor \in Int

LEMMA CountsNow == ASSUME Inv PROVE Counts
BY LiveRunEventsAssumption DEF Inv, TypeOK, Seqs, NoSeq, Counts

LEMMA CountsThen == ASSUME Inv' PROVE Counts'
BY LiveRunEventsAssumption DEF Inv, TypeOK, Seqs, NoSeq, Counts

\* What is sound stays sound.
LEMMA SoundLasts ==
  ASSUME NEW f, SoundNow(f), Counts, Counts', Forward
  PROVE  SoundThen(f)
<1> SUFFICES ASSUME NEW n \in DOMAIN f
             PROVE  /\ n \in Nat /\ f[n] \in [attempt : Nat, terminal : BOOLEAN]
                    /\ \/ n < eventCount'
                       \/ f[n].attempt < attempt'
                       \/ f[n].attempt = attempt' /\ n < nextSeq'
                       \/ /\ f[n].attempt = attempt'
                          /\ checkpoint'.status = "terminal"
                          /\ n <= checkpoint'.cursor
                    /\ f[n].terminal => /\ checkpoint'.status = "terminal"
                                        /\ checkpoint'.cursor = n
                                        /\ f[n].attempt = attempt'
  BY DEF SoundThen, Sound
<1>1. /\ n \in Nat /\ f[n] \in [attempt : Nat, terminal : BOOLEAN]
      /\ \/ n < eventCount
         \/ f[n].attempt < attempt
         \/ f[n].attempt = attempt /\ n < nextSeq
         \/ /\ f[n].attempt = attempt
            /\ checkpoint.status = "terminal"
            /\ n <= checkpoint.cursor
      /\ f[n].terminal => /\ checkpoint.status = "terminal"
                          /\ checkpoint.cursor = n
                          /\ f[n].attempt = attempt
  BY DEF SoundNow, Sound
<1>2. f[n].attempt \in Nat
  BY <1>1
<1>3. f[n].terminal => /\ checkpoint'.status = "terminal"
                       /\ checkpoint'.cursor = n
                       /\ f[n].attempt = attempt'
  BY <1>1 DEF Forward
<1>4. CASE n < eventCount
  BY <1>1, <1>3, <1>4 DEF Forward, Counts
<1>5. CASE f[n].attempt < attempt
  BY <1>1, <1>2, <1>3, <1>5 DEF Forward, Counts
<1>6. CASE f[n].attempt = attempt /\ n < nextSeq
  BY <1>1, <1>2, <1>3, <1>6 DEF Forward, Counts
<1>7. CASE /\ f[n].attempt = attempt
           /\ checkpoint.status = "terminal"
           /\ n <= checkpoint.cursor
  BY <1>1, <1>2, <1>3, <1>7 DEF Forward, Counts
<1> QED
  BY <1>1, <1>4, <1>5, <1>6, <1>7

\* A part of a sound collection, and one shown over another, are sound.
LEMMA SoundPart ==
  ASSUME NEW f, NEW g, NEW count, NEW try, NEW next, NEW end,
         Sound(f, count, try, next, end),
         \A n \in DOMAIN g : n \in DOMAIN f /\ g[n] = f[n]
  PROVE  Sound(g, count, try, next, end)
BY DEF Sound

LEMMA SoundOver ==
  ASSUME NEW f, NEW g, NEW h, NEW count, NEW try, NEW next, NEW end,
         Sound(f, count, try, next, end), Sound(g, count, try, next, end),
         \A n \in DOMAIN h : \/ n \in DOMAIN g /\ h[n] = g[n]
                             \/ n \in DOMAIN f /\ h[n] = f[n]
  PROVE  Sound(h, count, try, next, end)
BY DEF Sound

\* The journal has ordinary events only.
Plain == \A n \in DOMAIN journal : ~journal[n].terminal

LEMMA JournalIsSound ==
  ASSUME Inv, Plain, NEW f,
         \A n \in DOMAIN f : n \in 0..(eventCount - 1) /\ f[n] = journal[n]
  PROVE  SoundNow(f)
<1>1. ASSUME NEW n \in 0..(eventCount - 1)
      PROVE  /\ n \in Nat /\ n < eventCount
             /\ journal[n] \in [attempt : Nat, terminal : BOOLEAN]
             /\ ~journal[n].terminal
  <2>1. eventCount \in Nat /\ n \in DOMAIN journal /\ journal[n] \in Event
    BY LiveRunEventsAssumption DEF Inv, TypeOK, Seqs
  <2> QED BY <2>1, LiveRunEventsAssumption DEF Event, Plain
<1> QED
  BY <1>1 DEF SoundNow, Sound

-----------------------------------------------------------------------------
\* Every step of the store but a crash moves the run on.
LEMMA AppendForward ==
  ASSUME Inv, NEW seqs \in SUBSET Queued, NEW k \in 1..MaxAttempts,
         AppendAccepted(seqs), Append(seqs, k), UNCHANGED <<attempt, nextSeq>>
  PROVE  Forward
<1>1. TypeOK /\ eventCount \in Nat /\ nextSeq \in Nat
  BY LiveRunEventsAssumption DEF Inv, TypeOK, Seqs
<1>2. eventCount' \in Seqs /\ eventCount < eventCount'
  BY <1>1, AppendExtends
<1>3. eventCount <= eventCount'
  BY <1>1, <1>2, LiveRunEventsAssumption DEF Seqs
<1> QED
  BY <1>1, <1>3 DEF Forward, Append

LEMMA OrphanAppends ==
  ASSUME Inv, NEW k \in DOMAIN orphan, OrphanAppend(k)
  PROVE  \E seqs \in SUBSET Queued :
           /\ k \in 1..MaxAttempts /\ AppendAccepted(seqs) /\ Append(seqs, k)
           /\ UNCHANGED <<entryVars, sinks, replay>>
<1>1. orphan \in [1..MaxAttempts -> SUBSET Queued]
  BY DEF Inv, TypeOK
<1>2. PICK last \in orphan[k] :
        /\ AppendAccepted({n \in orphan[k] : n <= last})
        /\ Append({n \in orphan[k] : n <= last}, k)
        /\ UNCHANGED <<entryVars, sinks, replay>>
  BY DEF OrphanAppend
<1>3. {n \in orphan[k] : n <= last} \in SUBSET Queued /\ k \in 1..MaxAttempts
  BY <1>1
<1> QED
  BY <1>2, <1>3

LEMMA StoreForward ==
  ASSUME Inv, StoreMoves
  PROVE  Forward
<1>1. Counts /\ checkpoint \in [status : {"none", "running", "terminal"},
                                cursor : NoSeq..(MaxEvents + 1),
                                acknowledged : BOOLEAN]
  BY CountsNow DEF Inv, TypeOK
<1>2. ASSUME UNCHANGED <<eventCount, attempt>>, nextSeq <= nextSeq',
             checkpoint.status = "terminal" =>
               /\ checkpoint'.status = "terminal"
               /\ checkpoint'.cursor = checkpoint.cursor
      PROVE  Forward
  BY <1>1, <1>2 DEF Forward, Counts
<1>3. nextSeq <= nextSeq /\ nextSeq <= nextSeq + 1
  BY <1>1 DEF Counts
<1>4. CASE Run
  <2>1. CASE BeginDurable \/ InputFails \/ RunThrows \/ SettleFailureGivesUp
             \/ Answer \/ CommitPersist
    BY <1>1, <1>2, <1>3, <2>1 DEF BeginDurable, InputFails, RunThrows,
       SettleFailureGivesUp, Answer, CommitPersist, entryVars, seqVars,
       durableVars
  <2>2. CASE SettleTerminal \/ SettleFailure \/ CommitFails
    BY <1>2, <1>3, <2>2 DEF SettleTerminal, SettleFailure, CommitBegin,
       CommitFails, seqVars, durableVars
  <2>3. CASE Publish
    BY <1>2, <1>3, <2>3 DEF Publish, durableVars
  <2>4. CASE CommitDone \/ FinishRun
    BY <1>2, <1>3, <2>4 DEF CommitDone, FinishRun, durableVars
  <2> QED BY <1>4, <2>1, <2>2, <2>3, <2>4 DEF Run
<1>5. CASE Journaling
  <2>1. CASE JournalAppend
    <3>1. batch \in SUBSET Queued /\ attempt \in 1..MaxAttempts
      BY <2>1, LiveRunEventsAssumption DEF Inv, TypeOK, Started, JournalAppend
    <3> QED BY <2>1, <3>1, AppendForward DEF JournalAppend, seqVars
  <2>2. CASE JournalConfirmed \/ JournalFails
    BY <1>2, <1>3, <2>2 DEF JournalConfirmed, JournalFails, seqVars, durableVars
  <2> QED BY <1>5, <2>1, <2>2 DEF Journaling
<1>6. CASE Orphans
  <2>1. ASSUME NEW k \in DOMAIN orphan, OrphanAppend(k)
        PROVE  Forward
    BY <2>1, OrphanAppends, AppendForward DEF entryVars, seqVars
  <2>2. ASSUME NEW k \in DOMAIN orphan, OrphanFails(k)
        PROVE  Forward
    BY <1>2, <1>3, <2>2 DEF OrphanFails, entryVars, seqVars, durableVars
  <2> QED BY <1>6, <2>1, <2>2 DEF Orphans
<1>7. CASE NewEntryStep
  <2>1. ASSUME NEW count, CreateEntry(count), checkpoint.status # "terminal",
               UNCHANGED durableVars
        PROVE  Forward
    <3>1. attempt' = attempt + 1 /\ eventCount' = eventCount
      BY <2>1 DEF CreateEntry, durableVars
    <3> QED BY <1>1, <2>1, <3>1 DEF Forward, Counts
  <2>2. ASSUME NEW s \in Socket, StartRun(s)
        PROVE  Forward
    BY <2>1, <2>2 DEF StartRun
  <2>3. ASSUME NEW count \in 0..eventCount, NEW owners \in SUBSET Socket,
               RecoverAt(count, owners)
        PROVE  Forward
    BY <2>1, <2>3 DEF RecoverAt, Recoverable
  <2> QED BY <1>7, <2>2, <2>3 DEF NewEntryStep
<1>8. CASE SocketStep
  <2>1. UNCHANGED <<eventCount, attempt, nextSeq, checkpoint>>
    BY <1>8 DEF SocketStep, OpenSocket, CloseSocket, DeliverReplay,
       CollectReplay, entryVars, seqVars, durableVars
  <2> QED BY <1>2, <1>3, <2>1
<1>9. CASE SettledStep
  BY <1>1, <1>2, <1>3, <1>9 DEF SettledStep, Reconcile, Acknowledge,
     NextRunTakesThread, entryVars, seqVars, durableVars
<1>10. CASE UNCHANGED vars
  BY <1>2, <1>3, <1>10 DEF vars, entryVars, seqVars, durableVars
<1> QED
  BY <1>4, <1>5, <1>6, <1>7, <1>8, <1>9, <1>10 DEF StoreMoves

-----------------------------------------------------------------------------
\* What else is true of the store.  The watermark reaches the count of the
\* journal only with the terminal event, and what is resident or collected for
\* a client is sound.
Confirmed ==
  persistedThroughSeq = eventCount => terminal /\ nextSeq = eventCount + 1

Topped(S) == S = {} \/ \E n \in S : \A m \in S : m <= n

Collection(r) ==
  /\ r = [kind |-> r.kind, of |-> r.of, next |-> r.next, events |-> r.events,
          terminal |-> r.terminal]
  /\ r.kind \in {"none", "alias", "copy", "gone"}
  /\ r.of \in Nat /\ r.next \in Nat
  /\ r.kind = "gone" => DOMAIN r.events = {}
  /\ Topped(DOMAIN r.events)

Collections ==
  \A s \in Socket :
    /\ Collection(replay[s]) /\ SoundNow(replay[s].events)
    /\ replay[s].of <= attempt
    /\ replay[s].kind = "alias" => replay[s].of = attempt /\ attempt > 0

Kept == Plain /\ Confirmed /\ SoundNow(history) /\ Collections

\* A step that leaves the events alone.
LEMMA KeptWhenStill ==
  ASSUME Inv, Inv', Kept, Forward,
         UNCHANGED <<attempt, nextSeq, persistedThroughSeq, history, journal,
                     eventCount, replay>>,
         terminal => terminal'
  PROVE  Kept'
<1>1. Counts /\ Counts'
  BY CountsNow, CountsThen
<1>2. SoundThen(history)
  BY <1>1, SoundLasts DEF Kept
<1>3. \A s \in Socket : SoundThen(replay[s].events)
  BY <1>1, SoundLasts DEF Kept, Collections
<1>4. SoundNow(history)'
  BY <1>2 DEF SoundNow, SoundThen
<1>5. \A s \in Socket : Sound(replay[s].events, eventCount', attempt', nextSeq',
                              checkpoint')
  BY <1>3 DEF SoundThen
<1>6. Collections'
  BY <1>5 DEF Kept, Collections, SoundNow
<1> QED
  BY <1>4, <1>6 DEF Kept, Plain, Confirmed

\* Intervals and what is left of them above a bound have a last member.
LEMMA IntervalTopped ==
  ASSUME NEW lo \in Int, NEW hi \in Int
  PROVE  Topped(lo..hi)
<1>1. CASE lo <= hi
  <2>1. hi \in lo..hi /\ \A m \in lo..hi : m <= hi
    BY <1>1
  <2> QED BY <2>1 DEF Topped
<1>2. CASE ~(lo <= hi)
  <2>1. lo..hi = {}
    BY <1>2
  <2> QED BY <2>1 DEF Topped
<1> QED
  BY <1>1, <1>2

LEMMA ToppedAbove ==
  ASSUME NEW S \in SUBSET Int, Topped(S), NEW k \in Int
  PROVE  Topped({n \in S : n >= k})
<1> DEFINE T == {n \in S : n >= k}
<1>1. CASE T = {}
  BY <1>1 DEF Topped
<1>2. CASE T # {}
  <2>1. PICK m \in S : m >= k
    BY <1>2
  <2>2. PICK n \in S : \A i \in S : i <= n
    BY <2>1 DEF Topped
  <2>3. m <= n /\ m \in Int /\ n \in Int
    BY <2>1, <2>2
  <2>4. n >= k
    BY <2>1, <2>3
  <2>5. n \in T /\ \A i \in T : i <= n
    BY <2>2, <2>4
  <2> QED BY <2>5 DEF Topped
<1> QED
  BY <1>1, <1>2

LEMMA HistoryTopped ==
  ASSUME Inv, attempt > 0
  PROVE  Topped(DOMAIN history) /\ DOMAIN history \subseteq Int
<1>1. /\ DOMAIN history = firstResidentSeq..(nextSeq - 1)
      /\ firstResidentSeq \in Int /\ nextSeq - 1 \in Int
  BY LiveRunEventsAssumption DEF Inv, Window, TypeOK, Seqs
<1> QED
  BY <1>1, IntervalTopped

LEMMA CollectionsStill ==
  ASSUME Collections, Counts, Counts', Forward, UNCHANGED <<attempt, replay>>
  PROVE  Collections'
<1>1. \A s \in Socket : SoundThen(replay[s].events)
  BY SoundLasts DEF Collections
<1>2. \A s \in Socket : Sound(replay[s].events, eventCount', attempt', nextSeq',
                              checkpoint')
  BY <1>1 DEF SoundThen
<1> QED
  BY <1>2 DEF Collections, SoundNow

\* The resident history with a new event of this attempt at its end.
LEMMA HistoryGrows ==
  ASSUME Counts, Counts', Forward, SoundNow(history), UNCHANGED attempt,
         NEW e \in [attempt : Nat, terminal : BOOLEAN], e.attempt = attempt,
         history' = Put(history, nextSeq, e), nextSeq' = nextSeq + 1,
         e.terminal => checkpoint'.status = "terminal"
                       /\ checkpoint'.cursor = nextSeq
  PROVE  SoundNow(history)'
<1>1. SoundThen(history)
  BY SoundLasts
<1>2. nextSeq \in Nat /\ nextSeq < nextSeq'
  BY DEF Counts
<1>3. SoundThen([n \in {nextSeq} |-> e])
  BY <1>2 DEF SoundThen, Sound
<1>4. /\ DOMAIN history' = DOMAIN history \cup {nextSeq}
      /\ history'[nextSeq] = e
      /\ \A n \in DOMAIN history : n # nextSeq => history'[n] = history[n]
  BY DEF Put
<1>5. \A n \in DOMAIN history' :
        \/ n \in DOMAIN [m \in {nextSeq} |-> e]
           /\ history'[n] = [m \in {nextSeq} |-> e][n]
        \/ n \in DOMAIN history /\ history'[n] = history[n]
  BY <1>4
<1>6. Sound(history', eventCount', attempt', nextSeq', checkpoint')
  BY <1>1, <1>3, <1>5, SoundOver DEF SoundThen
<1> QED
  BY <1>6 DEF SoundNow

LEMMA PublishKeeps ==
  ASSUME Inv, Inv', Kept, Forward, Publish
  PROVE  Kept'
<1>1. Counts /\ Counts'
  BY CountsNow, CountsThen
<1>2. SoundNow(history)'
  <2>1. [attempt |-> attempt, terminal |-> FALSE]
          \in [attempt : Nat, terminal : BOOLEAN]
    BY <1>1 DEF Counts
  <2> QED BY <1>1, <2>1, HistoryGrows DEF Publish, Kept
<1>3. Collections'
  BY <1>1, CollectionsStill DEF Publish, Kept
<1>4. Confirmed'
  <2>1. ~terminal /\ persistedThroughSeq < eventCount
    BY DEF Publish, PublishAllowed, Inv, Watermark
  <2>2. persistedThroughSeq # eventCount
    BY <1>1, <2>1 DEF Counts
  <2> QED BY <2>2 DEF Publish, Confirmed, durableVars
<1> QED
  BY <1>2, <1>3, <1>4 DEF Kept, Plain, Publish, durableVars

LEMMA CommitDoneKeeps ==
  ASSUME Inv, Inv', Kept, Forward, CommitDone
  PROVE  Kept'
<1>1. Counts /\ Counts'
  BY CountsNow, CountsThen
<1>2. /\ checkpoint.status = "terminal" /\ checkpoint.cursor = commitSeq
      /\ commitSeq = nextSeq
  BY DEF CommitDone, Inv, Ending, CommitLock
<1>3. SoundNow(history)'
  <2>1. [attempt |-> attempt, terminal |-> TRUE]
          \in [attempt : Nat, terminal : BOOLEAN]
    BY <1>1 DEF Counts
  <2>2. checkpoint' = checkpoint
    BY DEF CommitDone, durableVars
  <2> QED BY <1>1, <1>2, <2>1, <2>2, HistoryGrows DEF CommitDone, Kept
<1>4. Collections'
  BY <1>1, CollectionsStill DEF CommitDone, Kept
<1>5. Confirmed'
  BY <1>2 DEF CommitDone, Confirmed, durableVars
<1> QED
  BY <1>3, <1>4, <1>5 DEF Kept, Plain, CommitDone, durableVars

LEMMA PruneKeeps ==
  ASSUME Inv, Inv', Kept, Forward,
         NEW term, NEW attached, PruneHistory(term, attached),
         UNCHANGED <<attempt, nextSeq, persistedThroughSeq, journal, eventCount,
                     replay>>,
         terminal => terminal'
  PROVE  Kept'
<1>1. Counts /\ Counts'
  BY CountsNow, CountsThen
<1>2. /\ DOMAIN history' \subseteq DOMAIN history
      /\ \A n \in DOMAIN history' : history'[n] = history[n]
  BY Pruned
<1>3. SoundThen(history)
  BY <1>1, SoundLasts DEF Kept
<1>4. Sound(history', eventCount', attempt', nextSeq', checkpoint')
  BY <1>2, <1>3, SoundPart DEF SoundThen
<1>5. Collections'
  BY <1>1, CollectionsStill DEF Kept
<1> QED
  BY <1>4, <1>5 DEF Kept, Plain, Confirmed, SoundNow

LEMMA AppendKeeps ==
  ASSUME Inv, Inv', Kept, Forward,
         NEW seqs \in SUBSET Queued, NEW k \in 1..MaxAttempts,
         AppendAccepted(seqs), Append(seqs, k),
         UNCHANGED <<attempt, nextSeq, persistedThroughSeq, history, replay,
                     terminal>>
  PROVE  Kept'
<1>1. Counts /\ Counts' /\ TypeOK
  BY CountsNow, CountsThen DEF Inv
<1>2. SoundThen(history)
  BY <1>1, SoundLasts DEF Kept
<1>3. Sound(history', eventCount', attempt', nextSeq', checkpoint')
  BY <1>2 DEF SoundThen
<1>4. Collections'
  BY <1>1, CollectionsStill DEF Kept
<1>5. Plain'
  BY DEF Kept, Plain, Append
<1>6. Confirmed'
  <2>1. persistedThroughSeq <= eventCount /\ persistedThroughSeq \in Int
    BY LiveRunEventsAssumption DEF Inv, TypeOK, Seqs, NoSeq, Watermark
  <2>2. eventCount < eventCount'
    BY <1>1, AppendExtends
  <2>3. persistedThroughSeq' # eventCount'
    BY <1>1, <2>1, <2>2 DEF Counts
  <2> QED BY <2>3 DEF Confirmed
<1> QED
  BY <1>3, <1>4, <1>5, <1>6 DEF Kept, SoundNow

LEMMA ConfirmKeeps ==
  ASSUME Inv, Inv', Kept, Forward, JournalConfirmed
  PROVE  Kept'
<1>1. Counts /\ Counts'
  BY CountsNow, CountsThen
<1>2. PICK lo \in Seqs, hi \in Seqs : lo <= hi /\ batch = lo..hi
  BY DEF Inv, Task, JournalConfirmed
<1>3. /\ lo \in Int /\ hi \in Int /\ lo <= hi /\ persistedThroughSeq \in Int
  BY <1>2, LiveRunEventsAssumption DEF Inv, TypeOK, Seqs, NoSeq
<1>4. persistedThroughSeq' \in {hi, persistedThroughSeq}
  BY <1>2, <1>3, LatestWith DEF JournalConfirmed
<1>5. hi < eventCount
  <2>1. hi \in batch
    BY <1>2, <1>3
  <2> QED BY <2>1 DEF Inv, Watermark, JournalConfirmed
<1>6. persistedThroughSeq' = eventCount => persistedThroughSeq = eventCount
  BY <1>1, <1>3, <1>4, <1>5 DEF Counts
<1>7. SoundThen(history)
  BY <1>1, SoundLasts DEF Kept
<1>8. Sound(history', eventCount', attempt', nextSeq', checkpoint')
  BY <1>7 DEF SoundThen, JournalConfirmed
<1>9. Collections'
  BY <1>1, CollectionsStill DEF Kept, JournalConfirmed
<1> QED
  BY <1>6, <1>8, <1>9
  DEF Kept, SoundNow, Plain, Confirmed, JournalConfirmed, durableVars, endVars

LEMMA DeliverKeeps ==
  ASSUME Inv, Inv', Kept, Forward, NEW s \in Socket, DeliverReplay(s)
  PROVE  Kept'
<1>1. Counts /\ Counts' /\ DOMAIN replay = Socket
  BY CountsNow, CountsThen DEF Inv, TypeOK
<1>2. SoundThen(history)
  BY <1>1, SoundLasts DEF Kept
<1>3. Sound(history', eventCount', attempt', nextSeq', checkpoint')
  BY <1>2 DEF SoundThen, DeliverReplay, seqVars
<1>4. replay' = [replay EXCEPT ![s] = Nothing] /\ attempt' = attempt
  BY DEF DeliverReplay
<1>5. /\ Collection(Nothing) /\ SoundThen(Nothing.events)
      /\ Nothing.of <= attempt /\ Nothing.kind = "none"
  BY <1>1 DEF Nothing, Collection, Topped, SoundThen, Sound, Counts
<1>6. ASSUME NEW z \in Socket
      PROVE  /\ Collection(replay'[z])
             /\ Sound(replay'[z].events, eventCount', attempt', nextSeq',
                      checkpoint')
             /\ replay'[z].of <= attempt'
             /\ replay'[z].kind = "alias" =>
                  replay'[z].of = attempt' /\ attempt' > 0
  <2>1. CASE z = s
    BY <1>1, <1>4, <1>5, <2>1 DEF SoundThen
  <2>2. CASE z # s
    <3>1. replay'[z] = replay[z]
      BY <1>1, <1>4, <2>2
    <3>2. SoundThen(replay[z].events)
      BY <1>1, SoundLasts DEF Kept, Collections
    <3> QED BY <1>4, <3>1, <3>2 DEF Kept, Collections, SoundThen
  <2> QED BY <2>1, <2>2
<1>7. Collections'
  BY <1>6 DEF Collections, SoundNow
<1> QED
  BY <1>3, <1>7
  DEF Kept, SoundNow, Plain, Confirmed, DeliverReplay, seqVars, endVars,
      durableVars

\* What is selected for a cursor is a part of what there is.
LEMMA Selected ==
  ASSUME NEW h, DOMAIN h \in SUBSET Int, Topped(DOMAIN h), NEW from \in Int
  PROVE  /\ \A n \in DOMAIN SelectReplay(h, from) :
              n \in DOMAIN h /\ SelectReplay(h, from)[n] = h[n]
         /\ Topped(DOMAIN SelectReplay(h, from))
         /\ \A n \in DOMAIN h : n > from => n \in DOMAIN SelectReplay(h, from)
<1>1. CASE SelectReplay(h, from) = h
  BY <1>1
<1>2. CASE SelectReplay(h, from) = From(h, from + 1)
  <2>1. /\ DOMAIN From(h, from + 1) = {m \in DOMAIN h : m >= from + 1}
        /\ \A n \in DOMAIN From(h, from + 1) : From(h, from + 1)[n] = h[n]
    BY DEF From
  <2>2. Topped({m \in DOMAIN h : m >= from + 1})
    BY ToppedAbove
  <2>3. \A n \in DOMAIN h : n > from => n >= from + 1
    OBVIOUS
  <2> QED BY <1>2, <2>1, <2>2, <2>3
<1> QED
  BY <1>1, <1>2 DEF SelectReplay

\* The restored part of a replay comes from the journal, the rest is resident.
LEMMA CollectedIs ==
  ASSUME Inv, Kept, live, NEW from \in {NoSeq} \cup Nat
  PROVE  \E k, e :
           /\ k \in {"alias", "copy"}
           /\ Collected(from) = Replay(k, e)
           /\ Topped(DOMAIN e)
           /\ \A n \in DOMAIN e :
                \/ n \in 0..(eventCount - 1) /\ e[n] = journal[n]
                \/ n \in DOMAIN history /\ e[n] = history[n]
<1>1. /\ attempt > 0 /\ firstResidentSeq <= eventCount /\ from \in Int
      /\ firstResidentSeq \in Nat /\ nextSeq \in Nat /\ eventCount \in Nat
      /\ DOMAIN history = firstResidentSeq..(nextSeq - 1)
  BY LiveRunEventsAssumption
  DEF Inv, Started, Window, Watermark, TypeOK, Seqs, NoSeq
<1>2. Topped(DOMAIN history) /\ DOMAIN history \in SUBSET Int
  BY <1>1, HistoryTopped
<1>3. CASE from + 1 < firstResidentSeq
  <2> DEFINE e == [n \in {m \in 0..(nextSeq - 1) : m > from} |->
                     IF n < firstResidentSeq THEN journal[n] ELSE history[n]]
  <2>1. Collected(from) = Replay("copy", e)
    BY <1>3 DEF Collected
  <2>2. DOMAIN e = {m \in 0..(nextSeq - 1) : m >= from + 1}
    BY <1>1
  <2>3. Topped({m \in 0..(nextSeq - 1) : m >= from + 1})
    <3>1. Topped(0..(nextSeq - 1)) /\ 0..(nextSeq - 1) \in SUBSET Int
      BY <1>1, IntervalTopped
    <3> QED BY <1>1, <3>1, ToppedAbove
  <2>4. ASSUME NEW n \in DOMAIN e
        PROVE  \/ n \in 0..(eventCount - 1) /\ e[n] = journal[n]
               \/ n \in DOMAIN history /\ e[n] = history[n]
    <3>1. n \in 0..(nextSeq - 1)
      BY <2>4
    <3>2. CASE n < firstResidentSeq
      BY <1>1, <3>1, <3>2
    <3>3. CASE ~(n < firstResidentSeq)
      BY <1>1, <3>1, <3>3
    <3> QED BY <3>2, <3>3
  <2> HIDE DEF e
  <2>5. Topped(DOMAIN e)
    BY <2>2, <2>3
  <2> QED BY <2>1, <2>4, <2>5
<1>4. CASE ~(from + 1 < firstResidentSeq) /\ SelectReplay(history, from) = history
  <2>1. Collected(from) = Replay("alias", <<>>)
    BY <1>4 DEF Collected
  <2>2. DOMAIN <<>> = {} /\ Topped(DOMAIN <<>>)
    BY DEF Topped
  <2> QED BY <2>1, <2>2
<1>5. CASE ~(from + 1 < firstResidentSeq) /\ SelectReplay(history, from) # history
  <2>1. Collected(from) = Replay("copy", SelectReplay(history, from))
    BY <1>5 DEF Collected
  <2>2. /\ Topped(DOMAIN SelectReplay(history, from))
        /\ \A n \in DOMAIN SelectReplay(history, from) :
             n \in DOMAIN history /\ SelectReplay(history, from)[n] = history[n]
    BY <1>1, <1>2, Selected
  <2> QED BY <2>1, <2>2
<1> QED
  BY <1>3, <1>4, <1>5

LEMMA CollectKeeps ==
  ASSUME Inv, Inv', Kept, Forward, NEW s \in Socket,
         NEW from \in {NoSeq} \cup Nat, CollectReplay(s, from)
  PROVE  Kept'
<1>1. Counts /\ Counts' /\ DOMAIN replay = Socket
  BY CountsNow, CountsThen DEF Inv, TypeOK
<1>2. UNCHANGED <<entryVars, durableVars>>
  BY DEF CollectReplay
<1>3. UNCHANGED <<eventCount, attempt, nextSeq, checkpoint, history, journal,
                  persistedThroughSeq, terminal>>
  BY <1>2 DEF entryVars, seqVars, endVars, durableVars
<1>4. PICK r : /\ replay' = [replay EXCEPT ![s] = r]
               /\ r = IF live THEN Collected(from) ELSE Replay("gone", <<>>)
  BY DEF CollectReplay
<1>5. /\ Collection(r) /\ SoundNow(r.events) /\ r.of <= attempt
      /\ r.kind = "alias" => r.of = attempt /\ attempt > 0
  <2>1. CASE live
    <3>1. PICK k, e :
            /\ k \in {"alias", "copy"}
            /\ Collected(from) = Replay(k, e)
            /\ Topped(DOMAIN e)
            /\ \A n \in DOMAIN e :
                 \/ n \in 0..(eventCount - 1) /\ e[n] = journal[n]
                 \/ n \in DOMAIN history /\ e[n] = history[n]
      BY <2>1, CollectedIs
    <3>2. r = [kind |-> k, of |-> attempt, next |-> nextSeq, events |-> e,
               terminal |-> FALSE]
      BY <1>4, <2>1, <3>1 DEF Replay
    <3>3. SoundNow(e)
      <4>1. SoundNow([n \in 0..(eventCount - 1) |-> journal[n]])
        BY JournalIsSound DEF Kept
      <4>2. SoundNow(history)
        BY DEF Kept
      <4> DEFINE j == [n \in 0..(eventCount - 1) |-> journal[n]]
      <4>3. \A n \in DOMAIN e : \/ n \in DOMAIN j /\ e[n] = j[n]
                                \/ n \in DOMAIN history /\ e[n] = history[n]
        BY <3>1
      <4> HIDE DEF j
      <4> QED BY <4>1, <4>2, <4>3, SoundOver DEF SoundNow, j
    <3>4. attempt > 0
      BY <2>1, <1>1 DEF Inv, Started, Counts
    <3>5. /\ r.kind = k /\ r.of = attempt /\ r.next = nextSeq /\ r.events = e
          /\ r.terminal = FALSE
      BY <3>2
    <3>6. Collection(r)
      BY <1>1, <3>1, <3>2, <3>5 DEF Collection, Counts
    <3> QED BY <1>1, <3>3, <3>4, <3>5, <3>6 DEF Counts
  <2>2. CASE ~live
    <3>1. r = [kind |-> "gone", of |-> attempt, next |-> nextSeq,
               events |-> <<>>, terminal |-> FALSE]
      BY <1>4, <2>2 DEF Replay
    <3>2. DOMAIN <<>> = {}
      OBVIOUS
    <3> QED BY <1>1, <3>1, <3>2 DEF Collection, Topped, SoundNow, Sound, Counts
  <2> QED BY <2>1, <2>2
<1>6. ASSUME NEW z \in Socket
      PROVE  /\ Collection(replay'[z]) /\ SoundNow(replay'[z].events)
             /\ replay'[z].of <= attempt
             /\ replay'[z].kind = "alias" => replay'[z].of = attempt /\ attempt > 0
  <2>1. CASE z = s
    BY <1>1, <1>4, <1>5, <2>1
  <2>2. CASE z # s
    BY <1>1, <1>4, <2>2 DEF Kept, Collections
  <2> QED BY <2>1, <2>2
<1>7. Collections'
  BY <1>3, <1>6 DEF Collections, SoundNow
<1> QED
  BY <1>3, <1>7 DEF Kept, SoundNow, Plain, Confirmed

\* A new entry: what was collected from the one before keeps its events.
LEMMA NewEntryKeeps ==
  ASSUME Inv, Inv', Kept, Forward, NEW count \in 0..eventCount,
         CreateEntry(count), UNCHANGED durableVars
  PROVE  Kept'
<1>1. Counts /\ Counts' /\ DOMAIN replay = Socket
  BY CountsNow, CountsThen DEF Inv, TypeOK
<1>2. UNCHANGED <<journal, eventCount, checkpoint>> /\ attempt' = attempt + 1
  BY DEF CreateEntry, durableVars
<1>3. count \in Nat /\ count <= eventCount
  BY <1>1 DEF Counts
<1>4. SoundNow(history)'
  <2>1. DOMAIN history' = 0..(count - 1)
        /\ \A n \in 0..(count - 1) : history'[n] = journal[n]
    BY DEF CreateEntry, Journaled
  <2>2. \A n \in 0..(count - 1) : n \in 0..(eventCount - 1)
    BY <1>1, <1>3 DEF Counts
  <2>3. SoundNow(history')
    BY <2>1, <2>2, JournalIsSound DEF Kept
  <2>4. SoundThen(history')
    BY <1>1, <2>3, SoundLasts
  <2> QED BY <2>4 DEF SoundNow, SoundThen
<1>5. Confirmed'
  <2>1. persistedThroughSeq' = count - 1
    BY DEF CreateEntry
  <2>2. persistedThroughSeq' # eventCount'
    BY <1>1, <1>2, <1>3, <2>1 DEF Counts
  <2> QED BY <2>2 DEF Confirmed
<1>6. ASSUME NEW z \in Socket
      PROVE  /\ Collection(replay'[z]) /\ SoundThen(replay'[z].events)
             /\ replay'[z].of <= attempt' /\ replay'[z].kind # "alias"
  <2> DEFINE r == replay[z]
  <2>1. /\ Collection(r) /\ SoundNow(r.events) /\ r.of <= attempt
        /\ r.kind = "alias" => r.of = attempt /\ attempt > 0
    BY DEF Kept, Collections
  <2>2. CASE r.kind # "none" /\ r.of = attempt
    <3> DEFINE e == IF r.kind = "alias" THEN history ELSE r.events
    <3>1. replay'[z] = [r EXCEPT !.kind = "copy", !.terminal = terminal,
                          !.events = IF r.kind = "alias" THEN history ELSE @]
      BY <2>2 DEF CreateEntry
    <3>2. r = [kind |-> r.kind, of |-> r.of, next |-> r.next,
               events |-> r.events, terminal |-> r.terminal]
      BY <2>1 DEF Collection
    <3>3. replay'[z] = [kind |-> "copy", of |-> r.of, next |-> r.next,
                        events |-> e, terminal |-> terminal]
      BY <3>1, <3>2
    <3>4. SoundNow(e) /\ Topped(DOMAIN e)
      BY <2>1, HistoryTopped DEF Kept, Collection
    <3>5. SoundThen(e)
      BY <1>1, <3>4, SoundLasts
    <3> HIDE DEF e
    <3>6. /\ replay'[z].kind = "copy" /\ replay'[z].of = r.of
          /\ replay'[z].next = r.next /\ replay'[z].events = e
          /\ replay'[z].terminal = terminal
      BY <3>3
    <3>7. Collection(replay'[z])
      BY <2>1, <3>3, <3>4, <3>6 DEF Collection
    <3>8. r.of \in Nat
      BY <2>1 DEF Collection
    <3> QED BY <1>1, <1>2, <2>1, <3>5, <3>6, <3>7, <3>8 DEF Counts
  <2>3. CASE ~(r.kind # "none" /\ r.of = attempt)
    <3>1. replay'[z] = r
      BY <2>3 DEF CreateEntry
    <3>2. SoundThen(r.events)
      BY <1>1, <2>1, SoundLasts
    <3>3. r.of \in Nat
      BY <2>1 DEF Collection
    <3> QED BY <1>1, <1>2, <2>1, <2>3, <3>1, <3>2, <3>3 DEF Counts
  <2> QED BY <2>2, <2>3
<1>7. Collections'
  BY <1>6 DEF Collections, SoundNow, SoundThen
<1> QED
  BY <1>2, <1>4, <1>5, <1>7 DEF Kept, Plain

LEMMA CrashKeeps ==
  ASSUME Inv, Inv', Kept, Crash
  PROVE  Kept'
<1>1. Counts' /\ Counts
  BY CountsNow, CountsThen
<1>2. /\ UNCHANGED <<journal, eventCount, attempt>> /\ persistedThroughSeq' = NoSeq
      /\ DOMAIN history' = {} /\ \A s \in Socket : replay'[s] = Nothing
  BY DEF Crash, durableVars
<1>3. /\ Collection(Nothing) /\ Nothing.of <= attempt /\ Nothing.kind = "none"
      /\ DOMAIN Nothing.events = {}
  BY <1>1 DEF Nothing, Collection, Topped, Counts
<1>4. Collections'
  BY <1>2, <1>3 DEF Collections, SoundNow, Sound
<1>5. Confirmed'
  BY <1>1, <1>2 DEF Confirmed, NoSeq, Counts
<1> QED
  BY <1>2, <1>4, <1>5 DEF Kept, Plain, SoundNow, Sound

LEMMA InitKept == Init => Kept
<1> SUFFICES ASSUME Init PROVE Kept
  OBVIOUS
<1>1. /\ DOMAIN history = {} /\ DOMAIN journal = {} /\ eventCount = 0
      /\ persistedThroughSeq = NoSeq /\ attempt = 0
      /\ \A s \in Socket : replay[s] = Nothing
  BY DEF Init
<1>2. /\ Collection(Nothing) /\ Nothing.of <= 0 /\ Nothing.kind = "none"
      /\ DOMAIN Nothing.events = {}
  BY DEF Nothing, Collection, Topped
<1> QED
  BY <1>1, <1>2
  DEF Kept, Plain, Confirmed, SoundNow, Sound, Collections, NoSeq

LEMMA StoreKeeps ==
  ASSUME Inv, Kept, StoreNext
  PROVE  Kept' /\ Inv'
<1>0. Inv' /\ (Forward \/ Crash)
  BY StoreKeepsInv, StoreForward DEF StoreNext
<1>1. CASE Crash
  BY <1>0, <1>1, CrashKeeps
<1>2. ASSUME Forward PROVE Kept'
  <2>1. ASSUME UNCHANGED <<attempt, nextSeq, persistedThroughSeq, history,
                           journal, eventCount, replay, terminal>>
        PROVE  Kept'
    BY <1>0, <1>2, <2>1, KeptWhenStill
  <2>2. CASE Run
    <3>1. CASE BeginDurable \/ InputFails \/ RunThrows \/ SettleFailureGivesUp
               \/ Answer \/ CommitPersist
      BY <2>1, <3>1 DEF BeginDurable, InputFails, RunThrows,
         SettleFailureGivesUp, Answer, CommitPersist, entryVars, seqVars,
         endVars, durableVars
    <3>2. CASE SettleTerminal \/ SettleFailure \/ CommitFails
      BY <2>1, <3>2 DEF SettleTerminal, SettleFailure, CommitBegin,
         CommitFails, seqVars, durableVars
    <3>3. CASE Publish
      BY <1>0, <1>2, <3>3, PublishKeeps
    <3>4. CASE CommitDone
      BY <1>0, <1>2, <3>4, CommitDoneKeeps
    <3>5. CASE FinishRun
      BY <1>0, <1>2, <3>5, PruneKeeps DEF FinishRun, durableVars
    <3> QED BY <2>2, <3>1, <3>2, <3>3, <3>4, <3>5 DEF Run
  <2>3. CASE Journaling
    <3>1. CASE JournalAppend
      <4>1. batch \in SUBSET Queued /\ attempt \in 1..MaxAttempts
        BY <3>1, LiveRunEventsAssumption DEF Inv, TypeOK, Started, JournalAppend
      <4> QED BY <1>0, <1>2, <3>1, <4>1, AppendKeeps
              DEF JournalAppend, seqVars, endVars
    <3>2. CASE JournalConfirmed
      BY <1>0, <1>2, <3>2, ConfirmKeeps
    <3>3. CASE JournalFails
      BY <2>1, <3>3 DEF JournalFails, seqVars, endVars, durableVars
    <3> QED BY <2>3, <3>1, <3>2, <3>3 DEF Journaling
  <2>4. CASE Orphans
    <3>1. ASSUME NEW k \in DOMAIN orphan, OrphanAppend(k)
          PROVE  Kept'
      <4>1. PICK seqs \in SUBSET Queued :
              /\ k \in 1..MaxAttempts /\ AppendAccepted(seqs) /\ Append(seqs, k)
              /\ UNCHANGED <<entryVars, sinks, replay>>
        BY <3>1, OrphanAppends
      <4> QED BY <1>0, <1>2, <4>1, AppendKeeps DEF entryVars, seqVars, endVars
    <3>2. ASSUME NEW k \in DOMAIN orphan, OrphanFails(k)
          PROVE  Kept'
      BY <2>1, <3>2 DEF OrphanFails, entryVars, seqVars, endVars, durableVars
    <3> QED BY <2>4, <3>1, <3>2 DEF Orphans
  <2>5. CASE NewEntryStep
    <3>1. ASSUME NEW s \in Socket, StartRun(s)
          PROVE  Kept'
      <4>1. 0 \in 0..eventCount
        BY CountsNow DEF Counts
      <4> QED BY <1>0, <1>2, <3>1, <4>1, NewEntryKeeps DEF StartRun
    <3>2. ASSUME NEW count \in 0..eventCount, NEW owners \in SUBSET Socket,
                 RecoverAt(count, owners)
          PROVE  Kept'
      BY <1>0, <1>2, <3>2, NewEntryKeeps DEF RecoverAt
    <3> QED BY <2>5, <3>1, <3>2 DEF NewEntryStep
  <2>6. CASE SocketStep
    <3>1. ASSUME NEW s \in Socket, OpenSocket(s)
          PROVE  Kept'
      BY <2>1, <3>1 DEF OpenSocket, entryVars, seqVars, endVars, durableVars
    <3>2. ASSUME NEW s \in Socket, CloseSocket(s)
          PROVE  Kept'
      BY <1>0, <1>2, <3>2, PruneKeeps DEF CloseSocket, endVars, durableVars
    <3>3. ASSUME NEW s \in Socket, DeliverReplay(s)
          PROVE  Kept'
      BY <1>0, <1>2, <3>3, DeliverKeeps
    <3>4. ASSUME NEW s \in Socket, NEW from \in {NoSeq} \cup Nat,
                 CollectReplay(s, from)
          PROVE  Kept'
      BY <1>0, <1>2, <3>4, CollectKeeps
    <3> QED BY <2>6, <3>1, <3>2, <3>3, <3>4 DEF SocketStep
  <2>7. CASE SettledStep
    BY <2>1, <2>7 DEF SettledStep, Reconcile, Acknowledge, NextRunTakesThread,
       entryVars, seqVars, endVars, durableVars
  <2>8. CASE UNCHANGED vars
    BY <2>1, <2>8 DEF vars, entryVars, seqVars, endVars, durableVars
  <2> QED BY <1>1, <1>0, <2>2, <2>3, <2>4, <2>5, <2>6, <2>7, <2>8 DEF StoreNext, StoreMoves
<1> QED
  BY <1>0, <1>1, <1>2

-----------------------------------------------------------------------------
\* The client's side.  What a handshake listed was true of the journal and, when
\* terminal, still is of the checkpoint.
Listed ==
  \A s \in Socket :
    /\ listed[s].count \in 0..eventCount
    /\ listed[s].status = "terminal" =>
         checkpoint.status = "terminal" /\ checkpoint.cursor = listed[s].cursor

\* Whatever a client holds is sound, and the cursors point into it.
Seen ==
  /\ \A c \in Client : /\ SoundNow(view[c])
                       /\ cursor[c] \in {NoSeq} \cup DOMAIN view[c]
  /\ \A s \in Socket : after[s] \in {NoSeq} \cup DOMAIN view[OwnerOf[s]]

\* The client of an attached socket is up to date, unless a bind raced.
Attached ==
  \A s \in sinks \cap link :
    raced[OwnerOf[s]] \/ \A n \in 0..(nextSeq - 1) : n \in DOMAIN view[OwnerOf[s]]

\* What was collected for a socket fills the gap up to the point where it was
\* collected, unless an earlier bind raced.
Copied ==
  \A s \in Socket : replay[s].kind = "copy" /\ replay[s].of = attempt =>
    /\ \A n \in DOMAIN replay[s].events : n < replay[s].next
    /\ \/ raced[OwnerOf[s]]
       \/ \A n \in 0..(replay[s].next - 1) :
            n \in DOMAIN view[OwnerOf[s]] \/ n \in DOMAIN replay[s].events

Domains == /\ DOMAIN listed = Socket /\ DOMAIN after = Socket
           /\ DOMAIN cursor = Client /\ DOMAIN view = Client
           /\ raced \in [Client -> BOOLEAN]

Channel == /\ Domains /\ link \subseteq open /\ Listed /\ Seen
           /\ HolesOnlyFromBindRace /\ Attached /\ Copied

ChannelInv == Inv /\ Kept /\ Channel

-----------------------------------------------------------------------------
\* Whatever the handshakes and the clients do is a step of the store, or none.
LEMMA ChannelIsStore ==
  ASSUME ChannelInv, ChannelNext
  PROVE  StoreMoves \/ CrashAll
<1>1. CASE Daemon \/ InputFailsOn \/ PublishLive \/ CommitDoneLive
  BY <1>1 DEF Daemon, InputFailsOn, PublishLive, CommitDoneLive, StoreMoves, Run
<1>2. CASE RecoverAtStartup
  <2>0. eventCount \in 0..eventCount
    BY CountsNow DEF ChannelInv, Counts
  <2>1. CASE Recover({})
    <3>1. RecoverAt(eventCount, {})
      BY <2>1 DEF Recover, RecoverAt
    <3> QED BY <2>0, <3>1 DEF StoreMoves, NewEntryStep
  <2>2. CASE ReconcileAnswered
    BY <2>0, <2>2 DEF ReconcileAnswered, StoreMoves, SettledStep
  <2> QED BY <1>2, <2>1, <2>2 DEF RecoverAtStartup, StoreMoves
<1>4. ASSUME NEW s \in Socket, Connect(s)
      PROVE  StoreMoves
  BY <1>4 DEF Connect, StoreMoves, SocketStep
<1>5. ASSUME NEW s \in Socket,
             \/ ListCandidates(s) \/ ProjectTerminal(s) \/ NothingListed(s)
             \/ NotLive(s) \/ NothingRecovered(s) \/ BindGone(s) \/ LinkLost(s)
             \/ Forget(s)
      PROVE  StoreMoves
  <2>1. UNCHANGED vars
    BY <1>5 DEF ListCandidates, ProjectTerminal, NothingListed, NotLive,
       NothingRecovered, BindGone, LinkLost, Forget
  <2> QED BY <2>1 DEF StoreMoves
<1>6. ASSUME NEW s \in Socket,
             ProjectTerminalFails(s) \/ ReconcileConflicts(s) \/ BindFails(s)
             \/ SocketClosed(s)
      PROVE  StoreMoves
  <2>1. CloseSocket(s)
    BY <1>6 DEF ProjectTerminalFails, ReconcileConflicts, BindFails,
       SocketClosed, Abort
  <2> QED BY <2>1 DEF StoreMoves, SocketStep
<1>7. ASSUME NEW s \in Socket, ReconcileListed(s)
      PROVE  StoreMoves
  <2>1. listed[s].count \in 0..eventCount
    BY DEF ChannelInv, Channel, Listed
  <2> QED BY <1>7, <2>1 DEF ReconcileListed, StoreMoves, SettledStep
<1>8. ASSUME NEW s \in Socket, RecoverListed(s)
      PROVE  StoreMoves
  <2>1. listed[s].count \in 0..eventCount /\ {s} \in SUBSET Socket
    BY DEF ChannelInv, Channel, Listed
  <2>2. RecoverAt(listed[s].count, {s})
    BY <1>8 DEF RecoverListed, RecoverAt
  <2> QED BY <2>1, <2>2 DEF StoreMoves, NewEntryStep
<1>9. ASSUME NEW s \in Socket, BeginBind(s)
      PROVE  StoreMoves
  <2>1. OwnerOf[s] \in Client
    BY RunChannelAssumption
  <2>2. after[s] \in {NoSeq} \cup Nat
    BY <2>1 DEF ChannelInv, Channel, Seen, SoundNow, Sound
  <2> QED BY <1>9, <2>2 DEF BeginBind, StoreMoves, SocketStep
<1>10. ASSUME NEW s \in Socket, FinishBind(s)
       PROVE  StoreMoves
  BY <1>10 DEF FinishBind, StoreMoves, SocketStep
<1>11. ASSUME NEW s \in Socket, StartRunOn(s)
       PROVE  StoreMoves
  BY <1>11 DEF StartRunOn, StoreMoves, NewEntryStep
<1>12. ASSUME NEW s \in Socket, AcknowledgeEnd(s)
       PROVE  StoreMoves
  <2>1. PICK n \in DOMAIN view[OwnerOf[s]] : Acknowledge(n)
    BY <1>12 DEF AcknowledgeEnd
  <2>2. n \in Nat
    BY <2>1, RunChannelAssumption
    DEF ChannelInv, Channel, Seen, SoundNow, Sound
  <2> QED BY <2>1, <2>2 DEF StoreMoves, SettledStep
<1>13. ASSUME NEW s \in Socket, NextRunOn(s)
       PROVE  StoreMoves
  BY <1>13 DEF NextRunOn, StoreMoves, SettledStep
<1> QED
  BY <1>1, <1>2, <1>4, <1>5, <1>6, <1>7, <1>8, <1>9, <1>10, <1>11, <1>12,
     <1>13 DEF ChannelNext, Handshake

-----------------------------------------------------------------------------
\* What the parts of Channel need to last.
LEMMA ListedLasts ==
  ASSUME Listed, Counts, Counts', Forward,
         \A s \in Socket : listed'[s] = listed[s] \/ listed'[s] = Unlisted
  PROVE  Listed'
<1>1. /\ eventCount \in Nat /\ eventCount' \in Nat /\ eventCount <= eventCount'
      /\ checkpoint.status = "terminal" =>
           /\ checkpoint'.status = "terminal"
           /\ checkpoint'.cursor = checkpoint.cursor
  BY DEF Counts, Forward
<1>2. Unlisted.count = 0 /\ Unlisted.status = "none"
  BY DEF Unlisted
<1>3. \A k \in 0..eventCount : k \in 0..eventCount'
  BY <1>1
<1> QED
  BY <1>1, <1>2, <1>3 DEF Listed

LEMMA SeenLasts ==
  ASSUME Seen, Counts, Counts', Forward, UNCHANGED view,
         \A c \in Client : cursor'[c] = cursor[c] \/ cursor'[c] = NoSeq,
         \A s \in Socket : \/ after'[s] = after[s] \/ after'[s] = NoSeq
                           \/ after'[s] = cursor[OwnerOf[s]]
  PROVE  Seen'
<1>1. \A c \in Client : SoundThen(view[c])
  BY SoundLasts DEF Seen
<1>2. \A c \in Client : Sound(view'[c], eventCount', attempt', nextSeq',
                              checkpoint')
  BY <1>1 DEF SoundThen
<1>3. \A s \in Socket : OwnerOf[s] \in Client
  BY RunChannelAssumption
<1> QED
  BY <1>2, <1>3 DEF Seen, SoundNow

Grown == \A c \in Client : /\ raced[c] => raced'[c]
                           /\ \A n \in DOMAIN view[c] : n \in DOMAIN view'[c]

LEMMA AttachedLasts ==
  ASSUME Attached, Grown, UNCHANGED nextSeq, TypeOK,
         \A s \in sinks' \cap link' : s \in sinks \cap link
  PROVE  Attached'
<1>1. \A s \in sinks \cap link : OwnerOf[s] \in Client
  BY RunChannelAssumption DEF TypeOK
<1> QED
  BY <1>1 DEF Attached, Grown

LEMMA CopiedLasts ==
  ASSUME Copied, Grown, UNCHANGED attempt,
         \A s \in Socket : replay'[s] = replay[s] \/ replay'[s].kind # "copy"
  PROVE  Copied'
<1>1. \A s \in Socket : OwnerOf[s] \in Client
  BY RunChannelAssumption
<1>2. ASSUME NEW s \in Socket, replay'[s].kind = "copy", replay'[s].of = attempt'
      PROVE  /\ \A n \in DOMAIN replay'[s].events : n < replay'[s].next
             /\ \/ raced'[OwnerOf[s]]
                \/ \A n \in 0..(replay'[s].next - 1) :
                     \/ n \in DOMAIN view'[OwnerOf[s]]
                     \/ n \in DOMAIN replay'[s].events
  BY <1>1, <1>2 DEF Copied, Grown
<1> QED
  BY <1>2 DEF Copied

\* A step that shows nothing and starts no attempt.
LEMMA ChannelStill ==
  ASSUME ChannelInv, Inv', Forward, Domains', link' \subseteq open',
         UNCHANGED <<view, raced, nextSeq, attempt>>,
         \A s \in sinks' \cap link' : s \in sinks \cap link,
         \A s \in Socket : listed'[s] = listed[s] \/ listed'[s] = Unlisted,
         \A s \in Socket : \/ after'[s] = after[s] \/ after'[s] = NoSeq
                           \/ after'[s] = cursor[OwnerOf[s]],
         \A c \in Client : cursor'[c] = cursor[c] \/ cursor'[c] = NoSeq,
         \A s \in Socket : replay'[s] = replay[s] \/ replay'[s].kind # "copy"
  PROVE  Channel'
<1>1. Counts /\ Counts' /\ TypeOK
  BY CountsNow, CountsThen DEF ChannelInv, Inv
<1>2. Grown
  BY DEF Grown
<1>3. Listed' /\ Seen'
  BY <1>1, ListedLasts, SeenLasts DEF ChannelInv, Channel
<1>4. Attached' /\ Copied'
  BY <1>1, <1>2, AttachedLasts, CopiedLasts DEF ChannelInv, Channel
<1>5. HolesOnlyFromBindRace'
  BY DEF ChannelInv, Channel, HolesOnlyFromBindRace, Gapless
<1> QED
  BY <1>3, <1>4, <1>5 DEF Channel

-----------------------------------------------------------------------------
\* What showing events does to the clients reached.
Fills(c, f) ==
  \A n \in DOMAIN f : \A m \in 0..n : m \in DOMAIN view[c] \/ m \in DOMAIN f

LEMMA LastIs ==
  ASSUME NEW f, Topped(DOMAIN f), DOMAIN f # {}
  PROVE  LastOf(f) \in DOMAIN f
<1>1. \E n \in DOMAIN f : \A m \in DOMAIN f : m <= n
  BY DEF Topped
<1> QED
  BY <1>1 DEF LastOf

LEMMA ShowEffect ==
  ASSUME Domains, NEW to, NEW f, Show(to, f), Topped(DOMAIN f)
  PROVE  /\ DOMAIN view' = Client /\ DOMAIN cursor' = Client
         /\ \A c \in Client :
              \/ /\ view'[c] = view[c] /\ cursor'[c] = cursor[c]
                 /\ DOMAIN f = {} \/ \A s \in to \cap link : OwnerOf[s] # c
              \/ /\ DOMAIN view'[c] = DOMAIN view[c] \cup DOMAIN f
                 /\ \A n \in DOMAIN view'[c] :
                      \/ n \in DOMAIN f /\ view'[c][n] = f[n]
                      \/ n \in DOMAIN view[c] /\ view'[c][n] = view[c][n]
                 /\ cursor'[c] \in DOMAIN view'[c]
                 /\ \E s \in to \cap link : OwnerOf[s] = c
<1> DEFINE got == IF DOMAIN f = {} THEN {} ELSE to \cap link
           seen == {OwnerOf[s] : s \in got}
<1>1. /\ view' = [c \in Client |->
             IF c \in seen
             THEN [n \in DOMAIN view[c] \cup DOMAIN f |->
                     IF n \in DOMAIN f THEN f[n] ELSE view[c][n]]
             ELSE view[c]]
      /\ cursor' = [c \in Client |-> IF c \in seen THEN LastOf(f) ELSE cursor[c]]
  BY DEF Show
<1>2. DOMAIN view' = Client /\ DOMAIN cursor' = Client
  BY <1>1
<1>3. ASSUME NEW c \in Client, c \notin seen
      PROVE  /\ view'[c] = view[c] /\ cursor'[c] = cursor[c]
             /\ DOMAIN f = {} \/ \A s \in to \cap link : OwnerOf[s] # c
  BY <1>1, <1>3
<1>4. ASSUME NEW c \in Client, c \in seen
      PROVE  /\ DOMAIN view'[c] = DOMAIN view[c] \cup DOMAIN f
             /\ \A n \in DOMAIN view'[c] :
                  \/ n \in DOMAIN f /\ view'[c][n] = f[n]
                  \/ n \in DOMAIN view[c] /\ view'[c][n] = view[c][n]
             /\ cursor'[c] \in DOMAIN view'[c]
             /\ \E s \in to \cap link : OwnerOf[s] = c
  <2>1. DOMAIN f # {} /\ \E s \in to \cap link : OwnerOf[s] = c
    BY <1>4
  <2>2. view'[c] = [n \in DOMAIN view[c] \cup DOMAIN f |->
                     IF n \in DOMAIN f THEN f[n] ELSE view[c][n]]
        /\ cursor'[c] = LastOf(f)
    BY <1>1, <1>4
  <2>3. LastOf(f) \in DOMAIN f
    BY <2>1, LastIs
  <2> QED BY <2>1, <2>2, <2>3
<1> HIDE DEF seen
<1> QED
  BY <1>2, <1>3, <1>4

LEMMA ShowGrows ==
  ASSUME Domains, NEW to, NEW f, Show(to, f), Topped(DOMAIN f),
         \A c \in Client : raced[c] => raced'[c]
  PROVE  Grown
<1>1. ASSUME NEW c \in Client
      PROVE  \/ view'[c] = view[c]
             \/ DOMAIN view'[c] = DOMAIN view[c] \cup DOMAIN f
  BY ShowEffect
<1> QED
  BY <1>1 DEF Grown

LEMMA ShowSeen ==
  ASSUME Domains, Seen, Counts, Counts', Forward,
         NEW to, NEW f, Show(to, f), Topped(DOMAIN f), SoundThen(f),
         \A s \in Socket : after'[s] = after[s] \/ after'[s] = NoSeq
  PROVE  Seen'
<1>1. \A c \in Client : SoundThen(view[c])
  BY SoundLasts DEF Seen
<1>2. ASSUME NEW c \in Client
      PROVE  /\ SoundThen(view'[c]) /\ cursor'[c] \in {NoSeq} \cup DOMAIN view'[c]
             /\ \A n \in DOMAIN view[c] : n \in DOMAIN view'[c]
  <2>1. CASE view'[c] = view[c] /\ cursor'[c] = cursor[c]
    BY <1>1, <2>1 DEF Seen
  <2>2. CASE /\ DOMAIN view'[c] = DOMAIN view[c] \cup DOMAIN f
             /\ \A n \in DOMAIN view'[c] :
                  \/ n \in DOMAIN f /\ view'[c][n] = f[n]
                  \/ n \in DOMAIN view[c] /\ view'[c][n] = view[c][n]
             /\ cursor'[c] \in DOMAIN view'[c]
    <3>1. SoundThen(view[c])
      BY <1>1
    <3>2. SoundThen(view'[c])
      BY <2>2, <3>1, SoundOver DEF SoundThen
    <3> QED BY <2>2, <3>2
  <2> QED BY <2>1, <2>2, ShowEffect
<1>3. \A s \in Socket : OwnerOf[s] \in Client
  BY RunChannelAssumption
<1>4. \A c \in Client : Sound(view'[c], eventCount', attempt', nextSeq',
                              checkpoint')
  BY <1>2 DEF SoundThen
<1>5. \A s \in Socket : after'[s] \in {NoSeq} \cup DOMAIN view'[OwnerOf[s]]
  BY <1>2, <1>3 DEF Seen
<1> QED
  BY <1>2, <1>4, <1>5 DEF Seen, SoundNow

LEMMA ShowFills ==
  ASSUME Domains, Seen, HolesOnlyFromBindRace,
         NEW to \in SUBSET Socket, NEW f, Show(to, f), Topped(DOMAIN f),
         \A c \in Client : raced[c] => raced'[c],
         \A s \in to \cap link :
           raced'[OwnerOf[s]] \/ Fills(OwnerOf[s], f)
  PROVE  HolesOnlyFromBindRace'
<1> SUFFICES ASSUME NEW c \in Client, ~raced'[c],
                    NEW n \in DOMAIN view'[c], NEW m \in 0..n
             PROVE  m \in DOMAIN view'[c]
  BY DEF HolesOnlyFromBindRace, Gapless
<1>1. ~raced[c] /\ Gapless(c)
  BY DEF HolesOnlyFromBindRace
<1>2. CASE view'[c] = view[c]
  BY <1>1, <1>2 DEF Gapless
<1>3. CASE /\ DOMAIN view'[c] = DOMAIN view[c] \cup DOMAIN f
           /\ \E s \in to \cap link : OwnerOf[s] = c
  <2>1. Fills(c, f)
    BY <1>3
  <2>2. CASE n \in DOMAIN view[c]
    BY <1>1, <1>3, <2>2 DEF Gapless
  <2>3. CASE n \in DOMAIN f
    BY <1>3, <2>1, <2>3 DEF Fills
  <2> QED BY <1>3, <2>2, <2>3
<1> QED
  BY <1>2, <1>3, ShowEffect

\* What is selected for the cursor of a client without holes fills it up.
LEMMA SelectedFills ==
  ASSUME NEW c \in Client, Gapless(c), DOMAIN view[c] \in SUBSET Nat,
         NEW from \in {NoSeq} \cup DOMAIN view[c],
         NEW h, NEW k \in Nat, DOMAIN h = 0..(k - 1)
  PROVE  \A m \in 0..(k - 1) :
           m \in DOMAIN view[c] \/ m \in DOMAIN SelectReplay(h, from)
<1>1. from \in Int /\ DOMAIN h \in SUBSET Int /\ Topped(DOMAIN h)
  <2>1. from \in Int
    BY DEF NoSeq
  <2>2. k - 1 \in Int
    OBVIOUS
  <2> QED BY <2>1, <2>2, IntervalTopped
<1>2. ASSUME NEW m \in 0..(k - 1)
      PROVE  m \in DOMAIN view[c] \/ m \in DOMAIN SelectReplay(h, from)
  <2>1. CASE m > from
    BY <1>1, <2>1, Selected
  <2>2. CASE ~(m > from)
    <3>1. from # NoSeq
      BY <2>2 DEF NoSeq
    <3>2. from \in DOMAIN view[c] /\ m \in 0..from
      BY <1>1, <2>2, <3>1
    <3> QED BY <3>2 DEF Gapless
  <2> QED BY <2>1, <2>2
<1> QED
  BY <1>2

-----------------------------------------------------------------------------
\* Live delivery: everybody attached gets the next event.
LEMMA LiveStep ==
  ASSUME ChannelInv, Inv', Kept', Forward,
         Show(sinks \cap open, [n \in {nextSeq} |-> history'[n]]),
         nextSeq \in DOMAIN history', nextSeq' = nextSeq + 1,
         sinks' = sinks \cap open,
         UNCHANGED <<channelVars, raced, attempt, replay, open>>
  PROVE  Channel'
<1> DEFINE f == [n \in {nextSeq} |-> history'[n]]
<1>1. Counts /\ Counts' /\ TypeOK /\ Domains /\ Seen /\ Attached
      /\ HolesOnlyFromBindRace /\ Listed /\ Copied /\ link \subseteq open
  BY CountsNow, CountsThen DEF ChannelInv, Channel, Inv
<1>2. nextSeq \in Nat /\ DOMAIN f = {nextSeq} /\ f[nextSeq] = history'[nextSeq]
  BY <1>1 DEF Counts
<1>3. Topped(DOMAIN f)
  BY <1>2 DEF Topped
<1>4. SoundThen(f)
  <2>1. Sound(history', eventCount', attempt', nextSeq', checkpoint')
    BY DEF Kept, SoundNow
  <2>2. \A n \in DOMAIN f : n \in DOMAIN history' /\ f[n] = history'[n]
    BY <1>2
  <2> HIDE DEF f
  <2> QED BY <2>1, <2>2, SoundPart DEF SoundThen
<1>5. Show(sinks \cap open, f)
  OBVIOUS
<1> HIDE DEF f
<1>6. UNCHANGED <<link, after, listed>>
  BY DEF channelVars
<1>7. /\ sinks \cap open \in SUBSET Socket
      /\ \A s \in (sinks \cap open) \cap link :
           s \in sinks \cap link /\ OwnerOf[s] \in Client
  BY <1>1, RunChannelAssumption DEF TypeOK
<1>8. Seen'
  BY <1>1, <1>3, <1>4, <1>5, <1>6, ShowSeen
<1>9. Grown
  BY <1>1, <1>3, <1>5, ShowGrows
<1>10. HolesOnlyFromBindRace'
  <2>1. ASSUME NEW s \in (sinks \cap open) \cap link
        PROVE  raced'[OwnerOf[s]] \/ Fills(OwnerOf[s], f)
    <3>1. CASE raced[OwnerOf[s]]
      BY <3>1
    <3>2. CASE \A n \in 0..(nextSeq - 1) : n \in DOMAIN view[OwnerOf[s]]
      <4>1. \A m \in 0..nextSeq : m = nextSeq \/ m \in 0..(nextSeq - 1)
        BY <1>2
      <4> QED BY <1>2, <3>2, <4>1 DEF Fills
    <3> QED BY <1>1, <1>7, <2>1, <3>1, <3>2 DEF Attached
  <2> QED BY <1>1, <1>3, <1>5, <1>7, <2>1, ShowFills
<1>11. Attached'
  <2> SUFFICES ASSUME NEW s \in sinks' \cap link', NEW n \in 0..(nextSeq' - 1)
               PROVE  raced'[OwnerOf[s]] \/ n \in DOMAIN view'[OwnerOf[s]]
    BY DEF Attached
  <2>1. s \in (sinks \cap open) \cap link /\ s \in sinks \cap link
        /\ OwnerOf[s] \in Client
    BY <1>6, <1>7
  <2>2. n = nextSeq \/ n \in 0..(nextSeq - 1)
    BY <1>2
  <2>3. CASE n \in 0..(nextSeq - 1)
    BY <1>1, <1>9, <2>1, <2>3 DEF Attached, Grown
  <2>4. CASE n = nextSeq
    BY <1>1, <1>2, <1>3, <1>5, <2>1, <2>4, ShowEffect
  <2> QED BY <2>2, <2>3, <2>4
<1>12. Copied' /\ Listed'
  BY <1>1, <1>6, <1>9, CopiedLasts, ListedLasts
<1>13. Domains'
  <2>1. DOMAIN view' = Client /\ DOMAIN cursor' = Client
    BY <1>1, <1>3, <1>5, ShowEffect
  <2> QED BY <1>1, <1>6, <2>1 DEF Domains
<1> QED
  BY <1>1, <1>6, <1>8, <1>10, <1>11, <1>12, <1>13 DEF Channel

LEMMA PublishLiveStep ==
  ASSUME ChannelInv, Inv', Kept', Forward, PublishLive
  PROVE  Channel'
<1>1. history' = Put(history, nextSeq, [attempt |-> attempt, terminal |-> FALSE])
      /\ nextSeq' = nextSeq + 1 /\ sinks' = sinks \cap open
      /\ UNCHANGED <<attempt, replay, open>>
  BY DEF PublishLive, Publish
<1>2. nextSeq \in DOMAIN history'
  BY <1>1 DEF Put
<1> QED
  BY <1>1, <1>2, LiveStep DEF PublishLive

LEMMA CommitDoneLiveStep ==
  ASSUME ChannelInv, Inv', Kept', Forward, CommitDoneLive
  PROVE  Channel'
<1>1. commitSeq = nextSeq
  BY DEF CommitDoneLive, CommitDone, ChannelInv, Inv, CommitLock
<1>2. history' = Put(history, nextSeq, [attempt |-> attempt, terminal |-> TRUE])
      /\ nextSeq' = nextSeq + 1 /\ sinks' = sinks \cap open
      /\ UNCHANGED <<attempt, replay, open>>
  BY <1>1 DEF CommitDoneLive, CommitDone
<1>3. nextSeq \in DOMAIN history'
  BY <1>2 DEF Put
<1> QED
  BY <1>1, <1>2, <1>3, LiveStep DEF CommitDoneLive

-----------------------------------------------------------------------------
\* The projection of a settled run: what was listed, then its terminal event.
LEMMA ProjectionIs ==
  ASSUME ChannelInv, NEW s \in Socket, NEW end \in Nat
  PROVE  LET f == TerminalProjection(s, end) IN
         /\ Topped(DOMAIN f)
         /\ end \in DOMAIN f
         /\ \A n \in DOMAIN f :
              \/ n = end /\ f[n] = [attempt |-> attempt, terminal |-> TRUE]
              \/ /\ n \in 0..(end - 1)
                 /\ \/ n \in 0..(eventCount - 1) /\ f[n] = journal[n]
                    \/ f[n] = [attempt |-> attempt, terminal |-> FALSE]
         /\ ~raced[OwnerOf[s]] => Fills(OwnerOf[s], f)
<1> DEFINE count == listed[s].count
           stored == [n \in 0..(end - 1) |->
                        IF n < count THEN journal[n]
                        ELSE [attempt |-> attempt, terminal |-> FALSE]]
           sel == SelectReplay(stored, after[s])
           last == [attempt |-> attempt, terminal |-> TRUE]
           f == TerminalProjection(s, end)
           c == OwnerOf[s]
<1>1. f = Put(sel, end, last)
  BY DEF TerminalProjection
<1>2. /\ c \in Client /\ count \in 0..eventCount /\ eventCount \in Nat
      /\ after[s] \in {NoSeq} \cup DOMAIN view[c]
      /\ DOMAIN view[c] \in SUBSET Nat
  <2>1. c \in Client
    BY RunChannelAssumption
  <2>2. eventCount \in Nat
    BY CountsNow DEF ChannelInv, Counts
  <2> QED BY <2>1, <2>2 DEF ChannelInv, Channel, Listed, Seen, SoundNow, Sound
<1>3. /\ DOMAIN stored = 0..(end - 1)
      /\ \A n \in 0..(end - 1) :
           \/ n \in 0..(eventCount - 1) /\ stored[n] = journal[n]
           \/ stored[n] = [attempt |-> attempt, terminal |-> FALSE]
  <2>1. \A n \in 0..(end - 1) : n < count => n \in 0..(eventCount - 1)
    BY <1>2
  <2> QED BY <2>1
<1>4. Topped(DOMAIN stored) /\ DOMAIN stored \in SUBSET Int
  <2>1. end - 1 \in Int
    OBVIOUS
  <2> QED BY <1>3, <2>1, IntervalTopped
<1>5. after[s] \in Int
  BY <1>2 DEF NoSeq
<1> HIDE DEF stored
<1>6. \A n \in DOMAIN sel : n \in DOMAIN stored /\ sel[n] = stored[n]
  BY <1>4, <1>5, Selected
<1> HIDE DEF sel
<1>7. /\ DOMAIN f = DOMAIN sel \cup {end} /\ f[end] = last
      /\ \A n \in DOMAIN sel : n # end => f[n] = sel[n]
  BY <1>1 DEF Put
<1> HIDE DEF f
<1>8. \A n \in DOMAIN sel : n \in 0..(end - 1) /\ n < end
  BY <1>3, <1>6
<1>9. Topped(DOMAIN f) /\ end \in DOMAIN f
  <2>1. end \in DOMAIN f /\ \A n \in DOMAIN f : n <= end
    BY <1>7, <1>8
  <2> QED BY <2>1 DEF Topped
<1>10. ASSUME NEW n \in DOMAIN f
       PROVE  \/ n = end /\ f[n] = last
              \/ /\ n \in 0..(end - 1)
                 /\ \/ n \in 0..(eventCount - 1) /\ f[n] = journal[n]
                    \/ f[n] = [attempt |-> attempt, terminal |-> FALSE]
  <2>1. CASE n = end
    BY <1>7, <2>1
  <2>2. CASE n # end
    <3>1. n \in DOMAIN sel /\ f[n] = sel[n]
      BY <1>7, <2>2
    <3>2. n \in 0..(end - 1) /\ f[n] = stored[n]
      BY <1>3, <1>6, <3>1
    <3> QED BY <1>3, <3>2
  <2> QED BY <2>1, <2>2
<1>11. ASSUME ~raced[c]
       PROVE  Fills(c, f)
  <2>1. Gapless(c)
    BY <1>2, <1>11 DEF ChannelInv, Channel, HolesOnlyFromBindRace
  <2>2. \A m \in 0..(end - 1) : m \in DOMAIN view[c] \/ m \in DOMAIN sel
    BY <1>2, <1>3, <2>1, SelectedFills DEF sel
  <2>3. ASSUME NEW n \in DOMAIN f, NEW m \in 0..n
        PROVE  m \in DOMAIN view[c] \/ m \in DOMAIN f
    <3>1. n \in 0..end
      BY <1>7, <1>8
    <3>2. m = end \/ m \in 0..(end - 1)
      BY <3>1
    <3> QED BY <1>7, <2>2, <3>2
  <2> QED BY <2>3 DEF Fills
<1> QED
  BY <1>9, <1>10, <1>11 DEF f

LEMMA ProjectStep ==
  ASSUME ChannelInv, Inv', Forward, NEW s \in Socket, NEW end \in Nat,
         Project(s, end), checkpoint'.status = "terminal",
         checkpoint'.cursor = end,
         UNCHANGED <<attempt, nextSeq, sinks, open, replay, link, after>>,
         DOMAIN listed' = Socket,
         \A z \in Socket : listed'[z] = listed[z] \/ listed'[z] = Unlisted
  PROVE  Channel'
<1>1. Counts /\ Counts' /\ TypeOK /\ Domains /\ Seen /\ Attached
      /\ HolesOnlyFromBindRace /\ Listed /\ Copied /\ link \subseteq open
  BY CountsNow, CountsThen DEF ChannelInv, Channel, Inv
<1>2. CASE s \in open
  <2>1. PICK f : f = TerminalProjection(s, end)
    OBVIOUS
  <2>2. Show({s}, f) /\ raced' = raced
    BY <1>2, <2>1 DEF Project
  <2>3. /\ Topped(DOMAIN f)
        /\ \A n \in DOMAIN f :
             \/ n = end /\ f[n] = [attempt |-> attempt, terminal |-> TRUE]
             \/ /\ n \in 0..(end - 1)
                /\ \/ n \in 0..(eventCount - 1) /\ f[n] = journal[n]
                   \/ f[n] = [attempt |-> attempt, terminal |-> FALSE]
        /\ ~raced[OwnerOf[s]] => Fills(OwnerOf[s], f)
    BY <2>1, ProjectionIs
  <2>4. SoundThen(f)
    <3>1. ASSUME NEW n \in 0..(eventCount - 1)
          PROVE  /\ n \in Nat /\ n < eventCount'
                 /\ journal[n] \in [attempt : Nat, terminal : BOOLEAN]
                 /\ ~journal[n].terminal
      <4>1. SoundNow([m \in 0..(eventCount - 1) |-> journal[m]])
        BY JournalIsSound DEF ChannelInv, Kept
      <4>2. journal[n] \in [attempt : Nat, terminal : BOOLEAN]
        BY <4>1 DEF SoundNow, Sound
      <4>3. n \in DOMAIN journal
        BY DEF ChannelInv, Inv, TypeOK
      <4>4. n < eventCount /\ n \in Nat
        BY <1>1 DEF Counts
      <4>5. n < eventCount'
        BY <1>1, <4>4 DEF Counts, Forward
      <4> QED BY <4>2, <4>3, <4>4, <4>5 DEF ChannelInv, Kept, Plain
    <3>2. attempt \in Nat /\ attempt' = attempt
      BY <1>1 DEF Counts
    <3> SUFFICES ASSUME NEW n \in DOMAIN f
                 PROVE  /\ n \in Nat /\ f[n] \in [attempt : Nat, terminal : BOOLEAN]
                        /\ \/ n < eventCount'
                           \/ f[n].attempt = attempt' /\ n <= checkpoint'.cursor
                        /\ f[n].terminal =>
                             checkpoint'.cursor = n /\ f[n].attempt = attempt'
      BY DEF SoundThen, Sound
    <3>3. CASE n = end /\ f[n] = [attempt |-> attempt, terminal |-> TRUE]
      BY <3>2, <3>3
    <3>4. CASE n \in 0..(end - 1) /\ f[n] = [attempt |-> attempt, terminal |-> FALSE]
      BY <3>2, <3>4
    <3>5. CASE n \in 0..(eventCount - 1) /\ f[n] = journal[n]
      BY <3>1, <3>5
    <3> QED BY <2>3, <3>3, <3>4, <3>5
  <2>5. Seen' /\ Grown
    BY <1>1, <2>2, <2>3, <2>4, ShowSeen, ShowGrows
  <2>6. HolesOnlyFromBindRace'
    BY <1>1, <2>2, <2>3, ShowFills
  <2>7. Attached' /\ Copied' /\ Listed'
    BY <1>1, <2>5, AttachedLasts, CopiedLasts, ListedLasts
  <2>8. Domains'
    <3>1. DOMAIN view' = Client /\ DOMAIN cursor' = Client
      BY <1>1, <2>2, <2>3, ShowEffect
    <3> QED BY <1>1, <2>2, <3>1 DEF Domains
  <2> QED BY <1>1, <2>5, <2>6, <2>7, <2>8 DEF Channel
<1>3. CASE s \notin open
  <2>1. UNCHANGED <<view, cursor, raced>>
    BY <1>3 DEF Project, clientVars
  <2>2. Domains'
    BY <1>1, <2>1 DEF Domains
  <2> QED BY <1>1, <2>1, <2>2, ChannelStill
<1> QED
  BY <1>2, <1>3

LEMMA ProjectTerminalStep ==
  ASSUME ChannelInv, Inv', Forward, NEW s \in Socket, ProjectTerminal(s)
  PROVE  Channel'
<1>1. /\ checkpoint.status = "terminal" /\ checkpoint.cursor = listed[s].cursor
      /\ UNCHANGED vars
  BY DEF ProjectTerminal, ChannelInv, Channel, Listed
<1>2. listed[s].cursor \in Nat
  <2>1. checkpoint.cursor \in NoSeq..(MaxEvents + 1) /\ checkpoint.cursor # NoSeq
    BY <1>1 DEF ChannelInv, Inv, TypeOK, Ending
  <2> QED BY <1>1, <2>1, LiveRunEventsAssumption DEF NoSeq
<1>3. /\ UNCHANGED <<attempt, nextSeq, sinks, open, replay, checkpoint>>
      /\ Project(s, listed[s].cursor)
      /\ UNCHANGED <<link, after>>
      /\ listed' = [listed EXCEPT ![s] = Unlisted]
  BY <1>1 DEF ProjectTerminal, Recovered, vars, entryVars, seqVars, durableVars
<1>4. DOMAIN listed' = Socket
      /\ \A z \in Socket : listed'[z] = listed[z] \/ listed'[z] = Unlisted
  BY <1>3 DEF ChannelInv, Channel, Domains
<1> QED
  BY <1>1, <1>2, <1>3, <1>4, ProjectStep

LEMMA ReconcileListedStep ==
  ASSUME ChannelInv, Inv', Forward, NEW s \in Socket, ReconcileListed(s)
  PROVE  Channel'
<1>1. /\ checkpoint.status = "running"
      /\ \E c \in SettlementCursor(listed[s].count) :
           checkpoint' = [checkpoint EXCEPT !.status = "terminal", !.cursor = c]
      /\ UNCHANGED <<entryVars, sinks, open, replay>>
      /\ Project(s, checkpoint'.cursor)
      /\ UNCHANGED <<link, after>>
      /\ listed' = [listed EXCEPT ![s] = Unlisted]
  BY DEF ReconcileListed, Reconcile, Recovered
<1>2. PICK c \in SettlementCursor(listed[s].count) :
        checkpoint' = [checkpoint EXCEPT !.status = "terminal", !.cursor = c]
  BY <1>1
<1>3. checkpoint'.status = "terminal" /\ checkpoint'.cursor = c
  BY <1>2 DEF ChannelInv, Inv, TypeOK
<1>4. c \in Nat
  <2>1. listed[s].count \in Nat
    BY CountsNow DEF ChannelInv, Channel, Listed, Counts
  <2> QED BY <2>1 DEF SettlementCursor
<1>5. DOMAIN listed' = Socket
      /\ \A z \in Socket : listed'[z] = listed[z] \/ listed'[z] = Unlisted
  BY <1>1 DEF ChannelInv, Channel, Domains
<1>6. UNCHANGED <<attempt, nextSeq, sinks, open, replay>>
  BY <1>1 DEF entryVars, seqVars
<1> QED
  BY <1>1, <1>3, <1>4, <1>5, <1>6, ProjectStep

-----------------------------------------------------------------------------
\* The steps that show nothing to anybody and start no attempt.
LEMMA DaemonStep ==
  ASSUME ChannelInv, Inv', Forward, Daemon
  PROVE  Channel'
<1>1. /\ UNCHANGED <<booting, phase, link, after, listed, cursor, view, raced>>
      /\ link \subseteq open /\ Domains
  BY DEF Daemon, channelVars, clientVars, ChannelInv, Channel
<1>2. UNCHANGED <<nextSeq, attempt, sinks, open, replay>>
  BY DEF Daemon, BeginDurable, Answer, RunThrows, SettleTerminal, SettleFailure,
     CommitBegin, CommitPersist, CommitFails, SettleFailureGivesUp, FinishRun,
     Journaling, JournalAppend, JournalConfirmed, JournalFails, Orphans,
     OrphanAppend, OrphanFails, entryVars, seqVars
<1>3. Domains'
  BY <1>1 DEF Domains
<1> QED
  BY <1>1, <1>2, <1>3, ChannelStill

LEMMA StillSteps ==
  ASSUME ChannelInv, Inv', Forward, NEW s \in Socket,
         \/ NothingListed(s) \/ NotLive(s) \/ NothingRecovered(s) \/ BindGone(s)
         \/ LinkLost(s) \/ Forget(s)
  PROVE  Channel'
<1>1. /\ UNCHANGED vars /\ UNCHANGED <<view, raced, cursor>>
      /\ link' = link \/ link' = link \ {s}
      /\ after' = after \/ after' = [after EXCEPT ![s] = NoSeq]
      /\ listed' = listed \/ listed' = [listed EXCEPT ![s] = Unlisted]
  BY DEF NothingListed, NotLive, NothingRecovered, BindGone, LinkLost, Forget,
     Recovered, clientVars
<1>2. UNCHANGED <<nextSeq, attempt, sinks, open, replay>>
  BY <1>1 DEF vars, entryVars, seqVars
<1>3. Domains /\ link \subseteq open
  BY DEF ChannelInv, Channel
<1>4. Domains' /\ link' \subseteq open'
      /\ \A z \in sinks' \cap link' : z \in sinks \cap link
  BY <1>1, <1>2, <1>3 DEF Domains
<1>5. \A z \in Socket : /\ listed'[z] = listed[z] \/ listed'[z] = Unlisted
                        /\ after'[z] = after[z] \/ after'[z] = NoSeq
  BY <1>1, <1>3 DEF Domains
<1> QED
  BY <1>1, <1>2, <1>4, <1>5, ChannelStill

LEMMA CloseSteps ==
  ASSUME ChannelInv, Inv', Forward, NEW s \in Socket,
         ProjectTerminalFails(s) \/ ReconcileConflicts(s) \/ BindFails(s)
         \/ SocketClosed(s)
  PROVE  Channel'
<1>1. /\ CloseSocket(s) /\ link' = link \ {s}
      /\ UNCHANGED <<after, cursor, view, raced>>
      /\ listed' = listed \/ listed' = [listed EXCEPT ![s] = Unlisted]
  BY DEF ProjectTerminalFails, ReconcileConflicts, BindFails, SocketClosed,
     Abort, clientVars
<1>2. /\ UNCHANGED <<attempt, nextSeq, replay>>
      /\ open' = open \ {s} /\ sinks' \subseteq sinks
  BY <1>1 DEF CloseSocket
<1>3. Domains /\ link \subseteq open
  BY DEF ChannelInv, Channel
<1>4. Domains' /\ link' \subseteq open'
      /\ \A z \in sinks' \cap link' : z \in sinks \cap link
  BY <1>1, <1>2, <1>3 DEF Domains
<1>5. \A z \in Socket : listed'[z] = listed[z] \/ listed'[z] = Unlisted
  BY <1>1, <1>3 DEF Domains
<1> QED
  BY <1>1, <1>2, <1>4, <1>5, ChannelStill

LEMMA OtherSteps ==
  ASSUME ChannelInv, Inv', Forward,
         InputFailsOn \/ \E s \in Socket : AcknowledgeEnd(s) \/ NextRunOn(s)
  PROVE  Channel'
<1>1. /\ UNCHANGED <<link, after, listed, view, raced, nextSeq, attempt, sinks,
                     open, replay>>
      /\ \A c \in Client : cursor'[c] = cursor[c] \/ cursor'[c] = NoSeq
      /\ DOMAIN cursor' = Client
  <2>1. CASE InputFailsOn
    BY <2>1 DEF InputFailsOn, InputFails, clientVars, entryVars, seqVars,
       ChannelInv, Channel, Domains
  <2>2. ASSUME NEW s \in Socket, NextRunOn(s)
        PROVE  /\ UNCHANGED <<link, after, listed, view, raced, nextSeq, attempt,
                              sinks, open, replay, cursor>>
    BY <2>2 DEF NextRunOn, NextRunTakesThread, clientVars, channelVars,
       entryVars, seqVars
  <2>3. ASSUME NEW s \in Socket, AcknowledgeEnd(s)
        PROVE  /\ UNCHANGED <<link, after, listed, view, raced, nextSeq, attempt,
                              sinks, open, replay>>
               /\ \A c \in Client : cursor'[c] = cursor[c] \/ cursor'[c] = NoSeq
               /\ DOMAIN cursor' = Client
    <3>1. PICK n \in DOMAIN view[OwnerOf[s]] :
            /\ Acknowledge(n)
            /\ cursor' = [cursor EXCEPT ![OwnerOf[s]] = IF @ <= n THEN NoSeq ELSE @]
      BY <2>3 DEF AcknowledgeEnd
    <3>2. DOMAIN cursor = Client
      BY DEF ChannelInv, Channel, Domains
    <3>3. UNCHANGED <<link, after, listed, view, raced>>
      BY <2>3 DEF AcknowledgeEnd, channelVars
    <3>4. UNCHANGED <<nextSeq, attempt, sinks, open, replay>>
      BY <3>1 DEF Acknowledge, entryVars, seqVars
    <3> QED BY <3>1, <3>2, <3>3, <3>4
  <2> QED BY <2>1, <2>2, <2>3 DEF ChannelInv, Channel, Domains
<1>2. Domains' /\ link' \subseteq open'
  BY <1>1 DEF ChannelInv, Channel, Domains
<1> QED
  BY <1>1, <1>2, ChannelStill

LEMMA ConnectStep ==
  ASSUME ChannelInv, Inv', Forward, NEW s \in Socket, Connect(s)
  PROVE  Channel'
<1>1. /\ s \notin sinks /\ open' = open \cup {s} /\ link' = link \cup {s}
      /\ UNCHANGED <<nextSeq, attempt, sinks, replay>>
      /\ UNCHANGED <<listed, cursor, view, raced>>
      /\ after' = [after EXCEPT ![s] = cursor[OwnerOf[s]]]
  BY DEF Connect, OpenSocket, entryVars, seqVars
<1>2. Domains /\ link \subseteq open
  BY DEF ChannelInv, Channel
<1>3. Domains' /\ link' \subseteq open'
  BY <1>1, <1>2 DEF Domains
<1>4. \A z \in Socket : after'[z] = after[z] \/ after'[z] = cursor[OwnerOf[z]]
  BY <1>1, <1>2 DEF Domains
<1>5. \A z \in sinks' \cap link' : z \in sinks \cap link
  BY <1>1
<1> QED
  BY <1>1, <1>3, <1>4, <1>5, ChannelStill

LEMMA ListCandidatesStep ==
  ASSUME ChannelInv, Inv', Forward, NEW s \in Socket, ListCandidates(s)
  PROVE  Channel'
<1>1. /\ UNCHANGED vars /\ UNCHANGED <<link, after, cursor, view, raced>>
      /\ listed' = [listed EXCEPT ![s] =
           [status |-> IF threadTaken \/ checkpoint.acknowledged THEN "none"
                       ELSE checkpoint.status,
            cursor |-> checkpoint.cursor, count |-> eventCount]]
  BY DEF ListCandidates, clientVars
<1>2. UNCHANGED <<nextSeq, attempt, sinks, open, replay, eventCount, checkpoint>>
  BY <1>1 DEF vars, entryVars, seqVars, durableVars
<1>3. Domains /\ Counts /\ Counts' /\ Listed /\ Seen /\ Attached /\ Copied
      /\ HolesOnlyFromBindRace /\ TypeOK /\ link \subseteq open
  BY CountsNow, CountsThen DEF ChannelInv, Channel, Inv
<1>4. Domains'
  BY <1>1, <1>3 DEF Domains
<1>5. Listed'
  <2> SUFFICES ASSUME NEW z \in Socket
               PROVE  /\ listed'[z].count \in 0..eventCount
                      /\ listed'[z].status = "terminal" =>
                           /\ checkpoint.status = "terminal"
                           /\ checkpoint.cursor = listed'[z].cursor
    BY <1>2 DEF Listed
  <2>1. CASE z # s
    BY <1>1, <1>3, <2>1 DEF Domains, Listed
  <2>2. CASE z = s
    <3>1. /\ listed'[z].count = eventCount /\ listed'[z].cursor = checkpoint.cursor
          /\ listed'[z].status = "terminal" => checkpoint.status = "terminal"
      BY <1>1, <1>3, <2>2 DEF Domains
    <3> QED BY <1>3, <3>1 DEF Counts
  <2> QED BY <2>1, <2>2
<1>6. Grown
  BY <1>1 DEF Grown
<1>7. Seen' /\ Attached' /\ Copied'
  BY <1>1, <1>2, <1>3, <1>6, SeenLasts, AttachedLasts, CopiedLasts
<1>8. HolesOnlyFromBindRace'
  BY <1>1, <1>3 DEF HolesOnlyFromBindRace, Gapless
<1> QED
  BY <1>1, <1>2, <1>3, <1>4, <1>5, <1>7, <1>8 DEF Channel

-----------------------------------------------------------------------------
\* A new attempt: nothing collected before is of it.
LEMMA NothingCollectedYet ==
  ASSUME Inv, Inv', Kept, NEW count, CreateEntry(count)
  PROVE  Copied'
<1>1. attempt' = attempt + 1 /\ attempt \in Nat
  BY CountsNow DEF CreateEntry, Counts
<1>2. ASSUME NEW z \in Socket
      PROVE  replay'[z].of = replay[z].of
  <2> DEFINE r == replay[z]
  <2>1. r = [kind |-> r.kind, of |-> r.of, next |-> r.next,
             events |-> r.events, terminal |-> r.terminal]
    BY DEF Kept, Collections, Collection
  <2>2. CASE r.kind # "none" /\ r.of = attempt
    <3>1. replay'[z] = [r EXCEPT !.kind = "copy", !.terminal = terminal,
                          !.events = IF r.kind = "alias" THEN history ELSE @]
      BY <2>2 DEF CreateEntry
    <3> QED BY <2>1, <3>1
  <2>3. CASE ~(r.kind # "none" /\ r.of = attempt)
    BY <2>3 DEF CreateEntry
  <2> QED BY <2>2, <2>3
<1>3. \A z \in Socket : replay[z].of <= attempt /\ replay[z].of \in Nat
  BY DEF Kept, Collections, Collection
<1>4. \A z \in Socket : replay'[z].of # attempt'
  BY <1>1, <1>2, <1>3
<1> QED
  BY <1>4 DEF Copied

LEMMA StartRunOnStep ==
  ASSUME ChannelInv, Inv', Forward, NEW s \in Socket, StartRunOn(s)
  PROVE  Channel'
<1>1. /\ CreateEntry(0) /\ nextSeq' = 0
      /\ UNCHANGED <<open, link, after, listed, cursor, view, raced>>
  BY DEF StartRunOn, StartRun, CreateEntry, channelVars, clientVars
<1>2. Domains /\ Counts /\ Counts' /\ Listed /\ Seen /\ HolesOnlyFromBindRace
      /\ Kept /\ Inv /\ link \subseteq open
  BY CountsNow, CountsThen DEF ChannelInv, Channel
<1>3. Listed' /\ Seen' /\ Copied'
  BY <1>1, <1>2, ListedLasts, SeenLasts, NothingCollectedYet
<1>4. Attached'
  BY <1>1 DEF Attached
<1>5. HolesOnlyFromBindRace' /\ Domains'
  BY <1>1, <1>2 DEF HolesOnlyFromBindRace, Gapless, Domains
<1> QED
  BY <1>1, <1>2, <1>3, <1>4, <1>5 DEF Channel

LEMMA StartupStep ==
  ASSUME ChannelInv, Inv', Forward, RecoverAtStartup
  PROVE  Channel'
<1>1. /\ UNCHANGED <<link, after, listed, cursor, view, raced>>
      /\ Recover({}) \/ ReconcileAnswered \/ UNCHANGED vars
  BY DEF RecoverAtStartup, clientVars
<1>2. Domains /\ Counts /\ Counts' /\ Listed /\ Seen /\ HolesOnlyFromBindRace
      /\ Kept /\ Inv /\ link \subseteq open
  BY CountsNow, CountsThen DEF ChannelInv, Channel
<1>3. Domains'
  BY <1>1, <1>2 DEF Domains
<1>4. CASE Recover({})
  <2>1. CreateEntry(eventCount) /\ sinks' = {} /\ open' = open
    BY <1>4 DEF Recover
  <2>2. Listed' /\ Seen' /\ Copied'
    BY <1>1, <1>2, <2>1, ListedLasts, SeenLasts, NothingCollectedYet
  <2>3. Attached'
    BY <2>1 DEF Attached
  <2>4. HolesOnlyFromBindRace'
    BY <1>1, <1>2 DEF HolesOnlyFromBindRace, Gapless
  <2> QED BY <1>1, <1>2, <1>3, <2>1, <2>2, <2>3, <2>4 DEF Channel
<1>5. CASE ReconcileAnswered \/ UNCHANGED vars
  <2>1. UNCHANGED <<nextSeq, attempt, sinks, open, replay>>
    BY <1>5 DEF ReconcileAnswered, Reconcile, vars, entryVars, seqVars
  <2> QED BY <1>1, <1>2, <1>3, <2>1, ChannelStill
<1> QED
  BY <1>1, <1>4, <1>5

LEMMA CrashAllStep ==
  ASSUME Inv', CrashAll
  PROVE  Channel'
<1>1. /\ sinks' = {} /\ open' = {} /\ link' = {}
      /\ replay' = [s \in Socket |-> Nothing]
      /\ after' = [s \in Socket |-> NoSeq]
      /\ listed' = [s \in Socket |-> Unlisted]
      /\ cursor' = [c \in Client |-> NoSeq] /\ view' = [c \in Client |-> <<>>]
      /\ raced' = [c \in Client |-> FALSE]
  BY DEF CrashAll, Crash
<1>2. DOMAIN <<>> = {}
  OBVIOUS
<1>3. Domains'
  BY <1>1 DEF Domains
<1>4. Listed'
  <2>1. eventCount' \in Nat
    BY CountsThen DEF Counts
  <2>2. 0 \in 0..eventCount'
    BY <2>1
  <2> QED BY <1>1, <2>2 DEF Listed, Unlisted
<1>5. Seen' /\ Attached' /\ HolesOnlyFromBindRace'
  BY <1>1, <1>2 DEF Seen, Attached, HolesOnlyFromBindRace, Gapless, SoundNow, Sound
<1>6. Copied'
  BY <1>1 DEF Copied, Nothing
<1> QED
  BY <1>1, <1>3, <1>4, <1>5, <1>6 DEF Channel

\* The recovered run starts with what was listed, and so does its client.
LEMMA RecoverListedStep ==
  ASSUME ChannelInv, Inv', Forward, NEW s \in Socket, RecoverListed(s)
  PROVE  Channel'
<1> DEFINE count == listed[s].count
           c == OwnerOf[s]
<1>1. /\ CreateEntry(count) /\ nextSeq' = count /\ sinks' = {s}
      /\ Show({s}, SelectReplay(Journaled(count), after[s]))
      /\ UNCHANGED <<open, raced, link, after>>
      /\ listed' = [listed EXCEPT ![s] = Unlisted]
  BY DEF RecoverListed, Recovered, CreateEntry
<1>2. Domains /\ Counts /\ Counts' /\ Listed /\ Seen /\ HolesOnlyFromBindRace
      /\ Kept /\ Inv /\ link \subseteq open
  BY CountsNow, CountsThen DEF ChannelInv, Channel
<1>3. /\ c \in Client /\ eventCount \in Nat /\ count \in 0..eventCount
      /\ after[s] \in {NoSeq} \cup DOMAIN view[c]
      /\ DOMAIN view[c] \in SUBSET Nat
  <2>1. c \in Client
    BY RunChannelAssumption
  <2> QED BY <1>2, <2>1 DEF Counts, Listed, Seen, SoundNow, Sound
<1>4. count \in Nat /\ count <= eventCount
  BY <1>3
<1>5. PICK j : j = Journaled(count)
  OBVIOUS
<1>6. DOMAIN j = 0..(count - 1) /\ \A n \in 0..(count - 1) : j[n] = journal[n]
  BY <1>5 DEF Journaled
<1>7. after[s] \in Int /\ Topped(DOMAIN j) /\ DOMAIN j \in SUBSET Int
  <2>1. after[s] \in Int
    BY <1>3 DEF NoSeq
  <2>2. count - 1 \in Int
    BY <1>4
  <2> QED BY <1>6, <2>1, <2>2, IntervalTopped
<1>8. PICK f : f = SelectReplay(j, after[s])
  OBVIOUS
<1>9. Topped(DOMAIN f) /\ \A n \in DOMAIN f : n \in DOMAIN j /\ f[n] = j[n]
  BY <1>7, <1>8, Selected
<1>10. Show({s}, f)
  BY <1>1, <1>5, <1>8
<1>11. SoundThen(f)
  <2>1. \A n \in 0..(count - 1) : n \in 0..(eventCount - 1)
    BY <1>3, <1>4
  <2>2. \A n \in DOMAIN f : n \in 0..(eventCount - 1) /\ f[n] = journal[n]
    BY <1>6, <1>9, <2>1
  <2>3. SoundNow(f)
    BY <1>2, <2>2, JournalIsSound DEF Kept
  <2> QED BY <1>2, <2>3, SoundLasts
<1>12. Seen' /\ Grown
  BY <1>1, <1>2, <1>9, <1>10, <1>11, ShowSeen, ShowGrows
<1>13. ASSUME ~raced[c]
       PROVE  \A m \in 0..(count - 1) : m \in DOMAIN view[c] \/ m \in DOMAIN f
  <2>1. Gapless(c)
    BY <1>2, <1>3, <1>13 DEF HolesOnlyFromBindRace
  <2> HIDE DEF count, c
  <2> QED BY <1>3, <1>4, <1>6, <1>8, <2>1, SelectedFills
<1>14. ~raced[c] => Fills(c, f)
  <2>1. ASSUME NEW n \in DOMAIN f, NEW m \in 0..n
        PROVE  m \in 0..(count - 1)
    <3>1. n \in 0..(count - 1)
      BY <1>6, <1>9
    <3> QED BY <1>4, <3>1
  <2> QED BY <1>13, <2>1 DEF Fills
<1>15. HolesOnlyFromBindRace'
  BY <1>1, <1>2, <1>9, <1>10, <1>14, ShowFills
<1>16. Attached'
  <2> SUFFICES ASSUME s \in link, ~raced[c], NEW n \in 0..(count - 1)
               PROVE  n \in DOMAIN view'[c]
    BY <1>1 DEF Attached
  <2>1. n \in DOMAIN view[c] \/ n \in DOMAIN f
    BY <1>13
  <2>2. \/ view'[c] = view[c] /\ DOMAIN f = {}
        \/ DOMAIN view'[c] = DOMAIN view[c] \cup DOMAIN f
    BY <1>2, <1>3, <1>9, <1>10, ShowEffect
  <2> QED BY <2>1, <2>2
<1>17. Copied'
  BY <1>1, <1>2, NothingCollectedYet
<1>18. Listed' /\ Domains'
  <2>1. DOMAIN view' = Client /\ DOMAIN cursor' = Client
    BY <1>2, <1>9, <1>10, ShowEffect
  <2>2. \A z \in Socket : listed'[z] = listed[z] \/ listed'[z] = Unlisted
    BY <1>1, <1>2 DEF Domains
  <2> QED BY <1>1, <1>2, <2>1, <2>2, ListedLasts DEF Domains
<1> QED
  BY <1>1, <1>2, <1>12, <1>15, <1>16, <1>17, <1>18 DEF Channel

-----------------------------------------------------------------------------
\* What a bind collects fills its client up to the next seq.
LEMMA CollectedFills ==
  ASSUME ChannelInv, live, NEW s \in Socket,
         NEW r, r = Collected(after[s]), r.kind = "copy"
  PROVE  /\ r.next = nextSeq
         /\ \A n \in DOMAIN r.events : n < nextSeq
         /\ \/ raced[OwnerOf[s]]
            \/ \A n \in 0..(nextSeq - 1) :
                 n \in DOMAIN view[OwnerOf[s]] \/ n \in DOMAIN r.events
<1> DEFINE from == after[s]
           c == OwnerOf[s]
<1>1. c \in Client
  BY RunChannelAssumption
<1>2. /\ from \in {NoSeq} \cup DOMAIN view[c] /\ DOMAIN view[c] \in SUBSET Nat
      /\ ~raced[c] => Gapless(c)
  BY <1>1 DEF ChannelInv, Channel, Seen, SoundNow, Sound, HolesOnlyFromBindRace
<1>3. /\ nextSeq \in Nat /\ firstResidentSeq \in Nat /\ from \in Int
      /\ attempt > 0
      /\ DOMAIN history = firstResidentSeq..(nextSeq - 1)
  BY <1>2, LiveRunEventsAssumption
  DEF ChannelInv, Inv, Started, Window, TypeOK, Seqs, NoSeq
<1>4. ASSUME ~raced[c], NEW n \in 0..(nextSeq - 1), n <= from
      PROVE  n \in DOMAIN view[c]
  <2>1. from # NoSeq
    BY <1>3, <1>4 DEF NoSeq
  <2>2. from \in DOMAIN view[c] /\ n \in 0..from
    BY <1>2, <1>3, <1>4, <2>1
  <2> QED BY <1>2, <1>4, <2>2 DEF Gapless
<1>5. CASE from + 1 < firstResidentSeq
  <2>1. PICK e : e = [n \in {m \in 0..(nextSeq - 1) : m > from} |->
                        IF n < firstResidentSeq THEN journal[n] ELSE history[n]]
    OBVIOUS
  <2>2. Collected(from) = Replay("copy", e)
    BY <1>5, <2>1 DEF Collected
  <2>3. r.next = nextSeq /\ r.events = e
    BY <2>2 DEF Replay
  <2>4. DOMAIN e = {m \in 0..(nextSeq - 1) : m > from}
    BY <2>1
  <2>5. \A n \in 0..(nextSeq - 1) : n < nextSeq /\ (n > from \/ n <= from)
    BY <1>3
  <2> QED BY <1>4, <2>3, <2>4, <2>5
<1>6. CASE ~(from + 1 < firstResidentSeq)
  <2>1. SelectReplay(history, from) # history
    <3>1. CASE SelectReplay(history, from) = history
      <4>1. Collected(from) = Replay("alias", <<>>)
        BY <1>6, <3>1 DEF Collected
      <4>2. r.kind = "alias"
        BY <4>1 DEF Replay
      <4> QED BY <4>2
    <3> QED BY <3>1
  <2>2. Collected(from) = Replay("copy", SelectReplay(history, from))
    BY <1>6, <2>1 DEF Collected
  <2>3. r.next = nextSeq /\ r.events = SelectReplay(history, from)
    BY <2>2 DEF Replay
  <2>4. Topped(DOMAIN history) /\ DOMAIN history \in SUBSET Int
    BY <1>3, HistoryTopped DEF ChannelInv
  <2>5. /\ \A n \in DOMAIN r.events : n \in DOMAIN history
        /\ \A n \in DOMAIN history : n > from => n \in DOMAIN r.events
    <3>1. from \in Int
      BY <1>3
    <3> HIDE DEF from
    <3> QED BY <2>3, <2>4, <3>1, Selected
  <2>6. \A n \in DOMAIN history : n < nextSeq
    BY <1>3
  <2>7. ASSUME ~raced[c], NEW n \in 0..(nextSeq - 1)
        PROVE  n \in DOMAIN view[c] \/ n \in DOMAIN r.events
    <3>1. CASE n <= from
      BY <1>4, <2>7, <3>1
    <3>2. CASE ~(n <= from)
      <4>1. n > from /\ n \in firstResidentSeq..(nextSeq - 1)
        BY <1>3, <1>6, <2>7, <3>2
      <4> QED BY <1>3, <2>5, <4>1
    <3> QED BY <3>1, <3>2
  <2> QED BY <2>3, <2>5, <2>6, <2>7
<1> QED
  BY <1>5, <1>6

LEMMA BeginBindStep ==
  ASSUME ChannelInv, Inv', Forward, NEW s \in Socket, BeginBind(s)
  PROVE  Channel'
<1>1. UNCHANGED <<nextSeq, attempt, sinks, open, link, after, listed, cursor,
                  view, raced>>
  BY DEF BeginBind, CollectReplay, entryVars, seqVars, clientVars
<1>2. PICK r : /\ replay' = [replay EXCEPT ![s] = r]
               /\ r = IF live THEN Collected(after[s]) ELSE Replay("gone", <<>>)
  BY DEF BeginBind, CollectReplay
<1>3. DOMAIN replay = Socket /\ Domains /\ Counts /\ Counts' /\ TypeOK /\ Listed
      /\ Seen /\ Attached /\ Copied /\ HolesOnlyFromBindRace /\ link \subseteq open
  BY CountsNow, CountsThen DEF ChannelInv, Channel, Inv, TypeOK
<1>4. Listed' /\ Seen' /\ Attached' /\ Domains' /\ HolesOnlyFromBindRace'
  <2>1. Grown
    BY <1>1 DEF Grown
  <2>2. Listed' /\ Seen' /\ Attached'
    BY <1>1, <1>3, <2>1, ListedLasts, SeenLasts, AttachedLasts
  <2> QED BY <1>1, <1>3, <2>2 DEF Domains, HolesOnlyFromBindRace, Gapless
<1>5. Copied'
  <2> SUFFICES ASSUME NEW z \in Socket, replay'[z].kind = "copy",
                      replay'[z].of = attempt
               PROVE  /\ \A n \in DOMAIN replay'[z].events : n < replay'[z].next
                      /\ \/ raced[OwnerOf[z]]
                         \/ \A n \in 0..(replay'[z].next - 1) :
                              \/ n \in DOMAIN view[OwnerOf[z]]
                              \/ n \in DOMAIN replay'[z].events
    BY <1>1 DEF Copied
  <2>1. CASE z # s
    BY <1>2, <1>3, <2>1 DEF Copied
  <2>2. CASE z = s
    <3>1. replay'[z] = r
      BY <1>2, <1>3, <2>2
    <3>2. live
      <4>1. Replay("gone", <<>>).kind = "gone"
        BY DEF Replay
      <4> QED BY <1>2, <3>1, <4>1
    <3> QED BY <1>2, <2>2, <3>1, <3>2, CollectedFills
  <2> QED BY <2>1, <2>2
<1> QED
  BY <1>1, <1>3, <1>4, <1>5 DEF Channel

\* What is delivered, unless the run moved on, fills the client up as well.
LEMMA DeliveredFills ==
  ASSUME ChannelInv, NEW s \in Socket, replay[s].kind \in {"alias", "copy"},
         ~MovedOn(s), ~raced[OwnerOf[s]],
         NEW f, f = ReplayEvents(s)
  PROVE  /\ \A n \in DOMAIN f : n < nextSeq /\ n \in Nat
         /\ \A n \in 0..(nextSeq - 1) :
              n \in DOMAIN view[OwnerOf[s]] \/ n \in DOMAIN f
<1>1. replay[s].of = attempt /\ replay[s].next = nextSeq
      /\ ~(replay[s].kind = "alias" /\ firstResidentSeq > 0)
  BY DEF MovedOn
<1>2. CASE replay[s].kind = "alias"
  <2>1. /\ attempt > 0 /\ firstResidentSeq \in Nat /\ nextSeq \in Nat
        /\ DOMAIN history = firstResidentSeq..(nextSeq - 1)
    BY <1>2, LiveRunEventsAssumption
    DEF ChannelInv, Inv, Window, TypeOK, Seqs, Kept, Collections
  <2>2. firstResidentSeq = 0
    BY <1>1, <1>2, <2>1
  <2>3. f = history
    BY <1>2 DEF ReplayEvents
  <2>4. \A n \in 0..(nextSeq - 1) : n < nextSeq /\ n \in Nat
    BY <2>1
  <2> QED BY <2>1, <2>2, <2>3, <2>4
<1>3. CASE replay[s].kind = "copy"
  <2>1. f = replay[s].events
    BY <1>3 DEF ReplayEvents
  <2>2. \A n \in DOMAIN f : n \in Nat
    BY <2>1 DEF ChannelInv, Kept, Collections, SoundNow, Sound
  <2> QED BY <1>1, <1>3, <2>1, <2>2 DEF ChannelInv, Channel, Copied
<1> QED
  BY <1>2, <1>3

LEMMA FinishBindStep ==
  ASSUME ChannelInv, Inv', Forward, NEW s \in Socket, FinishBind(s)
  PROVE  Channel'
<1> DEFINE c == OwnerOf[s]
<1>1. /\ DeliverReplay(s) /\ Show({s} \cap open, ReplayEvents(s))
      /\ raced' = [raced EXCEPT ![c] =
                     @ \/ (replay[s].kind # "gone" /\ MovedOn(s))]
      /\ after' = [after EXCEPT ![s] = NoSeq]
      /\ UNCHANGED <<link, listed>>
  BY DEF FinishBind
<1>2. /\ replay[s].kind # "none" /\ replay' = [replay EXCEPT ![s] = Nothing]
      /\ sinks' = sinks \/ sinks' = sinks \cup {s}
      /\ UNCHANGED <<attempt, nextSeq, open>>
  BY <1>1 DEF DeliverReplay, seqVars
<1>3. DOMAIN replay = Socket /\ Domains /\ Counts /\ Counts' /\ TypeOK /\ Listed
      /\ Seen /\ Attached /\ Copied /\ HolesOnlyFromBindRace /\ link \subseteq open
      /\ Kept /\ Inv /\ c \in Client
  BY CountsNow, CountsThen, RunChannelAssumption
  DEF ChannelInv, Channel, Inv, TypeOK
<1>4. PICK f : f = ReplayEvents(s)
  OBVIOUS
<1>5. Show({s} \cap open, f)
  BY <1>1, <1>4
<1>6. replay[s].kind \in {"alias", "copy", "gone"}
  BY <1>2 DEF ChannelInv, Kept, Collections, Collection
<1>7. Topped(DOMAIN f) /\ SoundThen(f)
  <2>1. Topped(DOMAIN f) /\ SoundNow(f)
    <3>1. CASE replay[s].kind = "alias"
      <4>1. f = history /\ attempt > 0
        BY <1>3, <1>4, <3>1 DEF ReplayEvents, Kept, Collections
      <4> QED BY <1>3, <4>1, HistoryTopped DEF Kept
    <3>2. CASE replay[s].kind # "alias"
      BY <1>3, <1>4, <3>2 DEF ReplayEvents, Kept, Collections, Collection
    <3> QED BY <3>1, <3>2
  <2> QED BY <1>3, <2>1, SoundLasts
<1>8. \A d \in Client : raced[d] => raced'[d]
  BY <1>1, <1>3 DEF Domains
<1>9. \A z \in Socket : /\ after'[z] = after[z] \/ after'[z] = NoSeq
                        /\ replay'[z] = replay[z] \/ replay'[z].kind # "copy"
  BY <1>1, <1>2, <1>3 DEF Domains, Nothing
<1>10. Seen' /\ Grown
  BY <1>3, <1>5, <1>7, <1>8, <1>9, ShowSeen, ShowGrows
<1>11. ASSUME ~raced'[c], replay[s].kind # "gone"
       PROVE  /\ \A n \in DOMAIN f : n < nextSeq /\ n \in Nat
              /\ \A n \in 0..(nextSeq - 1) : n \in DOMAIN view[c] \/ n \in DOMAIN f
  <2>1. ~raced[c] /\ ~MovedOn(s)
    BY <1>1, <1>3, <1>11 DEF Domains
  <2> QED BY <1>4, <1>6, <1>11, <2>1, DeliveredFills
<1>12. raced'[c] \/ Fills(c, f)
  <2>1. CASE replay[s].kind = "gone"
    <3>1. DOMAIN f = {}
      BY <1>3, <1>4, <2>1 DEF ReplayEvents, Kept, Collections, Collection
    <3> QED BY <3>1 DEF Fills
  <2>2. ASSUME ~raced'[c], replay[s].kind # "gone"
        PROVE  Fills(c, f)
    <3>1. ASSUME NEW n \in DOMAIN f, NEW m \in 0..n
          PROVE  m \in 0..(nextSeq - 1)
      <4>1. n < nextSeq /\ n \in Nat /\ nextSeq \in Nat
        BY <1>3, <1>11, <2>2 DEF Counts
      <4> QED BY <4>1
    <3> QED BY <1>11, <2>2, <3>1 DEF Fills
  <2> QED BY <2>1, <2>2
<1>13. HolesOnlyFromBindRace'
  <2>1. {s} \cap open \in SUBSET Socket
    OBVIOUS
  <2>2. \A z \in ({s} \cap open) \cap link : raced'[OwnerOf[z]] \/ Fills(OwnerOf[z], f)
    BY <1>12
  <2> QED BY <1>3, <1>5, <1>7, <1>8, <2>1, <2>2, ShowFills
<1>14. Attached'
  <2>1. CASE sinks' = sinks
    BY <1>1, <1>2, <1>3, <1>10, <2>1, AttachedLasts
  <2>2. CASE sinks' # sinks
    <3> SUFFICES ASSUME NEW z \in sinks' \cap link, ~raced'[OwnerOf[z]],
                        NEW n \in 0..(nextSeq - 1)
                 PROVE  n \in DOMAIN view'[OwnerOf[z]]
      BY <1>1, <1>2 DEF Attached
    <3>1. replay[s].kind # "gone"
      BY <1>1, <2>2 DEF DeliverReplay
    <3>2. CASE z \in sinks
      <4>1. OwnerOf[z] \in Client
        BY <1>3, <3>2, RunChannelAssumption DEF TypeOK
      <4>2. ~raced[OwnerOf[z]]
        BY <1>8, <4>1
      <4>3. n \in DOMAIN view[OwnerOf[z]]
        BY <1>3, <3>2, <4>2 DEF Attached
      <4> QED BY <1>10, <4>1, <4>3 DEF Grown
    <3>3. CASE z = s
      <4>1. s \in ({s} \cap open) \cap link
        BY <1>3, <3>3
      <4>2. n \in DOMAIN view[c] \/ n \in DOMAIN f
        BY <1>11, <3>1, <3>3
      <4>3. \/ view'[c] = view[c] /\ DOMAIN f = {}
            \/ DOMAIN view'[c] = DOMAIN view[c] \cup DOMAIN f
        BY <1>3, <1>5, <1>7, <4>1, ShowEffect
      <4> QED BY <3>3, <4>2, <4>3
    <3> QED BY <1>2, <3>2, <3>3
  <2> QED BY <2>1, <2>2
<1>15. Copied' /\ Listed'
  BY <1>1, <1>2, <1>3, <1>9, <1>10, CopiedLasts, ListedLasts
<1>16. Domains'
  <2>1. DOMAIN view' = Client /\ DOMAIN cursor' = Client
    BY <1>3, <1>5, <1>7, ShowEffect
  <2>2. raced' \in [Client -> BOOLEAN]
    BY <1>1, <1>3 DEF Domains
  <2> QED BY <1>1, <1>3, <2>1, <2>2 DEF Domains
<1> QED
  BY <1>1, <1>2, <1>3, <1>10, <1>13, <1>14, <1>15, <1>16 DEF Channel

-----------------------------------------------------------------------------
LEMMA InitChannelInv == ChannelInit => ChannelInv
<1> SUFFICES ASSUME ChannelInit PROVE ChannelInv
  OBVIOUS
<1>1. Inv /\ Kept
  BY InitInv, InitKept DEF ChannelInit
<1>2. /\ sinks = {} /\ open = {} /\ link = {}
      /\ replay = [s \in Socket |-> Nothing]
      /\ after = [s \in Socket |-> NoSeq]
      /\ listed = [s \in Socket |-> Unlisted]
      /\ cursor = [c \in Client |-> NoSeq] /\ view = [c \in Client |-> <<>>]
      /\ raced = [c \in Client |-> FALSE]
      /\ eventCount = 0
  BY DEF ChannelInit, Init
<1>3. DOMAIN <<>> = {} /\ 0 \in 0..0
  OBVIOUS
<1>4. Domains /\ Listed /\ Attached
  BY <1>2, <1>3 DEF Domains, Listed, Unlisted, Attached
<1>5. Seen /\ HolesOnlyFromBindRace
  BY <1>2, <1>3 DEF Seen, HolesOnlyFromBindRace, Gapless, SoundNow, Sound
<1>6. Copied
  BY <1>2 DEF Copied, Nothing
<1> QED
  BY <1>1, <1>2, <1>4, <1>5, <1>6 DEF ChannelInv, Channel

LEMMA NextChannelInv ==
  ASSUME ChannelInv, [ChannelNext]_allVars
  PROVE  ChannelInv'
<1>1. CASE CrashAll
  <2>1. StoreNext
    BY <1>1 DEF CrashAll, StoreNext
  <2>2. Inv' /\ Kept'
    BY <2>1, StoreKeeps DEF ChannelInv
  <2> QED BY <1>1, <2>2, CrashAllStep DEF ChannelInv
<1>2. ASSUME StoreMoves, ChannelNext \/ UNCHANGED allVars, ~CrashAll
      PROVE  ChannelInv'
  <2>1. Inv' /\ Kept' /\ Forward
    BY <1>2, StoreKeeps, StoreForward DEF ChannelInv, StoreNext
  <2>2. CASE UNCHANGED allVars
    <3>1. /\ UNCHANGED <<link, after, listed, cursor, view, raced>>
          /\ UNCHANGED <<nextSeq, attempt, sinks, open, replay>>
      BY <2>2 DEF allVars, channelVars, clientVars, vars, entryVars, seqVars
    <3>2. Domains' /\ link' \subseteq open'
      BY <3>1 DEF ChannelInv, Channel, Domains
    <3>3. Channel'
      BY <2>1, <3>1, <3>2, ChannelStill
    <3> QED BY <2>1, <3>3 DEF ChannelInv
  <2>3. CASE Daemon \/ InputFailsOn \/ PublishLive \/ CommitDoneLive
             \/ RecoverAtStartup
    BY <2>1, <2>3, DaemonStep, OtherSteps, PublishLiveStep, CommitDoneLiveStep,
       StartupStep DEF ChannelInv
  <2>4. ASSUME NEW s \in Socket, Handshake(s)
        PROVE  Channel'
    <3>1. CASE ListCandidates(s) \/ ProjectTerminal(s) \/ ReconcileListed(s)
               \/ RecoverListed(s) \/ BeginBind(s) \/ FinishBind(s)
      BY <2>1, <3>1, ListCandidatesStep, ProjectTerminalStep,
         ReconcileListedStep, RecoverListedStep, BeginBindStep, FinishBindStep
    <3>2. CASE NothingListed(s) \/ NotLive(s) \/ NothingRecovered(s) \/ BindGone(s)
      BY <2>1, <3>2, StillSteps
    <3>3. CASE ProjectTerminalFails(s) \/ ReconcileConflicts(s) \/ BindFails(s)
      BY <2>1, <3>3, CloseSteps
    <3> QED BY <2>4, <3>1, <3>2, <3>3 DEF Handshake
  <2>5. ASSUME NEW s \in Socket,
               \/ Connect(s) \/ StartRunOn(s) \/ LinkLost(s) \/ SocketClosed(s)
               \/ Forget(s) \/ AcknowledgeEnd(s) \/ NextRunOn(s)
        PROVE  Channel'
    BY <2>1, <2>5, ConnectStep, StartRunOnStep, StillSteps, CloseSteps, OtherSteps
  <2>6. CASE ChannelNext
    BY <1>2, <2>1, <2>3, <2>4, <2>5, <2>6 DEF ChannelNext, ChannelInv
  <2> QED BY <1>2, <2>2, <2>6
<1>3. CASE UNCHANGED allVars
  <2>1. UNCHANGED vars
    BY <1>3 DEF allVars
  <2>2. StoreMoves
    BY <2>1 DEF StoreMoves
  <2> QED BY <1>1, <1>2, <1>3, <2>2
<1> QED
  BY <1>1, <1>2, <1>3, ChannelIsStore

\* The strengthened invariant of the run channel: the store's own parts under
\* the handshakes of every socket, and what every client holds.
THEOREM ChannelHolds == ChannelSpec => []ChannelInv
<1> QED
  BY InitChannelInv, NextChannelInv, PTL DEF ChannelSpec

\* Whatever is collected, delivered or recovered for a client leaves no hole in
\* what it has, unless the run moved on between the two halves of its own bind
\* (collectReplayEvents awaits the disk, attachment does not look again).
THEOREM ClientsHaveNoOtherHoles == ChannelSpec => []HolesOnlyFromBindRace
<1>1. ChannelInv => HolesOnlyFromBindRace
  BY DEF ChannelInv, Channel
<1> QED
  BY <1>1, ChannelHolds, PTL

\* The terminal event a client shows is the end the checkpoint names, and what
\* the client holds after it never reached the journal.
THEOREM EndsAreDurable == ChannelSpec => []NothingAfterTerminal
<1>1. ASSUME ChannelInv
      PROVE  NothingAfterTerminal
  <2> SUFFICES ASSUME NEW c \in Client, NEW n \in DOMAIN view[c],
                      view[c][n].terminal
               PROVE  /\ checkpoint.status = "terminal" /\ checkpoint.cursor = n
                      /\ \A m \in DOMAIN view[c] :
                           view[c][m].attempt = view[c][n].attempt =>
                             \/ m <= n \/ overtaken
                             \/ m \notin DOMAIN journal /\ persistedThroughSeq < n
    BY DEF NothingAfterTerminal
  <2>1. SoundNow(view[c])
    BY <1>1 DEF ChannelInv, Channel, Seen
  <2>2. /\ checkpoint.status = "terminal" /\ checkpoint.cursor = n
        /\ view[c][n].attempt = attempt /\ n \in Nat
    BY <2>1 DEF SoundNow, Sound
  <2>3. ASSUME NEW m \in DOMAIN view[c], view[c][m].attempt = attempt,
               ~(m <= n), ~overtaken
        PROVE  m \notin DOMAIN journal /\ persistedThroughSeq < n
    <3>1. /\ m \in Nat
          /\ \/ m < eventCount \/ attempt < attempt \/ m < nextSeq
             \/ m <= checkpoint.cursor
      BY <2>1, <2>3 DEF SoundNow, Sound
    <3>2. Counts /\ persistedThroughSeq \in Int
      BY <1>1, CountsNow, LiveRunEventsAssumption
      DEF ChannelInv, Inv, TypeOK, Seqs, NoSeq
    <3>3. n \in {eventCount, eventCount + 1} /\ persistedThroughSeq <= eventCount
      BY <1>1, <2>2, <2>3
      DEF ChannelInv, Inv, Ending, TerminalMeetsJournal, Watermark
    <3>4. DOMAIN journal = 0..(eventCount - 1)
      BY <1>1 DEF ChannelInv, Inv, TypeOK
    <3>5. n < m /\ eventCount <= n
      BY <2>2, <2>3, <3>1, <3>2, <3>3 DEF Counts
    <3>6. m \notin DOMAIN journal
      BY <2>2, <3>1, <3>2, <3>4, <3>5 DEF Counts
    <3>7. m < nextSeq
      BY <2>2, <3>1, <3>2, <3>5 DEF Counts
    <3>8. persistedThroughSeq # n
      <4> SUFFICES ASSUME persistedThroughSeq = n PROVE FALSE
        OBVIOUS
      <4>1. persistedThroughSeq = eventCount
        BY <2>2, <3>2, <3>3, <3>5 DEF Counts
      <4>2. nextSeq = n + 1
        BY <1>1, <4>1 DEF ChannelInv, Kept, Confirmed
      <4> QED BY <2>2, <3>1, <3>5, <3>7, <4>2
    <3>9. persistedThroughSeq < n
      BY <2>2, <3>2, <3>3, <3>5, <3>8 DEF Counts
    <3> QED BY <3>6, <3>9
  <2> QED BY <2>2, <2>3
<1> QED
  BY <1>1, ChannelHolds, PTL

-----------------------------------------------------------------------------
LEMMA StoreRefines ==
  ASSUME ChannelInv, ChannelInv', [ChannelNext]_allVars
  PROVE  [Durable!LogNext]_(Durable!logVars)
<1>1. Inv /\ Inv'
  BY DEF ChannelInv
<1>2. ASSUME UNCHANGED <<journal, eventCount, checkpoint>>
      PROVE  UNCHANGED Durable!logVars
  BY <1>2 DEF Durable!logVars
<1>3. CASE Run \/ Journaling \/ Orphans \/ Crash \/ UNCHANGED vars
  BY <1>1, <1>3, StepRefines DEF Next
<1>4. CASE NewEntryStep \/ SocketStep
  <2>1. UNCHANGED durableVars
    BY <1>4 DEF NewEntryStep, SocketStep, StartRun, RecoverAt, OpenSocket,
       CloseSocket, DeliverReplay, CollectReplay
  <2> QED BY <1>2, <2>1 DEF durableVars
<1>5. CASE SettledStep
  <2>1. ASSUME NEW count \in 0..eventCount, Reconcile(count)
        PROVE  Durable!LogNext
    <3>1. PICK c \in SettlementCursor(count) :
            checkpoint' = [checkpoint EXCEPT !.status = "terminal", !.cursor = c]
      BY <2>1 DEF Reconcile
    <3>2. c <= eventCount + 1
      <4>1. eventCount \in Nat /\ count \in Nat /\ count <= eventCount
        BY <1>1, CountsNow DEF Counts
      <4> QED BY <4>1 DEF SettlementCursor
    <3>3. /\ checkpoint'.status = "terminal"
          /\ checkpoint'.acknowledged = checkpoint.acknowledged
          /\ checkpoint'.cursor = c /\ checkpoint.status = "running"
          /\ UNCHANGED <<journal, eventCount>>
      BY <1>1, <2>1, <3>1 DEF Reconcile, Inv, TypeOK
    <3> QED BY <1>1, <3>2, <3>3, CloseRefines DEF Durable!LogNext
  <2>2. ASSUME NEW end \in Nat, Acknowledge(end)
        PROVE  Durable!LogNext
    <3>1. checkpoint.cursor # NoSeq
      BY <2>2 DEF Acknowledge, NoSeq
    <3>2. /\ checkpoint'.cursor = checkpoint.cursor
          /\ checkpoint'.acknowledged = TRUE
          /\ UNCHANGED <<journal, eventCount>>
      BY <1>1, <2>2 DEF Acknowledge, Inv, TypeOK
    <3> QED BY <3>1, <3>2
            DEF Durable!LogNext, Durable!Acknowledged, Durable!NoCursor, NoSeq
  <2>3. CASE NextRunTakesThread
    BY <1>2, <2>3 DEF NextRunTakesThread
  <2> QED BY <1>5, <2>1, <2>2, <2>3 DEF SettledStep
<1>6. StoreMoves \/ Crash
  <2>1. CASE UNCHANGED allVars
    BY <2>1 DEF allVars, StoreMoves
  <2> QED BY <2>1, ChannelIsStore DEF CrashAll
<1> QED
  BY <1>3, <1>4, <1>5, <1>6 DEF StoreMoves

\* The durable run log holds under the handshakes too, although they recover and
\* settle the run from a count of journaled events that they read some awaits
\* earlier (listRecoveryCandidates, then recoverDurableRunForSocket or
\* reconcilePersistedTerminalCheckpoint).
THEOREM LogSurvivesHandshakes == ChannelSpec => DurableLog
<1>1. ChannelInit => Durable!LogInit
  BY DEF ChannelInit, Init, Durable!LogInit, Durable!NoCursor, NoSeq
<1>2. ChannelInv /\ ChannelInv' /\ [ChannelNext]_allVars =>
        [Durable!LogNext]_(Durable!logVars)
  BY StoreRefines
<1> QED
  BY <1>1, <1>2, ChannelHolds, PTL DEF ChannelSpec, DurableLog, Durable!LogSpec

\* The type invariant of the store under the handshakes, and the terminal cursor
\* at the end of the journal.
THEOREM StoreUnderHandshakes ==
  ChannelSpec => [](TypeOK /\ TerminalMeetsJournal)
<1>1. ChannelInv => TypeOK /\ TerminalMeetsJournal
  BY DEF ChannelInv, Inv, Ending
<1> QED
  BY <1>1, ChannelHolds, PTL
=============================================================================
