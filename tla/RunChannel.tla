----------------------------- MODULE RunChannel ------------------------------
(***************************************************************************)
(* Clients that watch the run over web sockets: the authentication         *)
(* handshake of adapter/web/ws (list the recovery candidates, recover,     *)
(* bind, each with awaits of its own), delivery to the sockets, and the    *)
(* client's replay cursor (web-shell/src/lib/run-channel/client.ts).       *)
(* Composes LiveRunEvents with connections and clients.                    *)
(*                                                                         *)
(* A socket stands for one connection at a time and is used again when its *)
(* handler is done.  The client sees its connection drop (link) before the *)
(* daemon does (open), so an event the daemon counts as delivered may      *)
(* never arrive.                                                           *)
(***************************************************************************)
EXTENDS LiveRunEvents

CONSTANTS Client, OwnerOf

ASSUME RunChannelAssumption == OwnerOf \in [Socket -> Client]

VARIABLES
  booting,  \* startup recovery has not ended: the daemon does not listen yet
  phase,    \* how far the daemon's handling of the socket has come
  link,     \* sockets the client still reads from
  after,    \* the cursor the client sent with run.auth
  listed,   \* listRecoveryCandidates, as the handler of this socket read it
  cursor,   \* client: lastSeenEventSeqByRun for the run
  view,     \* client: the events it has, by seq
  raced     \* history: the run moved on while a bind of the client was open

channelVars == <<booting, phase, link, after, listed>>
clientVars == <<cursor, view, raced>>
allVars == <<vars, channelVars, clientVars>>

Up(c) == {s \in link : OwnerOf[s] = c}
Unlisted == [status |-> "none", cursor |-> NoSeq, count |-> 0]

ChannelInit ==
  /\ Init
  /\ booting = FALSE
  /\ phase = [s \in Socket |-> "none"] /\ link = {}
  /\ after = [s \in Socket |-> NoSeq]
  /\ listed = [s \in Socket |-> Unlisted]
  /\ cursor = [c \in Client |-> NoSeq]
  /\ view = [c \in Client |-> <<>>]
  /\ raced = [c \in Client |-> FALSE]

\* The client keeps each event under its seq and moves its cursor to the seq of
\* whatever came last, without comparing it to what it has.
LastOf(f) == CHOOSE n \in DOMAIN f : \A m \in DOMAIN f : m <= n
Show(to, f) ==
  LET got == IF DOMAIN f = {} THEN {} ELSE to \cap link
      seen == {OwnerOf[s] : s \in got}
  IN
  /\ view' = [c \in Client |->
       IF c \in seen
       THEN [n \in DOMAIN view[c] \cup DOMAIN f |->
               IF n \in DOMAIN f THEN f[n] ELSE view[c][n]]
       ELSE view[c]]
  /\ cursor' = [c \in Client |-> IF c \in seen THEN LastOf(f) ELSE cursor[c]]

-----------------------------------------------------------------------------
\* run.auth, with the cursor of the client: one connection at a time per
\* client, and none before the daemon listens.
Connect(s) ==
  /\ phase[s] = "none" /\ ~booting /\ Up(OwnerOf[s]) = {}
  /\ OpenSocket(s)
  /\ phase' = [phase EXCEPT ![s] = "auth"]
  /\ link' = link \cup {s}
  /\ after' = [after EXCEPT ![s] = cursor[OwnerOf[s]]]
  /\ UNCHANGED <<booting, listed, cursor, view, raced>>

\* listRecoveryCandidates reads the checkpoint and hydrates its events.
ListCandidates(s) ==
  /\ phase[s] = "auth"
  /\ phase' = [phase EXCEPT ![s] = "listed"]
  /\ listed' = [listed EXCEPT ![s] =
       [status |-> IF threadTaken \/ checkpoint.acknowledged THEN "none"
                                                   ELSE checkpoint.status,
        cursor |-> checkpoint.cursor, count |-> eventCount]]
  /\ UNCHANGED <<booting, vars, link, after, clientVars>>

\* The socket's handler is over with recovery, or aborts the handshake.
Recovered(s) ==
  /\ phase' = [phase EXCEPT ![s] = "recovered"]
  /\ listed' = [listed EXCEPT ![s] = Unlisted]
  /\ UNCHANGED <<booting, link, after>>

Abort(s) ==
  /\ CloseSocket(s)
  /\ phase' = [phase EXCEPT ![s] = "done"] /\ link' = link \ {s}
  /\ listed' = [listed EXCEPT ![s] = Unlisted]
  /\ UNCHANGED <<booting, after, clientVars>>

\* projectDurableTerminalCheckpoint: the listed events after the cursor (with a
\* snapshot of the thread when the cursor left a place for it), then the
\* terminal event in any case.  It refuses a journal that goes past the cursor.
Projectable(s, end) == end \in {listed[s].count, listed[s].count + 1}

TerminalProjection(s, end) ==
  LET stored == [n \in 0..(end - 1) |->
                   IF n < listed[s].count THEN journal[n]
                   ELSE [attempt |-> attempt, terminal |-> FALSE]]
  IN Put(SelectReplay(stored, after[s]), end,
         [attempt |-> attempt, terminal |-> TRUE])

Project(s, end) ==
  IF s \in open
  THEN Show({s}, TerminalProjection(s, end)) /\ UNCHANGED raced
  ELSE UNCHANGED clientVars

ProjectTerminal(s) ==
  /\ phase[s] = "listed" /\ listed[s].status = "terminal" /\ ~live
  /\ Projectable(s, listed[s].cursor)
  /\ Project(s, listed[s].cursor)
  /\ Recovered(s)
  /\ UNCHANGED vars

ProjectTerminalFails(s) ==
  /\ phase[s] = "listed" /\ listed[s].status = "terminal" /\ ~live
  /\ s \in open /\ ~Projectable(s, listed[s].cursor)
  /\ Abort(s)

NothingListed(s) ==
  /\ phase[s] = "listed" /\ (listed[s].status = "none" \/ live)
  /\ Recovered(s)
  /\ UNCHANGED <<vars, clientVars>>

\* hasRun is looked up before the transcript is read.
NotLive(s) ==
  /\ phase[s] = "listed" /\ listed[s].status = "running" /\ ~live
  /\ phase' = [phase EXCEPT ![s] = "checked"]
  /\ UNCHANGED <<booting, vars, link, after, listed, clientVars>>

\* The transcript has the answer: settle the listed checkpoint and project it.
ReconcileListed(s) ==
  /\ phase[s] = "checked"
  /\ Reconcile(listed[s].count)
  /\ Project(s, checkpoint'.cursor)
  /\ Recovered(s)

\* The checkpoint was settled otherwise in the meantime.
ReconcileConflicts(s) ==
  /\ phase[s] = "checked" /\ answered /\ s \in open
  /\ checkpoint.status = "terminal" \/ threadTaken
  /\ Abort(s)

\* Still in startDurableRunRecovery for this socket.
Recovering(s) == phase[s] = "recovered" /\ executor = "preparing" /\ s \in sinks

\* recoverDurableRunForSocket: the run slot and the model round are claimed on
\* the current checkpoint, the history comes from the listed one.
RecoverListed(s) ==
  /\ phase[s] = "checked" /\ s \in open /\ Recoverable
  /\ CreateEntry(listed[s].count)
  /\ sinks' = {s} /\ executor' = "preparing"
  /\ Show({s}, SelectReplay(Journaled(listed[s].count), after[s]))
  /\ Recovered(s)
  /\ UNCHANGED <<durableVars, open, raced>>

\* The socket is gone, the run is somebody's, or a claim fails.
NothingRecovered(s) ==
  /\ phase[s] = "checked"
  /\ Recovered(s)
  /\ UNCHANGED <<vars, clientVars>>

\* beginDurableExecution throws: so does the recovery, and the handshake.
InputFailsOn ==
  /\ InputFails
  /\ phase' = [s \in Socket |-> IF Recovering(s) THEN "failing" ELSE phase[s]]
  /\ UNCHANGED <<booting, link, after, listed, clientVars>>

\* bindSocketRuns, first half; a run that cannot be restored aborts it.
BeginBind(s) ==
  /\ phase[s] = "recovered" /\ ~Recovering(s)
  /\ phase' = [phase EXCEPT ![s] = "binding"]
  /\ CollectReplay(s, after[s])
  /\ UNCHANGED <<booting, link, after, listed, clientVars>>

BindFails(s) ==
  /\ s \in open
  /\ \/ phase[s] = "failing" /\ executor # "closing"
     \/ phase[s] = "recovered" /\ live /\ ~Restorable(after[s])
  /\ Abort(s)

BindGone(s) ==
  /\ phase[s] \in {"recovered", "failing"} /\ s \notin open
  /\ phase' = [phase EXCEPT ![s] = "done"]
  /\ UNCHANGED <<booting, vars, link, after, listed, clientVars>>

\* The run has moved on since this replay was collected.
MovedOn(s) ==
  \/ replay[s].of # attempt \/ replay[s].next # nextSeq
  \/ replay[s].kind = "alias" /\ firstResidentSeq > 0

\* Second half: deliver what was collected, then run.auth.ok.
FinishBind(s) ==
  /\ phase[s] = "binding"
  /\ DeliverReplay(s)
  /\ phase' = [phase EXCEPT ![s] = IF s \in open THEN "ready" ELSE "done"]
  /\ Show({s} \cap open, ReplayEvents(s))
  /\ raced' = [raced EXCEPT ![OwnerOf[s]] =
                 @ \/ (replay[s].kind # "gone" /\ MovedOn(s))]
  /\ after' = [after EXCEPT ![s] = NoSeq]
  /\ UNCHANGED <<booting, link, listed>>

-----------------------------------------------------------------------------
\* A ready client starts the run; a socket drops; the daemon notices.
StartRunOn(s) ==
  /\ phase[s] = "ready" /\ s \in link
  /\ StartRun(s)
  /\ UNCHANGED <<channelVars, clientVars>>

LinkLost(s) ==
  /\ s \in link
  /\ link' = link \ {s}
  /\ UNCHANGED <<booting, vars, phase, after, listed, clientVars>>

SocketClosed(s) ==
  /\ CloseSocket(s)
  /\ link' = link \ {s}
  /\ phase' = [phase EXCEPT ![s] = IF @ = "ready" THEN "done" ELSE @]
  /\ UNCHANGED <<booting, after, listed, clientVars>>

Forget(s) ==
  /\ phase[s] = "done"
  /\ phase' = [phase EXCEPT ![s] = "none"]
  /\ after' = [after EXCEPT ![s] = NoSeq]
  /\ UNCHANGED <<booting, vars, link, listed, clientVars>>

\* Live delivery reaches every attached socket that still works.
PublishLive ==
  /\ Publish
  /\ Show(sinks \cap open, [n \in {nextSeq} |-> history'[n]])
  /\ UNCHANGED <<channelVars, raced>>

CommitDoneLive ==
  /\ CommitDone
  /\ Show(sinks \cap open, [n \in {commitSeq} |-> history'[n]])
  /\ UNCHANGED <<channelVars, raced>>

\* run.event.ack for the terminal event the client has; the cursor is forgotten
\* when the reply arrives.
AcknowledgeEnd(s) ==
  LET c == OwnerOf[s] IN
  /\ phase[s] = "ready" /\ s \in link \cap open
  /\ \E n \in DOMAIN view[c] :
       /\ view[c][n].terminal
       /\ Acknowledge(n)
       /\ cursor' = [cursor EXCEPT ![c] = IF @ <= n THEN NoSeq ELSE @]
  /\ UNCHANGED <<channelVars, view, raced>>

NextRunOn(s) ==
  /\ phase[s] = "ready" /\ s \in link \cap open
  /\ NextRunTakesThread
  /\ UNCHANGED <<channelVars, clientVars>>

\* A crash, and the startup that follows: durable runs are reconciled or
\* recovered once, without an owner, before the daemon listens.  The restarted
\* daemon has another computer session, so its clients are reloaded.
CrashAll ==
  /\ Crash
  /\ booting' = TRUE
  /\ phase' = [s \in Socket |-> "none"] /\ link' = {}
  /\ after' = [s \in Socket |-> NoSeq]
  /\ listed' = [s \in Socket |-> Unlisted]
  /\ cursor' = [c \in Client |-> NoSeq] /\ view' = [c \in Client |-> <<>>]
  /\ raced' = [c \in Client |-> FALSE]

RecoverAtStartup ==
  /\ booting /\ booting' = FALSE
  /\ Recover({}) \/ ReconcileAnswered \/ UNCHANGED vars
  /\ UNCHANGED <<phase, link, after, listed, clientVars>>

Daemon ==
  /\ \/ BeginDurable \/ Answer \/ RunThrows \/ SettleTerminal
     \/ SettleFailure \/ CommitPersist \/ CommitFails
     \/ SettleFailureGivesUp \/ FinishRun \/ Journaling \/ Orphans
  /\ UNCHANGED <<channelVars, clientVars>>

Handshake(s) ==
  \/ ListCandidates(s) \/ ProjectTerminal(s) \/ ProjectTerminalFails(s)
  \/ NothingListed(s) \/ NotLive(s) \/ ReconcileListed(s)
  \/ ReconcileConflicts(s) \/ RecoverListed(s) \/ NothingRecovered(s)
  \/ BeginBind(s) \/ BindFails(s) \/ BindGone(s) \/ FinishBind(s)

ChannelNext ==
  \/ Daemon \/ InputFailsOn \/ PublishLive \/ CommitDoneLive \/ RecoverAtStartup \/ CrashAll
  \/ \E s \in Socket : \/ Connect(s) \/ Handshake(s) \/ StartRunOn(s)
                       \/ LinkLost(s) \/ SocketClosed(s) \/ Forget(s)
                       \/ AcknowledgeEnd(s) \/ NextRunOn(s)

ChannelSpec == ChannelInit /\ [][ChannelNext]_allVars

-----------------------------------------------------------------------------
\* The client holds every seq below the highest one it holds.
Gapless(c) == \A n \in DOMAIN view[c] : \A m \in 0..n : m \in DOMAIN view[c]

\* What collectReplayEvents promises: a replay with a hole is never sent; the
\* reconnect fails instead.
NoHoleIsEverSent == \A c \in Client : Gapless(c)

\* What does hold: a hole comes only from a run that published, was pruned or
\* was replaced while the client's own bind awaited.
HolesOnlyFromBindRace == \A c \in Client : raced[c] \/ Gapless(c)

\* A client is told of an end only when the end is durable, and the same end as
\* everybody else.  Nothing it holds of the same attempt is newer, except what a
\* settlement from the transcript left behind: events that were delivered but
\* never reached the journal.
NothingAfterTerminal ==
  \A c \in Client : \A n \in DOMAIN view[c] : view[c][n].terminal =>
    /\ checkpoint.status = "terminal" /\ checkpoint.cursor = n
    /\ \A m \in DOMAIN view[c] : view[c][m].attempt = view[c][n].attempt =>
         \/ m <= n \/ overtaken
         \/ m \notin DOMAIN journal /\ persistedThroughSeq < n
=============================================================================
