---------------------------- MODULE DurableRunLog ----------------------------
(***************************************************************************)
(* What the durable side of a run promises, whatever happens to the        *)
(* daemon: an append-only log of events, closed once and for all by a      *)
(* terminal cursor, then acknowledged.                                     *)
(***************************************************************************)
EXTENDS Integers

CONSTANTS Event, MaxEvents

NoCursor == -1

VARIABLES log,           \* seq -> event, contiguous from 0
          length,        \* how many events the log holds
          closedAt,      \* the terminal cursor, or NoCursor while open
          acknowledged

logVars == <<log, length, closedAt, acknowledged>>

LogInit ==
  log = <<>> /\ length = 0 /\ closedAt = NoCursor /\ acknowledged = FALSE

\* A batch extends an open log and rewrites nothing.
AppendBatch ==
  /\ closedAt = NoCursor
  /\ length' \in (length + 1)..MaxEvents
  /\ DOMAIN log' = 0..(length' - 1)
  /\ \A n \in 0..(length - 1) : log'[n] = log[n]
  /\ \A n \in length..(length' - 1) : log'[n] \in Event
  /\ UNCHANGED <<closedAt, acknowledged>>

\* A terminal cursor is never past the seq that a snapshot of the thread, which
\* the log does not hold, would leave free.
Close ==
  /\ closedAt = NoCursor
  /\ closedAt' \in 0..(length + 1)
  /\ UNCHANGED <<log, length, acknowledged>>

Acknowledged ==
  /\ closedAt # NoCursor
  /\ acknowledged' = TRUE
  /\ UNCHANGED <<log, length, closedAt>>

LogNext == AppendBatch \/ Close \/ Acknowledged
LogSpec == LogInit /\ [][LogNext]_logVars
=============================================================================
