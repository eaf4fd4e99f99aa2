--------------------------- MODULE InterjectLedger ---------------------------
(***************************************************************************)
(* What the daemon promises about the messages a user slips into a running *)
(* run: a message enters once, waits in the order of entry, and is either  *)
(* put into the transcript when its turn comes or withdrawn while it       *)
(* waits.  When the run is over nothing waits, and only an aborted run     *)
(* drops what did.                                                         *)
(***************************************************************************)
EXTENDS Sequences, SequencesExt

CONSTANT Message

VARIABLES entered, line, applied,
          end    \* "running", "settled" by itself, or "aborted"

ledger == <<entered, line, applied, end>>

LedgerInit ==
  entered = {} /\ line = <<>> /\ applied = <<>> /\ end = "running"

Enter(m) ==
  /\ end = "running" /\ m \notin entered
  /\ entered' = entered \cup {m} /\ line' = Append(line, m)
  /\ UNCHANGED <<applied, end>>

Apply ==
  /\ end = "running" /\ line # <<>>
  /\ applied' = Append(applied, Head(line)) /\ line' = Tail(line)
  /\ UNCHANGED <<entered, end>>

Withdraw(m) ==
  /\ end = "running" /\ Contains(line, m)
  /\ line' = RemoveFirst(line, m)
  /\ UNCHANGED <<entered, applied, end>>

Settle ==
  /\ end = "running" /\ line = <<>>
  /\ end' = "settled"
  /\ UNCHANGED <<entered, line, applied>>

Drop ==
  /\ end = "running"
  /\ end' = "aborted" /\ line' = <<>>
  /\ UNCHANGED <<entered, applied>>

LedgerNext == Apply \/ Settle \/ Drop
              \/ \E m \in Message : Enter(m) \/ Withdraw(m)

LedgerSpec == LedgerInit /\ [][LedgerNext]_ledger
=============================================================================
