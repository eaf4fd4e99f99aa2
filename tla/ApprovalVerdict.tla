--------------------------- MODULE ApprovalVerdict ---------------------------
(***************************************************************************)
(* What the approvals of a run promise: the question of every call is      *)
(* settled at most once, and whoever is told the verdict - the call that   *)
(* waits, a client whose decision is acknowledged - is told that one, in   *)
(* this life of the daemon and in the next ones.                           *)
(***************************************************************************)
CONSTANTS Call, Verdict, Aborted

VARIABLES verdict,   \* what each call's question was settled to
          heard      \* the verdicts somebody was told, as <<call, verdict>>

Open == "open"

Init == verdict = [c \in Call |-> Open] /\ heard = {}

Decide(c, v) ==
  /\ verdict[c] = Open
  /\ verdict' = [verdict EXCEPT ![c] = v] /\ UNCHANGED heard

\* The end of the run answers what is still open.
Close ==
  /\ verdict' = [c \in Call |-> IF verdict[c] = Open THEN Aborted ELSE verdict[c]]
  /\ UNCHANGED heard

Tell(c) ==
  /\ verdict[c] # Open
  /\ heard' = heard \cup {<<c, verdict[c]>>} /\ UNCHANGED verdict

Next == Close \/ \E c \in Call : Tell(c) \/ \E v \in Verdict : Decide(c, v)

Spec == Init /\ [][Next]_<<verdict, heard>>
==============================================================================
