-------------------------- MODULE ProviderRequest --------------------------
(***************************************************************************)
(* The durable provider request of a thread (llm/provider/transport/       *)
(* responses-durable-request.ts) and the host processes that send one      *)
(* (responses-durable-request-host-main.ts).  A host outlives the daemon   *)
(* that started it.  It sends its request once, at its first commit frame, *)
(* and leaves the answer in an artifact.  The coordinate, one file per     *)
(* provider session, names the request the thread may still have open and  *)
(* the host that serves it.                                                *)
(*                                                                         *)
(* The operators are the steps of streamRequestEvents; ModelRound composes *)
(* them with the loop that consumes the stream.                            *)
(***************************************************************************)
EXTENDS Integers

CONSTANTS None,       \* no coordinate, no artifact, no round, ...
          MaxHosts    \* bound: hosts that are ever started

ASSUME MaxHostsAssumption == MaxHosts \in Nat

Host == 1..MaxHosts

(***************************************************************************)
(* What a provider answers.  The first kinds end the round well: tool      *)
(* calls, structured output, prose; "items" is whether the answer carries  *)
(* provider items that a later request replays.  The others are errors:    *)
(* one the policy retries, a refused token, a refused encrypted replay     *)
(* item, and all the rest.                                                 *)
(***************************************************************************)
GoodKind == {"tools", "structured", "prose"}
Answer == [kind : GoodKind, items : BOOLEAN]
            \cup [kind : {"retryable", "unauthorized", "rejected", "fatal"},
                  items : {FALSE}]

VARIABLES host,         \* the state of every host process
          artifact,     \* the terminal artifact of every host
          coordinate

requestVars == <<host, artifact, coordinate>>

RequestInit ==
  /\ host = [n \in Host |-> "unused"]
  /\ artifact = [n \in Host |-> None]
  /\ coordinate = None

\* The host is there to attach to and to write a frame to.
Alive(n) == host[n] \in {"idle", "sent"}

\* A request that may have reached the provider, and whose outcome the daemon
\* neither has read nor has given up on.
InDoubt(n) == host[n] \in {"sent", "lost"}

\* The request of this identity is the one the coordinate names.
Named(id) == coordinate # None /\ coordinate.id = id

\* Variant of PreviousSettled: a host that has gone counts as settled.
PreviousGone == coordinate # None => ~Alive(coordinate.host)

\* Whatever the session asked before has left its artifact.
PreviousSettled == coordinate # None => artifact[coordinate.host] # None

StartHost(n, id) ==
  /\ host[n] = "unused" /\ \A m \in Host : m < n => host[m] # "unused"
  /\ host' = [host EXCEPT ![n] = "idle"]
  /\ coordinate' = [id |-> id, host |-> n]
  /\ UNCHANGED artifact

\* handle.stop() and the await of its exit.  What the request was doing at the
\* provider is no longer the daemon's concern.
AfterStop(n) == [host EXCEPT ![n] = CASE @ \in {"sent", "lost"} -> "stopped"
                                      [] @ = "idle" -> "gone"
                                      [] OTHER -> @]

AfterClear(n) ==
  IF coordinate # None /\ coordinate.host = n THEN None ELSE coordinate

\* The finally of the stream: a host that has not been read to its terminal
\* artifact is stopped and its coordinate cleared.
Release(n) ==
  /\ host' = AfterStop(n) /\ coordinate' = AfterClear(n)
  /\ UNCHANGED artifact

\* The commit frame: the first one sends the request, any other has the host
\* repeat what it saw of the answer.
Commit(n) ==
  /\ Alive(n)
  /\ host' = [host EXCEPT ![n] = "sent"]
  /\ UNCHANGED <<artifact, coordinate>>

\* The provider answers: the host writes the artifact and ends.
HostAnswers(n, a) ==
  /\ host[n] = "sent"
  /\ host' = [host EXCEPT ![n] = "done"]
  /\ artifact' = [artifact EXCEPT ![n] = a]
  /\ UNCHANGED coordinate

\* The process dies, or the artifact cannot be written.
HostDies(n) ==
  /\ Alive(n)
  /\ host' = [host EXCEPT ![n] = IF @ = "sent" THEN "lost" ELSE "gone"]
  /\ UNCHANGED <<artifact, coordinate>>

\* recoverOutcomeUnknown: the user gives up a request whose host can no longer
\* be attached to and left no artifact, and accepts that it may be sent twice.
Abandon ==
  /\ coordinate # None
  /\ host[coordinate.host] \in {"gone", "lost"}
  /\ host' = [host EXCEPT ![coordinate.host] =
                IF @ = "lost" THEN "abandoned" ELSE @]
  /\ coordinate' = None
  /\ UNCHANGED artifact

RequestTypeOK ==
  /\ host \in [Host -> {"unused", "idle", "sent", "done", "lost", "gone",
                        "stopped", "abandoned"}]
  /\ artifact \in [Host -> Answer \cup {None}]
  /\ \A n \in Host : artifact[n] # None <=> host[n] = "done"
=============================================================================
