---------------------------- MODULE LaunchLedger ----------------------------
(***************************************************************************)
(* What the handle of a subagent promises whoever holds it, the agent_*    *)
(* tools and the parent's thread: an accepted launch is begun at most      *)
(* once; it is declined only while no report on it exists; what was        *)
(* declined never begins; what was reported is the end of it.              *)
(***************************************************************************)
CONSTANT Launch
VARIABLE handle

Edge == {<<"none", "accepted">>, <<"accepted", "begun">>,
         <<"accepted", "declined">>, <<"begun", "declined">>,
         <<"accepted", "reported">>, <<"begun", "reported">>}

Init == handle = [l \in Launch |-> "none"]

\* Launches move together when they were asked for, admitted or given up so.
Next ==
  /\ handle' \in [Launch -> {"none", "accepted", "begun", "declined", "reported"}]
  /\ \A l \in Launch : <<handle[l], handle'[l]>> \in Edge \/ handle'[l] = handle[l]

Spec == Init /\ [][Next]_handle
=============================================================================
