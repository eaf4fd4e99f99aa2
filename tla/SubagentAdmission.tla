------------------------- MODULE SubagentAdmission --------------------------
(***************************************************************************)
(* The places for child runs of a run tree (agent/subagent-concurrency.ts, *)
(* createSubagentAdmissionController, and the sets of RunState it counts). *)
(* Nothing waits in it: a reservation is admitted or refused at once.      *)
(*                                                                         *)
(* A lease stands for one id of activeLeaseIds.  It is named by who holds  *)
(* the reservation and for which launch: a window of tool calls and a      *)
(* promotion reserve leases that the launches take over ("transferable"),  *)
(* a launch holds its own.  A tree of capacity is named by the run whose   *)
(* reservation made it.                                                    *)
(***************************************************************************)
EXTENDS Integers, FiniteSets, FiniteSetsExt

CONSTANTS Root,          \* runs of users
          Launch,        \* launches of child runs, each named as its child run
          Limits,        \* the values of maxConcurrentChildren
          None

Run == Root \cup Launch

ASSUME SubagentAdmissionAssumption ==
  /\ Root \cap Launch = {} /\ None \notin Run
  /\ Launch \subseteq Nat /\ IsFiniteSet(Launch)
  /\ Limits \subseteq Nat \ {0}

Holder == {"window", "promotion", "launch"}
Lease == Holder \X Launch
Own(l) == <<"launch", l>>

VARIABLES limit,      \* the configured policy
          parent,     \* the run that asked for a launch
          lease,      \* the tree whose place a lease takes, None when it is gone
          elder,      \* which transferable reservation of a run came first
          tree,       \* treeCapacityByRunState
          children    \* backgroundChildRunIds of the parents
admissionVars == <<limit, parent, lease, elder, tree, children>>

AdmissionInit ==
  /\ limit \in Limits /\ parent = [l \in Launch |-> None]
  /\ lease = [x \in Lease |-> None]
  /\ elder = [r \in Run |-> "window"]
  /\ tree = [r \in Run |-> None] /\ children = {}

TreeOf(r) == IF tree[r] = None THEN r ELSE tree[r]
Active(t) == {x \in Lease : lease[x] = t}
ChildrenOf(r) == {l \in children : parent[l] = r}

\* backgroundChildLaunchReservationIds: the leases no child has activated.
Reserved(r) ==
  {x \in Lease : /\ lease[x] # None /\ parent[x[2]] = r
                 /\ x[1] = "launch" => x[2] \notin children}

Fits(r, n) ==
  /\ Cardinality(Active(TreeOf(r))) + n <= limit
  /\ Cardinality(ChildrenOf(r)) + Cardinality(Reserved(r)) + n <= limit

-----------------------------------------------------------------------------
\* The leases a launch of r may take over: the elder reservation's first.
Spare(r) ==
  {x \in Lease : x[1] # "launch" /\ parent[x[2]] = r /\ lease[x] = TreeOf(r)}
Elder(r) ==
  LET old == {x \in Spare(r) : x[1] = elder[r]}
  IN IF old = {} THEN Spare(r) ELSE old

KnownTree(r) == tree' = [tree EXCEPT ![r] = TreeOf(r)] /\ UNCHANGED limit

\* The reservation of r that is served first once holder has leases too.
Senior(r, holder) ==
  LET others == {x[1] : x \in Spare(r)} \ {holder}
  IN [elder EXCEPT ![r] =
        IF others = {} THEN holder ELSE CHOOSE h \in others : TRUE]

\* A lease for each of the calls S of a window.
Hold(r, S) ==
  /\ lease' = [x \in Lease |->
                 IF x \in {"window"} \X S THEN TreeOf(r) ELSE lease[x]]
  /\ elder' = Senior(r, "window") /\ KnownTree(r) /\ UNCHANGED children

\* A promotion takes a lease for each launch of a group, and every launch
\* takes one over at once; those of an open window go first, and as many of the
\* promotion's are left in their place.  Those in S keep what they took.
Promote(r, group, S) ==
  LET n == Min({Cardinality(group), Cardinality(Spare(r))}) IN
  \E taken \in kSubset(n, Spare(r)), left \in kSubset(n, group) :
    /\ lease' = [x \in Lease |->
         IF x \in taken THEN None
         ELSE IF x \in ({"promotion"} \X left) \cup {Own(l) : l \in S}
              THEN TreeOf(r) ELSE lease[x]]
    /\ elder' = Senior(r, "promotion") /\ KnownTree(r)
    /\ UNCHANGED <<parent, children>>

Admits(r) == Spare(r) # {} \/ Fits(r, 1)

\* Variant of Handover: what is taken over stays in the set of leases.
HandoverKept(x, l) == [lease EXCEPT ![Own(l)] = TreeOf(parent[l])]

Handover(x, l) == [lease EXCEPT ![x] = None, ![Own(l)] = TreeOf(parent[l])]

\* One lease for launch l: taken over from a reservation when r has one.
Claim(l) ==
  LET r == parent[l] IN
  /\ IF Spare(r) = {}
     THEN lease' = [lease EXCEPT ![Own(l)] = TreeOf(r)]
     ELSE lease' = Handover(CHOOSE y \in Elder(r) : TRUE, l)
  /\ KnownTree(r) /\ UNCHANGED <<parent, elder, children>>

\* The child runs: its run state joins the tree.
Activate(l) ==
  /\ children' = children \cup {l}
  /\ tree' = [tree EXCEPT ![l] = lease[Own(l)]]
  /\ UNCHANGED <<limit, parent, lease, elder>>

Without(gone) == [x \in Lease |-> IF x \in gone THEN None ELSE lease[x]]
Held(gone) == \E x \in gone : lease[x] # None

\* The child is over: its run state leaves the tree.
Deactivate(l) ==
  /\ children' = children \ {l} /\ lease' = Without({Own(l)})
  /\ tree' = [tree EXCEPT ![l] = None] /\ UNCHANGED <<limit, parent, elder>>

Release(gone) ==
  lease' = Without(gone) /\ UNCHANGED <<limit, parent, elder, tree, children>>

\* A new process knows no reservation and no tree.
Forget ==
  /\ lease' = [x \in Lease |-> None] /\ elder' = [r \in Run |-> "window"]
  /\ tree' = [r \in Run |-> None] /\ children' = {} /\ UNCHANGED <<limit, parent>>
=============================================================================
