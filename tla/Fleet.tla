------------------------------- MODULE Fleet --------------------------------
(***************************************************************************)
(* The agents' pods, and what the server can do to them:                   *)
(* services/mcp/mcp_server/pod_chaos.py.  Kubernetes is external: the      *)
(* Deployment replaces pods under new names, a deleted pod goes on for its *)
(* grace period, and each request to the API may fail.                     *)
(*                                                                         *)
(* The client blocks the server's event loop, so that to the server a kill *)
(* is one step; the cluster may move between its list and its deletes, and *)
(* a delete may then fail, or take effect although its answer is lost.     *)
(***************************************************************************)
EXTENDS Integers, FiniteSetsExt

CONSTANTS Pods,       \* the names pods get in a behaviour; none is used twice
          Replicas,   \* of the agents' Deployment
          Zones,      \* topology.kubernetes.io/zone
          NoZone,     \* not placed, or on a node without a zone label
          ZoneOf      \* where the scheduler places a pod

ASSUME FleetAssumption ==
    /\ IsFiniteSet(Pods)
    /\ Replicas \in Nat \ {0}
    /\ NoZone \notin Zones
    /\ ZoneOf \in [Pods -> Zones \cup {NoZone}]

VARIABLE pod

\* Pending comes in two kinds: waiting for a node ("pending"), and on its node
\* with its containers not started yet ("placed").
Phases == {"new", "pending", "placed", "running", "terminating", "gone"}

FleetTypeOK == pod \in [Pods -> Phases]

\* What list_live_pods returns, and the candidates of kill_random.
Listed == {p \in Pods : pod[p] \in {"pending", "placed", "running"}}

\* By the node's zone: a pod without a node is in none.
InZone(z) == {p \in Listed : pod[p] # "pending" /\ ZoneOf[p] = z}

\* A deleted pod may be deleted again until it is gone.
Deletable == Listed \cup {p \in Pods : pod[p] = "terminating"}

\* Its name has been seen in a list: what a request may name.
Known == {p \in Pods : pod[p] # "new"}

FleetInit ==
    \E R \in kSubset(Replicas, Pods) :
        pod = [p \in Pods |-> IF p \in R THEN "running" ELSE "new"]
-----------------------------------------------------------------------------
\* Kubernetes: the Deployment's next pod, one that gets its node, one that gets
\* ready, one whose grace period is over.
FleetStep ==
    \E p \in Pods :
        \/ pod[p] = "new" /\ Cardinality(Listed) < Replicas
           /\ pod' = [pod EXCEPT ![p] = "pending"]
        \/ pod[p] = "pending" /\ pod' = [pod EXCEPT ![p] = "placed"]
        \/ pod[p] = "placed" /\ pod' = [pod EXCEPT ![p] = "running"]
        \/ pod[p] = "terminating" /\ pod' = [pod EXCEPT ![p] = "gone"]

\* Fault: a victim counts as killed before its delete is answered.
DeleteUnanswered(V, K) ==
    \E D \in SUBSET (V \cap Deletable) :
        /\ K = V
        /\ pod' = [p \in Pods |-> IF p \in D THEN "terminating" ELSE pod[p]]

\* The deletes of the victims V: those of K are answered without an error.
Delete(V, K) ==
    \E D \in SUBSET (V \cap Deletable) :
        /\ K \subseteq D
        /\ pod' = [p \in Pods |-> IF p \in D THEN "terminating" ELSE pod[p]]

KillNamed(p, K) == Delete({p}, K)

\* The samples that kill_random may draw: one of several candidates is spared,
\* one alone is not.
Victims(count) ==
    LET n == Cardinality(Listed)
        killable == IF n > 1 THEN n - 1 ELSE 1
    IN  IF Listed = {} THEN {{}}
        ELSE kSubset(IF count < killable THEN count ELSE killable, Listed)

KillRandom(count, K) == \E V \in Victims(count) : Delete(V, K)

\* A zone without listed pods is replaced by a busiest one.
ZonesHit(z) ==
    LET labelled == {x \in Zones : InZone(x) # {}}
    IN  IF z \in labelled THEN {z}
        ELSE {x \in labelled : \A y \in labelled :
                  Cardinality(InZone(y)) <= Cardinality(InZone(x))}

KillZone(z, K) ==
    \/ \E x \in ZonesHit(z) : Delete(InZone(x), K)
    \/ ZonesHit(z) = {} /\ K = {} /\ UNCHANGED pod
=============================================================================
