----------------------------- MODULE Reconcile -----------------------------
(***************************************************************************)
(* Rolling a new version out to a cluster: fullReconcile and reconcile of  *)
(* the planner (pkg/capr/planner/planner.go).  A pass loads the plans of   *)
(* all machines, and takes the machines tier by tier: the init node, the   *)
(* other etcd machines, the control plane, the workers.  A tier that is    *)
(* not done ends the pass; within a tier at most the allowed number of     *)
(* machines is made unavailable.                                           *)
(*                                                                         *)
(* A plan is the version of the cluster it was rendered for.  How a plan   *)
(* is delivered and how a machine is drained is the subject of PlanSecret  *)
(* and MachineDrain, which init node there is that of InitNode.            *)
(***************************************************************************)
EXTENDS Integers, FiniteSets

CONSTANTS Machines,       \* machines, as numbers: collect sorts them
          Clusters,       \* the clusters to look at
          MaxVersion      \* bound on the versions the user asks for

(* A cluster: its machines by role, and the init node; those there at first, those that
   come later, those that may be deleted; controlPlaneConcurrency and workerConcurrency,
   whether drain options are set, and whether the cluster has been rolled out before. *)
IsCluster(c) ==
    /\ c.etcd \cup c.controlPlane \cup c.worker \subseteq Machines
    /\ c.early \cup c.late \subseteq c.etcd \cup c.controlPlane \cup c.worker
    /\ c.early \cap c.late = {} /\ c.transient \subseteq c.early \cup c.late
    /\ c.initNode \in (c.etcd \cap c.early) \ c.transient
    /\ c.maxUnavailable \in [unit : {"number", "percent"}, value : Nat]
    /\ {c.drains, c.settled} \subseteq BOOLEAN

ASSUME ClustersAssumption ==
    /\ Machines \subseteq Int /\ IsFiniteSet(Machines)
    /\ MaxVersion \in Nat \ {0}
    /\ \A c \in Clusters : IsCluster(c)

VARIABLES
    cluster,      \* which does not change
    want,         \* the version the control plane object asks for
    life,         \* of each machine
    node,         \* plan secret of each machine
    pc,           \* the tier the pass is at
    seen,         \* what the pass loaded: want, life and node
    initialized,  \* the control plane is marked initialized and ready
    quiet         \* no more changes, failures and interruptions

vars == <<cluster, want, life, node, pc, seen, initialized, quiet>>

Etcd == cluster.etcd
ControlPlane == cluster.controlPlane
Worker == cluster.worker
InitNode == cluster.initNode
MaxUnavailable == cluster.maxUnavailable

Tiers == {"bootstrap", "etcd", "controlplane", "worker"}
Nodes == [plan : 0 .. MaxVersion, applied : 0 .. MaxVersion, failed : BOOLEAN,
          healthy : BOOLEAN, probesUsable : BOOLEAN, joined : BOOLEAN,
          drain : {"none", "draining", "drained", "uncordoning"}]
NoPlan == [plan |-> 0, applied |-> 0, failed |-> FALSE,
           healthy |-> FALSE, probesUsable |-> FALSE, joined |-> FALSE, drain |-> "none"]
Versions == 1 .. MaxVersion
Lives == {"absent", "present", "deleting", "gone"}
NotLoaded == [want |-> 0]

-----------------------------------------------------------------------------
(* What reconcile makes of what the pass loaded. *)

isOnlyWorker(m) == m \in Worker \ (Etcd \cup ControlPlane)

(* The machines a tier includes and does not exclude. *)
Reconcilables(tier) ==
    {m \in Machines :
        /\ seen.life[m] = "present"
        /\ \/ tier = "bootstrap" /\ m = InitNode
           \/ tier = "etcd" /\ m \in Etcd \ {InitNode}
           \/ tier = "controlplane" /\ m \in ControlPlane \ {InitNode}
           \/ tier = "worker" /\ isOnlyWorker(m)}

InSync(m) == seen.node[m].plan = seen.node[m].applied
change(m) == seen.node[m].plan \notin {0, seen.want}
isInDrain(m) == seen.node[m].drain # "none"

isUnavailable(m) ==
    \/ ~InSync(m)
    \/ isInDrain(m)
    \/ ~change(m) /\ ~seen.node[m].healthy

planAppliedButProbesNeverHealthy(m) ==
    InSync(m) /\ ~seen.node[m].healthy /\ ~seen.node[m].probesUsable

(* calculateConcurrency: how many machines may be unavailable, 0 for any number. *)
calculateConcurrency(tier) ==
    LET count == Cardinality(Reconcilables(tier)) IN
    IF tier \in {"bootstrap", "etcd"} THEN 1
    ELSE IF MaxUnavailable.unit = "number" THEN MaxUnavailable.value
    ELSE (count * MaxUnavailable.value + 99) \div 100

(* A mutant: the loop does not count the machines it makes unavailable. *)
AdmittedWithoutCounting(tier) ==
    LET R == Reconcilables(tier)
        unavailable == Cardinality({m \in R : seen.node[m].plan # 0 /\ isUnavailable(m)})
    IN  {m \in R : change(m) /\ (isInDrain(m) \/ unavailable < calculateConcurrency(tier))}

(* The changed machines that may be changed now.  The loop over the tier counts those
   it makes unavailable.  When it turns a machine away the limit is reached and stays so:
   what it has counted when it comes to a machine may as well be all the available ones
   with a change before that. *)
Admitted(tier) ==
    LET R == Reconcilables(tier)
        concurrency == calculateConcurrency(tier)
        unavailable == Cardinality({m \in R : seen.node[m].plan # 0 /\ isUnavailable(m)})
        counted(m) == Cardinality({n \in R : n < m /\ change(n) /\ ~isUnavailable(n)})
    IN  {m \in R : /\ change(m)
                   /\ \/ isInDrain(m)
                      \/ seen.node[m].failed
                      \/ concurrency = 0
                      \/ unavailable + counted(m) < concurrency
                      \/ planAppliedButProbesNeverHealthy(m)}

(* getPlanStatusReasonMessage is empty. *)
planApplied(m) == seen.node[m].healthy /\ InSync(m)

(* drain: a machine without an applied plan is not drained. *)
drainDone(m) ==
    ~cluster.drains \/ seen.node[m].applied = 0 \/ seen.node[m].drain \in {"drained", "uncordoning"}

-----------------------------------------------------------------------------
(* The writes of a tier, to the live secrets. *)

(* The loaded drain annotations go over the live ones: none is removed. *)
DrainOrder == [none |-> 0, draining |-> 1, drained |-> 2, uncordoning |-> 3]
Later(d, e) == IF DrainOrder[d] > DrainOrder[e] THEN d ELSE e

UpdatePlan(m) ==
    [node[m] EXCEPT !.plan = seen.want, !.failed = FALSE, !.healthy = FALSE,
                    !.probesUsable = FALSE, !.drain = Later(@, seen.node[m].drain)]

RequestDrain(m, d) == [node[m] EXCEPT !.drain = Later(@, d)]

(* A mutant: the machine is never uncordoned. *)
ReconciledWithoutUndrain(tier, m) ==
    CASE seen.node[m].plan = 0                         -> UpdatePlan(m)
      [] m \in Admitted(tier) /\ drainDone(m)          -> UpdatePlan(m)
      [] m \in Admitted(tier) /\ ~drainDone(m)         -> RequestDrain(m, "draining")
      [] OTHER                                         -> node[m]

Reconciled(tier, m) ==
    CASE seen.node[m].plan = 0                         -> UpdatePlan(m)
      [] m \in Admitted(tier) /\ drainDone(m)          -> UpdatePlan(m)
      [] m \in Admitted(tier) /\ ~drainDone(m)         -> RequestDrain(m, "draining")
      [] ~change(m) /\ planApplied(m) /\ seen.node[m].drain \in {"draining", "drained"}
                                                       -> RequestDrain(m, "uncordoning")
      [] OTHER                                         -> node[m]

(* A mutant: the pass waits for the machines it changes, not for those it changed. *)
WaitingForChanges(tier, m) == seen.node[m].plan = 0 \/ m \in Admitted(tier)

(* A machine the pass waits for.  One that is only held back by the concurrency has no
   message and does not stop the pass itself. *)
Waiting(tier, m) ==
    \/ seen.node[m].plan = 0
    \/ ~planApplied(m)
    \/ m \in Admitted(tier)
    \/ isInDrain(m)

-----------------------------------------------------------------------------
(* The pass. *)

(* clusterIsSane: there is a machine for every role. *)
clusterIsSane ==
    \A role \in {Etcd, ControlPlane, Worker} : \E m \in role : life[m] = "present"

Load ==
    /\ pc = "idle"
    /\ clusterIsSane
    /\ pc' = "bootstrap"
    /\ seen' = [want |-> want, life |-> life, node |-> node]
    /\ UNCHANGED <<cluster, want, life, node, initialized, quiet>>

(* Process on a cluster that has lost the last machine of a role. *)
Uninitialize ==
    /\ pc = "idle"
    /\ ~clusterIsSane
    /\ initialized' = FALSE
    /\ UNCHANGED <<cluster, want, life, node, pc, seen, quiet>>

(* A mutant: the next pass starts with what this one loaded. *)
EndPassKeepsLoaded == pc' = "idle" /\ UNCHANGED seen

EndPass == pc' = "idle" /\ seen' = NotLoaded

Continue(tier) == pc' = tier /\ UNCHANGED seen

NextTier == [bootstrap |-> "etcd", etcd |-> "controlplane", controlplane |-> "initialize"]

reconcile(tier) ==
    LET R == Reconcilables(tier) IN
    /\ pc = tier
    /\ \A m \in R : life[m] # "gone"
    /\ node' = [m \in Machines |-> IF m \in R THEN Reconciled(tier, m) ELSE node[m]]
    /\ IF tier = "worker" \/ \E m \in R : Waiting(tier, m) THEN EndPass ELSE Continue(NextTier[tier])
    /\ UNCHANGED <<cluster, want, life, initialized, quiet>>

(* An update fails and ends the pass: the machines before it have been dealt with. *)
reconcileFails(tier) ==
    /\ pc = tier
    /\ \E failing \in Reconcilables(tier) :
          /\ ~quiet \/ life[failing] = "gone"
          /\ node' = [m \in Machines |-> IF m \in Reconcilables(tier) /\ m < failing
                                         THEN Reconciled(tier, m) ELSE node[m]]
    /\ EndPass
    /\ UNCHANGED <<cluster, want, life, initialized, quiet>>

(* Between the control plane and the workers: a control plane to join, and the
   initialized status, which is saved before the pass goes on another time. *)
initialize ==
    /\ pc = "initialize"
    /\ IF /\ initialized
          /\ \E m \in ControlPlane : seen.life[m] = "present" /\ seen.node[m].applied # 0
       THEN Continue("worker")
       ELSE EndPass
    /\ initialized' = (initialized \/ \E m \in ControlPlane :
                                         seen.life[m] = "present" /\ seen.node[m].applied # 0)
    /\ UNCHANGED <<cluster, want, life, node, quiet>>

PlannerStep ==
    \/ Load \/ Uninitialize \/ initialize
    \/ \E tier \in Tiers : reconcile(tier) \/ reconcileFails(tier)

-----------------------------------------------------------------------------
(* The system-agent, the machine-drain controller, and the user. *)

Set(m, n) ==
    node' = [node EXCEPT ![m] = n] /\ UNCHANGED <<cluster, want, life, pc, seen, initialized, quiet>>

AgentApplies(m) ==
    /\ node[m].plan # node[m].applied
    /\ Set(m, [node[m] EXCEPT !.applied = node[m].plan, !.failed = FALSE])

AgentFails(m) ==
    /\ ~quiet
    /\ node[m].plan # node[m].applied
    /\ Set(m, [node[m] EXCEPT !.failed = TRUE])

AgentProbes(m, result) ==
    /\ node[m].plan # 0
    /\ node[m].plan = node[m].applied
    /\ quiet => result
    /\ Set(m, [node[m] EXCEPT !.healthy = result, !.probesUsable = @ \/ result,
                              !.joined = @ \/ result])

machineDrain(m) ==
    \/ node[m].drain = "draining" /\ Set(m, [node[m] EXCEPT !.drain = "drained"])
    \/ node[m].drain = "uncordoning" /\ Set(m, [node[m] EXCEPT !.drain = "none"])

Upgrade ==
    /\ ~quiet
    /\ want < MaxVersion
    /\ want' = want + 1
    /\ UNCHANGED <<cluster, life, node, pc, seen, initialized, quiet>>

MachineBecomes(m, old, new) ==
    /\ ~quiet
    /\ life[m] = old
    /\ life' = [life EXCEPT ![m] = new]
    /\ UNCHANGED <<cluster, want, node, pc, seen, initialized, quiet>>

MachineChanges(m) ==
    \/ m \in cluster.late /\ MachineBecomes(m, "absent", "present")
    \/ m \in cluster.transient /\ MachineBecomes(m, "present", "deleting")
    \/ MachineBecomes(m, "deleting", "gone")

Quieten == quiet' = TRUE /\ UNCHANGED <<cluster, want, life, node, pc, seen, initialized>>

Agent(m) == life[m] # "gone" /\ (AgentApplies(m) \/ AgentProbes(m, TRUE) \/ machineDrain(m))
Trouble(m) == life[m] # "gone" /\ (AgentFails(m) \/ AgentProbes(m, FALSE))

-----------------------------------------------------------------------------
(* A new cluster, or one that has been rolled out. *)
Init ==
    /\ cluster \in Clusters
    /\ want = 1
    /\ life = [m \in Machines |-> IF m \in cluster.early THEN "present" ELSE "absent"]
    /\ node = [m \in Machines |->
                  IF m \notin cluster.early \/ ~cluster.settled THEN NoPlan
                  ELSE [NoPlan EXCEPT !.plan = 1, !.applied = 1, !.healthy = TRUE,
                                      !.probesUsable = TRUE, !.joined = TRUE]]
    /\ pc = "idle" /\ seen = NotLoaded
    /\ initialized = cluster.settled /\ quiet = FALSE

Next ==
    \/ PlannerStep
    \/ \E m \in Machines : Agent(m) \/ Trouble(m) \/ MachineChanges(m)
    \/ Upgrade
    \/ Quieten

Spec ==
    /\ Init /\ [][Next]_vars
    /\ WF_vars(PlannerStep)
    /\ \A m \in Machines : WF_vars(Agent(m))

-----------------------------------------------------------------------------
(* Every variable stays in its domain. *)
TypeOK ==
    /\ cluster \in Clusters
    /\ want \in Versions
    /\ life \in [Machines -> Lives]
    /\ node \in [Machines -> Nodes]
    /\ pc \in Tiers \cup {"idle", "initialize"}
    /\ seen \in {NotLoaded} \cup [want : Versions, life : [Machines -> Lives], node : [Machines -> Nodes]]
    /\ (pc = "idle") <=> (seen = NotLoaded)
    /\ initialized \in BOOLEAN /\ quiet \in BOOLEAN

Rank(m) ==
    IF m = InitNode THEN 0 ELSE IF m \in Etcd THEN 1 ELSE IF m \in ControlPlane THEN 2 ELSE 3

(* No machine is given a version that a machine of an earlier tier in the cluster has not
   applied: the init node goes first, the other etcd machines follow, the workers are
   never ahead of a control plane, whatever joins, leaves or changes during the pass. *)
TiersInOrder ==
    \A m, n \in Machines :
        life[m] = "present" /\ node[m].applied # 0 /\ Rank(m) < Rank(n) =>
            node[n].plan <= node[m].applied

Busy(x) == x.plan # x.applied \/ x.drain # "none"

NeverSeenHealthy(m) == ~seen.node[m].healthy /\ ~seen.node[m].probesUsable

TierOf(m) == <<"bootstrap", "etcd", "controlplane", "worker">>[Rank(m) + 1]

(* The smallest number that is the percentage asked for, or more, of so many machines. *)
Allowed(count) ==
    IF MaxUnavailable.unit = "number" THEN {MaxUnavailable.value}
    ELSE {k \in 0 .. MaxUnavailable.value * count :
             /\ 100 * k >= MaxUnavailable.value * count
             /\ 100 * (k - 1) < MaxUnavailable.value * count}

(* Machines that have joined are taken down, by a drain or a plan, only as far as the
   upgrade strategy allows, one at a time for etcd, although the pass decides on what it
   loaded and counts on as it goes.  The exceptions are the code's: a machine seen in its
   drain, and one seen with a plan that never became healthy, is given a new plan at once,
   and the latter is not counted. *)
ConcurrencyRespected ==
    [][\A m \in Machines :
          LET tier == Reconcilables(TierOf(m))
              down == {n \in tier : node[n].plan # 0 /\ Busy(node'[n]) /\ ~NeverSeenHealthy(n)}
          IN  /\ node[m].joined /\ ~Busy(node[m]) /\ Busy(node'[m])
              /\ ~NeverSeenHealthy(m) /\ ~isInDrain(m)
              => IF m \in Etcd THEN Cardinality(down) <= 1
                 ELSE \E k \in Allowed(Cardinality(tier)) : k # 0 => Cardinality(down) <= k]_vars

(* When nothing disturbs the roll-out any more every machine has the version that was
   asked for last, is healthy and is not cordoned. *)
RolloutConcludes ==
    (<>quiet) => <>[](clusterIsSane =>
        \A m \in Machines : life[m] = "present" =>
            /\ node[m].plan = want /\ node[m].applied = want
            /\ node[m].healthy /\ node[m].drain = "none")

=============================================================================
