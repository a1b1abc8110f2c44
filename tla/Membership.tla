----------------------------- MODULE Membership -----------------------------
(***************************************************************************)
(* How a machine leaves the cluster.  The bootstrap controller of          *)
(* pkg/controllers/capr/bootstrap holds the infrastructure of a deleted    *)
(* etcd machine with a pre-terminate hook until no machine is joined to it *)
(* and its etcd member is removed (etcdmgmt/saferemoval.go).  Meanwhile    *)
(* the planner elects another init node and joins the other machines to    *)
(* it, tier by tier.                                                       *)
(*                                                                         *)
(* The controller reads machines and plan secrets from caches; the planner *)
(* reads machines from the cache when a pass begins, and plan secrets      *)
(* live.  A cache is the state of all objects of its kind at some earlier  *)
(* time, and an update of a machine from an outdated copy conflicts.       *)
(***************************************************************************)
EXTENDS Naturals, FiniteSetsExt

CONSTANTS Machines,   \* numbers, in the order of the names of the machines
          Scenarios,  \* the clusters to look at
          None,       \* no machine: an empty joined-to annotation
          Idle        \* no pass of the planner is under way

(* A cluster: its machines with the etcd and the controlplane role, the    *)
(* others being workers; those there at first and those created later;     *)
(* those that may be deleted and those whose node may be deleted; whether  *)
(* the cluster may be deleted, and whether its kubeconfig may be.          *)
IsScenario(s) ==
    /\ s.etcd \cup s.controlPlane \subseteq Machines
    /\ s.early \cap s.etcd # {} /\ s.early \cap s.controlPlane # {} /\ s.early \cap s.late = {}
    /\ s.early \cup s.late \cup s.removable \cup s.nodes \subseteq Machines
    /\ {s.deletable, s.unconnected} \subseteq BOOLEAN

(* The numbers are the order in which collect sorts the machines: there is *)
(* a first one in any set of them.                                         *)
ASSUME ScenariosAssumption ==
    /\ Machines \subseteq Nat
    /\ \A S \in SUBSET Machines : S # {} => \E m \in S : \A n \in S : m <= n
    /\ Idle # None /\ {Idle, None} \cap Machines = {}
    /\ \A s \in Scenarios : IsScenario(s)

VARIABLES
    scenario,      \* the cluster, which does not change
    machine,       \* CAPI machines: life, node reference, pre-terminate hook
    machineCache,
    secret,        \* plan secrets: init-node label, join URL, joined-to, the plan's state
    secretCache,
    pass,          \* machines that the planner loaded, and those of them not deleting
    forced,        \* bootstraps with the force-remove annotation
    dying,         \* the CAPI cluster and the control plane object are deleting, or gone
    kubeconfig,    \* the secret with the kubeconfig of the cluster is there
    removal,       \* of the etcd member of a node: the annotations on the node
    members,       \* of the etcd cluster
    quiet          \* no more deletions

vars == <<scenario, machine, machineCache, secret, secretCache, pass, forced, dying,
          kubeconfig, removal, members, quiet>>

Etcd == scenario.etcd
ControlPlane == scenario.controlPlane
OnlyWorkers == Machines \ (Etcd \cup ControlPlane)

MachineType == [life : {"absent", "alive", "deleting", "gone"}, node : BOOLEAN, hook : BOOLEAN]
SecretType == [label : BOOLEAN, joinURL : BOOLEAN, joined : Machines \cup {None},
               state : {"none", "pending", "applied"}]

(* Every variable stays in its domain.                                     *)
TypeOK ==
    /\ scenario \in Scenarios
    /\ machine \in [Machines -> MachineType] /\ machineCache \in [Machines -> MachineType]
    /\ secret \in [Machines -> SecretType] /\ secretCache \in [Machines -> SecretType]
    /\ pass \in [alive : SUBSET Machines, present : SUBSET Machines] \cup {Idle}
    /\ forced \subseteq Etcd /\ {dying, kubeconfig, quiet} \subseteq BOOLEAN
    /\ removal \in [Machines -> {"none", "asked", "done", "no node"}] /\ members \subseteq Etcd

-----------------------------------------------------------------------------
(* The bootstrap controller.                                               *)

PreTerminateFrame == UNCHANGED <<scenario, machineCache, secret, secretCache, pass, forced,
                                 dying, kubeconfig, members, quiet>>

(* The hook of a machine is set, unless it is already, or the cached       *)
(* machine is outdated: then the update fails.                             *)
UpdateHook(m, hook) ==
    /\ machine' = IF machineCache[m] = machine[m] THEN [machine EXCEPT ![m].hook = hook] ELSE machine
    /\ UNCHANGED removal

ensureMachinePreTerminateAnnotationRemoved(m) == UpdateHook(m, FALSE)

(* A mutant: only the init node is held.                                   *)
stillJoinedInitNode(m) == secretCache[m].label

(* The secrets of the cluster whose joined-to annotation is the join URL   *)
(* of the machine.  Without a join URL the comparison is between empty     *)
(* strings, and the plan secret of a machine that joins nobody and the     *)
(* kubeconfig secret, which has no such annotation, equal.                 *)
stillJoined(m) ==
    IF secretCache[m].joinURL THEN \E n \in Machines : secretCache[n].joined = m
    ELSE kubeconfig \/ \E n \in Machines : secretCache[n].joined = None /\ secretCache[n].state # "none"

(* A mutant: the removal of the member has been asked for.                 *)
SafelyRemovedAsked(m) == removal[m] # "none"

SafelyRemoved(m) == removal[m] \in {"done", "no node"}
AskRemoval(m) ==
    /\ removal' = [removal EXCEPT ![m] = IF @ = "none" THEN "asked" ELSE @]
    /\ UNCHANGED machine

reconcileMachinePreTerminateAnnotation(m) ==
    LET cached == machineCache[m]
    IN  /\ cached.life \in {"alive", "deleting"} /\ PreTerminateFrame
        /\ IF m \notin Etcd \/ m \in forced THEN ensureMachinePreTerminateAnnotationRemoved(m)
           ELSE IF cached.life = "alive" THEN UpdateHook(m, TRUE)
           ELSE IF dying \/ ~cached.node THEN ensureMachinePreTerminateAnnotationRemoved(m)
           ELSE IF stillJoined(m) THEN UNCHANGED <<machine, removal>>
           ELSE IF ~kubeconfig \/ SafelyRemoved(m) THEN ensureMachinePreTerminateAnnotationRemoved(m)
           ELSE AskRemoval(m)

-----------------------------------------------------------------------------
(* The planner: a pass works on what it has loaded.                        *)

PlannerFrame == UNCHANGED <<scenario, machine, machineCache, secretCache, dying, kubeconfig,
                            removal, members, quiet>>

Running == {m \in Machines : machine[m].life \in {"alive", "deleting"}}
labels == {m \in Machines : secret[m].label}
joinable == {m \in Machines : secret[m].joinURL}
CachedPresent == {m \in Machines : machineCache[m].life \in {"alive", "deleting"}}

(* A mutant: the role is not looked at.                                    *)
canBeInitNodeAny == pass.alive

canBeInitNode == pass.alive \cap Etcd

(* setMachineJoinURL: the address of an init node with the etcd role only  *)
(* comes with the output of its plan, any other from its node.             *)
addressed(m) ==
    IF m \in labels \ ControlPlane THEN secret[m].state = "applied" ELSE machineCache[m].node

(* Load ends the pass when it has set a join URL.                          *)
Load ==
    LET unset == {m \in CachedPresent \ joinable : secret[m].state # "none" /\ addressed(m)}
    IN  /\ pass = Idle /\ ~dying /\ PlannerFrame
        /\ IF unset # {}
           THEN (\E m \in unset : secret' = [secret EXCEPT ![m].joinURL = m \in Running]) /\ UNCHANGED pass
           ELSE /\ pass' = [present |-> CachedPresent,
                            alive |-> {m \in CachedPresent : machineCache[m].life = "alive"}]
                /\ UNCHANGED secret
        /\ UNCHANGED forced

clusterIsSane ==
    canBeInitNode # {} /\ pass.alive \cap ControlPlane # {} /\ pass.alive \cap OnlyWorkers # {}

(* A mutant: machines of every role are forced.                            *)
forceDeleteAllDeletingMachines ==
    /\ forced' = forced \cup (pass.present \ pass.alive)
    /\ pass' = Idle /\ UNCHANGED secret

forceDeleteAllDeletingEtcdMachines ==
    /\ forced' = forced \cup ((pass.present \ pass.alive) \cap Etcd)
    /\ pass' = Idle /\ UNCHANGED secret

(* A collection of one machine.                                            *)
Single(S) == \E m \in S : S = {m}

InitNodeFound ==
    /\ Single(labels \cap pass.present) /\ labels \cap canBeInitNode # {}
    /\ labels \subseteq joinable \/ canBeInitNode \cap joinable = {}

suitable == IF canBeInitNode \cap joinable # {} THEN canBeInitNode \cap joinable ELSE canBeInitNode

(* The init-node labels are cleared first, and the pass ends; another pass *)
(* marks the machine elected.  A plan secret goes with its machine, and    *)
(* can no longer be updated then.                                          *)
electInitNode ==
    /\ secret' = [m \in Machines |-> [secret[m] EXCEPT
                      !.label = m \in Running /\ labels = {} /\ m = Min(suitable)]]
    /\ pass' = Idle /\ UNCHANGED forced

(* Bounded choice of calculateJoinURL: any control plane machine.          *)
calculateJoinURL == pass.alive \cap ControlPlane \cap joinable

(* A mutant: a worker keeps its server as long as the machine exists.      *)
validJoinURLDeleting(m) == m \in pass.present \cap (ControlPlane \cup labels) \cap joinable

validJoinURL(m) == m \in pass.alive \cap (ControlPlane \cup labels) \cap joinable

(* The machines a machine may be joined to by its desired plan.            *)
determineJoinURL(m, server) ==
    IF m \in labels THEN {None}
    ELSE IF m \notin OnlyWorkers THEN {server}
    ELSE IF validJoinURL(secret[m].joined) THEN {secret[m].joined}
    ELSE calculateJoinURL

Settled(m, server) ==
    secret[m].joined \in determineJoinURL(m, server) /\ secret[m].state = "applied"

(* The plans of a tier that may be written, as machine and server: the     *)
(* first plan of a machine, or another when none of the tier is under way. *)
reconcile(tier, server) ==
    LET idle == \A n \in tier : secret[n].state # "pending"
        open(m) == \/ secret[m].state = "none"
                   \/ idle /\ secret[m].joined \notin determineJoinURL(m, server)
    IN  UNION {{m} \X determineJoinURL(m, server) : m \in {n \in tier : open(n)}}

UpdatePlan(m, to) ==
    IF m \in Running
    THEN /\ secret' = [secret EXCEPT ![m].joined = to, ![m].state = "pending"]
         /\ pass' \in {pass, Idle}
    ELSE pass' = Idle /\ UNCHANGED secret

EndPass == pass' = Idle /\ UNCHANGED <<secret, forced>>

(* The first tier that is not settled; a pass may write several plans.     *)
fullReconcile ==
    LET i == CHOOSE m \in labels : TRUE
        others == pass.alive \ labels
        tiers == <<labels, others \cap Etcd, others \cap ControlPlane, others \cap OnlyWorkers>>
        late == {k \in 1 .. 4 : \E m \in tiers[k] : ~Settled(m, i)}
        first == Min(late)
        writes == IF late = {} THEN {}
                  ELSE IF first = 1 \/ i \in joinable THEN reconcile(tiers[first], i) ELSE {}
    IN  IF writes = {} THEN EndPass
        ELSE (\E w \in writes : UpdatePlan(w[1], w[2])) /\ UNCHANGED forced

(* An etcd plane that was replaced entirely waits for a restoration.       *)
etcdPlaneReplaced == \A m \in pass.present \cap Etcd : secret[m].state = "none"

(* The cluster has been bootstrapped and is marked as initialized again    *)
(* and again, which no step here depends on; the status is in module       *)
(* Process.                                                                *)
Process ==
    /\ pass # Idle /\ PlannerFrame
    /\ IF ~clusterIsSane THEN forceDeleteAllDeletingEtcdMachines
       ELSE IF etcdPlaneReplaced THEN EndPass
       ELSE IF ~InitNodeFound THEN electInitNode
       ELSE fullReconcile

-----------------------------------------------------------------------------
(* Caches; CAPI, the agents and the etcd controller of the cluster, and    *)
(* users (external).                                                       *)

SyncMachines ==
    /\ machineCache' = machine
    /\ UNCHANGED <<scenario, machine, secret, secretCache, pass, forced, dying, kubeconfig, removal, members, quiet>>
SyncSecrets ==
    /\ secretCache' = secret
    /\ UNCHANGED <<scenario, machine, machineCache, secret, pass, forced, dying, kubeconfig, removal, members, quiet>>

(* The agent starts the server.  A member that was removed stays out.      *)
Run(m) ==
    /\ m \in Running /\ secret[m].state = "pending"
    /\ secret[m].joined \in Running \cup {None}
    /\ secret' = [secret EXCEPT ![m].state = "applied"]
    /\ members' = IF m \in Etcd /\ removal[m] = "none" THEN members \cup {m} ELSE members
    /\ UNCHANGED <<scenario, machine, machineCache, secretCache, pass, forced, dying, kubeconfig, removal, quiet>>

NodeRef(m) ==
    /\ m \in Running /\ ~machine[m].node /\ secret[m].state = "applied"
    /\ machine' = [machine EXCEPT ![m].node = TRUE]
    /\ UNCHANGED <<scenario, machineCache, secret, secretCache, pass, forced, dying, kubeconfig, removal, members, quiet>>

RemoveMember(m) ==
    /\ removal[m] = "asked" /\ (members \ {m}) \cap Running # {}
    /\ removal' = [removal EXCEPT ![m] = "done"] /\ members' = members \ {m}
    /\ UNCHANGED <<scenario, machine, machineCache, secret, secretCache, pass, forced, dying, kubeconfig, quiet>>

DeleteNode(m) ==
    /\ ~quiet /\ m \in scenario.nodes /\ machine[m].node /\ removal[m] # "no node"
    /\ removal' = [removal EXCEPT ![m] = "no node"] /\ members' = members \ {m}
    /\ UNCHANGED <<scenario, machine, machineCache, secret, secretCache, pass, forced, dying, kubeconfig, quiet>>

NoSecret == [label |-> FALSE, joinURL |-> FALSE, joined |-> None, state |-> "none"]

(* Once there is no hook: the infrastructure, then bootstrap and machine.  *)
Teardown(m) ==
    /\ machine[m].life = "deleting" /\ ~machine[m].hook
    /\ machine' = [machine EXCEPT ![m].life = "gone"]
    /\ secret' = [secret EXCEPT ![m] = NoSecret]
    /\ UNCHANGED <<scenario, machineCache, secretCache, pass, forced, dying, kubeconfig, removal, members, quiet>>

Arrive(m) ==
    /\ m \in scenario.late /\ machine[m].life = "absent" /\ ~dying
    /\ machine' = [machine EXCEPT ![m].life = "alive"]
    /\ UNCHANGED <<scenario, machineCache, secret, secretCache, pass, forced, dying, kubeconfig, removal, members, quiet>>

Delete(m) ==
    /\ ~quiet /\ m \in scenario.removable /\ machine[m].life = "alive"
    /\ machine' = [machine EXCEPT ![m].life = "deleting"]
    /\ UNCHANGED <<scenario, machineCache, secret, secretCache, pass, forced, dying, kubeconfig, removal, members, quiet>>

DeleteCluster ==
    /\ ~quiet /\ scenario.deletable /\ ~dying /\ dying' = TRUE
    /\ machine' = [m \in Machines |-> IF machine[m].life = "alive"
                     THEN [machine[m] EXCEPT !.life = "deleting"] ELSE machine[m]]
    /\ UNCHANGED <<scenario, machineCache, secret, secretCache, pass, forced, kubeconfig, removal, members, quiet>>

(* The secret is deleted, or made again.                                   *)
ChangeKubeconfig ==
    /\ ~quiet /\ scenario.unconnected /\ kubeconfig' = ~kubeconfig
    /\ UNCHANGED <<scenario, machine, machineCache, secret, secretCache, pass, forced, dying,
                   removal, members, quiet>>

Quieten ==
    /\ ~quiet /\ quiet' = TRUE
    /\ UNCHANGED <<scenario, machine, machineCache, secret, secretCache, pass, forced, dying, kubeconfig, removal, members>>

-----------------------------------------------------------------------------
Early == scenario.early
FirstInitNode == Min(Etcd \cap Early)
FirstServer(m) ==
    IF m = FirstInitNode THEN {None}
    ELSE IF m \in OnlyWorkers THEN ControlPlane \cap Early
    ELSE {FirstInitNode}

Init ==
    /\ scenario \in Scenarios
    /\ machine = [m \in Machines |-> [life |-> IF m \in Early THEN "alive" ELSE "absent",
                                      node |-> m \in Early, hook |-> m \in Early \cap Etcd]]
    /\ \E server \in [Machines -> Machines \cup {None}] :
         /\ \A m \in Machines : server[m] \in IF m \in Early THEN FirstServer(m) ELSE {None}
         /\ secret = [m \in Machines |-> IF m \notin Early THEN NoSecret
                        ELSE [label |-> m = FirstInitNode, joinURL |-> TRUE,
                              joined |-> server[m], state |-> "applied"]]
    /\ machineCache = machine /\ secretCache = secret
    /\ pass = Idle /\ forced = {} /\ dying = FALSE /\ kubeconfig = TRUE
    /\ removal = [m \in Machines |-> "none"] /\ members = Etcd \cap Early /\ quiet = FALSE

Next ==
    \/ Load
    \/ Process
    \/ SyncMachines
    \/ SyncSecrets
    \/ \E m \in Machines :
         \/ reconcileMachinePreTerminateAnnotation(m)
         \/ Run(m) \/ NodeRef(m) \/ RemoveMember(m) \/ DeleteNode(m)
         \/ Teardown(m) \/ Arrive(m) \/ Delete(m)
    \/ DeleteCluster
    \/ ChangeKubeconfig
    \/ Quieten

(* Passes follow each other, the bootstrap controller is requeued as long  *)
(* as it waits, informers catch up, agents, CAPI and the etcd controller   *)
(* do what they are asked; none of them has to be fair between machines.   *)
Planner == Load \/ Process
Bootstraps == \E m \in Machines : reconcileMachinePreTerminateAnnotation(m)
Agents == \E m \in Machines : Run(m)
Removals == \E m \in Machines : NodeRef(m) \/ RemoveMember(m) \/ Teardown(m)
Fairness ==
    /\ WF_vars(Planner) /\ WF_vars(SyncMachines) /\ WF_vars(SyncSecrets)
    /\ WF_vars(Bootstraps) /\ WF_vars(Agents) /\ WF_vars(Removals)

Spec == Init /\ [][Next]_vars /\ Fairness

-----------------------------------------------------------------------------
Orderly(m) == m \in Etcd \ forced /\ ~dying

(* The hook of a deleted etcd machine is taken away only after its etcd    *)
(* member has been removed, so that the cluster does not lose quorum by    *)
(* it, except in the cases that the controller names: the removal is       *)
(* forced, the whole cluster is deleted, the machine has no node, or the   *)
(* kubeconfig secret is missing.                                           *)
MemberRemovedFirst ==
    [][\A m \in Machines : machine[m].hook /\ ~machine'[m].hook /\ Orderly(m) /\ machine[m].node
          /\ kubeconfig => m \notin members]_vars

(* When the infrastructure of an etcd machine goes away, no machine that   *)
(* stays is joined to it, unless the removal is forced or the whole        *)
(* cluster is deleted; the kubeconfig secret may be missing.               *)
NobodyLeftBehind ==
    [][\A m, n \in Machines :
          machine[m].life # "gone" /\ machine'[m].life = "gone" /\ Orderly(m)
            /\ machine[n].life = "alive" => secret[n].joined # m]_vars

(* The bounds under which there is one etcd cluster: an etcd machine of    *)
(* the beginning stays, and the node of no other etcd machine than the     *)
(* first init node is deleted by hand.                                     *)
EtcdStays ==
    \A s \in Scenarios : /\ (s.early \cap s.etcd) \ s.removable # {}
                         /\ s.nodes \cap s.etcd \subseteq {Min(s.etcd \cap s.early)}

(* A cluster in which one server may be deleted, and to which no machine   *)
(* is added.                                                               *)
OneServerLeaves ==
    /\ scenario.late = {}
    /\ \A m, n \in scenario.removable \cap (Etcd \cup ControlPlane) : m = n

(* A machine that stays and is started without a server to join is an etcd *)
(* member already: the election does not start a second etcd cluster.      *)
OneEtcdCluster ==
    [][\A m \in Machines : machine[m].life = "alive" /\ secret[m].joined = None
            /\ secret[m].state = "pending" /\ secret'[m].state = "applied" => m \in members]_vars

(* Every machine that is deleted is gone in the end.                       *)
DeletedMachinesGo ==
    <>quiet => <>[](\A m \in Machines : machine[m].life # "deleting")
=============================================================================
