-------------------------- MODULE MembershipProofs --------------------------
(***************************************************************************)
(* Proofs about Membership: the types, that the etcd member of a machine   *)
(* is removed before its hook is, that the election of an init node starts *)
(* no second etcd cluster as long as an etcd machine stays, and that no    *)
(* machine is joined to a server that goes, if it is the only one.         *)
(***************************************************************************)
EXTENDS Membership, TLAPS

(* The etcd members of nodes that are removed are no members any more.     *)
RemovedMembers == \A m \in Machines : SafelyRemoved(m) => m \notin members

(* Machines are not created again; caches and passes know those that stay. *)
MachinesKnown ==
    /\ \A m \in Machines : machineCache[m].node => machine[m].node
    /\ \A m \in Machines : machine[m].life = "absent" => machineCache[m].life = "absent"
    /\ \A m \in Machines : machine[m].life = "alive" => machineCache[m].life \in {"absent", "alive"}
    /\ \A m \in Early : machine[m].life = "alive" =>
          /\ machineCache[m].life = "alive" /\ secret[m].joinURL
          /\ pass # Idle => m \in pass.alive \cap pass.present
    /\ \A m \in Early \ scenario.removable : machine[m].life = "alive"

(* The first init node is the init node until it is deleted.               *)
FirstInitNodeStays ==
    machine[FirstInitNode].life = "alive" =>
        /\ labels = {FirstInitNode}
        /\ secret[FirstInitNode].joined = None /\ secret[FirstInitNode].state = "applied"

(* An etcd machine that can be joined is a member, unless it is removed.   *)
ServersAreMembers ==
    \A m \in Etcd \ {FirstInitNode} :
        /\ machine[m].life \in {"absent", "alive"} => removal[m] = "none"
        /\ removal[m] = "none" /\ (secret[m].joinURL \/ machine[m].node \/ secret[m].state = "applied") =>
              m \in members

(* Only a server is elected.                                               *)
ServersAreElected ==
    \A m \in Machines :
        secret[m].label \/ (secret[m].state = "pending" /\ secret[m].joined = None) =>
            m \in Etcd /\ secret[m].joinURL

OneCluster == MachinesKnown /\ FirstInitNodeStays /\ ServersAreMembers /\ ServersAreElected

EInv == IF dying THEN \A m \in Machines : machine[m].life # "alive" ELSE OneCluster

IInv == TypeOK /\ RemovedMembers

-----------------------------------------------------------------------------
(* The operators.                                                          *)

LEMMA MinMachine ==
    ASSUME NEW S, S \subseteq Machines, S # {}
    PROVE  Min(S) \in S
<1>1. \E m \in S : \A n \in S : m <= n
  BY Zenon, ScenariosAssumption
<1> QED
  BY Zenon, <1>1 DEF Min

LEMMA ScenarioFacts ==
    ASSUME scenario \in Scenarios
    PROVE  /\ Etcd \subseteq Machines /\ ControlPlane \subseteq Machines /\ Early \subseteq Machines
           /\ FirstInitNode \in Etcd \cap Early /\ Early \cap scenario.late = {}
           /\ None \notin Machines
<1>1. /\ Etcd \subseteq Machines /\ ControlPlane \subseteq Machines /\ Early \subseteq Machines
      /\ Etcd \cap Early # {} /\ Early \cap scenario.late = {} /\ None \notin Machines
  BY ScenariosAssumption DEF IsScenario, Etcd, ControlPlane, Early
<1>2. FirstInitNode \in Etcd \cap Early
  BY Zenon, <1>1, MinMachine DEF FirstInitNode
<1> QED
  BY Zenon, <1>1, <1>2

(* A plan is written for a machine that is not settled, with a server that *)
(* determineJoinURL allows.                                                *)
Chosen(m, to) ==
    /\ UpdatePlan(m, to)
    /\ \E i \in labels :
          /\ to \in determineJoinURL(m, i)
          /\ secret[m].state = "none" \/ secret[m].joined \notin determineJoinURL(m, i)

LEMMA PassChoices ==
    ASSUME TypeOK, pass # Idle, InitNodeFound, fullReconcile
    PROVE  \/ EndPass
           \/ UNCHANGED forced /\ \E m \in Machines : \E to \in Machines \cup {None} : Chosen(m, to)
<1> DEFINE i == CHOOSE m \in labels : TRUE
           others == pass.alive \ labels
           tiers == <<labels, others \cap Etcd, others \cap ControlPlane, others \cap OnlyWorkers>>
           late == {k \in 1 .. 4 : \E m \in tiers[k] : ~Settled(m, i)}
           first == Min(late)
           writes == IF late = {} THEN {}
                     ELSE IF first = 1 \/ i \in joinable THEN reconcile(tiers[first], i) ELSE {}
<1>0. /\ pass.alive \subseteq Machines /\ labels \subseteq Machines
      /\ i \in labels /\ None \notin Machines
  <2>1. pass.alive \subseteq Machines /\ labels \subseteq Machines
    BY Zenon DEF TypeOK, labels
  <2>3. None \notin Machines
    BY Zenon, ScenariosAssumption
  <2>2. labels # {}
    BY Zenon DEF InitNodeFound
  <2> QED
    BY Zenon, <2>1, <2>2, <2>3
<1>1. \A k \in 1 .. 4 : tiers[k] \subseteq Machines
  <2>1. tiers[1] \subseteq Machines /\ tiers[2] \subseteq Machines /\ tiers[3] \subseteq Machines
        /\ tiers[4] \subseteq Machines
    BY Zenon, <1>0
  <2>2. 1 .. 4 = {1, 2, 3, 4}
    OBVIOUS
  <2> QED
    BY Zenon, <2>1, <2>2
<1>2. late # {} => first \in 1 .. 4
  <2>1. late \subseteq 1 .. 4
    <3> HIDE DEF i, tiers
    <3> QED
      BY Zenon
  <2> HIDE DEF late
  <2>2. late # {} => \E k \in late : \A n \in late : k <= n
    <3>1. \A k \in late : k = 1 \/ k = 2 \/ k = 3 \/ k = 4
      BY <2>1
    <3>2. CASE 1 \in late
      BY <3>1, <3>2
    <3>3. CASE 1 \notin late /\ 2 \in late
      BY <3>1, <3>3
    <3>4. CASE 1 \notin late /\ 2 \notin late /\ 3 \in late
      BY <3>1, <3>4
    <3>5. CASE 1 \notin late /\ 2 \notin late /\ 3 \notin late
      BY <3>1, <3>5
    <3> QED
      BY Zenon, <3>2, <3>3, <3>4, <3>5
  <2>3. late # {} => first \in late
    BY Zenon, <2>2 DEF Min
  <2> QED
    BY Zenon, <2>1, <2>3
<1>3. CASE writes = {}
  <2>1. EndPass
    BY Zenon, <1>3 DEF fullReconcile
  <2> QED
    BY Zenon, <2>1
<1>4. ASSUME NEW w \in writes, UpdatePlan(w[1], w[2]), UNCHANGED forced
      PROVE  \E m \in Machines : \E to \in Machines \cup {None} : Chosen(m, to)
  <2> DEFINE tier == tiers[first]
  <2>1. tier \subseteq Machines /\ w \in reconcile(tier, i)
    BY Zenon, <1>1, <1>2
  <2> HIDE DEF tier, i
  <2>2. PICK m \in tier : /\ w \in {m} \X determineJoinURL(m, i)
                          /\ secret[m].state = "none" \/ secret[m].joined \notin determineJoinURL(m, i)
    BY Zenon, <2>1 DEF reconcile
  <2>3. w[1] = m /\ w[2] \in determineJoinURL(m, i)
    BY Zenon, <2>2
  <2>4. determineJoinURL(m, i) \subseteq Machines \cup {None}
    BY Zenon, <1>0 DEF determineJoinURL, validJoinURL, calculateJoinURL
  <2>5. Chosen(m, w[2])
    BY Zenon, <1>0, <1>4, <2>2, <2>3 DEF Chosen
  <2> QED
    BY Zenon, <2>1, <2>3, <2>4, <2>5
<1>5. writes = {} \/ ((\E w \in writes : UpdatePlan(w[1], w[2])) /\ UNCHANGED forced)
  BY Zenon DEF fullReconcile
<1> HIDE DEF writes
<1> QED
  BY Zenon, <1>3, <1>4, <1>5

(* A pass of the planner writes plans only of machines, and leaves a       *)
(* machine without a server to join only if it is the init node.           *)
LEMMA PassWrites ==
    ASSUME TypeOK, pass # Idle, InitNodeFound, fullReconcile
    PROVE  \/ EndPass
           \/ /\ UNCHANGED forced
              /\ \E m \in Machines : \E to \in Machines \cup {None} :
                    /\ UpdatePlan(m, to)
                    /\ to = None <=> m \in labels
                    /\ ~(to = None /\ secret[m].joined = None /\ secret[m].state = "applied")
<1>1. ASSUME NEW m \in Machines, NEW to \in Machines \cup {None}, Chosen(m, to)
      PROVE  /\ UpdatePlan(m, to)
             /\ to = None <=> m \in labels
             /\ ~(to = None /\ secret[m].joined = None /\ secret[m].state = "applied")
  <2>0. PICK i \in labels :
          /\ to \in determineJoinURL(m, i)
          /\ secret[m].state = "none" \/ secret[m].joined \notin determineJoinURL(m, i)
    BY Zenon, <1>1 DEF Chosen
  <2>1. pass.alive \subseteq Machines /\ i \in Machines /\ None \notin Machines
    BY Zenon, ScenariosAssumption DEF TypeOK, labels
  <2>2. CASE m \in labels
    <3>1. determineJoinURL(m, i) = {None}
      BY Zenon, <2>2 DEF determineJoinURL
    <3> QED
      BY Zenon, <1>1, <2>0, <2>2, <3>1 DEF Chosen
  <2>3. CASE m \notin labels
    <3>1. determineJoinURL(m, i) \subseteq Machines
      BY Zenon, <2>1, <2>3 DEF determineJoinURL, validJoinURL, calculateJoinURL
    <3> QED
      BY Zenon, <1>1, <2>0, <2>1, <2>3, <3>1 DEF Chosen
  <2> QED
    BY Zenon, <2>2, <2>3
<1> QED
  BY Zenon, <1>1, PassChoices

-----------------------------------------------------------------------------
(* What an update of an object leaves alone.                               *)

LEMMA SetHook ==
    ASSUME machine \in [Machines -> MachineType], NEW m \in Machines, NEW v \in BOOLEAN,
           machine' = [machine EXCEPT ![m].hook = v]
    PROVE  /\ machine' \in [Machines -> MachineType]
           /\ machine'[m].hook = v /\ machine'[m].life = machine[m].life /\ machine'[m].node = machine[m].node
           /\ \A n \in Machines \ {m} : machine'[n] = machine[n]
<1> DEFINE r == [machine[m] EXCEPT !.hook = v]
<1>1. /\ r \in MachineType /\ r.hook = v
      /\ r.life = machine[m].life /\ r.node = machine[m].node
  BY Zenon DEF MachineType
<1>2. machine' = [machine EXCEPT ![m] = r]
  BY Zenon
<1> HIDE DEF r
<1> QED
  BY Zenon, <1>1, <1>2

LEMMA SetLife ==
    ASSUME machine \in [Machines -> MachineType], NEW m \in Machines, NEW v \in {"absent", "alive", "deleting", "gone"},
           machine' = [machine EXCEPT ![m].life = v]
    PROVE  /\ machine' \in [Machines -> MachineType]
           /\ machine'[m].life = v /\ machine'[m].node = machine[m].node /\ machine'[m].hook = machine[m].hook
           /\ \A n \in Machines \ {m} : machine'[n] = machine[n]
<1> DEFINE r == [machine[m] EXCEPT !.life = v]
<1>1. /\ r \in MachineType /\ r.life = v
      /\ r.node = machine[m].node /\ r.hook = machine[m].hook
  BY Zenon DEF MachineType
<1>2. machine' = [machine EXCEPT ![m] = r]
  BY Zenon
<1> HIDE DEF r
<1> QED
  BY Zenon, <1>1, <1>2

LEMMA SetNode ==
    ASSUME machine \in [Machines -> MachineType], NEW m \in Machines, NEW v \in BOOLEAN,
           machine' = [machine EXCEPT ![m].node = v]
    PROVE  /\ machine' \in [Machines -> MachineType]
           /\ machine'[m].node = v /\ machine'[m].life = machine[m].life /\ machine'[m].hook = machine[m].hook
           /\ \A n \in Machines \ {m} : machine'[n] = machine[n]
<1> DEFINE r == [machine[m] EXCEPT !.node = v]
<1>1. /\ r \in MachineType /\ r.node = v
      /\ r.life = machine[m].life /\ r.hook = machine[m].hook
  BY Zenon DEF MachineType
<1>2. machine' = [machine EXCEPT ![m] = r]
  BY Zenon
<1> HIDE DEF r
<1> QED
  BY Zenon, <1>1, <1>2

LEMMA SetJoinURL ==
    ASSUME secret \in [Machines -> SecretType], NEW m \in Machines, NEW v \in BOOLEAN,
           secret' = [secret EXCEPT ![m].joinURL = v]
    PROVE  /\ secret' \in [Machines -> SecretType]
           /\ secret'[m].joinURL = v /\ secret'[m].label = secret[m].label /\ secret'[m].joined = secret[m].joined /\ secret'[m].state = secret[m].state
           /\ \A n \in Machines \ {m} : secret'[n] = secret[n]
<1> DEFINE r == [secret[m] EXCEPT !.joinURL = v]
<1>1. /\ r \in SecretType /\ r.joinURL = v
      /\ r.label = secret[m].label /\ r.joined = secret[m].joined /\ r.state = secret[m].state
  BY Zenon DEF SecretType
<1>2. secret' = [secret EXCEPT ![m] = r]
  BY Zenon
<1> HIDE DEF r
<1> QED
  BY Zenon, <1>1, <1>2

LEMMA SetState ==
    ASSUME secret \in [Machines -> SecretType], NEW m \in Machines, NEW v \in {"none", "pending", "applied"},
           secret' = [secret EXCEPT ![m].state = v]
    PROVE  /\ secret' \in [Machines -> SecretType]
           /\ secret'[m].state = v /\ secret'[m].label = secret[m].label /\ secret'[m].joinURL = secret[m].joinURL /\ secret'[m].joined = secret[m].joined
           /\ \A n \in Machines \ {m} : secret'[n] = secret[n]
<1> DEFINE r == [secret[m] EXCEPT !.state = v]
<1>1. /\ r \in SecretType /\ r.state = v
      /\ r.label = secret[m].label /\ r.joinURL = secret[m].joinURL /\ r.joined = secret[m].joined
  BY Zenon DEF SecretType
<1>2. secret' = [secret EXCEPT ![m] = r]
  BY Zenon
<1> HIDE DEF r
<1> QED
  BY Zenon, <1>1, <1>2

LEMMA SetPlan ==
    ASSUME TypeOK, NEW m \in Machines, NEW to \in Machines \cup {None}, UpdatePlan(m, to)
    PROVE  /\ secret' \in [Machines -> SecretType] /\ pass' \in {pass, Idle}
           /\ secret'[m].label = secret[m].label /\ secret'[m].joinURL = secret[m].joinURL
           /\ \/ m \in Running /\ secret'[m].joined = to /\ secret'[m].state = "pending"
              \/ UNCHANGED secret
           /\ \A n \in Machines \ {m} : secret'[n] = secret[n]
<1> DEFINE r == [secret[m] EXCEPT !.joined = to, !.state = "pending"]
<1>0. secret \in [Machines -> SecretType]
  BY Zenon DEF TypeOK
<1>1. /\ r \in SecretType /\ r.joined = to /\ r.state = "pending"
      /\ r.label = secret[m].label /\ r.joinURL = secret[m].joinURL
  BY Zenon, <1>0 DEF SecretType
<1>2. /\ pass' \in {pass, Idle}
      /\ UNCHANGED secret \/ (m \in Running /\ secret' = [secret EXCEPT ![m] = r])
  BY Zenon DEF UpdatePlan
<1> HIDE DEF r
<1> QED
  BY Zenon, <1>0, <1>1, <1>2

LEMMA SetLabels ==
    ASSUME TypeOK, electInitNode
    PROVE  /\ secret' \in [Machines -> SecretType]
           /\ \A m \in Machines :
                 /\ secret'[m].label => m \in Running /\ labels = {} /\ m = Min(suitable)
                 /\ secret'[m].joinURL = secret[m].joinURL
                 /\ secret'[m].joined = secret[m].joined /\ secret'[m].state = secret[m].state
<1> DEFINE Elected(m) == m \in Running /\ labels = {} /\ m = Min(suitable)
           r(m) == [secret[m] EXCEPT !.label = Elected(m)]
<1>0. secret \in [Machines -> SecretType]
  BY Zenon DEF TypeOK
<1>1. ASSUME NEW m \in Machines
      PROVE  /\ r(m) \in SecretType /\ r(m).label = Elected(m)
             /\ r(m).joinURL = secret[m].joinURL
             /\ r(m).joined = secret[m].joined /\ r(m).state = secret[m].state
  <2>1. Elected(m) \in BOOLEAN
    BY Zenon
  <2> HIDE DEF Elected
  <2> QED
    BY Zenon, <1>0, <2>1 DEF SecretType
<1>2. secret' = [m \in Machines |-> r(m)]
  BY Zenon DEF electInitNode
<1>3. \A m \in Machines : secret'[m] = r(m)
  <2> HIDE DEF r
  <2> QED
    BY Zenon, <1>2
<1>4. secret' \in [Machines -> SecretType]
  <2> HIDE DEF r
  <2> QED
    BY Zenon, <1>1, <1>2
<1> HIDE DEF r
<1> QED
  BY Zenon, <1>1, <1>3, <1>4

-----------------------------------------------------------------------------
(* Types, and that who is removed is no member.                            *)

LEMMA InitIInv == Init => IInv
<1> SUFFICES ASSUME Init
             PROVE  IInv
  BY Zenon
<1>1. scenario \in Scenarios
  BY Zenon DEF Init
<1>2. /\ Etcd \subseteq Machines /\ None \notin Machines
  BY Zenon, <1>1, ScenarioFacts
<1>3. machine \in [Machines -> MachineType]
  BY DEF Init, MachineType
<1>4. secret \in [Machines -> SecretType]
  BY DEF Init, SecretType, NoSecret
<1>5. /\ machineCache = machine /\ secretCache = secret /\ pass = Idle /\ forced = {}
      /\ dying = FALSE /\ kubeconfig = TRUE /\ quiet = FALSE /\ removal = [m \in Machines |-> "none"]
      /\ members = Etcd \cap Early
  BY Zenon DEF Init
<1> QED
  BY Zenon, <1>1, <1>2, <1>3, <1>4, <1>5 DEF IInv, TypeOK, RemovedMembers, SafelyRemoved

(* What a reconciliation of the hook changes.                              *)
LEMMA HookUpdates ==
    ASSUME TypeOK, NEW m \in Machines, reconcileMachinePreTerminateAnnotation(m)
    PROVE  /\ UNCHANGED <<scenario, machineCache, secret, secretCache, pass, forced, dying,
                          kubeconfig, members, quiet>>
           /\ \/ UNCHANGED <<machine, removal>>
              \/ /\ machine' = [machine EXCEPT ![m].hook = TRUE] /\ UNCHANGED removal
                 /\ machine[m].life = "alive"
              \/ /\ machine' = [machine EXCEPT ![m].hook = FALSE] /\ UNCHANGED removal
                 /\ machineCache[m] = machine[m]
                 /\ \/ m \notin Etcd \/ m \in forced \/ dying \/ ~machine[m].node
                    \/ (~kubeconfig \/ SafelyRemoved(m)) /\ ~stillJoined(m)
              \/ /\ removal' = [removal EXCEPT ![m] = IF @ = "none" THEN "asked" ELSE @]
                 /\ machineCache[m].life = "deleting" /\ UNCHANGED machine
  BY Zenon DEF reconcileMachinePreTerminateAnnotation, PreTerminateFrame, UpdateHook, AskRemoval,
         ensureMachinePreTerminateAnnotationRemoved

LEMMA HookIInv ==
    ASSUME IInv, NEW m \in Machines, reconcileMachinePreTerminateAnnotation(m)
    PROVE  IInv'
<1>0. TypeOK
  BY Zenon DEF IInv
<1>1. /\ UNCHANGED <<scenario, machineCache, secret, secretCache, pass, forced, dying, kubeconfig,
                  members, quiet>>
  BY Zenon, <1>0, HookUpdates
<1>2. machine' \in [Machines -> MachineType]
  BY Zenon, <1>0, HookUpdates, SetHook DEF TypeOK
<1>3. /\ removal' \in [Machines -> {"none", "asked", "done", "no node"}]
      /\ \A n \in Machines : removal'[n] \in {"done", "no node"} => removal[n] = removal'[n]
  BY Zenon, <1>0, HookUpdates DEF TypeOK
<1> QED
  BY Zenon, <1>1, <1>2, <1>3 DEF IInv, TypeOK, RemovedMembers, SafelyRemoved, Etcd

(* What the planner changes.                                               *)
Planned ==
    /\ UNCHANGED <<scenario, machine, machineCache, secretCache, dying, kubeconfig, removal, members, quiet>>
    /\ secret' \in [Machines -> SecretType]
    /\ pass' \in [alive : SUBSET Machines, present : SUBSET Machines] \cup {Idle}
    /\ forced' \subseteq Etcd /\ forced \subseteq forced'

LEMMA LoadPlans ==
    ASSUME TypeOK, Load
    PROVE  Planned
<1>1. CASE /\ UNCHANGED secret
           /\ pass' = [present |-> CachedPresent,
                       alive |-> {m \in CachedPresent : machineCache[m].life = "alive"}]
  <2>1. pass' \in [alive : SUBSET Machines, present : SUBSET Machines]
    BY Zenon, <1>1 DEF CachedPresent
  <2> QED
    BY Zenon, <1>1, <2>1 DEF TypeOK, Load, Planned, PlannerFrame, Etcd
<1>2. ASSUME NEW m \in Machines, secret' = [secret EXCEPT ![m].joinURL = m \in Running],
             UNCHANGED pass
      PROVE  Planned
  <2>1. (m \in Running) \in BOOLEAN
    OBVIOUS
  <2>2. secret' \in [Machines -> SecretType]
    BY Zenon, <1>2, <2>1, SetJoinURL DEF TypeOK
  <2> QED
    BY Zenon, <1>2, <2>2 DEF TypeOK, Load, Planned, PlannerFrame, Etcd
<1> QED
  BY Zenon, <1>1, <1>2 DEF Load, CachedPresent

LEMMA ProcessPlans ==
    ASSUME TypeOK, Process
    PROVE  Planned
<1>1. CASE forceDeleteAllDeletingEtcdMachines
  BY Zenon, <1>1 DEF TypeOK, Process, Planned, PlannerFrame, forceDeleteAllDeletingEtcdMachines, Etcd
<1>2. CASE EndPass
  BY Zenon, <1>2 DEF TypeOK, Process, Planned, PlannerFrame, EndPass, Etcd
<1>3. CASE electInitNode
  <2>1. secret' \in [Machines -> SecretType]
    BY Zenon, <1>3, SetLabels
  <2> QED
    BY Zenon, <1>3, <2>1 DEF TypeOK, Process, Planned, PlannerFrame, electInitNode, Etcd
<1>4. CASE InitNodeFound /\ fullReconcile
  <2>1. \/ EndPass
        \/ UNCHANGED forced /\ \E m \in Machines : \E to \in Machines \cup {None} : UpdatePlan(m, to)
    BY Zenon, <1>4, PassWrites DEF Process
  <2>2. CASE /\ UNCHANGED forced
             /\ \E m \in Machines : \E to \in Machines \cup {None} : UpdatePlan(m, to)
    <3>1. secret' \in [Machines -> SecretType] /\ pass' \in {pass, Idle}
      BY Zenon, <2>2, SetPlan
    <3> QED
      BY Zenon, <2>2, <3>1 DEF TypeOK, Process, Planned, PlannerFrame
  <2> QED
    BY Zenon, <1>2, <2>1, <2>2
<1> QED
  BY Zenon, <1>1, <1>2, <1>3, <1>4 DEF Process

LEMMA NextIInv == IInv /\ [Next]_vars => IInv'
<1> SUFFICES ASSUME IInv, [Next]_vars
             PROVE  IInv'
  BY Zenon
<1> USE DEF IInv, RemovedMembers, SafelyRemoved, Etcd
<1>0. TypeOK
  BY Zenon
<1>1. CASE Load \/ Process
  <2>1. Planned
    BY Zenon, <1>1, LoadPlans, ProcessPlans
  <2> QED
    BY Zenon, <2>1 DEF Planned, TypeOK
<1>2. CASE SyncMachines \/ SyncSecrets \/ ChangeKubeconfig \/ Quieten
  BY Zenon, <1>2 DEF SyncMachines, SyncSecrets, ChangeKubeconfig, Quieten, TypeOK
<1>3. ASSUME NEW m \in Machines, reconcileMachinePreTerminateAnnotation(m)
      PROVE  IInv'
  BY Zenon, <1>3, HookIInv
<1>4. ASSUME NEW m \in Machines, Run(m)
      PROVE  IInv'
  <2>1. secret' \in [Machines -> SecretType]
    BY Zenon, <1>4, SetState DEF TypeOK, Run
  <2> QED
    BY Zenon, <1>4, <2>1 DEF TypeOK, Run
<1>5. ASSUME NEW m \in Machines, NodeRef(m) \/ Arrive(m) \/ Delete(m)
      PROVE  IInv'
  <2>1. machine' \in [Machines -> MachineType]
    BY Zenon, <1>5, SetNode, SetLife DEF TypeOK, NodeRef, Arrive, Delete
  <2> QED
    BY Zenon, <1>5, <2>1 DEF TypeOK, NodeRef, Arrive, Delete
<1>6. ASSUME NEW m \in Machines, RemoveMember(m) \/ DeleteNode(m)
      PROVE  IInv'
  BY Zenon, <1>6 DEF TypeOK, RemoveMember, DeleteNode
<1>7. ASSUME NEW m \in Machines, Teardown(m)
      PROVE  IInv'
  <2>1. machine' \in [Machines -> MachineType]
    BY Zenon, <1>7, SetLife DEF TypeOK, Teardown
  <2>2. secret' \in [Machines -> SecretType]
    BY Zenon, <1>7 DEF TypeOK, Teardown, SecretType, NoSecret
  <2> QED
    BY Zenon, <1>7, <2>1, <2>2 DEF TypeOK, Teardown
<1>8. CASE DeleteCluster
  <2>0. ASSUME NEW m \in Machines
        PROVE  [machine[m] EXCEPT !.life = "deleting"] \in MachineType
    <3>1. machine[m] \in MachineType
      BY Zenon DEF TypeOK
    <3> QED
      BY Zenon, <3>1 DEF MachineType
  <2>1. machine' \in [Machines -> MachineType]
    <3> DEFINE r(m) == [machine[m] EXCEPT !.life = "deleting"]
    <3>1. machine' = [m \in Machines |-> IF machine[m].life = "alive" THEN r(m) ELSE machine[m]]
      BY Zenon, <1>8 DEF DeleteCluster
    <3>2. \A m \in Machines : r(m) \in MachineType
      BY Zenon, <2>0
    <3> HIDE DEF r
    <3> QED
      BY Zenon, <3>1, <3>2 DEF TypeOK
  <2> QED
    BY Zenon, <1>8, <2>1 DEF TypeOK, DeleteCluster
<1>9. CASE UNCHANGED vars
  BY Zenon, <1>9 DEF vars, TypeOK
<1> QED
  BY Zenon, <1>1, <1>2, <1>3, <1>4, <1>5, <1>6, <1>7, <1>8, <1>9 DEF Next

(* Every variable of the membership stays in its domain.                   *)
THEOREM TypeCorrect == Spec => []TypeOK
<1>1. IInv => TypeOK
  BY Zenon DEF IInv
<1> QED
  BY InitIInv, NextIInv, <1>1, PTL DEF Spec

(* reconcileMachinePreTerminateAnnotation takes the hook of a deleted etcd *)
(* machine away only after its member is removed, in every cluster and     *)
(* however far the caches are behind, as long as the removal is not        *)
(* forced, the cluster is not deleted, the machine has a node and there is *)
(* a kubeconfig secret to reach the cluster with.                          *)
THEOREM MembersAreRemovedFirst == Spec => MemberRemovedFirst
<1> DEFINE Removed == \A m \in Machines :
              machine[m].hook /\ ~machine'[m].hook /\ Orderly(m) /\ machine[m].node
                /\ kubeconfig => m \notin members
<1>1. IInv /\ [Next]_vars => [Removed]_vars
  <2> SUFFICES ASSUME IInv, [Next]_vars, NEW m \in Machines,
                      machine[m].hook, ~machine'[m].hook, Orderly(m), machine[m].node,
                      kubeconfig
               PROVE  m \notin members
    BY Zenon
  <2>0. TypeOK
    BY Zenon DEF IInv
  <2>1. ASSUME NEW n \in Machines, reconcileMachinePreTerminateAnnotation(n)
        PROVE  m \notin members
    <3>1. m = n /\ (m \notin Etcd \/ m \in forced \/ dying \/ ~machine[m].node \/ SafelyRemoved(m))
      BY ZenonT(60), <2>0, <2>1, HookUpdates, SetHook DEF TypeOK
    <3> QED
      BY Zenon, <3>1 DEF IInv, RemovedMembers, Orderly
  <2>2. CASE Load \/ Process \/ SyncMachines \/ SyncSecrets \/ ChangeKubeconfig \/ Quieten \/ UNCHANGED vars
    BY Zenon, <2>2 DEF Load, Process, PlannerFrame, SyncMachines, SyncSecrets, ChangeKubeconfig, Quieten, vars
  <2>3. ASSUME NEW n \in Machines,
               Run(n) \/ NodeRef(n) \/ RemoveMember(n) \/ DeleteNode(n) \/ Teardown(n) \/ Arrive(n)
                 \/ Delete(n)
        PROVE  FALSE
    BY ZenonT(60), <2>0, <2>3 DEF TypeOK, MachineType, Run, NodeRef, RemoveMember, DeleteNode, Teardown,
       Arrive, Delete
  <2>4. CASE DeleteCluster
    BY Zenon, <2>0, <2>4 DEF TypeOK, MachineType, DeleteCluster
  <2> QED
    BY Zenon, <2>1, <2>2, <2>3, <2>4 DEF Next
<1>2. Spec => []IInv
  BY InitIInv, NextIInv, PTL DEF Spec
<1> QED
  BY <1>1, <1>2, PTL DEF Spec, MemberRemovedFirst

-----------------------------------------------------------------------------
(* One etcd cluster.                                                       *)

LEMMA InitEInv ==
    ASSUME Init
    PROVE  EInv
<1>0. /\ Early \subseteq Machines /\ Etcd \subseteq Machines /\ FirstInitNode \in Etcd \cap Early
  BY Zenon, ScenarioFacts DEF Init
<1>1. /\ machineCache = machine /\ pass = Idle /\ dying = FALSE
      /\ removal = [m \in Machines |-> "none"] /\ members = Etcd \cap Early
  BY Zenon DEF Init
<1>2. \A m \in Machines : /\ machine[m].life = (IF m \in Early THEN "alive" ELSE "absent")
                          /\ machine[m].node = (m \in Early)
  BY Zenon DEF Init
<1>3. \A m \in Machines : IF m \in Early
                          THEN /\ secret[m].label = (m = FirstInitNode) /\ secret[m].joinURL = TRUE
                               /\ secret[m].state = "applied"
                          ELSE /\ secret[m].label = FALSE /\ secret[m].joinURL = FALSE
                               /\ secret[m].state = "none"
  BY DEF Init, NoSecret
<1>4. secret[FirstInitNode].joined = None
  BY <1>0 DEF Init, FirstServer
<1>5. labels = {FirstInitNode}
  BY Zenon, <1>0, <1>3 DEF labels
<1>6. MachinesKnown
  BY Zenon, <1>0, <1>1, <1>2, <1>3 DEF MachinesKnown
<1>7. FirstInitNodeStays
  BY Zenon, <1>0, <1>3, <1>4, <1>5 DEF FirstInitNodeStays
<1>8. ServersAreMembers
  BY Zenon, <1>0, <1>1, <1>2, <1>3 DEF ServersAreMembers
<1>9. ServersAreElected
  BY Zenon, <1>0, <1>3 DEF ServersAreElected
<1> QED
  BY Zenon, <1>1, <1>6, <1>7, <1>8, <1>9 DEF EInv, OneCluster

(* The roles and the first init node do not change.                        *)
LEMMA SameScenario ==
    ASSUME UNCHANGED scenario
    PROVE  Etcd' = Etcd /\ Early' = Early /\ FirstInitNode' = FirstInitNode
  BY Zenon DEF Etcd, Early, FirstInitNode

(* Steps that change no plan secret.                                       *)
LEMMA SameSecretsOneCluster ==
    ASSUME IInv, OneCluster, UNCHANGED <<scenario, secret>>,
           MachinesKnown', ServersAreMembers',
           machine'[FirstInitNode].life = "alive" => machine[FirstInitNode].life = "alive"
    PROVE  OneCluster'
<1>1. FirstInitNodeStays'
  BY SameScenario DEF OneCluster, FirstInitNodeStays, labels
<1>2. ServersAreElected'
  BY Zenon, SameScenario DEF OneCluster, ServersAreElected
<1> QED
  BY Zenon, <1>1, <1>2 DEF OneCluster

LEMMA LoadOneCluster ==
    ASSUME IInv, OneCluster, Load
    PROVE  OneCluster'
<1>0. /\ UNCHANGED <<scenario, machine, machineCache, removal, members>> /\ TypeOK /\ pass = Idle
  BY Zenon DEF Load, PlannerFrame, IInv
<1>1. CASE /\ UNCHANGED secret
           /\ pass' = [present |-> CachedPresent,
                       alive |-> {m \in CachedPresent : machineCache[m].life = "alive"}]
  <2>1. Early \subseteq Machines
    BY Zenon, <1>0, ScenarioFacts DEF TypeOK
  <2>2. MachinesKnown'
    BY Zenon, <1>0, <1>1, <2>1, SameScenario DEF OneCluster, MachinesKnown, CachedPresent
  <2>3. ServersAreMembers'
    BY Zenon, <1>0, <1>1, SameScenario DEF OneCluster, ServersAreMembers
  <2> QED
    BY Zenon, <1>0, <1>1, <2>2, <2>3, SameSecretsOneCluster
<1>2. ASSUME NEW m \in CachedPresent \ joinable, addressed(m),
             secret' = [secret EXCEPT ![m].joinURL = m \in Running], UNCHANGED pass
      PROVE  OneCluster'
  <2>0. m \in Machines /\ ~secret[m].joinURL /\ (m \in Running) \in BOOLEAN
    BY <1>2 DEF CachedPresent, joinable
  <2>1. /\ secret'[m].label = secret[m].label /\ secret'[m].joined = secret[m].joined
        /\ secret'[m].state = secret[m].state
        /\ \A n \in Machines \ {m} : secret'[n] = secret[n]
    BY Zenon, <1>0, <1>2, <2>0, SetJoinURL DEF TypeOK
  <2>2. MachinesKnown'
    BY Zenon, <1>0, <1>2, <2>0, <2>1, ScenarioFacts, SameScenario DEF OneCluster, MachinesKnown, TypeOK
  <2>3. FirstInitNodeStays'
    <3>1. labels' = labels /\ FirstInitNode \in Machines
      BY Zenon, <1>0, <2>1, ScenarioFacts DEF labels, TypeOK
    <3> QED
      BY Zenon, <1>0, <2>1, <3>1, SameScenario DEF OneCluster, FirstInitNodeStays
  <2>4. ServersAreMembers'
    <3>1. Etcd \subseteq Machines
      BY Zenon, <1>0, ScenarioFacts DEF TypeOK
    <3>2. secret[m].state = "applied" \/ machine[m].node
      BY Zenon, <1>2, <2>0 DEF addressed, OneCluster, MachinesKnown
    <3>3. m \in Etcd \ {FirstInitNode} /\ removal[m] = "none" => m \in members
      BY Zenon, <3>2 DEF OneCluster, ServersAreMembers
    <3> QED
      BY Zenon, <1>0, <2>1, <3>1, <3>3, SameScenario DEF OneCluster, ServersAreMembers
  <2>5. ServersAreElected'
    BY Zenon, <1>0, <2>0, <2>1, SameScenario DEF OneCluster, ServersAreElected
  <2> QED
    BY Zenon, <2>2, <2>3, <2>4, <2>5 DEF OneCluster
<1> QED
  BY Zenon, <1>1, <1>2 DEF Load

(* The election takes a server.                                            *)
LEMMA ElectionOneCluster ==
    ASSUME EtcdStays, IInv, OneCluster, Process, ~InitNodeFound, electInitNode
    PROVE  OneCluster'
<1>0. /\ UNCHANGED <<scenario, machine, machineCache, removal, members>> /\ TypeOK
      /\ pass # Idle /\ pass' = Idle
  BY Zenon DEF Process, PlannerFrame, IInv, electInitNode
<1>1. /\ Early \subseteq Machines /\ Etcd \subseteq Machines /\ FirstInitNode \in Etcd \cap Early
  BY Zenon, <1>0, ScenarioFacts DEF TypeOK
<1>2. machine[FirstInitNode].life # "alive"
  <2> SUFFICES ASSUME machine[FirstInitNode].life = "alive"
               PROVE  InitNodeFound
    BY Zenon
  <2>1. /\ labels = {FirstInitNode} /\ FirstInitNode \in pass.alive \cap pass.present
        /\ FirstInitNode \in joinable
    BY Zenon, <1>0, <1>1 DEF OneCluster, FirstInitNodeStays, MachinesKnown, joinable
  <2>2. labels \cap pass.present = {FirstInitNode}
    BY Zenon, <2>1
  <2>3. Single({FirstInitNode})
    BY Zenon DEF Single
  <2> QED
    BY Zenon, <1>1, <2>1, <2>2, <2>3 DEF InitNodeFound, canBeInitNode
<1>3. /\ suitable \subseteq Etcd \cap joinable /\ suitable # {}
  <2>1. PICK e \in Early \cap Etcd : e \notin scenario.removable
    BY Zenon, <1>0 DEF EtcdStays, TypeOK, Early, Etcd
  <2>2. e \in canBeInitNode \cap joinable
    BY Zenon, <1>0, <1>1, <2>1 DEF OneCluster, MachinesKnown, canBeInitNode, joinable
  <2> QED
    BY Zenon, <2>2 DEF suitable, canBeInitNode
<1>4. Min(suitable) \in suitable
  BY Zenon, <1>1, <1>3, MinMachine
<1>5. \A m \in Machines :
        /\ secret'[m].label => m \in Etcd /\ secret[m].joinURL
        /\ secret'[m].joinURL = secret[m].joinURL
        /\ secret'[m].joined = secret[m].joined /\ secret'[m].state = secret[m].state
  BY Zenon, <1>0, <1>3, <1>4, SetLabels DEF joinable
<1>6. MachinesKnown'
  BY Zenon, <1>0, <1>1, <1>5, SameScenario DEF OneCluster, MachinesKnown
<1>7. FirstInitNodeStays'
  BY Zenon, <1>0, <1>2, SameScenario DEF FirstInitNodeStays
<1>8. ServersAreMembers'
  BY Zenon, <1>0, <1>1, <1>5, SameScenario DEF OneCluster, ServersAreMembers
<1>9. ServersAreElected'
  BY Zenon, <1>0, <1>5, SameScenario DEF OneCluster, ServersAreElected
<1> QED
  BY Zenon, <1>6, <1>7, <1>8, <1>9 DEF OneCluster

LEMMA ReconcileOneCluster ==
    ASSUME IInv, OneCluster, Process, InitNodeFound, fullReconcile, ~EndPass
    PROVE  OneCluster'
<1>0. /\ UNCHANGED <<scenario, machine, machineCache, removal, members>> /\ TypeOK /\ pass # Idle
  BY Zenon DEF Process, PlannerFrame, IInv
<1>1. /\ Early \subseteq Machines /\ Etcd \subseteq Machines /\ FirstInitNode \in Etcd \cap Early
  BY Zenon, <1>0, ScenarioFacts DEF TypeOK
<1>2. PICK m \in Machines : \E to \in Machines \cup {None} :
         /\ UpdatePlan(m, to)
         /\ to = None <=> m \in labels
         /\ ~(to = None /\ secret[m].joined = None /\ secret[m].state = "applied")
  BY Zenon, <1>0, PassWrites
<1>3. PICK to \in Machines \cup {None} :
         /\ UpdatePlan(m, to)
         /\ to = None <=> m \in labels
         /\ ~(to = None /\ secret[m].joined = None /\ secret[m].state = "applied")
  BY Zenon, <1>2
<1>4. /\ secret'[m].label = secret[m].label /\ secret'[m].joinURL = secret[m].joinURL
      /\ (secret'[m].joined = to /\ secret'[m].state = "pending") \/ UNCHANGED secret
      /\ \A n \in Machines \ {m} : secret'[n] = secret[n]
      /\ pass' \in {pass, Idle}
  BY Zenon, <1>0, <1>3, SetPlan
<1>5. MachinesKnown'
  BY Zenon, <1>0, <1>1, <1>4, SameScenario DEF OneCluster, MachinesKnown
<1>6. FirstInitNodeStays'
  <2>1. labels' = labels
    BY Zenon, <1>4 DEF labels
  <2>2. machine[FirstInitNode].life = "alive" => m # FirstInitNode
    BY Zenon, <1>3 DEF OneCluster, FirstInitNodeStays
  <2> QED
    BY Zenon, <1>0, <1>1, <1>4, <2>1, <2>2, SameScenario DEF OneCluster, FirstInitNodeStays
<1>7. ServersAreMembers'
  <2>1. \A n \in Machines : /\ secret'[n].joinURL = secret[n].joinURL
                            /\ secret'[n].state = "applied" => secret[n].state = "applied"
    BY Zenon, <1>4
  <2> QED
    BY Zenon, <1>0, <1>1, <2>1, SameScenario DEF OneCluster, ServersAreMembers
<1>8. ServersAreElected'
  <2>1. m \in labels <=> secret[m].label
    BY Zenon DEF labels
  <2> QED
    BY Zenon, <1>0, <1>3, <1>4, <2>1, SameScenario DEF OneCluster, ServersAreElected
<1> QED
  BY Zenon, <1>5, <1>6, <1>7, <1>8 DEF OneCluster

LEMMA ProcessOneCluster ==
    ASSUME EtcdStays, IInv, OneCluster, Process
    PROVE  OneCluster'
<1>0. /\ UNCHANGED <<scenario, machine, machineCache, removal, members>> /\ TypeOK
  BY Zenon DEF Process, PlannerFrame, IInv
<1>1. CASE EndPass \/ forceDeleteAllDeletingEtcdMachines
  <2>1. pass' = Idle /\ UNCHANGED secret
    BY Zenon, <1>1 DEF EndPass, forceDeleteAllDeletingEtcdMachines
  <2>2. MachinesKnown'
    BY Zenon, <1>0, <2>1, SameScenario DEF OneCluster, MachinesKnown
  <2>3. ServersAreMembers'
    BY Zenon, <1>0, <2>1, SameScenario DEF OneCluster, ServersAreMembers
  <2> QED
    BY Zenon, <1>0, <2>1, <2>2, <2>3, SameSecretsOneCluster
<1> QED
  BY Zenon, <1>1, ElectionOneCluster, ReconcileOneCluster DEF Process

(* The machines and their nodes.                                           *)
LEMMA MachineOneCluster ==
    ASSUME EtcdStays, IInv, OneCluster, NEW m \in Machines, ~dying,
           \/ reconcileMachinePreTerminateAnnotation(m) \/ NodeRef(m) \/ RemoveMember(m)
           \/ DeleteNode(m) \/ Arrive(m) \/ Delete(m)
    PROVE  OneCluster'
<1>0. TypeOK
  BY Zenon DEF IInv
<1>1. /\ Early \subseteq Machines /\ Etcd \subseteq Machines /\ FirstInitNode \in Etcd \cap Early
      /\ Early \cap scenario.late = {}
  BY Zenon, <1>0, ScenarioFacts DEF TypeOK
<1>2. CASE reconcileMachinePreTerminateAnnotation(m)
  <2>1. /\ UNCHANGED <<scenario, machineCache, secret, pass, members>>
        /\ \A n \in Machines : machine'[n].life = machine[n].life /\ machine'[n].node = machine[n].node
    BY <1>0, <1>2, HookUpdates, SetHook DEF TypeOK
  <2>2. \A n \in Machines : /\ removal'[n] = "none" => removal[n] = "none"
                            /\ removal'[n] # removal[n] => machineCache[n].life = "deleting"
    BY ZenonT(60), <1>0, <1>2, HookUpdates DEF TypeOK
  <2>3. MachinesKnown'
    BY <1>1, <2>1, SameScenario DEF OneCluster, MachinesKnown
  <2>4. ServersAreMembers'
    <3>1. \A n \in Machines : machine[n].life \in {"absent", "alive"} => removal'[n] = removal[n]
      BY Zenon, <2>2 DEF OneCluster, MachinesKnown
    <3> QED
      BY Zenon, <1>1, <2>1, <2>2, <3>1, SameScenario DEF OneCluster, ServersAreMembers
  <2> QED
    BY Zenon, <1>1, <2>1, <2>3, <2>4, SameSecretsOneCluster
<1>3. CASE NodeRef(m)
  <2>1. /\ UNCHANGED <<scenario, machineCache, secret, pass, removal, members>>
        /\ secret[m].state = "applied"
    BY Zenon, <1>3 DEF NodeRef
  <2>2. /\ \A n \in Machines : machine'[n].life = machine[n].life
        /\ \A n \in Machines \ {m} : machine'[n] = machine[n]
        /\ machine'[m].node = TRUE
    BY ZenonT(60), <1>0, <1>3, SetNode DEF TypeOK, NodeRef
  <2>3. MachinesKnown'
    BY <1>1, <2>1, <2>2, SameScenario DEF OneCluster, MachinesKnown
  <2>4. ServersAreMembers'
    BY Zenon, <1>1, <2>1, <2>2, SameScenario DEF OneCluster, ServersAreMembers
  <2> QED
    BY Zenon, <1>1, <2>1, <2>2, <2>3, <2>4, SameSecretsOneCluster
<1>4. CASE RemoveMember(m) \/ DeleteNode(m)
  <2>1. /\ UNCHANGED <<scenario, machine, machineCache, secret, pass>>
        /\ members' = members \ {m} /\ \A n \in Machines \ {m} : removal'[n] = removal[n]
        /\ removal'[m] # "none"
    BY ZenonT(60), <1>0, <1>4 DEF RemoveMember, DeleteNode, TypeOK
  <2>2. m \in Etcd \ {FirstInitNode} => removal[m] # "none"
    BY ZenonT(60), <1>0, <1>4 DEF RemoveMember, DeleteNode, EtcdStays, TypeOK, FirstInitNode, Etcd, Early
  <2>3. MachinesKnown'
    BY Zenon, <2>1, SameScenario DEF OneCluster, MachinesKnown
  <2>4. ServersAreMembers'
    BY Zenon, <1>1, <2>1, <2>2, SameScenario DEF OneCluster, ServersAreMembers
  <2> QED
    BY Zenon, <2>1, <2>3, <2>4, SameSecretsOneCluster
<1>5. CASE Arrive(m)
  <2>1. /\ UNCHANGED <<scenario, machineCache, secret, pass, removal, members>>
        /\ machine[m].life = "absent" /\ m \notin Early
    BY Zenon, <1>1, <1>5 DEF Arrive
  <2>2. /\ \A n \in Machines : machine'[n].node = machine[n].node
        /\ \A n \in Machines \ {m} : machine'[n] = machine[n]
        /\ machine'[m].life = "alive"
    BY ZenonT(60), <1>0, <1>5, SetLife DEF TypeOK, Arrive
  <2>3. MachinesKnown'
    BY <1>1, <2>1, <2>2, SameScenario DEF OneCluster, MachinesKnown
  <2>4. ServersAreMembers'
    BY Zenon, <1>1, <2>1, <2>2, SameScenario DEF OneCluster, ServersAreMembers
  <2> QED
    BY Zenon, <1>1, <2>1, <2>2, <2>3, <2>4, SameSecretsOneCluster
<1>6. CASE Delete(m)
  <2>1. /\ UNCHANGED <<scenario, machineCache, secret, pass, removal, members>>
        /\ m \in scenario.removable
    BY Zenon, <1>6 DEF Delete
  <2>2. /\ \A n \in Machines : machine'[n].node = machine[n].node
        /\ \A n \in Machines \ {m} : machine'[n] = machine[n]
        /\ machine'[m].life = "deleting"
    BY ZenonT(60), <1>0, <1>6, SetLife DEF TypeOK, Delete
  <2>3. MachinesKnown'
    BY <1>1, <2>1, <2>2, SameScenario DEF OneCluster, MachinesKnown
  <2>4. ServersAreMembers'
    BY Zenon, <1>1, <2>1, <2>2, SameScenario DEF OneCluster, ServersAreMembers
  <2> QED
    BY Zenon, <1>1, <2>1, <2>2, <2>3, <2>4, SameSecretsOneCluster
<1> QED
  BY Zenon, <1>2, <1>3, <1>4, <1>5, <1>6

LEMMA RunOneCluster ==
    ASSUME IInv, OneCluster, NEW m \in Machines, Run(m)
    PROVE  OneCluster'
<1>0. TypeOK /\ UNCHANGED <<scenario, machine, machineCache, pass, removal>>
  BY Zenon DEF IInv, Run
<1>1. /\ Early \subseteq Machines /\ Etcd \subseteq Machines /\ FirstInitNode \in Etcd \cap Early
  BY Zenon, <1>0, ScenarioFacts DEF TypeOK
<1>2. /\ secret'[m].label = secret[m].label /\ secret'[m].joinURL = secret[m].joinURL
      /\ secret'[m].state = "applied" /\ secret'[m].joined = secret[m].joined
      /\ \A n \in Machines \ {m} : secret'[n] = secret[n]
  BY Zenon, <1>0, SetState DEF Run, TypeOK
<1>3. members \subseteq members' /\ (m \in Etcd /\ removal[m] = "none" => m \in members')
  BY Zenon DEF Run
<1>4. MachinesKnown'
  BY Zenon, <1>0, <1>1, <1>2, SameScenario DEF OneCluster, MachinesKnown
<1>5. FirstInitNodeStays'
  <2>1. labels' = labels
    BY Zenon, <1>2 DEF labels
  <2> QED
    BY Zenon, <1>0, <1>1, <1>2, <2>1, SameScenario DEF OneCluster, FirstInitNodeStays
<1>6. ServersAreMembers'
  BY <1>0, <1>1, <1>2, <1>3, SameScenario DEF OneCluster, ServersAreMembers
<1>7. ServersAreElected'
  BY Zenon, <1>0, <1>2, SameScenario DEF OneCluster, ServersAreElected
<1> QED
  BY Zenon, <1>4, <1>5, <1>6, <1>7 DEF OneCluster

LEMMA TeardownOneCluster ==
    ASSUME IInv, OneCluster, NEW m \in Machines, Teardown(m)
    PROVE  OneCluster'
<1>0. TypeOK /\ UNCHANGED <<scenario, machineCache, pass, removal, members>>
      /\ machine[m].life = "deleting"
  BY Zenon DEF IInv, Teardown
<1>1. /\ Early \subseteq Machines /\ Etcd \subseteq Machines /\ FirstInitNode \in Etcd \cap Early
  BY Zenon, <1>0, ScenarioFacts DEF TypeOK
<1>2. /\ \A n \in Machines : machine'[n].node = machine[n].node
      /\ \A n \in Machines \ {m} : machine'[n] = machine[n]
      /\ machine'[m].life = "gone"
  BY Zenon, <1>0, SetLife DEF Teardown, TypeOK
<1>3. /\ ~secret'[m].label /\ ~secret'[m].joinURL /\ secret'[m].state = "none"
      /\ \A n \in Machines \ {m} : secret'[n] = secret[n]
  BY ZenonT(60), <1>0 DEF Teardown, TypeOK, NoSecret
<1>4. MachinesKnown'
  BY <1>0, <1>1, <1>2, <1>3, SameScenario DEF OneCluster, MachinesKnown
<1>5. FirstInitNodeStays'
  <2> SUFFICES ASSUME machine'[FirstInitNode].life = "alive"
               PROVE  /\ labels' = {FirstInitNode} /\ secret'[FirstInitNode].joined = None
                      /\ secret'[FirstInitNode].state = "applied"
    BY Zenon, <1>0, SameScenario DEF FirstInitNodeStays
  <2>1. FirstInitNode # m
    BY Zenon, <1>2
  <2>2. /\ labels = {FirstInitNode} /\ secret[FirstInitNode].joined = None
        /\ secret[FirstInitNode].state = "applied"
    BY Zenon, <1>1, <1>2, <2>1 DEF OneCluster, FirstInitNodeStays
  <2>3. labels' = labels
    BY Zenon, <1>3, <2>1, <2>2 DEF labels
  <2> QED
    BY Zenon, <1>1, <1>3, <2>1, <2>2, <2>3
<1>6. ServersAreMembers'
  BY Zenon, <1>0, <1>1, <1>2, <1>3, SameScenario DEF OneCluster, ServersAreMembers
<1>7. ServersAreElected'
  BY Zenon, <1>0, <1>3, SameScenario DEF OneCluster, ServersAreElected
<1> QED
  BY Zenon, <1>4, <1>5, <1>6, <1>7 DEF OneCluster

(* A machine of a cluster that is deleted is never alive again.            *)
LEMMA DyingEInv ==
    ASSUME IInv, EInv, [Next]_vars, dying'
    PROVE  EInv'
<1> SUFFICES ASSUME NEW n \in Machines, machine'[n].life = "alive"
             PROVE  FALSE
  BY Zenon DEF EInv
<1>0. TypeOK
  BY Zenon DEF IInv
<1>1. CASE DeleteCluster
  BY Zenon, <1>0, <1>1 DEF DeleteCluster, TypeOK, MachineType
<1>2. CASE dying
  <2>0. machine[n].life # "alive"
    BY Zenon, <1>2 DEF EInv
  <2>1. CASE Load \/ Process \/ SyncMachines \/ SyncSecrets \/ ChangeKubeconfig \/ Quieten \/ UNCHANGED vars
    BY Zenon, <2>0, <2>1 DEF Load, Process, PlannerFrame, SyncMachines, SyncSecrets, ChangeKubeconfig, Quieten, vars
  <2>2. ASSUME NEW m \in Machines, reconcileMachinePreTerminateAnnotation(m)
        PROVE  FALSE
    BY Zenon, <1>0, <2>0, <2>2, HookUpdates, SetHook DEF TypeOK
  <2>3. ASSUME NEW m \in Machines, NodeRef(m) \/ Teardown(m) \/ Delete(m)
        PROVE  FALSE
    BY <1>0, <2>0, <2>3, SetNode, SetLife DEF TypeOK, NodeRef, Teardown, Delete
  <2>4. ASSUME NEW m \in Machines, Run(m) \/ RemoveMember(m) \/ DeleteNode(m) \/ Arrive(m)
        PROVE  FALSE
    BY ZenonT(60), <1>2, <2>0, <2>4 DEF Run, RemoveMember, DeleteNode, Arrive
  <2> QED
    BY Zenon, <1>1, <2>1, <2>2, <2>3, <2>4 DEF Next
<1>3. dying \/ DeleteCluster
  <2>1. ASSUME NEW m \in Machines, reconcileMachinePreTerminateAnnotation(m)
        PROVE  dying
    BY Zenon, <1>0, <2>1, HookUpdates
  <2> QED
    BY Zenon, <2>1 DEF Next, Load, Process, PlannerFrame, SyncMachines, SyncSecrets, ChangeKubeconfig, Quieten, vars, Run,
       NodeRef, RemoveMember, DeleteNode, Teardown, Arrive, Delete
<1> QED
  BY Zenon, <1>1, <1>2, <1>3

LEMMA NextEInv ==
    ASSUME EtcdStays
    PROVE  IInv /\ EInv /\ [Next]_vars => EInv'
<1> SUFFICES ASSUME IInv, EInv, [Next]_vars, ~dying'
             PROVE  EInv'
  BY Zenon, DyingEInv
<1>0. /\ ~dying /\ ~DeleteCluster /\ OneCluster /\ TypeOK
  <2>1. ~dying
    <3>1. ASSUME NEW m \in Machines, reconcileMachinePreTerminateAnnotation(m)
          PROVE  ~dying
      BY Zenon, <3>1, HookUpdates DEF IInv
    <3> QED
      BY Zenon, <3>1 DEF Next, Load, Process, PlannerFrame, SyncMachines, SyncSecrets, ChangeKubeconfig, Quieten, vars, Run,
         NodeRef, RemoveMember, DeleteNode, Teardown, Arrive, Delete, DeleteCluster
  <2> QED
    BY Zenon, <2>1 DEF EInv, DeleteCluster, IInv
<1> SUFFICES OneCluster'
  BY Zenon DEF EInv
<1>1. CASE Load \/ Process
  BY Zenon, <1>0, <1>1, LoadOneCluster, ProcessOneCluster
<1>2. CASE SyncMachines \/ SyncSecrets \/ ChangeKubeconfig \/ Quieten \/ UNCHANGED vars
  <2>1. /\ UNCHANGED <<scenario, machine, secret, pass, removal, members>>
        /\ machineCache' = machine \/ UNCHANGED machineCache
    BY Zenon, <1>2 DEF SyncMachines, SyncSecrets, ChangeKubeconfig, Quieten, vars
  <2>2. MachinesKnown'
    BY Zenon, <1>0, <2>1, ScenarioFacts, SameScenario DEF OneCluster, MachinesKnown, TypeOK
  <2>3. ServersAreMembers'
    BY Zenon, <1>0, <2>1, SameScenario DEF OneCluster, ServersAreMembers
  <2> QED
    BY Zenon, <1>0, <2>1, <2>2, <2>3, SameSecretsOneCluster
<1> QED
  BY Zenon, <1>0, <1>1, <1>2, MachineOneCluster, RunOneCluster, TeardownOneCluster DEF Next

(* electInitNode starts no second etcd cluster: a machine that is started  *)
(* without a server to join is an etcd member, provided that one etcd      *)
(* machine of the beginning stays and nobody deletes the nodes of others.  *)
(* Both are needed: see suitable and etcdPlaneReplaced.                    *)
THEOREM ElectionsKeepTheCluster ==
    ASSUME EtcdStays
    PROVE  Spec => OneEtcdCluster
<1> DEFINE Kept == \A m \in Machines : machine[m].life = "alive" /\ secret[m].joined = None
            /\ secret[m].state = "pending" /\ secret'[m].state = "applied" => m \in members
<1>1. IInv /\ EInv => Kept
  <2> SUFFICES ASSUME IInv, EInv, NEW m \in Machines, machine[m].life = "alive",
                      secret[m].joined = None, secret[m].state = "pending"
               PROVE  m \in members
    BY Zenon
  <2>1. OneCluster
    BY Zenon DEF EInv
  <2>2. m \in Etcd /\ secret[m].joinURL /\ m # FirstInitNode
    BY Zenon, <2>1 DEF OneCluster, ServersAreElected, FirstInitNodeStays
  <2> QED
    BY Zenon, <2>1, <2>2 DEF OneCluster, ServersAreMembers
<1>2. Init => IInv /\ EInv
  BY Zenon, InitIInv, InitEInv
<1>3. IInv /\ EInv /\ [Next]_vars => (IInv /\ EInv)'
  BY Zenon, NextIInv, NextEInv
<1>4. Spec => [](IInv /\ EInv)
  BY <1>2, <1>3, PTL DEF Spec
<1>5. IInv /\ EInv => [Kept]_vars
  BY Zenon, <1>1
<1> QED
  BY <1>4, <1>5, PTL DEF Spec, OneEtcdCluster

-----------------------------------------------------------------------------
(* Nobody is left behind.                                                  *)

(* The machines of the beginning exist until they are torn down, and the   *)
(* caches and the pass know those that do.                                 *)
MachinesStay ==
    /\ \A m \in Machines \ Early : machine[m].life = "absent" /\ machineCache[m].life = "absent"
    /\ \A m \in Early :
          /\ machine[m].life # "absent" /\ machine[m].node /\ machineCache[m].node
          /\ machine[m].life = "alive" =>
                machineCache[m].life = "alive" /\ (pass # Idle => m \in pass.alive)
          /\ m \in Running => m \in CachedPresent /\ (pass # Idle => m \in pass.present)
          /\ m \notin scenario.removable => machine[m].life = "alive"
          /\ machine[m].life = "gone" => ~machine[m].hook
    /\ pass # Idle => pass.alive \subseteq pass.present \cap Early
    /\ labels \subseteq Running
    /\ \A m \in Running : secret[m].joinURL /\ secretCache[m].joinURL

(* The etcd machines that may be deleted.                                  *)
Leavers == scenario.removable \cap Etcd \cap Early

(* No pass knows of the deletion: every machine has the plan that it had   *)
(* at first.                                                               *)
FirstPlan(n) ==
    /\ secret[n].label <=> n = FirstInitNode
    /\ secret[n].joinURL /\ secret[n].state = "applied" /\ secret[n].joined \in FirstServer(n)
Before(d) ==
    /\ d \notin forced /\ (pass # Idle => d \in pass.alive)
    /\ \A n \in Early : IF n \in Running THEN FirstPlan(n) ELSE secret[n].state = "none"

(* A pass knew of it, and every later one does: no plan joins d.           *)
After(d) ==
    /\ machine[d].life # "alive" /\ machineCache[d].life # "alive"
    /\ pass # Idle => d \notin pass.alive

(* The cache may show machines joined to d that no longer are, and never   *)
(* the other way round; the hook goes when it shows none.                  *)
Released(d) ==
    /\ \A n \in Running : secret[n].joined = d => secretCache[n].joined = d
    /\ ~machine[d].hook /\ d \notin forced => \A n \in Running : secret[n].joined # d

Left(d) == (Before(d) \/ After(d)) /\ Released(d)

LInv == /\ OneServerLeaves
        /\ ~dying => MachinesStay /\ \A d \in Leavers : Left(d)

LEMMA InitLInv ==
    ASSUME Init, OneServerLeaves
    PROVE  LInv
<1>0. /\ Early \subseteq Machines /\ Etcd \subseteq Machines /\ FirstInitNode \in Etcd \cap Early
      /\ None \notin Machines
  BY Zenon, ScenarioFacts DEF Init
<1>1. machineCache = machine /\ secretCache = secret /\ pass = Idle /\ forced = {}
  BY Zenon DEF Init
<1>2. \A m \in Machines : /\ machine[m].life = (IF m \in Early THEN "alive" ELSE "absent")
                          /\ machine[m].node = (m \in Early)
                          /\ machine[m].hook = (m \in Early \cap Etcd)
  BY Zenon DEF Init
<1>3. \A m \in Machines : IF m \in Early
                          THEN /\ secret[m].label = (m = FirstInitNode) /\ secret[m].joinURL = TRUE
                               /\ secret[m].state = "applied" /\ secret[m].joined \in FirstServer(m)
                          ELSE secret[m].label = FALSE
  <2>1. PICK server \in [Machines -> Machines \cup {None}] :
          /\ \A m \in Machines : server[m] \in IF m \in Early THEN FirstServer(m) ELSE {None}
          /\ secret = [m \in Machines |-> IF m \notin Early THEN NoSecret
                         ELSE [label |-> m = FirstInitNode, joinURL |-> TRUE,
                               joined |-> server[m], state |-> "applied"]]
    BY Zenon DEF Init
  <2> QED
    BY Zenon, <2>1 DEF NoSecret
<1>4. MachinesStay
  BY Zenon, <1>0, <1>1, <1>2, <1>3 DEF MachinesStay, Running, CachedPresent, labels
<1>5. ASSUME NEW d \in Leavers
      PROVE  Left(d)
  <2>1. Before(d)
    BY Zenon, <1>0, <1>1, <1>2, <1>3 DEF Before, FirstPlan, Running
  <2>2. machine[d].hook
    BY Zenon, <1>0, <1>2 DEF Leavers
  <2> QED
    BY Zenon, <1>1, <2>1, <2>2 DEF Left, Released
<1> QED
  BY Zenon, <1>4, <1>5 DEF LInv

(* The cluster is the same in every state.                                 *)
LEMMA SameCluster ==
    ASSUME UNCHANGED scenario
    PROVE  /\ Etcd' = Etcd /\ ControlPlane' = ControlPlane /\ Early' = Early
           /\ FirstInitNode' = FirstInitNode /\ Leavers' = Leavers
           /\ OneServerLeaves' = OneServerLeaves
           /\ \A m : FirstServer(m)' = FirstServer(m)
  BY Zenon DEF Etcd, ControlPlane, Early, FirstInitNode, Leavers, OneServerLeaves, FirstServer, OnlyWorkers

(* As long as no pass knows of the deletion, the planner writes nothing:   *)
(* an init node that is gone was joined by nobody, and was the only etcd   *)
(* machine.                                                                *)
LEMMA FirstPlansStand ==
    ASSUME TypeOK, LInv, ~dying, NEW d \in Leavers, Before(d), Process
    PROVE  /\ d \notin forced' /\ forced \subseteq forced' /\ pass' \in {pass, Idle}
           /\ \A n \in Machines : /\ secret'[n].label = secret[n].label
                                  /\ secret'[n].joinURL = secret[n].joinURL
                                  /\ secret'[n].joined = secret[n].joined
                                  /\ secret'[n].state = secret[n].state
<1>0. /\ Early \subseteq Machines /\ Etcd \subseteq Machines /\ FirstInitNode \in Etcd \cap Early
      /\ None \notin Machines /\ ControlPlane \subseteq Machines
  BY Zenon, ScenarioFacts DEF TypeOK
<1>1. /\ pass # Idle /\ d \in pass.alive /\ d \notin forced /\ d \in Early \cap Etcd
      /\ MachinesStay /\ Released(d) /\ pass.alive \subseteq Machines
      /\ pass.alive \subseteq pass.present \cap Early
  BY Zenon DEF Process, Before, Leavers, LInv, Left, MachinesStay, TypeOK
<1>2. Running \subseteq Early
  BY Zenon DEF LInv, MachinesStay, Running
<1>3. \A n \in (Early \cap (Etcd \cup ControlPlane)) \ {d} : n \in Running \cap pass.alive
  BY Zenon, <1>0, <1>1 DEF LInv, OneServerLeaves, MachinesStay, Running, Leavers
<1>4. d \notin Running => \A n \in Running : secret[n].joined # d
  <2>1. machine[d].life \in {"absent", "alive", "deleting", "gone"}
    BY Zenon, <1>0, <1>1 DEF TypeOK, MachineType
  <2>2. d \notin Running => ~machine[d].hook
    BY Zenon, <1>0, <1>1, <2>1 DEF MachinesStay, Running
  <2> QED
    BY Zenon, <1>1, <2>2 DEF Released
<1>5. CASE forceDeleteAllDeletingEtcdMachines
  BY Zenon, <1>1, <1>5 DEF forceDeleteAllDeletingEtcdMachines
<1>6. CASE EndPass
  BY Zenon, <1>1, <1>6 DEF EndPass
<1>7. CASE ~InitNodeFound /\ electInitNode
  <2>1. FirstInitNode \notin Running
    <3> SUFFICES ASSUME FirstInitNode \in Running
                 PROVE  FALSE
      BY Zenon
    <3>1. labels = {FirstInitNode}
      BY Zenon, <1>0, <1>1, <1>2 DEF labels, MachinesStay, Before, FirstPlan
    <3>2. FirstInitNode \in pass.alive /\ FirstInitNode \in joinable
      BY Zenon, <1>0, <1>1, <1>3 DEF Before, FirstPlan, joinable
    <3>3. labels \cap pass.present = {FirstInitNode}
      BY Zenon, <1>1, <3>1, <3>2
    <3>4. Single({FirstInitNode})
      BY Zenon DEF Single
    <3> QED
      BY Zenon, <1>0, <1>7, <3>1, <3>2, <3>3, <3>4 DEF InitNodeFound, canBeInitNode
  <2>2. d = FirstInitNode
    BY Zenon, <1>0, <1>3, <2>1
  <2>3. Etcd \cap Early \subseteq {d}
    <3> SUFFICES ASSUME NEW n \in Etcd \cap Early, n # d
                 PROVE  FALSE
      BY Zenon
    <3>1. n \in Running /\ FirstPlan(n)
      BY Zenon, <1>3 DEF Before
    <3>2. FirstServer(n) = {FirstInitNode}
      BY Zenon, <2>2 DEF FirstServer, OnlyWorkers
    <3> QED
      BY Zenon, <1>4, <2>1, <2>2, <3>1, <3>2 DEF FirstPlan
  <2>4. suitable = {d} \/ suitable = {}
    BY Zenon, <1>1, <2>3 DEF suitable, canBeInitNode
  <2>5. suitable = {d}
    BY Zenon, <1>1, <2>4 DEF suitable, canBeInitNode
  <2>6. Min(suitable) = d
    BY <1>0, <1>1, <2>5, MinMachine
  <2>7. \A n \in Machines : ~secret'[n].label /\ secret'[n].label \in BOOLEAN
    <3>1. secret' \in [Machines -> SecretType]
      BY Zenon, <1>7, SetLabels
    <3> QED
      BY <1>7, <2>1, <2>2, <2>6, <3>1, SetLabels DEF SecretType
  <2>8. \A n \in Machines : ~secret[n].label /\ secret[n].label \in BOOLEAN
    <3>1. \A n \in Machines : secret[n].label => n \in Running
      BY Zenon, <1>1 DEF MachinesStay, labels
    <3>2. \A n \in Running : ~secret[n].label
      BY Zenon, <1>2, <2>1 DEF Before, FirstPlan
    <3> QED
      BY Zenon, <3>1, <3>2 DEF TypeOK, SecretType
  <2>9. pass' = Idle /\ UNCHANGED forced
    BY Zenon, <1>7 DEF electInitNode
  <2> QED
    BY Zenon, <1>1, <1>7, <2>7, <2>8, <2>9, SetLabels
<1>8. CASE InitNodeFound /\ fullReconcile /\ ~EndPass
  <2>1. PICK m \in Machines : \E to \in Machines \cup {None} : Chosen(m, to)
    BY Zenon, <1>1, <1>8, PassChoices
  <2>2. PICK to \in Machines \cup {None} : Chosen(m, to)
    BY Zenon, <2>1
  <2>3. PICK i \in labels :
          secret[m].state = "none" \/ secret[m].joined \notin determineJoinURL(m, i)
    BY Zenon, <2>2 DEF Chosen
  <2>4. i = FirstInitNode
    BY Zenon, <1>1, <1>2 DEF MachinesStay, Before, FirstPlan, labels
  <2>5. m \notin Running
    <3> SUFFICES ASSUME m \in Running
                 PROVE  FALSE
      BY Zenon
    <3>1. FirstPlan(m)
      BY Zenon, <1>2 DEF Before
    <3>2. secret[m].joined \notin determineJoinURL(m, i)
      BY Zenon, <2>3, <3>1 DEF FirstPlan
    <3>3. CASE m = FirstInitNode
      BY Zenon, <3>1, <3>2, <3>3 DEF FirstPlan, FirstServer, determineJoinURL, labels
    <3>4. CASE m # FirstInitNode /\ m \notin OnlyWorkers
      BY Zenon, <2>4, <3>1, <3>2, <3>4 DEF FirstPlan, FirstServer, determineJoinURL, labels
    <3>5. CASE m # FirstInitNode /\ m \in OnlyWorkers
      <4>1. secret[m].joined \in ControlPlane \cap Early
        BY Zenon, <3>1, <3>5 DEF FirstPlan, FirstServer
      <4>2. secret[m].joined \in Running \cap pass.alive
        BY Zenon, <1>1, <1>3, <1>4, <4>1
      <4>3. secret[m].joined \in joinable
        BY Zenon, <1>0, <4>1, <4>2 DEF Before, FirstPlan, joinable
      <4>4. validJoinURL(secret[m].joined)
        BY Zenon, <4>1, <4>2, <4>3 DEF validJoinURL
      <4>5. m \notin labels
        BY Zenon, <3>1, <3>5 DEF FirstPlan, labels
      <4> QED
        BY Zenon, <3>2, <3>5, <4>4, <4>5 DEF determineJoinURL
    <3> QED
      BY Zenon, <3>3, <3>4, <3>5
  <2>6. pass' = Idle /\ UNCHANGED secret
    BY Zenon, <2>2, <2>5 DEF Chosen, UpdatePlan
  <2>7. UNCHANGED forced
    BY Zenon, <1>1, <1>8, PassChoices
  <2> QED
    BY Zenon, <1>1, <2>6, <2>7
<1> QED
  BY Zenon, <1>5, <1>6, <1>7, <1>8 DEF Process

(* Once a pass knows of the deletion, the planner joins nobody to d.       *)
LEMMA NobodyJoins ==
    ASSUME TypeOK, MachinesStay, NEW d \in Machines, After(d), d \in Early, Process
    PROVE  /\ forced \subseteq forced' /\ pass' \in {pass, Idle}
           /\ \A n \in Machines : secret'[n].joined = d => secret[n].joined = d
<1>1. /\ pass # Idle /\ d \notin pass.alive /\ None \notin Machines
      /\ pass.alive \subseteq pass.present
  BY Zenon, ScenariosAssumption DEF Process, After, MachinesStay
<1>2. CASE forceDeleteAllDeletingEtcdMachines
  BY Zenon, <1>2 DEF forceDeleteAllDeletingEtcdMachines
<1>3. CASE EndPass
  BY Zenon, <1>3 DEF EndPass
<1>4. CASE electInitNode
  BY Zenon, <1>4, SetLabels DEF electInitNode
<1>5. CASE InitNodeFound /\ fullReconcile /\ ~EndPass
  <2>1. PICK m \in Machines : \E to \in Machines \cup {None} : Chosen(m, to)
    BY Zenon, <1>1, <1>5, PassChoices
  <2>2. PICK to \in Machines \cup {None} : Chosen(m, to)
    BY Zenon, <2>1
  <2>3. PICK i \in labels : to \in determineJoinURL(m, i)
    BY Zenon, <2>2 DEF Chosen
  <2>4. d \notin labels
    <3> SUFFICES ASSUME d \in labels
                 PROVE  FALSE
      BY Zenon
    <3>1. d \in labels \cap pass.present
      BY Zenon, <1>1 DEF MachinesStay
    <3>2. PICK x \in labels \cap pass.present : labels \cap pass.present = {x}
      BY Zenon, <1>5 DEF InitNodeFound, Single
    <3>3. PICK y \in labels : y \in pass.alive
      BY Zenon, <1>5 DEF InitNodeFound, canBeInitNode
    <3> QED
      BY Zenon, <1>1, <3>1, <3>2, <3>3
  <2>5. to # d
    BY Zenon, <1>1, <2>3, <2>4 DEF determineJoinURL, validJoinURL, calculateJoinURL
  <2>6. UNCHANGED forced
    BY Zenon, <1>1, <1>5, PassChoices
  <2>7. UpdatePlan(m, to)
    BY Zenon, <2>2 DEF Chosen
  <2>8. /\ pass' \in {pass, Idle}
        /\ secret'[m].joined = to \/ UNCHANGED secret
        /\ \A n \in Machines \ {m} : secret'[n] = secret[n]
    BY Zenon, <2>7, SetPlan
  <2> QED
    BY Zenon, <2>5, <2>6, <2>8
<1> QED
  BY Zenon, <1>2, <1>3, <1>4, <1>5 DEF Process

(* The planner.                                                            *)
LEMMA ProcessStays ==
    ASSUME TypeOK, MachinesStay, Load \/ Process
    PROVE  MachinesStay'
<1>0. /\ UNCHANGED <<scenario, machine, machineCache, secretCache>>
      /\ Running' = Running /\ CachedPresent' = CachedPresent
  BY Zenon DEF Load, Process, PlannerFrame, Running, CachedPresent
<1>1. Early \subseteq Machines
  BY Zenon, ScenarioFacts DEF TypeOK
<1>2. CASE Load
  <2>1. labels' \subseteq Running /\ \A n \in Running : secret'[n].joinURL
    <3>1. CASE UNCHANGED secret
      BY Zenon, <3>1 DEF MachinesStay, labels
    <3>2. ASSUME NEW m \in Machines, secret' = [secret EXCEPT ![m].joinURL = m \in Running]
          PROVE  labels' \subseteq Running /\ \A n \in Running : secret'[n].joinURL
      <4>1. /\ \A n \in Machines : secret'[n].label = secret[n].label
            /\ secret'[m].joinURL = (m \in Running)
            /\ \A n \in Machines \ {m} : secret'[n].joinURL = secret[n].joinURL
        <5>1. (m \in Running) \in BOOLEAN
          OBVIOUS
        <5> QED
          BY Zenon, <3>2, <5>1, SetJoinURL DEF TypeOK
      <4> QED
        BY Zenon, <4>1 DEF MachinesStay, labels, Running
    <3> QED
      BY Zenon, <1>2, <3>1, <3>2 DEF Load, CachedPresent
  <2>2. CASE UNCHANGED pass
    BY Zenon, <1>0, <2>1, <2>2, SameCluster DEF MachinesStay
  <2>3. CASE pass' = [present |-> CachedPresent,
                      alive |-> {m \in CachedPresent : machineCache[m].life = "alive"}]
    <3>1. pass'.present = CachedPresent /\ pass'.alive = {m \in CachedPresent : machineCache[m].life = "alive"}
      BY Zenon, <2>3
    <3>2. pass'.alive \subseteq pass'.present \cap Early
      BY Zenon, <3>1 DEF MachinesStay, CachedPresent
    <3>3. \A m \in Early : /\ machine[m].life = "alive" => m \in pass'.alive
                           /\ m \in Running => m \in pass'.present
      BY Zenon, <1>1, <3>1 DEF MachinesStay, CachedPresent
    <3> HIDE <2>3
    <3> QED
      BY Zenon, <1>0, <2>1, <3>2, <3>3, SameCluster DEF MachinesStay
  <2> QED
    BY Zenon, <1>2, <2>2, <2>3 DEF Load
<1>3. CASE Process
  <2>1. /\ pass' \in {pass, Idle} /\ labels' \subseteq Running
        /\ \A n \in Running : secret'[n].joinURL
    <3>1. CASE forceDeleteAllDeletingEtcdMachines
      BY Zenon, <3>1 DEF forceDeleteAllDeletingEtcdMachines, MachinesStay, labels
    <3>2. CASE EndPass
      BY Zenon, <3>2 DEF EndPass, MachinesStay, labels
    <3>3. CASE electInitNode
      <4>1. pass' = Idle /\ labels' \subseteq Running
        BY Zenon, <3>3, SetLabels DEF electInitNode, labels
      <4>2. \A n \in Machines : secret'[n].joinURL = secret[n].joinURL
        BY Zenon, <3>3, SetLabels
      <4> QED
        BY Zenon, <4>1, <4>2 DEF MachinesStay, Running
    <3>4. CASE InitNodeFound /\ fullReconcile /\ ~EndPass
      <4>1. PICK m \in Machines : \E to \in Machines \cup {None} : UpdatePlan(m, to)
        BY Zenon, <1>3, <3>4, PassWrites DEF Process
      <4>2. /\ pass' \in {pass, Idle}
            /\ \A n \in Machines : /\ secret'[n].label = secret[n].label
                                   /\ secret'[n].joinURL = secret[n].joinURL
        BY Zenon, <4>1, SetPlan
      <4> QED
        BY Zenon, <4>2 DEF MachinesStay, labels, Running
    <3> QED
      BY Zenon, <1>3, <3>1, <3>2, <3>3, <3>4 DEF Process
  <2> QED
    BY Zenon, <1>0, <2>1, SameCluster DEF MachinesStay
<1> QED
  BY Zenon, <1>2, <1>3

(* What the other steps do to a machine n.                                 *)
Changed(n) ==
    /\ machine'[n].life # machine[n].life =>
          \/ machine[n].life = "alive" /\ machine'[n].life = "deleting" /\ n \in scenario.removable
          \/ machine[n].life = "deleting" /\ machine'[n].life = "gone" /\ ~machine[n].hook
    /\ machine'[n].node = machine[n].node
    /\ machine'[n].hook # machine[n].hook =>
          /\ machine'[n].life = machine[n].life /\ machine[n].life # "gone"
          /\ machine'[n].hook \/ n \notin Etcd \/ n \in forced \/ ~stillJoined(n)
    /\ secret'[n].label => secret[n].label
    /\ IF machine[n].life # "gone" /\ machine'[n].life = "gone"
       THEN ~secret'[n].label /\ secret'[n].state = "none" /\ secret'[n].joined = None
       ELSE /\ secret'[n].label = secret[n].label /\ secret'[n].joinURL = secret[n].joinURL
            /\ secret'[n].joined = secret[n].joined
            /\ \/ secret'[n].state = secret[n].state
               \/ n \in Running /\ secret[n].state = "pending"

LEMMA OtherSteps ==
    ASSUME TypeOK, OneServerLeaves, MachinesStay, [Next]_vars, ~dying, ~dying', ~Load, ~Process
    PROVE  /\ UNCHANGED <<scenario, pass, forced>>
           /\ machineCache' \in {machineCache, machine}
           /\ secretCache' = secretCache \/ (secretCache' = secret /\ UNCHANGED <<machine, secret>>)
           /\ machineCache' # machineCache => UNCHANGED <<machine, secret>>
           /\ \A n \in Machines : Changed(n)
<1>0. machine \in [Machines -> MachineType] /\ secret \in [Machines -> SecretType]
  BY Zenon DEF TypeOK
<1>1. CASE SyncMachines \/ SyncSecrets \/ ChangeKubeconfig \/ Quieten \/ UNCHANGED vars
  <2>1. UNCHANGED <<scenario, machine, secret, pass, forced>>
    BY Zenon, <1>1 DEF SyncMachines, SyncSecrets, ChangeKubeconfig, Quieten, vars
  <2>2. machineCache' \in {machineCache, machine} /\ secretCache' \in {secretCache, secret}
    BY Zenon, <1>1 DEF SyncMachines, SyncSecrets, ChangeKubeconfig, Quieten, vars
  <2> QED
    BY Zenon, <2>1, <2>2 DEF Changed
<1>2. ASSUME NEW m \in Machines,
             Run(m) \/ RemoveMember(m) \/ DeleteNode(m)
      PROVE  /\ UNCHANGED <<scenario, pass, forced, machine, machineCache, secretCache>>
             /\ \A n \in Machines : Changed(n)
  <2>1. UNCHANGED <<scenario, pass, forced, machine, machineCache, secretCache>>
    BY ZenonT(60), <1>2 DEF Run, RemoveMember, DeleteNode
  <2>2. CASE UNCHANGED secret
    BY Zenon, <2>1, <2>2 DEF Changed
  <2>3. CASE Run(m)
    <3>1. /\ m \in Running /\ secret[m].state = "pending"
          /\ secret'[m].label = secret[m].label /\ secret'[m].joinURL = secret[m].joinURL
          /\ secret'[m].joined = secret[m].joined
          /\ \A n \in Machines \ {m} : secret'[n] = secret[n]
      BY Zenon, <1>0, <2>3, SetState DEF Run
    <3> QED
      BY Zenon, <2>1, <3>1 DEF Changed
  <2> QED
    BY Zenon, <1>2, <2>1, <2>2, <2>3 DEF RemoveMember, DeleteNode
<1>3. ASSUME NEW m \in Machines, reconcileMachinePreTerminateAnnotation(m)
      PROVE  /\ UNCHANGED <<scenario, pass, forced, machineCache, secretCache>>
             /\ \A n \in Machines : Changed(n)
  <2>1. UNCHANGED <<scenario, pass, forced, machineCache, secretCache, secret>>
    BY Zenon, <1>3, HookUpdates
  <2>2. CASE UNCHANGED machine
    BY Zenon, <2>1, <2>2 DEF Changed
  <2>3. ASSUME NEW v \in BOOLEAN, machine' = [machine EXCEPT ![m].hook = v], machine[m].life # "gone",
               v \/ m \notin Etcd \/ m \in forced \/ ~stillJoined(m)
        PROVE  \A n \in Machines : Changed(n)
    <3>1. /\ machine'[m].hook = v /\ machine'[m].life = machine[m].life /\ machine'[m].node = machine[m].node
          /\ \A n \in Machines \ {m} : machine'[n] = machine[n]
      BY Zenon, <1>0, <2>3, SetHook
    <3> QED
      BY Zenon, <2>1, <2>3, <3>1 DEF Changed
  <2>4. CASE machine' = [machine EXCEPT ![m].hook = TRUE] /\ machine[m].life = "alive"
    BY Zenon, <2>1, <2>3, <2>4
  <2>5. CASE /\ machine' = [machine EXCEPT ![m].hook = FALSE]
             /\ machineCache[m] = machine[m]
             /\ \/ m \notin Etcd \/ m \in forced \/ dying \/ ~machine[m].node
                \/ (~kubeconfig \/ SafelyRemoved(m)) /\ ~stillJoined(m)
    <3>1. machine[m].life \in {"alive", "deleting"}
      BY Zenon, <1>3, <2>5 DEF reconcileMachinePreTerminateAnnotation
    <3>2. machine[m].node
      BY Zenon, <3>1 DEF MachinesStay
    <3> QED
      BY Zenon, <2>1, <2>3, <2>5, <3>1, <3>2
  <2> QED
    BY Zenon, <1>3, <2>1, <2>2, <2>4, <2>5, HookUpdates
<1>4. ASSUME NEW m \in Machines, NodeRef(m) \/ Arrive(m)
      PROVE  FALSE
  BY Zenon, <1>4 DEF NodeRef, Arrive, MachinesStay, OneServerLeaves, Running
<1>5. ASSUME NEW m \in Machines, Teardown(m)
      PROVE  /\ UNCHANGED <<scenario, pass, forced, machineCache, secretCache>>
             /\ \A n \in Machines : Changed(n)
  <2>1. /\ machine'[m].life = "gone" /\ machine'[m].node = machine[m].node
        /\ machine'[m].hook = machine[m].hook /\ machine[m].life = "deleting" /\ ~machine[m].hook
        /\ \A n \in Machines \ {m} : machine'[n] = machine[n]
    BY Zenon, <1>0, <1>5, SetLife DEF Teardown
  <2>2. /\ secret'[m].label = FALSE /\ secret'[m].state = "none" /\ secret'[m].joined = None
        /\ \A n \in Machines \ {m} : secret'[n] = secret[n]
    BY Zenon, <1>0, <1>5 DEF Teardown, NoSecret
  <2>3. UNCHANGED <<scenario, pass, forced, machineCache, secretCache>>
    BY Zenon, <1>5 DEF Teardown
  <2> QED
    BY Zenon, <2>1, <2>2, <2>3 DEF Changed
<1>6. ASSUME NEW m \in Machines, Delete(m)
      PROVE  /\ UNCHANGED <<scenario, pass, forced, machineCache, secretCache>>
             /\ \A n \in Machines : Changed(n)
  <2>1. /\ machine'[m].life = "deleting" /\ machine'[m].node = machine[m].node
        /\ machine'[m].hook = machine[m].hook /\ machine[m].life = "alive" /\ m \in scenario.removable
        /\ \A n \in Machines \ {m} : machine'[n] = machine[n]
    BY Zenon, <1>0, <1>6, SetLife DEF Delete
  <2>2. UNCHANGED <<scenario, pass, forced, machineCache, secretCache, secret>>
    BY Zenon, <1>6 DEF Delete
  <2> QED
    BY Zenon, <2>1, <2>2 DEF Changed
<1>7. ~DeleteCluster
  BY Zenon DEF DeleteCluster
<1> QED
  BY Zenon, <1>1, <1>2, <1>3, <1>4, <1>5, <1>6, <1>7 DEF Next

LEMMA NextStays ==
    ASSUME TypeOK, TypeOK', OneServerLeaves, MachinesStay, [Next]_vars, ~dying, ~dying'
    PROVE  MachinesStay'
<1>1. CASE Load \/ Process
  BY Zenon, <1>1, ProcessStays
<1>2. CASE ~Load /\ ~Process
  <2>0. Early \subseteq Machines /\ None \notin Machines
    BY Zenon, ScenarioFacts DEF TypeOK
  <2>1. /\ UNCHANGED <<scenario, pass, forced>> /\ machineCache' \in {machineCache, machine}
        /\ machineCache' # machineCache => UNCHANGED <<machine, secret>>
        /\ secretCache' = secretCache \/ (secretCache' = secret /\ UNCHANGED <<machine, secret>>)
        /\ \A n \in Machines : Changed(n)
    BY Zenon, <1>2, OtherSteps
  <2>2. \A n \in Machines : machine[n].life \in {"absent", "alive", "deleting", "gone"}
    BY Zenon DEF TypeOK, MachineType
  <2>3. /\ \A m \in Machines \ Early : machine'[m].life = "absent"
        /\ \A m \in Machines \ Early : machineCache'[m].life = "absent"
    BY <2>1 DEF Changed, MachinesStay
  <2>4. \A m \in Early :
          /\ machine'[m].life # "absent" /\ machine'[m].node
          /\ machine'[m].life = "alive" => machine[m].life = "alive"
          /\ m \in Running' => m \in Running
          /\ m \notin scenario.removable => machine'[m].life = "alive"
          /\ machine'[m].life = "gone" => ~machine'[m].hook
    BY <2>0, <2>1, <2>2 DEF Changed, MachinesStay, Running
  <2>5. \A m \in Early :
          /\ machineCache'[m].node
          /\ machine'[m].life = "alive" => machineCache'[m].life = "alive"
          /\ m \in Running' => m \in CachedPresent'
    <3>1. CASE machineCache' = machineCache
      BY Zenon, <2>4, <3>1 DEF MachinesStay, CachedPresent
    <3>2. CASE machineCache' = machine /\ UNCHANGED machine
      BY Zenon, <2>0, <3>2 DEF MachinesStay, CachedPresent, Running
    <3> QED
      BY Zenon, <2>1, <3>1, <3>2
  <2>6. labels' \subseteq Running'
    <3> SUFFICES ASSUME NEW n \in Machines, secret'[n].label
                 PROVE  n \in Running'
      BY Zenon DEF labels
    <3>1. Changed(n) /\ n \in Running
      BY Zenon, <2>1 DEF Changed, MachinesStay, labels
    <3> QED
      BY Zenon, <3>1 DEF Changed, Running
  <2>7. ASSUME NEW n \in Running'
        PROVE  secret'[n].joinURL /\ secretCache'[n].joinURL
    <3>1. n \in Machines /\ machine'[n].life # "gone" /\ machine'[n].life # "absent"
      BY Zenon DEF Running
    <3>2. n \in Running
      BY Zenon, <2>3, <2>4, <3>1
    <3>3. secret[n].joinURL /\ secretCache[n].joinURL
      BY Zenon, <3>2 DEF MachinesStay
    <3>4. secret'[n].joinURL = secret[n].joinURL
      BY Zenon, <2>1, <3>1 DEF Changed
    <3> QED
      BY Zenon, <2>1, <3>3, <3>4
  <2> QED
    BY Zenon, <2>1, <2>3, <2>4, <2>5, <2>6, <2>7, SameCluster DEF MachinesStay
<1> QED
  BY Zenon, <1>1, <1>2

LEMMA LoadLeft ==
    ASSUME TypeOK, MachinesStay, NEW d \in Leavers, Left(d), Load
    PROVE  Left(d)'
<1>0. /\ UNCHANGED <<scenario, machine, machineCache, secretCache, forced>> /\ Running' = Running
      /\ d \in Early /\ d \in Machines /\ Early \subseteq Machines
  BY Zenon, ScenarioFacts DEF Load, PlannerFrame, Running, Leavers, TypeOK
<1>1. \/ UNCHANGED secret /\ pass'.alive = {m \in CachedPresent : machineCache[m].life = "alive"}
      \/ /\ UNCHANGED pass /\ pass = Idle
         /\ \E m \in (CachedPresent \ joinable) : /\ secret[m].state # "none"
                                                  /\ secret' = [secret EXCEPT ![m].joinURL = m \in Running]
  BY DEF Load
<1>2. CASE UNCHANGED secret /\ pass'.alive = {m \in CachedPresent : machineCache[m].life = "alive"}
  <2>1. Released(d)'
    BY Zenon, <1>0, <1>2 DEF Left, Released
  <2>2. CASE machineCache[d].life = "alive" /\ Before(d)
    <3>1. d \in pass'.alive
      BY Zenon, <1>0, <1>2, <2>2 DEF CachedPresent
    <3>2. Before(d)'
      BY Zenon, <1>0, <1>2, <2>2, <3>1, SameCluster DEF Before, FirstPlan
    <3> QED
      BY Zenon, <2>1, <3>2 DEF Left
  <2>3. CASE machineCache[d].life # "alive"
    <3>1. After(d)'
      BY Zenon, <1>0, <1>2, <2>3 DEF After, MachinesStay
    <3> QED
      BY Zenon, <2>1, <3>1 DEF Left
  <2> QED
    BY Zenon, <2>2, <2>3 DEF Left, After
<1>3. ASSUME NEW m \in CachedPresent \ joinable, secret[m].state # "none", UNCHANGED pass, pass = Idle,
             secret' = [secret EXCEPT ![m].joinURL = m \in Running]
      PROVE  Left(d)'
  <2>0. m \in Machines /\ ~secret[m].joinURL /\ m \in Early
    BY Zenon, <1>3 DEF CachedPresent, joinable, MachinesStay
  <2>1. ~Before(d)
    BY Zenon, <1>3, <2>0 DEF Before, FirstPlan
  <2>2. After(d)'
    BY Zenon, <1>0, <1>3, <2>1 DEF After, Left
  <2>3. \A n \in Machines : secret'[n].joined = secret[n].joined
    <3>1. (m \in Running) \in BOOLEAN
      OBVIOUS
    <3> QED
      BY Zenon, <1>3, <2>0, <3>1, SetJoinURL DEF TypeOK
  <2>4. Released(d)'
    BY Zenon, <1>0, <2>3 DEF Left, Released, Running
  <2> QED
    BY Zenon, <2>2, <2>4 DEF Left
<1> QED
  BY Zenon, <1>1, <1>2, <1>3

LEMMA ProcessLeft ==
    ASSUME TypeOK, LInv, ~dying, NEW d \in Leavers, Process
    PROVE  Left(d)'
<1>0. /\ UNCHANGED <<scenario, machine, machineCache, secretCache>> /\ Running' = Running
      /\ d \in Early /\ d \in Machines /\ Early \subseteq Machines /\ Left(d) /\ MachinesStay
  BY Zenon, ScenarioFacts DEF Process, PlannerFrame, Running, Leavers, TypeOK, LInv
<1>1. CASE Before(d)
  <2>1. /\ d \notin forced' /\ forced \subseteq forced' /\ pass' \in {pass, Idle}
        /\ \A n \in Machines : /\ secret'[n].label = secret[n].label
                               /\ secret'[n].joinURL = secret[n].joinURL
                               /\ secret'[n].joined = secret[n].joined
                               /\ secret'[n].state = secret[n].state
    BY Zenon, <1>1, FirstPlansStand
  <2>2. Before(d)'
    BY <1>0, <1>1, <2>1, SameCluster DEF Before, FirstPlan
  <2>3. Released(d)'
    BY Zenon, <1>0, <2>1 DEF Left, Released, Running
  <2> QED
    BY Zenon, <2>2, <2>3 DEF Left
<1>2. CASE After(d)
  <2>1. /\ forced \subseteq forced' /\ pass' \in {pass, Idle}
        /\ \A n \in Machines : secret'[n].joined = d => secret[n].joined = d
    BY Zenon, <1>0, <1>2, NobodyJoins
  <2>2. After(d)'
    BY Zenon, <1>0, <1>2, <2>1 DEF After
  <2>3. Released(d)'
    BY Zenon, <1>0, <2>1 DEF Left, Released, Running
  <2> QED
    BY Zenon, <2>2, <2>3 DEF Left
<1> QED
  BY Zenon, <1>0, <1>1, <1>2 DEF Left

LEMMA OtherLeft ==
    ASSUME TypeOK, LInv, ~dying, ~dying', [Next]_vars, ~Load, ~Process, NEW d \in Leavers
    PROVE  Left(d)'
<1>0. /\ d \in Early /\ d \in Machines /\ d \in Etcd /\ Early \subseteq Machines /\ None \notin Machines
      /\ Left(d) /\ MachinesStay /\ OneServerLeaves
  BY Zenon, ScenarioFacts DEF Leavers, TypeOK, LInv
<1>1. /\ UNCHANGED <<scenario, pass, forced>>
      /\ machineCache' \in {machineCache, machine}
      /\ secretCache' = secretCache \/ (secretCache' = secret /\ UNCHANGED <<machine, secret>>)
      /\ \A n \in Machines : Changed(n)
  BY Zenon, <1>0, OtherSteps
<1>2. /\ Running' \subseteq Running
      /\ \A n \in Machines : machine[n].life # "gone" /\ machine'[n].life = "gone" => n \notin Running'
      /\ \A n \in Running \ Running' : machine[n].life # "gone" /\ machine'[n].life = "gone"
  BY Zenon, <1>1 DEF Changed, Running
<1>3. \A n \in Running' : secret'[n].joined = secret[n].joined
  BY Zenon, <1>1, <1>2 DEF Changed, Running
<1>4. Released(d)'
  <2>1. \A n \in Running' : secret'[n].joined = d => secretCache'[n].joined = d
    BY Zenon, <1>0, <1>1, <1>2, <1>3 DEF Left, Released
  <2>2. ASSUME ~machine'[d].hook, d \notin forced, NEW n \in Running'
        PROVE  secret'[n].joined # d
    <3>1. CASE ~machine[d].hook
      BY Zenon, <1>0, <1>2, <1>3, <2>2, <3>1 DEF Left, Released
    <3>2. CASE machine[d].hook
      <4>1. ~stillJoined(d) /\ machine[d].life # "gone"
        BY Zenon, <1>0, <1>1, <2>2, <3>2 DEF Changed
      <4>2. d \in Running
        BY Zenon, <1>0, <4>1 DEF MachinesStay, Running, TypeOK, MachineType
      <4>3. n \in Machines /\ secretCache[n].joined # d
        BY Zenon, <1>0, <1>2, <4>1, <4>2 DEF stillJoined, Running, MachinesStay
      <4> QED
        BY Zenon, <1>0, <1>2, <1>3, <4>3 DEF Left, Released
    <3> QED
      BY Zenon, <3>1, <3>2
  <2> QED
    BY Zenon, <1>1, <2>1, <2>2 DEF Released
<1>5. CASE Before(d)
  <2>1. ASSUME NEW n \in Early
        PROVE  IF n \in Running' THEN FirstPlan(n)' ELSE secret'[n].state = "none"
    <3>1. CASE n \in Running'
      <4>1. n \in Running /\ FirstPlan(n)
        BY Zenon, <1>2, <1>5, <3>1 DEF Before
      <4>2. /\ secret'[n].label = secret[n].label /\ secret'[n].joinURL = secret[n].joinURL
            /\ secret'[n].joined = secret[n].joined /\ secret'[n].state = secret[n].state
        BY Zenon, <1>0, <1>1, <1>2, <3>1, <4>1 DEF Changed, FirstPlan
      <4> QED
        BY Zenon, <1>1, <3>1, <4>1, <4>2, SameCluster DEF FirstPlan
    <3>2. CASE n \notin Running' /\ n \in Running
      BY Zenon, <1>0, <1>1, <1>2, <3>2 DEF Changed
    <3>3. CASE n \notin Running' /\ n \notin Running
      <4>1. secret[n].state = "none"
        BY Zenon, <1>5, <3>3 DEF Before
      <4> QED
        BY Zenon, <1>0, <1>1, <3>3, <4>1 DEF Changed
    <3> QED
      BY Zenon, <3>1, <3>2, <3>3
  <2>2. Before(d)'
    BY Zenon, <1>1, <1>5, <2>1, SameCluster DEF Before
  <2> QED
    BY Zenon, <1>4, <2>2 DEF Left
<1>6. CASE After(d)
  <2>1. After(d)'
    BY Zenon, <1>0, <1>1, <1>6 DEF After, Changed
  <2> QED
    BY Zenon, <1>4, <2>1 DEF Left
<1> QED
  BY Zenon, <1>0, <1>5, <1>6 DEF Left

LEMMA NextLInv == IInv /\ LInv /\ [Next]_vars => LInv'
<1> SUFFICES ASSUME IInv, LInv, [Next]_vars
             PROVE  LInv'
  BY Zenon
<1>0. TypeOK /\ TypeOK'
  BY Zenon, NextIInv DEF IInv
<1>1. UNCHANGED scenario /\ (~dying' => ~dying)
  <2>1. ASSUME NEW m \in Machines, reconcileMachinePreTerminateAnnotation(m)
        PROVE  UNCHANGED scenario /\ (~dying' => ~dying)
    BY Zenon, <1>0, <2>1, HookUpdates
  <2>2. CASE DeleteCluster
    BY Zenon, <2>2 DEF DeleteCluster
  <2>3. CASE Load \/ Process \/ SyncMachines \/ SyncSecrets \/ ChangeKubeconfig \/ Quieten \/ UNCHANGED vars
    BY <2>3 DEF Load, Process, PlannerFrame, SyncMachines, SyncSecrets, ChangeKubeconfig, Quieten, vars
  <2>4. ASSUME NEW m \in Machines,
               \/ Run(m) \/ NodeRef(m) \/ RemoveMember(m) \/ DeleteNode(m)
               \/ Teardown(m) \/ Arrive(m) \/ Delete(m)
        PROVE  UNCHANGED scenario /\ UNCHANGED dying
    BY ZenonT(60), <2>4 DEF Run, NodeRef, RemoveMember, DeleteNode, Teardown, Arrive, Delete
  <2> QED
    BY Zenon, <2>1, <2>2, <2>3, <2>4 DEF Next
<1>2. ASSUME ~dying'
      PROVE  MachinesStay' /\ \A d \in Leavers : Left(d)'
  <2>1. ~dying /\ OneServerLeaves /\ MachinesStay /\ \A d \in Leavers : Left(d)
    BY Zenon, <1>1, <1>2 DEF LInv
  <2>2. MachinesStay'
    BY Zenon, <1>0, <1>2, <2>1, NextStays
  <2>3. ASSUME NEW d \in Leavers
        PROVE  Left(d)'
    BY Zenon, <1>0, <1>2, <2>1, LoadLeft, ProcessLeft, OtherLeft
  <2> QED
    BY Zenon, <2>2, <2>3
<1> QED
  BY Zenon, <1>1, <1>2, SameCluster DEF LInv

(* When the infrastructure of an etcd machine goes away, no machine that   *)
(* stays is joined to it, however far the caches and the pass of the       *)
(* planner are behind, in every cluster of which one server is deleted and *)
(* to which none is added: stillJoined may be asked of an outdated cache,  *)
(* because no plan joins the machine any more.  With two servers deleted,  *)
(* or a worker that arrives, a pass that loaded the machines before the    *)
(* deletion may still join one to it, and the cache may not show it.       *)
THEOREM NobodyIsLeftBehind == Spec /\ OneServerLeaves => NobodyLeftBehind
<1> DEFINE Nobody == \A m, n \in Machines :
              machine[m].life # "gone" /\ machine'[m].life = "gone" /\ Orderly(m)
                /\ machine[n].life = "alive" => secret[n].joined # m
<1>1. IInv /\ LInv /\ [Next]_vars => [Nobody]_vars
  <2> SUFFICES ASSUME IInv, LInv, [Next]_vars, NEW m \in Machines, NEW n \in Machines,
                      machine[m].life # "gone", machine'[m].life = "gone", Orderly(m),
                      machine[n].life = "alive"
               PROVE  secret[n].joined # m
    BY Zenon
  <2>0. TypeOK /\ ~dying /\ m \in Etcd /\ m \notin forced /\ MachinesStay
    BY Zenon DEF IInv, Orderly, LInv
  <2>1. ~dying'
    <3>1. ~DeleteCluster
      <4> SUFFICES ASSUME DeleteCluster
                   PROVE  FALSE
        BY Zenon
      <4>1. machine[m] \in MachineType
        BY Zenon, <2>0 DEF TypeOK
      <4>2. machine'[m] = [machine[m] EXCEPT !.life = "deleting"] \/ machine'[m] = machine[m]
        BY Zenon DEF DeleteCluster
      <4> QED
        BY Zenon, <4>1, <4>2 DEF MachineType
    <3>2. ASSUME NEW k \in Machines, reconcileMachinePreTerminateAnnotation(k)
          PROVE  ~dying'
      BY Zenon, <2>0, <3>2, HookUpdates
    <3> QED
      BY ZenonT(60), <2>0, <3>1, <3>2 DEF Next, Load, Process, PlannerFrame, SyncMachines, SyncSecrets, ChangeKubeconfig, Quieten,
         vars, Run, NodeRef, RemoveMember, DeleteNode, Teardown, Arrive, Delete
  <2>2. ~Load /\ ~Process
    BY Zenon DEF Load, Process, PlannerFrame
  <2>3. Changed(m)
    BY Zenon, <2>0, <2>1, <2>2, OtherSteps DEF LInv
  <2>4. machine[m].life = "deleting" /\ ~machine[m].hook
    BY Zenon, <2>3 DEF Changed
  <2>5. m \in Leavers
    BY Zenon, <2>0, <2>4 DEF Leavers, MachinesStay
  <2> QED
    BY Zenon, <2>0, <2>4, <2>5 DEF LInv, Left, Released, Running
<1>2. Init /\ OneServerLeaves => IInv /\ LInv
  BY Zenon, InitIInv, InitLInv
<1>3. IInv /\ LInv /\ [Next]_vars => (IInv /\ LInv)'
  BY Zenon, NextIInv, NextLInv
<1>4. Spec /\ OneServerLeaves => [](IInv /\ LInv)
  BY <1>2, <1>3, PTL DEF Spec
<1> QED
  BY <1>1, <1>4, PTL DEF Spec, NobodyLeftBehind
=============================================================================
