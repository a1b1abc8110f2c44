--------------------------- MODULE ProcessProofs ---------------------------
(***************************************************************************)
(* Proofs about Process: the types, that the creation of a snapshot leaves *)
(* a restoration alone, and that a snapshot is restored while no server    *)
(* runs.                                                                   *)
(***************************************************************************)
EXTENDS Process, TLAPS

Stopping == {"Started", "Shutdown", "Restore"}
AfterPods == {"InitialRestartCluster", "PostRestoreNodeCleanup", "RestartCluster", "Finished"}

(* Plans that start the server.                                            *)
Starting == {"desired", "podCleanup", "nodeCleanup"}

(* Machines that do not run have no plan, no label and no server.          *)
HostsAreSound ==
    /\ labels \subseteq Present
    /\ \A m \in Machines :
         /\ life[m] # "gone" => m \in Etcd \cup ControlPlane
         /\ life[m] = "absent" => m \notin joinURL
         /\ m \notin Present => node[m].plan = NoPlan
         /\ node[m].plan.kind = "none" => node[m].plan = NoPlan /\ m \notin up
         /\ node[m].plan.kind = "stop" /\ node[m].state = "applied" => m \notin up
         /\ node[m].plan.kind = "restore" => node[m].plan.for \in Restores

(* A status with a restoration that has begun, and has not come to the     *)
(* restart of the cluster, is not that of an initialized cluster.          *)
Uninitialized == {"Shutdown", "Restore", "PostRestorePodCleanup"}

StatusIsSound(s) ==
    /\ s.restore = 0 => s.phase = "none"
    /\ s.phase \in Uninitialized => ~s.initialized

(* A cluster that is initialized has no machine that a restoration has     *)
(* stopped.                                                                *)
Undisturbed ==
    /\ StatusIsSound(status) /\ StatusIsSound(cache.status)
    /\ cache.status.phase \in Uninitialized => ~status.initialized
    /\ status.initialized \/ cache.status.initialized =>
          \A m \in NotDeleting : node[m].plan.kind \notin {"stop", "restore"}

IInv == TypeOK /\ HostsAreSound /\ Undisturbed

-----------------------------------------------------------------------------
(* Restorations that are carried out: the request is not withdrawn, and no *)
(* etcd machine is deleted meanwhile.                                      *)
RestorationsStay ==
    \A s \in Scenarios : "restore" \notin s.withdrawals /\ s.removable \cap s.etcd = {}

Restoring(m) == node[m].plan.kind = "restore" /\ node[m].state = "pending"

Halted == up = {} /\ \A m \in Machines : node[m].plan.kind \in {"none", "stop", "restore"}

(* The machine that the restoration of the cached status is carried out    *)
(* by: the one that has the snapshot, or the one that is elected.          *)
Chosen(m) ==
    /\ labels = {m}
    /\ IF Snapshots[cache.status.restore].kind = "local" THEN Snapshots[cache.status.restore].on = m
       ELSE IF Fixed # None THEN Fixed = m
       ELSE m \in canBeInitNode /\ (m \in joinURL \/ canBeInitNode \cap joinURL = {})

RestorePlan ==
    [kind |-> "restore", for |-> cache.status.restore, join |-> Self, generation |-> 0, keep |-> {}]

(* Etcd machines and requests stay.                                        *)
EnvironmentStays ==
    /\ \A m \in Etcd : life[m] \in {"absent", "alive"}
    /\ spec.restore = 0 => cache.spec.restore = 0
    /\ cache.spec.restore = 0 => status.restore = 0
    /\ status.restore = 0 => cache.status.restore = 0

(* The Restore phase is reached with every machine stopped.                *)
RestoreIsHalted ==
    /\ status.phase = "Restore" =>
         \/ cache.status.phase = "Restore" /\ cache.status.restore = status.restore
         \/ cache.status.phase = "Shutdown" /\ \A m \in Machines : node[m].plan.kind # "restore"
    /\ status.phase = "Restore" \/ cache.status.phase = "Restore" => Halted

(* A restore plan is in place while the machines are stopped; in the       *)
(* Restore phase, it is that of the chosen machine.                        *)
RestoringIsHalted ==
    \A m \in Machines : Restoring(m) =>
        /\ Halted
        /\ status.phase \in Stopping /\ cache.status.phase \in Stopping
        /\ ~status.initialized /\ ~cache.status.initialized
        /\ cache.status.phase = "Restore" => Chosen(m)

(* A pass with a status of the Restore phase, when that is over, finds the *)
(* plan applied.                                                           *)
RestoredOnce ==
    cache.status.phase = "Restore" /\ status.phase \notin Stopping =>
        \E m \in Machines : Chosen(m) /\ Settled(m, RestorePlan)

RInv == EnvironmentStays /\ RestoreIsHalted /\ RestoringIsHalted /\ RestoredOnce

-----------------------------------------------------------------------------
(* What a step of a pass may do.                                           *)

(* A machine that is not labelled joins a labelled one, and is started     *)
(* when the labelled ones have been.                                       *)
Joins(m, plan) ==
    IF m \in labels THEN plan.join = Self
    ELSE plan.join \in labels /\ \A n \in labels \cap NotDeleting : node[n].state = "applied"

(* The plans it may write.                                                 *)
Permitted(m, plan) ==
    \/ /\ plan.kind \in Starting /\ Joins(m, plan)
       /\ cache.status.initialized \/ cache.status.phase \notin Stopping
       /\ plan.kind = "nodeCleanup" =>
             restoring("PostRestoreNodeCleanup") /\ m \in labels /\ plan.keep = NotDeleting
    \/ plan.kind = "rotate" /\ cache.status.initialized
    \/ plan.kind = "create" /\ cache.status.initialized /\ creating("Started")
    \/ plan.kind = "stop" /\ cache.status.phase = "Shutdown"
    \/ /\ restoring("Restore") /\ labels = {m} /\ runEtcdRestoreInitNodeElection.init = m
       /\ plan = RestorePlan /\ ~Settled(m, plan)

Writes ==
    /\ node' \in [Machines -> Nodes]
    /\ \A m \in Machines :
         node'[m] = node[m] \/ (m \in Present /\ node'[m].state = "pending" /\ Permitted(m, node'[m].plan))

(* The statuses it may save: with the restoration where it was,            *)
Keeps(s) ==
    /\ s.restore = cache.status.restore /\ s.phase = cache.status.phase
    /\ s.initialized => cache.status.initialized

(* of a cluster that is initialized,                                       *)
Initializes(s) ==
    /\ s.restore = cache.status.restore /\ s.phase = cache.status.phase
    /\ cache.status.phase \notin Stopping \cup {"PostRestorePodCleanup"}
    /\ \A m \in NotDeleting : node[m].plan.kind = "desired"

(* or one phase of the restoration further.                                *)
LabelStarted == \A m \in labels : node[m].plan.kind \in Starting /\ node[m].state = "applied"

Progresses(s) ==
    LET follows(phase, next) == restoring(phase) /\ s.restore = cache.status.restore /\ s.phase = next
    IN  \/ /\ cache.spec.restore = 0 /\ cache.status.restore # 0 /\ s.restore = 0 /\ s.phase = "none"
           /\ s.initialized = cache.status.initialized
        \/ /\ cache.spec.restore # 0 /\ s.restore = cache.spec.restore /\ s.phase = "Started"
           /\ s.initialized = cache.status.initialized
        \/ follows("Started", "Shutdown") /\ ~s.initialized
        \/ /\ follows("Shutdown", "Restore") /\ s.initialized = cache.status.initialized
           /\ \A m \in Present : node[m].plan = NoPlan \/
                 (node[m].plan.kind = "stop" /\ node[m].state = "applied")
        \/ /\ follows("Restore", "PostRestorePodCleanup") /\ s.initialized = cache.status.initialized
           /\ \E m \in Present : /\ labels = {m} /\ runEtcdRestoreInitNodeElection.init = m
                                 /\ Settled(m, RestorePlan)
        \/ /\ follows("PostRestorePodCleanup", "InitialRestartCluster")
           /\ s.initialized = cache.status.initialized /\ LabelStarted
        \/ /\ s.restore = cache.status.restore /\ s.initialized = cache.status.initialized
           /\ cache.status.restore # 0 /\ cache.status.phase \in AfterPods
           /\ s.phase \in AfterPods \ {"InitialRestartCluster"}

(* The creation of a snapshot in them.                                     *)
Creation(s) ==
    LET saves(create, phases) == s.create = create /\ s.createPhase \in phases
    IN  \/ saves(cache.status.create, {cache.status.createPhase})
        \/ cache.spec.create = 0 /\ saves(0, {"none"})
        \/ cache.spec.create # 0 /\ saves(cache.spec.create, {"Started", "Failed"})
        \/ /\ creating("Started") /\ saves(cache.spec.create, {"RestartCluster"})
           /\ \A m \in Present \cap Etcd : node[m].plan.kind = "create" /\ node[m].state = "applied"
        \/ creating("RestartCluster") /\ saves(cache.spec.create, {"Finished"})

(* The labels of an election.                                              *)
Elected(ls) ==
    /\ ls \subseteq Present
    /\ cache.status.phase = "Restore" =>
          /\ restoring("Restore") /\ ls = runEtcdRestoreInitNodeElection.labels
          /\ runEtcdRestoreInitNodeElection.init = None
    /\ cache.status.phase \notin {"Shutdown", "Restore"} =>
          ls = findInitNode.labels \/ ls = electInitNode.labels
    /\ cache.status.phase = "PostRestorePodCleanup" => LabelStarted

PassStep ==
    /\ PassFrame /\ capi' \in [paused : BOOLEAN, known : BOOLEAN] /\ forced' \subseteq Etcd
    /\ \/ UNCHANGED status
       \/ /\ cache = [spec |-> spec, status |-> status]
          /\ status' \in Statuses /\ Creation(status')
    /\ \/ /\ UNCHANGED <<labels, node>>
          /\ UNCHANGED status \/ Keeps(status') \/ Initializes(status') \/ Progresses(status')
       \/ Writes /\ UNCHANGED labels /\ (UNCHANGED status \/ Keeps(status'))
       \/ Elected(labels') /\ UNCHANGED <<node, status>>

-----------------------------------------------------------------------------
(* The operators.                                                          *)

LEMMA MinMachine ==
    ASSUME NEW S, S \subseteq Machines, S # {}
    PROVE  Min(S) \in S
<1>1. \E m \in S : \A n \in S : m <= n
  BY Zenon, ScenariosAssumption
<1> QED
  BY Zenon, <1>1 DEF Min

LEMMA ScenarioFacts ==
    ASSUME scenario \in Scenarios
    PROVE  /\ Etcd \subseteq Machines /\ ControlPlane \subseteq Machines /\ Early \subseteq Machines
           /\ Early = (Etcd \cup ControlPlane) \ scenario.late
           /\ scenario.late \cup scenario.removable \subseteq Etcd \cup ControlPlane
           /\ Fixed \in Machines \cup {None} /\ FirstInitNode \in Etcd \cap Early
           /\ scenario.creates \in Nat /\ scenario.rotates \in Nat
           /\ None \notin Machines /\ Self \notin Machines /\ Self # None
<1>1. IsScenario(scenario)
  BY Zenon, ScenariosAssumption
<1>2. /\ Etcd \subseteq Machines /\ ControlPlane \subseteq Machines /\ Early \subseteq Machines
      /\ Early = (Etcd \cup ControlPlane) \ scenario.late
      /\ scenario.late \cup scenario.removable \subseteq Etcd \cup ControlPlane
      /\ Fixed \in (Etcd \ scenario.late) \cup {None} /\ Etcd \ scenario.late # {}
      /\ scenario.creates \in Nat /\ scenario.rotates \in Nat
  BY Zenon, <1>1 DEF IsScenario, Etcd, ControlPlane, Early, Fixed
<1>3. FirstInitNode \in Etcd \cap Early
  <2>1. Min(Etcd \ scenario.late) \in Etcd \ scenario.late
    BY Zenon, <1>2, MinMachine
  <2> QED
    BY Zenon, <1>2, <2>1 DEF FirstInitNode
<1> QED
  BY Zenon, <1>2, <1>3, ScenariosAssumption

LEMMA SnapshotFacts ==
    ASSUME scenario \in Scenarios
    PROVE  /\ Restores \subseteq Nat \ {0} /\ Fresh \in Nat
           /\ \A r \in Restores : /\ r \in Original .. Wiped /\ Snapshots[r] \in Snapshot
                                  /\ Snapshots[r].on \in Etcd
<1>1. Snapshots \in Seq(Snapshot) /\ \A k \in DOMAIN Snapshots : Snapshots[k].on \in Etcd
  BY Zenon, ScenariosAssumption DEF IsScenario, Snapshots, Etcd
<1>2. Restores = 1 .. Len(Snapshots) /\ Len(Snapshots) \in Nat
  BY <1>1 DEF Restores
<1> DEFINE n == Len(Snapshots)
<1>4. Fresh = n + 1
  BY Zenon DEF Fresh
<1>5. \A r \in Restores : Snapshots[r] \in Snapshot /\ Snapshots[r].on \in Etcd
  BY <1>1 DEF Restores
<1> HIDE DEF n
<1>6. n \in Nat /\ Restores = 1 .. n
  BY Zenon, <1>2 DEF n
<1> QED
  BY <1>4, <1>5, <1>6 DEF Original, Wiped

LEMMA CacheType ==
    ASSUME TypeOK
    PROVE  /\ cache.spec \in Requests /\ cache.status \in Statuses
           /\ cache.status.restore \in Restores \cup {0} /\ cache.status.restore \in Nat
           /\ cache.spec.restore \in Restores \cup {0} /\ cache.spec.certs \in Nat
           /\ cache.status.initialized \in BOOLEAN /\ cache.status.configGeneration \in Nat
<1>1. cache.spec \in Requests /\ cache.status \in Statuses
  BY Zenon DEF TypeOK
<1>2. /\ cache.status.restore \in Restores \cup {0} /\ cache.spec.restore \in Restores \cup {0}
      /\ cache.spec.certs \in 0 .. scenario.rotates
      /\ cache.status.initialized \in BOOLEAN /\ cache.status.configGeneration \in Nat
  BY Zenon, <1>1 DEF Requests, Statuses
<1>3. Restores \subseteq Nat /\ scenario.rotates \in Nat
  BY Zenon, SnapshotFacts, ScenarioFacts DEF TypeOK
<1>4. cache.spec.certs \in Nat
  BY <1>2, <1>3
<1>5. cache.status.restore \in Nat
  <2>1. cache.status.restore \in Restores \cup {0}
    BY Zenon, <1>2
  <2>2. \A r \in Restores : r \in Nat
    BY Zenon, <1>3
  <2> QED
    BY <2>1, <2>2
<1> QED
  BY Zenon, <1>1, <1>2, <1>4, <1>5

(* What the search for the init node finds.                                *)
LEMMA FindInitNode ==
    ASSUME TypeOK, labels \subseteq Present
    PROVE  /\ findInitNode.labels \subseteq Present
           /\ findInitNode.found \in Machines \cup {None} /\ findInitNode.err \in BOOLEAN
           /\ ~findInitNode.err => findInitNode.found \in Present \cap labels
<1> DEFINE suitable == labels \cap canBeInitNode
           init == CHOOSE m \in suitable : TRUE
           late == init \notin joinURL /\ canBeInitNode \cap joinURL # {}
           others == (labels \cap Etcd) \ {Fixed}
<1>0. Fixed \in Machines \cup {None} /\ None \notin Present /\ Present \subseteq Machines
  BY Zenon, ScenarioFacts DEF TypeOK, Present
<1>1. CASE Fixed # None
  <2>1. findInitNode = findAndDesignateFixedInitNode
    BY Zenon, <1>1 DEF findInitNode
  <2>2. CASE Fixed \notin Present
    BY Zenon, <2>1, <2>2 DEF findAndDesignateFixedInitNode
  <2>3. CASE Fixed \in Present /\ Fixed \in labels
    BY Zenon, <1>0, <2>1, <2>3 DEF findAndDesignateFixedInitNode
  <2>4. CASE Fixed \in Present /\ Fixed \notin labels
    <3> DEFINE ls == IF others # {} THEN labels \ others ELSE labels \cup {Fixed}
    <3>1. ls \subseteq Present
      BY Zenon, <2>4
    <3>2. findInitNode = [found |-> None, err |-> TRUE, labels |-> ls]
      BY Zenon, <2>1, <2>4 DEF findAndDesignateFixedInitNode
    <3> HIDE DEF ls
    <3> QED
      BY Zenon, <3>1, <3>2
  <2> QED
    BY Zenon, <2>2, <2>3, <2>4
<1>2. CASE Fixed = None /\ (~Single(labels) \/ suitable = {})
  <2>1. findInitNode = [found |-> None, err |-> TRUE, labels |-> labels]
    BY Zenon, <1>2 DEF findInitNode
  <2> QED
    BY Zenon, <2>1
<1>3. CASE Fixed = None /\ ~(~Single(labels) \/ suitable = {})
  <2>1. findInitNode = [found |-> init, labels |-> labels, err |-> late]
    BY Zenon, <1>3 DEF findInitNode
  <2>2. init \in suitable
    BY Zenon, <1>3
  <2>3. late \in BOOLEAN
    BY Zenon
  <2>4. init \in Present \cap labels
    BY Zenon, <2>2
  <2> HIDE DEF init, late
  <2> QED
    BY Zenon, <1>0, <2>1, <2>3, <2>4
<1> QED
  BY Zenon, <1>1, <1>2, <1>3

LEMMA ElectInitNode ==
    ASSUME TypeOK, labels \subseteq Present
    PROVE  /\ electInitNode.labels \subseteq Present
           /\ electInitNode.init \in (Present \cap labels) \cup {None}
<1> DEFINE best == canBeInitNode \cap joinURL
           elected == IF labels # {} THEN {}
                      ELSE IF best # {} THEN {Min(best)}
                      ELSE IF canBeInitNode # {} THEN {Min(canBeInitNode)}
                      ELSE {}
<1>1. elected \subseteq Present
  <2>1. canBeInitNode \subseteq Present /\ best \subseteq canBeInitNode /\ Present \subseteq Machines
    BY Zenon DEF canBeInitNode, NotDeleting, Present
  <2>2. best # {} => Min(best) \in best
    BY Zenon, <2>1, MinMachine
  <2>3. canBeInitNode # {} => Min(canBeInitNode) \in canBeInitNode
    BY Zenon, <2>1, MinMachine
  <2> QED
    BY Zenon, <2>1, <2>2, <2>3
<1>2. electInitNode = IF ~findInitNode.err \/ Fixed # None
                      THEN [init |-> IF findInitNode.err THEN None ELSE findInitNode.found,
                            labels |-> findInitNode.labels]
                      ELSE [init |-> None, labels |-> elected]
  BY Zenon DEF electInitNode
<1> HIDE DEF elected
<1> QED
  BY Zenon, <1>1, <1>2, FindInitNode

LEMMA ElectForRestore ==
    ASSUME TypeOK, labels \subseteq Present
    PROVE  /\ runEtcdRestoreInitNodeElection.labels \subseteq Present
           /\ runEtcdRestoreInitNodeElection.init \in (Present \cap labels) \cup {None}
<1> DEFINE snapshot == Snapshots[cache.spec.restore]
           d == designateInitNodeByMachineID(snapshot.on)
<1>1. d.labels \subseteq Present /\ d.init \in (Present \cap labels) \cup {None}
  BY Zenon DEF designateInitNodeByMachineID
<1>2. runEtcdRestoreInitNodeElection =
        IF snapshot.kind = "local" THEN d
        ELSE IF snapshot.kind = "s3" \/ Single(canBeInitNode) THEN electInitNode
        ELSE [init |-> None, labels |-> labels]
  BY Zenon DEF runEtcdRestoreInitNodeElection
<1> HIDE DEF d, snapshot
<1> QED
  BY Zenon, <1>1, <1>2, ElectInitNode

(* Every plan that is generated for a machine has the type of one.         *)
LEMMA PlanForType ==
    ASSUME TypeOK, NEW m \in Machines, NEW server \in Machines \cup {None},
           NEW kind \in Kinds, NEW for \in Nat
    PROVE  /\ PlanFor(kind, m, for, server) \in Plans
           /\ PlanFor(kind, m, for, server) =
                 [kind |-> kind, for |-> for, join |-> joinedTo(m, server), generation |-> 0, keep |-> {}]
<1>1. joinedTo(m, server) \in Machines \cup {Self, None}
  BY Zenon DEF joinedTo
<1>2. PlanFor(kind, m, for, server) =
        [kind |-> kind, for |-> for, join |-> joinedTo(m, server), generation |-> 0, keep |-> {}]
  BY Zenon DEF PlanFor
<1> QED
  BY <1>1, <1>2 DEF Plans

LEMMA DesiredPlanType ==
    ASSUME TypeOK, NEW m \in Machines, NEW server \in Machines \cup {None}
    PROVE  /\ desiredPlan(m, server) \in Plans /\ desiredPlan(m, server).kind = "desired"
           /\ desiredPlan(m, server).join = joinedTo(m, server)
<1> DEFINE p == PlanFor("desired", m, 0, server)
<1>1. /\ p \in Plans /\ p.kind = "desired" /\ p.join = joinedTo(m, server)
      /\ cache.status.configGeneration \in Nat
  <2>1. "desired" \in Kinds /\ 0 \in Nat
    BY DEF Kinds
  <2>2. /\ p \in Plans
        /\ p = [kind |-> "desired", for |-> 0, join |-> joinedTo(m, server), generation |-> 0, keep |-> {}]
    BY Zenon, <2>1, PlanForType
  <2> HIDE DEF p
  <2> QED
    BY Zenon, <2>2, CacheType
<1>2. desiredPlan(m, server) = [p EXCEPT !.generation = cache.status.configGeneration]
  BY Zenon DEF desiredPlan
<1> HIDE DEF p
<1> QED
  BY Zenon, <1>1, <1>2 DEF Plans

LEMMA CleanupPlanType ==
    ASSUME TypeOK, NEW m \in Machines, NEW server \in Machines \cup {None}
    PROVE  /\ PodCleanupPlan(m, server) \in Plans /\ PodCleanupPlan(m, server).kind = "podCleanup"
           /\ PodCleanupPlan(m, server).join = joinedTo(m, server)
           /\ NodeCleanupPlan(m) \in Plans /\ NodeCleanupPlan(m).kind = "nodeCleanup"
           /\ NodeCleanupPlan(m).join = joinedTo(m, None) /\ NodeCleanupPlan(m).keep = NotDeleting
<1> DEFINE p == desiredPlan(m, server)
           q == desiredPlan(m, None)
<1>1. p \in Plans /\ q \in Plans /\ p.join = joinedTo(m, server) /\ q.join = joinedTo(m, None)
  BY Zenon, DesiredPlanType
<1>2. cache.status.restore \in Nat /\ NotDeleting \subseteq Machines
  BY Zenon, CacheType DEF NotDeleting
<1>3. PodCleanupPlan(m, server) = [p EXCEPT !.kind = "podCleanup", !.for = cache.status.restore]
  BY Zenon DEF PodCleanupPlan
<1>4. NodeCleanupPlan(m) =
        [q EXCEPT !.kind = "nodeCleanup", !.for = cache.status.restore, !.keep = NotDeleting]
  BY Zenon DEF NodeCleanupPlan
<1> HIDE DEF p, q
<1>5. /\ PodCleanupPlan(m, server) \in Plans /\ PodCleanupPlan(m, server).kind = "podCleanup"
      /\ PodCleanupPlan(m, server).join = joinedTo(m, server)
  BY Zenon, <1>1, <1>2, <1>3 DEF Plans, Kinds
<1>6. /\ NodeCleanupPlan(m) \in Plans /\ NodeCleanupPlan(m).kind = "nodeCleanup"
      /\ NodeCleanupPlan(m).join = joinedTo(m, None) /\ NodeCleanupPlan(m).keep = NotDeleting
  BY Zenon, <1>1, <1>2, <1>4 DEF Plans, Kinds
<1> QED
  BY Zenon, <1>5, <1>6

-----------------------------------------------------------------------------
(* The steps of a pass, one by one.                                        *)

LEMMA Saving ==
    ASSUME IInv, NEW s \in Statuses, SaveOnly(s), Creation(s),
           Keeps(s) \/ Initializes(s) \/ Progresses(s)
    PROVE  PassStep
<1>1. /\ PassFrame /\ UNCHANGED <<capi, labels, forced, node>>
      /\ capi \in [paused : BOOLEAN, known : BOOLEAN] /\ forced \subseteq Etcd
  BY Zenon DEF SaveOnly, IInv, TypeOK
<1>2. UNCHANGED status \/ (cache = [spec |-> spec, status |-> status] /\ status' = s)
  BY Zenon DEF SaveOnly, Save
<1>3. \/ UNCHANGED status
      \/ Creation(status') /\ (Keeps(status') \/ Initializes(status') \/ Progresses(status'))
  BY Zenon, <1>2
<1> QED
  BY Zenon, <1>1, <1>2, <1>3 DEF PassStep

LEMMA Electing ==
    ASSUME IInv, NEW e, Elected(e.labels), Elect(e)
    PROVE  PassStep
<1>1. /\ PassFrame /\ UNCHANGED <<status, capi, forced, node>> /\ labels' = e.labels
      /\ capi \in [paused : BOOLEAN, known : BOOLEAN] /\ forced \subseteq Etcd
  BY Zenon DEF Elect, IInv, TypeOK
<1> QED
  BY Zenon, <1>1 DEF PassStep

LEMMA Pausing ==
    ASSUME IInv, NEW pause \in BOOLEAN, pauseCAPICluster(pause)
    PROVE  capi' \in [paused : BOOLEAN, known : BOOLEAN]
<1>1. capi \in [paused : BOOLEAN, known : BOOLEAN]
  BY Zenon DEF IInv, TypeOK
<1> DEFINE k == IF scenario.lag THEN capi.known ELSE pause
<1>2. k \in BOOLEAN
  BY Zenon, <1>1
<1>3. capi' = capi \/ capi' = [paused |-> pause, known |-> k]
  BY Zenon DEF pauseCAPICluster
<1> HIDE DEF k
<1> QED
  BY <1>1, <1>2, <1>3

LEMMA PausingOnly ==
    ASSUME IInv, NEW pause \in BOOLEAN, PauseOnly(pause)
    PROVE  PassStep
<1>1. PassFrame /\ UNCHANGED <<status, labels, forced, node>> /\ forced \subseteq Etcd
  BY Zenon DEF PauseOnly, IInv, TypeOK
<1>2. capi' \in [paused : BOOLEAN, known : BOOLEAN]
  BY Zenon, Pausing DEF PauseOnly
<1> QED
  BY Zenon, <1>1, <1>2 DEF PassStep

LEMMA Forcing ==
    ASSUME IInv, ForceDelete
    PROVE  PassStep
<1>1. /\ PassFrame /\ UNCHANGED <<status, capi, labels, node>> /\ forced' = forced \cup deletingEtcd
      /\ capi \in [paused : BOOLEAN, known : BOOLEAN] /\ forced \subseteq Etcd
  BY Zenon DEF ForceDelete, IInv, TypeOK
<1>2. forced' \subseteq Etcd
  BY Zenon, <1>1 DEF deletingEtcd
<1> QED
  BY Zenon, <1>1, <1>2 DEF PassStep

LEMMA Updating ==
    ASSUME IInv, NEW m \in Present, NEW plan \in Plans, Permitted(m, plan), UpdatePlan(m, plan)
    PROVE  Writes
<1> DEFINE r == [plan |-> plan, state |-> "pending"]
<1>1. r \in Nodes /\ r.plan = plan /\ r.state = "pending"
  BY Zenon DEF Nodes
<1>2. node' = [node EXCEPT ![m] = r] /\ node \in [Machines -> Nodes] /\ m \in Machines
  BY Zenon DEF UpdatePlan, IInv, TypeOK, Present
<1> HIDE DEF r
<1>3. node' \in [Machines -> Nodes] /\ node'[m] = r /\ \A n \in Machines \ {m} : node'[n] = node[n]
  BY Zenon, <1>1, <1>2
<1> QED
  BY Zenon, <1>1, <1>3 DEF Writes

LEMMA AssigningChecked ==
    ASSUME IInv, NEW m \in Present, NEW plan \in Plans, Permitted(m, plan), assignAndCheckPlan(m, plan)
    PROVE  Writes
<1>1. CASE UNCHANGED node
  BY Zenon, <1>1 DEF Writes, IInv, TypeOK
<1>2. CASE UpdatePlan(m, plan)
  BY Zenon, <1>2, Updating
<1> QED
  BY Zenon, <1>1, <1>2 DEF assignAndCheckPlan

LEMMA Assigning ==
    ASSUME IInv, NEW m \in Present, NEW plan \in Plans, Permitted(m, plan), Assign(m, plan)
    PROVE  PassStep
<1>1. /\ PassFrame /\ UNCHANGED <<status, capi, labels, forced>>
      /\ capi \in [paused : BOOLEAN, known : BOOLEAN] /\ forced \subseteq Etcd
  BY Zenon DEF Assign, IInv, TypeOK
<1>2. Writes
  BY Zenon, AssigningChecked DEF Assign
<1> QED
  BY Zenon, <1>1, <1>2 DEF PassStep

LEMMA OneLabel ==
    ASSUME IInv, Single(labels)
    PROVE  \E m \in Present : labels = {m}
<1>1. labels \subseteq Present
  BY Zenon DEF IInv, HostsAreSound
<1> QED
  BY Zenon, <1>1 DEF Single

LEMMA IInvFacts ==
    ASSUME IInv
    PROVE  /\ TypeOK /\ labels \subseteq Present /\ Present \subseteq Machines
           /\ NotDeleting \subseteq Present /\ None \notin Machines
           /\ cache.status.phase \in Uninitialized => ~cache.status.initialized
<1>1. TypeOK /\ scenario \in Scenarios
  BY Zenon DEF IInv, TypeOK
<1>2. labels \subseteq Present /\ Present \subseteq Machines /\ NotDeleting \subseteq Present
  BY Zenon DEF IInv, HostsAreSound, Present, NotDeleting
<1> QED
  BY Zenon, <1>1, <1>2, ScenarioFacts DEF IInv, Undisturbed, StatusIsSound

(* The statuses that a pass computes.                                      *)
SameCreation(s) == s.create = cache.status.create /\ s.createPhase = cache.status.createPhase

LEMMA CreationStays ==
    ASSUME NEW s, SameCreation(s)
    PROVE  Creation(s)
BY Zenon DEF SameCreation, Creation

LEMMA CreateStatus ==
    ASSUME TypeOK, NEW create \in {0, cache.spec.create}, NEW phase \in CreatePhases
    PROVE  LET s == setEtcdSnapshotCreateState(create, phase)
           IN  s \in Statuses /\ Keeps(s) /\ s.create = create /\ s.createPhase = phase
<1> DEFINE c == cache.status
           s == [c EXCEPT !.create = create, !.createPhase = phase]
<1>1. create \in 0 .. scenario.creates
  <2>1. cache.spec.create \in 0 .. scenario.creates
    BY Zenon, CacheType DEF Requests
  <2>2. scenario.creates \in Nat
    BY Zenon, ScenarioFacts DEF TypeOK
  <2> QED
    BY <2>1, <2>2
<1>2. c \in Statuses
  BY Zenon, CacheType
<1>3. setEtcdSnapshotCreateState(create, phase) = s
  BY Zenon DEF setEtcdSnapshotCreateState
<1>4. /\ s \in Statuses /\ s.restore = c.restore /\ s.phase = c.phase /\ s.initialized = c.initialized
      /\ s.create = create /\ s.createPhase = phase
  <2> HIDE DEF c
  <2> QED
    BY Zenon, <1>1, <1>2 DEF Statuses
<1> QED
  BY Zenon, <1>3, <1>4 DEF Keeps

LEMMA RestoreStatus ==
    ASSUME TypeOK, NEW restore \in {0, cache.spec.restore}, NEW phase \in Phases
    PROVE  LET s == setEtcdSnapshotRestoreState(restore, phase)
           IN  /\ s \in Statuses /\ s.restore = restore /\ s.phase = phase
               /\ s.initialized = cache.status.initialized /\ SameCreation(s)
<1> DEFINE c == cache.status
           s == [c EXCEPT !.restore = restore, !.phase = phase]
<1>1. restore \in Restores \cup {0}
  BY Zenon, CacheType
<1>2. c \in Statuses
  BY Zenon, CacheType
<1>3. setEtcdSnapshotRestoreState(restore, phase) = s
  BY Zenon DEF setEtcdSnapshotRestoreState
<1>4. /\ s \in Statuses /\ s.restore = restore /\ s.phase = phase /\ s.initialized = c.initialized
      /\ s.create = c.create /\ s.createPhase = c.createPhase
  <2> HIDE DEF c
  <2> QED
    BY Zenon, <1>1, <1>2 DEF Statuses
<1> QED
  BY Zenon, <1>3, <1>4 DEF SameCreation

LEMMA UninitializeStep ==
    ASSUME IInv, uninitialize
    PROVE  PassStep
<1> DEFINE c == cache.status
           s == [c EXCEPT !.initialized = FALSE]
<1>1. c \in Statuses
  BY Zenon, IInvFacts, CacheType
<1>2. /\ s \in Statuses /\ s.restore = c.restore /\ s.phase = c.phase /\ ~s.initialized
      /\ s.create = c.create /\ s.createPhase = c.createPhase
  <2> HIDE DEF c
  <2> QED
    BY Zenon, <1>1 DEF Statuses
<1>3. Keeps(s) /\ Creation(s)
  BY Zenon, <1>2, CreationStays DEF Keeps, SameCreation
<1>4. SaveOnly(s) \/ ForceDelete
  BY Zenon DEF uninitialize
<1> HIDE DEF s
<1> QED
  BY Zenon, <1>2, <1>3, <1>4, Saving, Forcing

(* Whom a machine joins.                                                   *)
LEMMA LabelledJoins ==
    ASSUME IInv, NEW m \in labels, NEW server \in Machines \cup {None}
    PROVE  /\ Joins(m, desiredPlan(m, server)) /\ Joins(m, PodCleanupPlan(m, server))
           /\ Joins(m, NodeCleanupPlan(m))
<1>1. TypeOK /\ m \in Machines
  BY Zenon, IInvFacts
<1>2. joinedTo(m, server) = Self /\ joinedTo(m, None) = Self
  BY Zenon DEF joinedTo
<1> QED
  BY Zenon, <1>1, <1>2, DesiredPlanType, CleanupPlanType DEF Joins

LEMMA UnlabelledJoins ==
    ASSUME IInv, NEW m \in Present \ labels, NEW server \in labels,
           \A n \in labels \cap NotDeleting : node[n].state = "applied"
    PROVE  Joins(m, desiredPlan(m, server)) /\ Joins(m, PodCleanupPlan(m, server))
<1>1. TypeOK /\ m \in Machines /\ server \in Machines /\ server # None
  BY Zenon, IInvFacts
<1>2. joinedTo(m, server) = server
  BY Zenon, <1>1 DEF joinedTo
<1> QED
  BY Zenon, <1>1, <1>2, DesiredPlanType, CleanupPlanType DEF Joins

-----------------------------------------------------------------------------
(* createEtcdSnapshot                                                      *)

LEMMA CreatePlanType ==
    ASSUME TypeOK, NEW m \in Machines, NEW server \in Machines \cup {None}
    PROVE  /\ generateEtcdSnapshotCreatePlan(m, server) \in Plans
           /\ generateEtcdSnapshotCreatePlan(m, server).kind = "create"
<1> DEFINE p == PlanFor("create", m, 0, server)
<1>1. "create" \in Kinds /\ 0 \in Nat
  BY DEF Kinds
<1>2. /\ p \in Plans
      /\ p = [kind |-> "create", for |-> 0, join |-> joinedTo(m, server), generation |-> 0, keep |-> {}]
  BY Zenon, <1>1, PlanForType
<1>3. p.kind = "create"
  <2> HIDE DEF p
  <2> QED
    BY <1>2
<1> QED
  BY Zenon, <1>2, <1>3 DEF generateEtcdSnapshotCreatePlan

LEMMA CreateStep ==
    ASSUME IInv, cache.spec.create # 0, cache.status.initialized, runEtcdSnapshotCreate
    PROVE  PassStep
<1> DEFINE f == findInitNode
           servers == Present \cap Etcd
           plan(m) == generateEtcdSnapshotCreatePlan(m, f.found)
           todo == {m \in servers : node[m].plan # plan(m)}
<1>0. /\ TypeOK /\ labels \subseteq Present /\ Present \subseteq Machines
      /\ cache.status.phase \notin Uninitialized /\ creating("Started")
  BY Zenon, IInvFacts DEF runEtcdSnapshotCreate
<1>1. Elected(f.labels) /\ f.found \in Machines \cup {None}
  BY Zenon, <1>0, FindInitNode DEF Elected, Uninitialized
<1>2. CASE f.err
  <2>1. Elect(f)
    BY Zenon, <1>2 DEF runEtcdSnapshotCreate
  <2> HIDE DEF f
  <2> QED
    BY Zenon, <1>0, <1>1, <2>1, Electing
<1>3. CASE ~f.err
  <2>1. PICK conflicts \in IF scenario.crashes /\ ~quiet THEN SUBSET todo ELSE {{}} :
          /\ node' = [m \in Machines |-> IF m \in todo \ conflicts
                         THEN [plan |-> plan(m), state |-> "pending"] ELSE node[m]]
          /\ Save(IF \/ conflicts # {}
                     \/ \E m \in servers \ todo : node[m].state = "failed"
                  THEN setEtcdSnapshotCreateState(cache.spec.create, "Failed")
                  ELSE IF created(servers, f.found)
                  THEN setEtcdSnapshotCreateState(cache.spec.create, "RestartCluster")
                  ELSE cache.status)
          /\ PassFrame /\ UNCHANGED <<capi, labels, forced>>
    BY Zenon, <1>3 DEF runEtcdSnapshotCreate
  <2>2. \A m \in Machines : plan(m) \in Plans /\ plan(m).kind = "create"
    BY Zenon, <1>0, <1>1, CreatePlanType
  <2>3. Writes
    <3>1. todo \subseteq Present /\ node \in [Machines -> Nodes]
      BY Zenon, <1>0 DEF TypeOK
    <3> DEFINE r(m) == [plan |-> plan(m), state |-> "pending"]
    <3>2. node' = [m \in Machines |-> IF m \in todo \ conflicts THEN r(m) ELSE node[m]]
      BY Zenon, <2>1
    <3> HIDE DEF plan, todo
    <3>3. \A m \in Machines : /\ r(m) \in Nodes /\ r(m).plan.kind = "create"
                              /\ r(m).state = "pending" /\ r(m).plan = plan(m)
      BY Zenon, <2>2 DEF Nodes
    <3> HIDE DEF r
    <3>4. node' \in [Machines -> Nodes]
      BY Zenon, <3>1, <3>2, <3>3
    <3>5. ASSUME NEW m \in Machines
          PROVE  node'[m] = node[m] \/ (m \in Present /\ node'[m].state = "pending"
                                           /\ Permitted(m, node'[m].plan))
      <4>1. node'[m] = IF m \in todo \ conflicts THEN r(m) ELSE node[m]
        BY Zenon, <3>2
      <4>2. CASE m \in todo \ conflicts
        <5>1. Permitted(m, r(m).plan)
          BY Zenon, <1>0, <3>3 DEF Permitted
        <5> QED
          BY Zenon, <3>1, <3>3, <4>1, <4>2, <5>1
      <4> QED
        BY Zenon, <4>1, <4>2
    <3> QED
      BY Zenon, <3>4, <3>5 DEF Writes
  <2>4. \E s \in Statuses : Save(s) /\ Keeps(s) /\ Creation(s)
    <3> DEFINE failed == setEtcdSnapshotCreateState(cache.spec.create, "Failed")
               next == setEtcdSnapshotCreateState(cache.spec.create, "RestartCluster")
    <3>1. cache.status \in Statuses /\ Keeps(cache.status) /\ Creation(cache.status)
      BY Zenon, <1>0, CacheType DEF Keeps, Creation
    <3>2. /\ failed \in Statuses /\ Keeps(failed)
          /\ failed.create = cache.spec.create /\ failed.createPhase = "Failed"
          /\ next \in Statuses /\ Keeps(next)
          /\ next.create = cache.spec.create /\ next.createPhase = "RestartCluster"
      BY Zenon, <1>0, CreateStatus DEF CreatePhases
    <3>3. Save(failed) \/ (Save(next) /\ created(servers, f.found)) \/ Save(cache.status)
      BY Zenon, <2>1
    <3>4. ASSUME created(servers, f.found)
          PROVE  \A m \in servers : node[m].plan.kind = "create" /\ node[m].state = "applied"
      BY Zenon, <1>0, <2>2, <3>4 DEF created, Settled
    <3> HIDE DEF failed, next
    <3>5. Creation(failed) /\ (created(servers, f.found) => Creation(next))
      BY Zenon, <1>0, <3>2, <3>4 DEF Creation
    <3> QED
      BY Zenon, <3>1, <3>2, <3>3, <3>5
  <2>5. \/ UNCHANGED status
        \/ /\ cache = [spec |-> spec, status |-> status]
           /\ status' \in Statuses /\ Keeps(status') /\ Creation(status')
    BY Zenon, <2>4 DEF Save
  <2>6. capi \in [paused : BOOLEAN, known : BOOLEAN] /\ forced \subseteq Etcd
    BY Zenon, <1>0 DEF TypeOK
  <2> QED
    BY Zenon, <2>1, <2>3, <2>5, <2>6 DEF PassStep
<1> QED
  BY Zenon, <1>2, <1>3

LEMMA ManagementServiceStep ==
    ASSUME IInv, cache.spec.create # 0, cache.status.initialized, runEtcdSnapshotManagementServiceStart
    PROVE  PassStep \/ UNCHANGED vars
<1> DEFINE bootstrap == labels \cap NotDeleting
           f == findInitNode
           server == f.found
           late == outOfSync((NotDeleting \cap Etcd) \ labels, server)
           s == setEtcdSnapshotCreateState(cache.spec.create, "Finished")
<1>0. /\ TypeOK /\ labels \subseteq Present /\ Present \subseteq Machines /\ NotDeleting \subseteq Present
      /\ cache.status.phase \notin Uninitialized /\ creating("RestartCluster")
  BY Zenon, IInvFacts DEF runEtcdSnapshotManagementServiceStart
<1>1. Elected(f.labels) /\ server \in Machines \cup {None} /\ (~f.err => server \in labels)
  BY Zenon, <1>0, FindInitNode DEF Elected, Uninitialized
<1>2. ASSUME NEW m \in Present, NEW to \in Machines \cup {None}, Joins(m, desiredPlan(m, to)),
             Assign(m, desiredPlan(m, to))
      PROVE  PassStep
  <2>1. desiredPlan(m, to) \in Plans /\ desiredPlan(m, to).kind = "desired"
    BY Zenon, <1>0, DesiredPlanType
  <2>2. Permitted(m, desiredPlan(m, to))
    BY Zenon, <1>2, <2>1 DEF Permitted, Starting
  <2> QED
    BY Zenon, <1>2, <2>1, <2>2, Assigning
<1>3. ASSUME late # {}
      PROVE  Min(late) \in NotDeleting \ labels
  <2>1. late \subseteq NotDeleting \ labels
    BY Zenon DEF outOfSync
  <2> HIDE DEF late
  <2>2. Min(late) \in late
    BY Zenon, <1>0, <1>3, <2>1, MinMachine
  <2> QED
    BY Zenon, <2>1, <2>2
<1>4. s \in Statuses /\ Keeps(s) /\ Creation(s)
  <2>1. s \in Statuses /\ Keeps(s) /\ s.create = cache.spec.create /\ s.createPhase = "Finished"
    BY Zenon, <1>0, CreateStatus DEF CreatePhases
  <2> HIDE DEF s
  <2> QED
    BY Zenon, <1>0, <2>1 DEF Creation
<1>5. \/ \E m \in bootstrap : Assign(m, desiredPlan(m, None)) \/ UNCHANGED vars
      \/ Elect(f) \/ UNCHANGED vars
      \/ /\ outOfSync(bootstrap, None) = {} /\ ~f.err
         /\ late # {} /\ Assign(Min(late), desiredPlan(Min(late), server))
      \/ SaveOnly(s)
  BY Zenon DEF runEtcdSnapshotManagementServiceStart
<1>6. ASSUME NEW m \in bootstrap, Assign(m, desiredPlan(m, None))
      PROVE  PassStep
  <2>1. m \in Present /\ Joins(m, desiredPlan(m, None))
    BY Zenon, <1>0, LabelledJoins
  <2> QED
    BY Zenon, <1>2, <1>6, <2>1
<1>7. ASSUME Elect(f)
      PROVE  PassStep
  <2> HIDE DEF f
  <2> QED
    BY Zenon, <1>1, <1>7, Electing
<1>8. ASSUME SaveOnly(s)
      PROVE  PassStep
  <2> HIDE DEF s
  <2> QED
    BY Zenon, <1>4, <1>8, Saving
<1>9. ASSUME outOfSync(bootstrap, None) = {}, ~f.err, late # {},
             Assign(Min(late), desiredPlan(Min(late), server))
      PROVE  PassStep
  <2>1. Min(late) \in NotDeleting \ labels /\ server \in labels
    BY Zenon, <1>1, <1>3, <1>9
  <2>2. \A n \in labels \cap NotDeleting : node[n].state = "applied"
    BY Zenon, <1>9 DEF outOfSync, Settled
  <2> HIDE DEF late, server
  <2>3. Joins(Min(late), desiredPlan(Min(late), server))
    BY Zenon, <1>0, <2>1, <2>2, UnlabelledJoins
  <2> QED
    BY Zenon, <1>0, <1>1, <1>2, <1>9, <2>1, <2>3
<1> HIDE DEF bootstrap, late, s, f
<1> QED
  BY Zenon, <1>5, <1>6, <1>7, <1>8, <1>9

LEMMA CreationStep ==
    ASSUME IInv, creationPending, createEtcdSnapshot
    PROVE  PassStep \/ UNCHANGED vars
<1>0. TypeOK
  BY Zenon, IInvFacts
<1>1. CASE cache.spec.create = 0
  <2> DEFINE s == setEtcdSnapshotCreateState(0, "none")
  <2>1. s \in Statuses /\ Keeps(s) /\ s.create = 0 /\ s.createPhase = "none"
    BY Zenon, <1>0, CreateStatus DEF CreatePhases
  <2>2. SaveOnly(s)
    BY Zenon, <1>1 DEF createEtcdSnapshot, resetEtcdSnapshotCreateState, startOrRestartEtcdSnapshotCreate,
                runEtcdSnapshotCreate, runEtcdSnapshotManagementServiceStart, creating
  <2> HIDE DEF s
  <2>3. Creation(s)
    BY Zenon, <1>1, <2>1 DEF Creation
  <2> QED
    BY Zenon, <2>1, <2>2, <2>3, Saving
<1>2. CASE cache.spec.create # 0
  <2>1. cache.status.initialized
    BY Zenon, <1>2 DEF creationPending
  <2> DEFINE s == setEtcdSnapshotCreateState(cache.spec.create, "Started")
  <2>2. s \in Statuses /\ Keeps(s) /\ s.create = cache.spec.create /\ s.createPhase = "Started"
    BY Zenon, <1>0, CreateStatus DEF CreatePhases
  <2>3. SaveOnly(s) \/ runEtcdSnapshotCreate \/ runEtcdSnapshotManagementServiceStart
    BY Zenon, <1>2 DEF createEtcdSnapshot, resetEtcdSnapshotCreateState, startOrRestartEtcdSnapshotCreate
  <2> HIDE DEF s
  <2>4. Creation(s)
    BY Zenon, <1>2, <2>2 DEF Creation
  <2> QED
    BY Zenon, <1>2, <2>1, <2>2, <2>3, <2>4, Saving, CreateStep, ManagementServiceStep
<1> QED
  BY Zenon, <1>1, <1>2

-----------------------------------------------------------------------------
(* fullReconcile and restoreEtcdSnapshot                                   *)

LEMMA TierStep ==
    ASSUME IInv, cache.status.phase \notin Stopping, NEW tier, tier \subseteq NotDeleting,
           NEW server \in Machines \cup {None}, \A m \in tier : Joins(m, desiredPlan(m, server)),
           reconcileTier(tier, server)
    PROVE  PassStep
<1>0. TypeOK /\ Present \subseteq Machines /\ NotDeleting \subseteq Present
  BY Zenon, IInvFacts
<1>1. Writes
  <2>1. CASE UNCHANGED node
    BY Zenon, <1>0, <2>1 DEF Writes, TypeOK
  <2>2. ASSUME NEW m \in replaceable(tier, server), UpdatePlan(m, desiredPlan(m, server))
        PROVE  Writes
    <3>1. m \in Present
      BY Zenon, <1>0 DEF replaceable
    <3>2. desiredPlan(m, server) \in Plans /\ desiredPlan(m, server).kind = "desired"
      BY Zenon, <1>0, <3>1, DesiredPlanType
    <3>3. Permitted(m, desiredPlan(m, server))
      BY Zenon, <3>2 DEF Permitted, Starting, replaceable
    <3> QED
      BY Zenon, <2>2, <3>1, <3>2, <3>3, Updating
  <2> QED
    BY Zenon, <2>1, <2>2 DEF reconcileTier
<1> DEFINE c == cache.status
           s == [c EXCEPT !.bootstrapped = TRUE]
<1>2. c \in Statuses
  BY Zenon, <1>0, CacheType
<1>3. /\ s \in Statuses /\ s.restore = c.restore /\ s.phase = c.phase /\ s.initialized = c.initialized
      /\ s.create = c.create /\ s.createPhase = c.createPhase
  <2> HIDE DEF c
  <2> QED
    BY Zenon, <1>2 DEF Statuses
<1>4. s \in Statuses /\ Keeps(s) /\ Creation(s)
  BY Zenon, <1>3, CreationStays DEF Keeps, SameCreation
<1>5. Save(s) /\ PassFrame /\ UNCHANGED <<capi, labels, forced>>
  BY Zenon DEF reconcileTier
<1> HIDE DEF s
<1>6. \/ UNCHANGED status
      \/ /\ cache = [spec |-> spec, status |-> status]
         /\ status' \in Statuses /\ Keeps(status') /\ Creation(status')
  BY Zenon, <1>4, <1>5 DEF Save
<1>7. capi \in [paused : BOOLEAN, known : BOOLEAN] /\ forced \subseteq Etcd
  BY Zenon, <1>0 DEF TypeOK
<1> QED
  BY Zenon, <1>1, <1>5, <1>6, <1>7 DEF PassStep

LEMMA ReconcileStep ==
    ASSUME IInv, cache.status.phase \notin Stopping \cup {"PostRestorePodCleanup"}, fullReconcile
    PROVE  PassStep
<1> DEFINE e == electInitNode
           i == e.init
           bootstrap == labels \cap NotDeleting
           etcd == (NotDeleting \cap Etcd) \ labels
           control == (NotDeleting \cap ControlPlane) \ labels
           some == ControlPlane \cap joinURL \cap NotDeleting # {}
           c == cache.status
           initialized == c.initialized \/ some
           s == [c EXCEPT !.bootstrapped = TRUE, !.initialized = initialized]
<1>0. /\ TypeOK /\ labels \subseteq Present /\ Present \subseteq Machines /\ NotDeleting \subseteq Present
      /\ cache.status.phase \notin {"Shutdown", "Restore", "PostRestorePodCleanup"}
  BY Zenon, IInvFacts DEF Stopping
<1>1. Elected(e.labels) /\ i \in Machines \cup {None} /\ (i # None => i \in labels)
  BY Zenon, <1>0, ElectInitNode DEF Elected
<1>2. \/ Elect(e)
      \/ reconcileTier(bootstrap, None) \/ reconcileTier({}, None)
      \/ /\ i # None /\ outOfSync(bootstrap, None) = {}
         /\ reconcileTier(etcd, i) \/ reconcileTier(control, i)
      \/ /\ outOfSync(bootstrap, None) = {} /\ outOfSync(etcd, i) = {} /\ outOfSync(control, i) = {}
         /\ SaveOnly(s)
  BY Zenon DEF fullReconcile
<1>3. ASSUME Elect(e)
      PROVE  PassStep
  <2> HIDE DEF e
  <2> QED
    BY Zenon, <1>0, <1>1, <1>3, Electing
<1>4. ASSUME NEW tier \in {bootstrap, {}}, reconcileTier(tier, None)
      PROVE  PassStep
  <2>1. tier \subseteq NotDeleting /\ \A m \in tier : Joins(m, desiredPlan(m, None))
    BY Zenon, LabelledJoins
  <2> QED
    BY Zenon, <1>4, <2>1, TierStep
<1>6. ASSUME NEW tier \in {etcd, control}, i # None, outOfSync(bootstrap, None) = {},
             reconcileTier(tier, i)
      PROVE  PassStep
  <2>1. tier \subseteq NotDeleting \ labels /\ tier \subseteq Present
    BY Zenon, <1>0
  <2>2. \A n \in labels \cap NotDeleting : node[n].state = "applied"
    BY Zenon, <1>6 DEF outOfSync, Settled
  <2> HIDE DEF i
  <2>3. \A m \in tier : Joins(m, desiredPlan(m, i))
    BY Zenon, <1>1, <1>6, <2>1, <2>2, UnlabelledJoins
  <2> QED
    BY Zenon, <1>1, <1>6, <2>1, <2>3, TierStep
<1>5. ASSUME outOfSync(bootstrap, None) = {}, outOfSync(etcd, i) = {}, outOfSync(control, i) = {},
             SaveOnly(s)
      PROVE  PassStep
  <2>1. c \in Statuses
    BY Zenon, <1>0, CacheType
  <2>2. initialized \in BOOLEAN
    <3>1. some \in BOOLEAN
      BY Zenon
    <3>2. c.initialized \in BOOLEAN
      BY Zenon, <1>0, CacheType
    <3> HIDE DEF some, c
    <3> QED
      BY Zenon, <3>1, <3>2
  <2>3. /\ s \in Statuses /\ s.restore = c.restore /\ s.phase = c.phase
        /\ s.create = c.create /\ s.createPhase = c.createPhase
    <3> HIDE DEF c, initialized
    <3> QED
      BY Zenon, <2>1, <2>2 DEF Statuses
  <2>4. ASSUME NEW m \in NotDeleting
        PROVE  node[m].plan.kind = "desired"
    <3>1. m \in Machines /\ m \in bootstrap \cup etcd \cup control
      <4>1. m \in Etcd \cup ControlPlane
        BY Zenon DEF IInv, HostsAreSound, NotDeleting
      <4> QED
        BY Zenon, <1>0, <4>1
    <3>2. Settled(m, desiredPlan(m, None)) \/ Settled(m, desiredPlan(m, i))
      BY Zenon, <1>5, <3>1 DEF outOfSync
    <3>3. desiredPlan(m, None).kind = "desired" /\ desiredPlan(m, i).kind = "desired"
      BY Zenon, <1>0, <1>1, <3>1, DesiredPlanType
    <3> QED
      BY Zenon, <3>2, <3>3 DEF Settled
  <2>5. Initializes(s) /\ Creation(s)
    BY Zenon, <2>3, <2>4, CreationStays DEF Initializes, SameCreation
  <2> HIDE DEF s
  <2> QED
    BY Zenon, <1>5, <2>3, <2>5, Saving
<1> HIDE DEF e, i, bootstrap, etcd, control, s
<1> QED
  BY Zenon, <1>2, <1>3, <1>4, <1>5, <1>6

LEMMA RestartStep ==
    ASSUME IInv, NEW phase \in {"InitialRestartCluster", "RestartCluster"},
           NEW next \in {"PostRestoreNodeCleanup", "Finished"}, restartCluster(phase, next)
    PROVE  PassStep
<1>0. TypeOK /\ cache.status.restore # 0 /\ cache.spec.restore = cache.status.restore
      /\ cache.status.phase \notin Stopping \cup {"PostRestorePodCleanup"}
      /\ cache.status.phase \in AfterPods
  BY Zenon, IInvFacts DEF restartCluster, restoring, Stopping, AfterPods
<1> DEFINE s == setEtcdSnapshotRestoreState(cache.spec.restore, next)
<1>1. /\ s \in Statuses /\ s.restore = cache.spec.restore /\ s.phase = next
      /\ s.initialized = cache.status.initialized /\ SameCreation(s)
  BY <1>0, RestoreStatus DEF Phases
<1>2. PauseOnly(FALSE) \/ fullReconcile \/ SaveOnly(s)
  BY Zenon DEF restartCluster, restoreNext
<1> HIDE DEF s
<1>3. Progresses(s) /\ Creation(s)
  BY Zenon, <1>0, <1>1, CreationStays DEF Progresses, AfterPods
<1> QED
  BY Zenon, <1>0, <1>1, <1>2, <1>3, PausingOnly, ReconcileStep, Saving

LEMMA StopStep ==
    ASSUME IInv, runEtcdRestoreServiceStop
    PROVE  PassStep \/ UNCHANGED vars
<1> DEFINE e == runEtcdRestoreInitNodeElection
           servers == {m \in Present : node[m].plan # NoPlan}
           to == joinServer(e.init)
           plan(m) == generateStopServiceAndKillAllPlan(m, to)
           todo == {m \in servers : node[m].plan # plan(m)}
           n == setEtcdSnapshotRestoreState(cache.spec.restore, "Restore")
           s == [n EXCEPT !.bootstrapped = FALSE]
<1>0. /\ TypeOK /\ labels \subseteq Present /\ Present \subseteq Machines
      /\ restoring("Shutdown") /\ cache.status.phase = "Shutdown" /\ cache.spec.restore = cache.status.restore
  BY Zenon, IInvFacts DEF runEtcdRestoreServiceStop, restoring
<1>1. Elected(e.labels) /\ to \in Machines \cup {None}
  <2>1. Elected(e.labels) /\ joinURL \subseteq Machines
    BY Zenon, <1>0, ElectForRestore DEF TypeOK, Elected
  <2> QED
    BY Zenon, <2>1 DEF joinServer
<1>2. \A m \in Machines : plan(m) \in Plans /\ plan(m).kind = "stop"
  <2> HIDE DEF to
  <2> QED
    BY <1>0, <1>1, PlanForType DEF generateStopServiceAndKillAllPlan, Kinds
<1>3. \/ Elect(e) \/ ForceDelete
      \/ \E m \in todo : Assign(m, plan(m))
      \/ todo = {} /\ stopped(servers) /\ SaveOnly(s)
      \/ UNCHANGED vars
  BY Zenon DEF runEtcdRestoreServiceStop, restoreNext
<1>4. ASSUME Elect(e)
      PROVE  PassStep
  <2> HIDE DEF e
  <2> QED
    BY Zenon, <1>1, <1>4, Electing
<1>5. ASSUME NEW m \in todo, Assign(m, plan(m))
      PROVE  PassStep
  <2>1. m \in Present
    BY Zenon
  <2>2. plan(m) \in Plans /\ plan(m).kind = "stop"
    BY Zenon, <1>0, <1>2, <2>1
  <2> HIDE DEF plan
  <2>3. Permitted(m, plan(m))
    BY Zenon, <1>0, <2>2 DEF Permitted
  <2> QED
    BY Zenon, <1>5, <2>1, <2>2, <2>3, Assigning
<1>6. ASSUME todo = {}, stopped(servers), SaveOnly(s)
      PROVE  PassStep
  <2>1. /\ n \in Statuses /\ n.restore = cache.spec.restore /\ n.phase = "Restore"
        /\ n.initialized = cache.status.initialized /\ SameCreation(n)
    BY Zenon, <1>0, RestoreStatus DEF Phases
  <2>2. /\ s \in Statuses /\ s.restore = n.restore /\ s.phase = n.phase
        /\ s.initialized = n.initialized /\ s.create = n.create /\ s.createPhase = n.createPhase
    <3> HIDE DEF n
    <3> QED
      BY Zenon, <2>1 DEF Statuses
  <2>3. \A m \in Present : node[m].plan = NoPlan \/
           (node[m].plan.kind = "stop" /\ node[m].state = "applied")
    <3> SUFFICES ASSUME NEW m \in Present, node[m].plan # NoPlan
                 PROVE  node[m].plan.kind = "stop" /\ node[m].state = "applied"
      BY Zenon
    <3>1. node[m].plan = plan(m) /\ plan(m).kind = "stop"
      BY Zenon, <1>0, <1>2, <1>6
    <3>2. node[m].state = "applied"
      BY Zenon, <1>6 DEF stopped
    <3> QED
      BY Zenon, <3>1, <3>2
  <2> HIDE DEF n, s
  <2>4. Progresses(s) /\ Creation(s)
    BY Zenon, <1>0, <2>1, <2>2, <2>3, CreationStays DEF Progresses, SameCreation
  <2> QED
    BY Zenon, <1>6, <2>2, <2>4, Saving
<1> HIDE DEF e, servers, todo, plan, s
<1> QED
  BY Zenon, <1>3, <1>4, <1>5, <1>6, Forcing

LEMMA RestorePlanStep ==
    ASSUME IInv, runEtcdSnapshotRestorePlan
    PROVE  PassStep \/ UNCHANGED vars
<1> DEFINE e == runEtcdRestoreInitNodeElection
           i == e.init
           plan == generateEtcdSnapshotRestorePlan(i, joinServer(i))
           n == setEtcdSnapshotRestoreState(cache.spec.restore, "PostRestorePodCleanup")
           g == n.configGeneration + 1
           s == [n EXCEPT !.configGeneration = g]
<1>0. /\ TypeOK /\ labels \subseteq Present /\ Present \subseteq Machines
      /\ restoring("Restore") /\ cache.status.phase = "Restore"
      /\ cache.spec.restore = cache.status.restore /\ cache.status.restore \in Restores
  BY Zenon, IInvFacts, CacheType DEF runEtcdSnapshotRestorePlan, restoring
<1>1. (i = None => Elected(e.labels)) /\ i \in (Present \cap labels) \cup {None}
  BY Zenon, <1>0, ElectForRestore DEF Elected
<1>2. \/ i = None /\ Elect(e)
      \/ UNCHANGED vars \/ PauseOnly(TRUE)
      \/ i # None /\ Single(labels) /\ ~Settled(i, plan) /\ Assign(i, plan)
      \/ i # None /\ Single(labels) /\ Settled(i, plan) /\ SaveOnly(s)
  BY Zenon DEF runEtcdSnapshotRestorePlan, restored, afterRestore, restoreNext
<1>3. ASSUME i = None, Elect(e)
      PROVE  PassStep
  BY Zenon, <1>1, <1>3, Electing
<1>4. ASSUME i # None, Single(labels)
      PROVE  i \in Present /\ labels = {i} /\ plan = RestorePlan /\ plan \in Plans
  <2>1. i \in Present /\ i \in labels /\ i \in Machines
    BY Zenon, <1>0, <1>1, <1>4
  <2>2. labels = {i}
    BY Zenon, <1>4, <2>1, OneLabel
  <2>3. joinServer(i) \in Machines \cup {None} /\ cache.status.restore \in Nat
    BY Zenon, <1>0, <2>1, CacheType DEF joinServer
  <2>4. joinedTo(i, joinServer(i)) = Self
    BY Zenon, <2>1 DEF joinedTo
  <2> HIDE DEF i
  <2>5. plan \in Plans /\ plan = RestorePlan
    BY ZenonT(60), <1>0, <2>1, <2>3, <2>4, PlanForType DEF generateEtcdSnapshotRestorePlan, Kinds, RestorePlan
  <2> QED
    BY Zenon, <2>1, <2>2, <2>5
<1>5. ASSUME i # None, Single(labels), ~Settled(i, plan), Assign(i, plan)
      PROVE  PassStep
  <2>1. i \in Present /\ labels = {i} /\ plan = RestorePlan /\ plan \in Plans
    BY Zenon, <1>4, <1>5
  <2>2. Permitted(i, plan)
    BY Zenon, <1>0, <1>5, <2>1 DEF Permitted
  <2> HIDE DEF i, plan
  <2> QED
    BY Zenon, <1>5, <2>1, <2>2, Assigning
<1>6. ASSUME i # None, Single(labels), Settled(i, plan), SaveOnly(s)
      PROVE  PassStep
  <2>1. i \in Present /\ labels = {i} /\ plan = RestorePlan
    BY Zenon, <1>4, <1>6
  <2>2. /\ n \in Statuses /\ n.restore = cache.spec.restore /\ n.phase = "PostRestorePodCleanup"
        /\ n.initialized = cache.status.initialized /\ SameCreation(n)
    BY Zenon, <1>0, RestoreStatus DEF Phases
  <2>3. g \in Nat
    <3> HIDE DEF n
    <3> QED
      BY <2>2 DEF Statuses
  <2>4. /\ s \in Statuses /\ s.restore = n.restore /\ s.phase = n.phase
        /\ s.initialized = n.initialized /\ s.create = n.create /\ s.createPhase = n.createPhase
    <3> HIDE DEF n, g
    <3> QED
      BY Zenon, <2>2, <2>3 DEF Statuses
  <2>5. \E m \in Present : /\ labels = {m} /\ runEtcdRestoreInitNodeElection.init = m
                           /\ Settled(m, RestorePlan)
    BY Zenon, <1>6, <2>1
  <2> HIDE DEF n, s, g
  <2>6. Progresses(s) /\ Creation(s)
    BY Zenon, <1>0, <2>2, <2>4, <2>5, CreationStays DEF Progresses, SameCreation
  <2> QED
    BY Zenon, <1>6, <2>4, <2>6, Saving
<1> HIDE DEF e, i, plan, s
<1> QED
  BY Zenon, <1>2, <1>3, <1>5, <1>6, PausingOnly

(* After the Restore phase, a plan that starts a server may be written.    *)
LEMMA CleanupWrites ==
    ASSUME IInv, cache.status.phase \notin Stopping, NEW m \in Present, NEW plan \in Plans,
           plan.kind \in {"desired", "podCleanup"}, Joins(m, plan), Assign(m, plan)
    PROVE  PassStep
<1>1. Permitted(m, plan)
  BY Zenon DEF Permitted, Starting
<1> QED
  BY Zenon, <1>1, Assigning

LEMMA PodCleanupStep ==
    ASSUME IInv, clusterIsSane, runEtcdSnapshotPostRestorePodCleanupPlan
    PROVE  PassStep \/ UNCHANGED vars
<1> DEFINE i == CHOOSE m \in labels : TRUE
           f == findInitNode
           first == Min(NotDeleting \cap ControlPlane)
           initPlan == IF i \in ControlPlane THEN PodCleanupPlan(i, None) ELSE desiredPlan(i, None)
           firstPlan == PodCleanupPlan(first, f.found)
           s == setEtcdSnapshotRestoreState(cache.spec.restore, "InitialRestartCluster")
<1>0. /\ TypeOK /\ labels \subseteq Present /\ Present \subseteq Machines /\ NotDeleting \subseteq Present
      /\ cache.status.phase = "PostRestorePodCleanup" /\ cache.status.phase \notin Stopping
      /\ restoring("PostRestorePodCleanup")
      /\ cache.spec.restore = cache.status.restore /\ cache.status.restore # 0
  BY Zenon, IInvFacts DEF runEtcdSnapshotPostRestorePodCleanupPlan, restoring, Stopping
<1>1. /\ f.labels \subseteq Present /\ f.found \in Machines \cup {None} /\ (~f.err => f.found \in labels)
  BY Zenon, <1>0, FindInitNode
<1>2. first \in Present
  <2>1. NotDeleting \cap ControlPlane # {} /\ NotDeleting \cap ControlPlane \subseteq Machines
    BY Zenon, <1>0 DEF clusterIsSane
  <2>2. first \in NotDeleting \cap ControlPlane
    BY Zenon, <2>1, MinMachine
  <2> QED
    BY Zenon, <1>0, <2>2
<1>3. firstPlan \in Plans /\ firstPlan.kind = "podCleanup"
  <2> HIDE DEF first, f
  <2> QED
    BY Zenon, <1>0, <1>1, <1>2, CleanupPlanType
<1>4. Single(labels) => i \in Present /\ labels = {i}
  BY Zenon, OneLabel
<1>5. ASSUME Single(labels)
      PROVE  initPlan \in Plans /\ initPlan.kind \in {"desired", "podCleanup"} /\ Joins(i, initPlan)
  <2>1. i \in labels /\ i \in Machines
    BY Zenon, <1>0, <1>4, <1>5
  <2> HIDE DEF i
  <2> QED
    BY Zenon, <1>0, <2>1, CleanupPlanType, DesiredPlanType, LabelledJoins
<1>6. \/ UNCHANGED vars
      \/ Single(labels) /\ Assign(i, initPlan)
      \/ /\ Single(labels) /\ Settled(i, initPlan)
         /\ \/ Elect(f)
            \/ i \notin ControlPlane /\ ~f.err /\ Assign(first, firstPlan)
            \/ SaveOnly(s)
  BY Zenon DEF runEtcdSnapshotPostRestorePodCleanupPlan, restoreNext
<1>7. ASSUME Single(labels), Settled(i, initPlan)
      PROVE  LabelStarted
  <2> HIDE DEF i, initPlan
  <2> QED
    BY Zenon, <1>4, <1>5, <1>7 DEF LabelStarted, Settled, Starting
<1>8. ASSUME Single(labels), i \notin ControlPlane, LabelStarted, ~f.err
      PROVE  Joins(first, firstPlan)
  <2>1. first \in Present \ labels
    <3>1. NotDeleting \cap ControlPlane # {} /\ NotDeleting \cap ControlPlane \subseteq Machines
      BY Zenon, <1>0 DEF clusterIsSane
    <3>2. first \in NotDeleting \cap ControlPlane
      BY Zenon, <3>1, MinMachine
    <3> HIDE DEF i, first
    <3> QED
      BY Zenon, <1>2, <1>4, <1>8, <3>2
  <2>2. \A n \in labels \cap NotDeleting : node[n].state = "applied"
    BY Zenon, <1>8 DEF LabelStarted
  <2> HIDE DEF i, first, f
  <2> QED
    BY Zenon, <1>1, <1>8, <2>1, <2>2, UnlabelledJoins
<1>9. /\ s \in Statuses /\ s.restore = cache.spec.restore /\ s.phase = "InitialRestartCluster"
      /\ s.initialized = cache.status.initialized /\ SameCreation(s)
  BY Zenon, <1>0, RestoreStatus DEF Phases
<1> HIDE DEF i, f, first, initPlan, firstPlan, s
<1>10. ASSUME LabelStarted, Elect(f)
       PROVE  PassStep
  <2>1. Elected(f.labels)
    BY Zenon, <1>0, <1>1, <1>10 DEF Elected, f
  <2> QED
    BY Zenon, <1>10, <2>1, Electing
<1>11. ASSUME LabelStarted, SaveOnly(s)
       PROVE  PassStep
  <2>1. Progresses(s) /\ Creation(s)
    BY Zenon, <1>0, <1>9, <1>11, CreationStays DEF Progresses
  <2> QED
    BY Zenon, <1>9, <1>11, <2>1, Saving
<1>12. ASSUME Single(labels), Assign(i, initPlan)
       PROVE  PassStep
  BY Zenon, <1>0, <1>4, <1>5, <1>12, CleanupWrites
<1>13. ASSUME Single(labels), LabelStarted, i \notin ControlPlane, ~f.err, Assign(first, firstPlan)
       PROVE  PassStep
  BY Zenon, <1>0, <1>2, <1>3, <1>8, <1>13, CleanupWrites
<1> QED
  BY Zenon, <1>6, <1>7, <1>10, <1>11, <1>12, <1>13

LEMMA NodeCleanupStep ==
    ASSUME IInv, runEtcdSnapshotPostRestoreNodeCleanupPlan
    PROVE  PassStep \/ UNCHANGED vars
<1> DEFINE i == CHOOSE m \in labels : TRUE
           plan == NodeCleanupPlan(i)
           s == setEtcdSnapshotRestoreState(cache.spec.restore, "RestartCluster")
<1>0. /\ TypeOK /\ Present \subseteq Machines /\ cache.status.phase \notin Stopping
      /\ cache.status.phase \in AfterPods /\ restoring("PostRestoreNodeCleanup")
      /\ cache.spec.restore = cache.status.restore /\ cache.status.restore # 0
  BY Zenon, IInvFacts DEF runEtcdSnapshotPostRestoreNodeCleanupPlan, restoring, Stopping, AfterPods
<1>1. Single(labels) => i \in Present /\ i \in labels
  BY Zenon, OneLabel
<1>2. ASSUME Single(labels)
      PROVE  /\ plan \in Plans /\ plan.kind = "nodeCleanup" /\ plan.keep = NotDeleting
             /\ Joins(i, plan)
  <2>1. i \in Machines /\ i \in labels
    BY Zenon, <1>0, <1>1, <1>2
  <2> HIDE DEF i
  <2> QED
    BY Zenon, <1>0, <2>1, CleanupPlanType, LabelledJoins
<1>3. \/ UNCHANGED vars
      \/ Single(labels) /\ Assign(i, plan)
      \/ SaveOnly(s)
  BY Zenon DEF runEtcdSnapshotPostRestoreNodeCleanupPlan, restoreNext
<1>4. /\ s \in Statuses /\ s.restore = cache.spec.restore /\ s.phase = "RestartCluster"
      /\ s.initialized = cache.status.initialized /\ SameCreation(s)
  BY Zenon, <1>0, RestoreStatus DEF Phases
<1> HIDE DEF i, plan, s
<1>5. ASSUME Single(labels), Assign(i, plan)
      PROVE  PassStep
  <2>1. Permitted(i, plan)
    BY Zenon, <1>0, <1>1, <1>2, <1>5 DEF Permitted, Starting
  <2> QED
    BY Zenon, <1>1, <1>2, <1>5, <2>1, Assigning
<1>6. ASSUME SaveOnly(s)
      PROVE  PassStep
  <2>1. Progresses(s) /\ Creation(s)
    BY Zenon, <1>0, <1>4, CreationStays DEF Progresses, AfterPods
  <2> QED
    BY Zenon, <1>4, <1>6, <2>1, Saving
<1> QED
  BY Zenon, <1>3, <1>5, <1>6

LEMMA RestorationStep ==
    ASSUME IInv, clusterIsSane, restorePending, restoreEtcdSnapshot
    PROVE  PassStep \/ UNCHANGED vars
<1>0. TypeOK
  BY Zenon, IInvFacts
<1>1. CASE resetEtcdSnapshotRestoreState
  <2> DEFINE s == setEtcdSnapshotRestoreState(0, "none")
  <2>1. /\ s \in Statuses /\ s.restore = 0 /\ s.phase = "none"
        /\ s.initialized = cache.status.initialized /\ SameCreation(s)
    BY Zenon, <1>0, RestoreStatus DEF Phases
  <2>2. SaveOnly(s) /\ cache.spec.restore = 0 /\ cache.status.restore # 0
    BY Zenon, <1>1 DEF resetEtcdSnapshotRestoreState, restorePending
  <2> HIDE DEF s
  <2>3. Progresses(s) /\ Creation(s)
    BY Zenon, <2>1, <2>2, CreationStays DEF Progresses
  <2> QED
    BY Zenon, <2>1, <2>2, <2>3, Saving
<1>2. CASE startOrRestartEtcdSnapshotRestore
  <2> DEFINE s == setEtcdSnapshotRestoreState(cache.spec.restore, "Started")
  <2>1. /\ s \in Statuses /\ s.restore = cache.spec.restore /\ s.phase = "Started"
        /\ s.initialized = cache.status.initialized /\ SameCreation(s)
    BY Zenon, <1>0, RestoreStatus DEF Phases
  <2>2. SaveOnly(s) /\ cache.spec.restore # 0
    BY Zenon, <1>2 DEF startOrRestartEtcdSnapshotRestore, restoreNext
  <2> HIDE DEF s
  <2>3. Progresses(s) /\ Creation(s)
    BY Zenon, <2>1, <2>2, CreationStays DEF Progresses
  <2> QED
    BY Zenon, <2>1, <2>2, <2>3, Saving
<1>3. CASE restoreStarted
  <2> DEFINE n == setEtcdSnapshotRestoreState(cache.spec.restore, "Shutdown")
             s == [n EXCEPT !.initialized = FALSE]
  <2>1. /\ n \in Statuses /\ n.restore = cache.spec.restore /\ n.phase = "Shutdown"
        /\ SameCreation(n)
    BY Zenon, <1>0, RestoreStatus DEF Phases
  <2>2. /\ s \in Statuses /\ s.restore = n.restore /\ s.phase = n.phase /\ ~s.initialized
        /\ s.create = n.create /\ s.createPhase = n.createPhase
    <3> HIDE DEF n
    <3> QED
      BY Zenon, <2>1 DEF Statuses
  <2>3. SaveOnly(s) /\ restoring("Started") /\ cache.spec.restore = cache.status.restore
    BY Zenon, <1>3 DEF restoreStarted, restoreNext, restoring
  <2> HIDE DEF n, s
  <2>4. Progresses(s) /\ Creation(s)
    BY Zenon, <2>1, <2>2, <2>3, CreationStays DEF Progresses, SameCreation
  <2> QED
    BY Zenon, <2>2, <2>3, <2>4, Saving
<1> QED
  BY Zenon, <1>1, <1>2, <1>3, StopStep, RestorePlanStep, PodCleanupStep, NodeCleanupStep, RestartStep
  DEF restoreEtcdSnapshot

LEMMA RotationStep ==
    ASSUME IInv, shouldRotate, rotateCertificates
    PROVE  PassStep
<1> DEFINE f == findInitNode
           plan(m) == rotateCertificatesPlan(m, f.found)
           late == {m \in Present : ~Settled(m, plan(m))}
           first == Min(late)
           c == cache.status
           s == [c EXCEPT !.certs = cache.spec.certs]
<1>0. /\ TypeOK /\ labels \subseteq Present /\ Present \subseteq Machines
      /\ cache.status.initialized /\ cache.status.phase \notin Uninitialized
  BY Zenon, IInvFacts DEF shouldRotate
<1>1. Elected(f.labels) /\ f.found \in Machines \cup {None}
  BY Zenon, <1>0, FindInitNode DEF Elected, Uninitialized
<1>2. \A m \in Machines : plan(m) \in Plans /\ plan(m).kind = "rotate"
  <2>1. cache.spec.certs \in Nat
    BY Zenon, <1>0, CacheType
  <2> DEFINE g == cache.spec.certs
  <2>2. \A m : plan(m) = PlanFor("rotate", m, g, f.found)
    BY Zenon DEF rotateCertificatesPlan
  <2> HIDE DEF f, g, plan
  <2>3. \A m \in Machines : /\ PlanFor("rotate", m, g, f.found) \in Plans
                            /\ PlanFor("rotate", m, g, f.found).kind = "rotate"
    <3>1. g \in Nat /\ "rotate" \in Kinds
      BY Zenon, <2>1 DEF g, Kinds
    <3>2. ASSUME NEW m \in Machines
          PROVE  PlanFor("rotate", m, g, f.found) \in Plans /\ PlanFor("rotate", m, g, f.found).kind = "rotate"
      <4> DEFINE p == PlanFor("rotate", m, g, f.found)
      <4>1. /\ p \in Plans
            /\ p = [kind |-> "rotate", for |-> g, join |-> joinedTo(m, f.found), generation |-> 0, keep |-> {}]
        BY Zenon, <1>0, <1>1, <3>1, PlanForType
      <4> HIDE DEF p
      <4>2. p \in Plans /\ p.kind = "rotate"
        BY Zenon, <4>1
      <4> QED
        BY Zenon, <4>2 DEF p
    <3> QED
      BY Zenon, <3>2
  <2> QED
    BY Zenon, <2>2, <2>3
<1>3. \/ Elect(f) \/ PauseOnly(FALSE) \/ SaveOnly(s)
      \/ /\ late # {} /\ assignAndCheckPlan(first, plan(first))
         /\ pauseCAPICluster(TRUE) \/ UNCHANGED capi
         /\ PassFrame /\ UNCHANGED <<status, labels, forced>>
  BY Zenon DEF rotateCertificates
<1>4. ASSUME Elect(f)
      PROVE  PassStep
  <2> HIDE DEF f
  <2> QED
    BY Zenon, <1>0, <1>1, <1>4, Electing
<1>5. ASSUME SaveOnly(s)
      PROVE  PassStep
  <2>1. c \in Statuses /\ cache.spec \in Requests
    BY Zenon, <1>0, CacheType
  <2>2. cache.spec.certs \in 0 .. scenario.rotates
    BY Zenon, <2>1 DEF Requests
  <2>3. /\ s \in Statuses /\ s.restore = c.restore /\ s.phase = c.phase /\ s.initialized = c.initialized
        /\ s.create = c.create /\ s.createPhase = c.createPhase
    <3> HIDE DEF c
    <3> QED
      BY Zenon, <2>1, <2>2 DEF Statuses
  <2>4. s \in Statuses /\ Keeps(s) /\ Creation(s)
    BY Zenon, <2>3, CreationStays DEF Keeps, SameCreation
  <2> HIDE DEF s
  <2> QED
    BY Zenon, <1>5, <2>4, Saving
<1>6. ASSUME late # {}, assignAndCheckPlan(first, plan(first)),
             pauseCAPICluster(TRUE) \/ UNCHANGED capi,
             PassFrame, UNCHANGED <<status, labels, forced>>
      PROVE  PassStep
  <2>1. first \in Present
    <3>1. late \subseteq Present
      BY Zenon
    <3> HIDE DEF late
    <3>2. first \in late
      BY Zenon, <1>0, <1>6, <3>1, MinMachine
    <3> QED
      BY Zenon, <3>1, <3>2
  <2>2. plan(first) \in Plans /\ plan(first).kind = "rotate"
    <3> HIDE DEF plan, first
    <3> QED
      BY Zenon, <1>0, <1>2, <2>1
  <2> HIDE DEF first, plan
  <2>3. Permitted(first, plan(first))
    BY Zenon, <1>0, <2>2 DEF Permitted
  <2>4. Writes
    BY Zenon, <1>6, <2>1, <2>2, <2>3, AssigningChecked
  <2>5. capi' \in [paused : BOOLEAN, known : BOOLEAN] /\ forced \subseteq Etcd
    <3>1. capi \in [paused : BOOLEAN, known : BOOLEAN] /\ forced \subseteq Etcd
      BY Zenon, <1>0 DEF TypeOK
    <3>2. CASE pauseCAPICluster(TRUE)
      BY Zenon, <3>1, <3>2, Pausing
    <3> QED
      BY Zenon, <1>6, <3>1, <3>2
  <2> QED
    BY Zenon, <1>6, <2>4, <2>5 DEF PassStep
<1> HIDE DEF f, late, first, plan, s
<1> QED
  BY Zenon, <1>3, <1>4, <1>5, <1>6, PausingOnly

(* Every step of a pass is one of the steps above.                         *)
LEMMA ProcessStep ==
    ASSUME IInv, Process
    PROVE  PassStep \/ UNCHANGED vars
<1>1. ASSUME ~restorePending
      PROVE  cache.status.phase \notin Stopping \cup {"PostRestorePodCleanup"}
  <2>1. cache.status.restore = 0 => cache.status.phase = "none"
    BY Zenon DEF IInv, Undisturbed, StatusIsSound
  <2> QED
    BY Zenon, <1>1, <2>1 DEF restorePending, Stopping
<1>2. CASE ~restorePending /\ reconcileMachines
  <2>1. fullReconcile \/ UNCHANGED vars
    BY Zenon, <1>2 DEF reconcileMachines
  <2> QED
    BY Zenon, <1>1, <1>2, <2>1, ReconcileStep
<1> QED
  BY Zenon, <1>2, UninitializeStep, CreationStep, RestorationStep, RotationStep DEF Process

-----------------------------------------------------------------------------
(* The inductive invariant holds at the beginning.                         *)

LEMMA SameScenario ==
    ASSUME UNCHANGED scenario
    PROVE  /\ Etcd' = Etcd /\ ControlPlane' = ControlPlane /\ Fixed' = Fixed
           /\ Snapshots' = Snapshots /\ Restores' = Restores
           /\ Requests' = Requests /\ Statuses' = Statuses /\ (Original .. Wiped)' = Original .. Wiped
<1>1. Snapshots' = Snapshots
  BY Zenon DEF Snapshots
<1>2. Restores' = Restores
  BY Zenon, <1>1 DEF Restores
<1>3. Etcd' = Etcd /\ ControlPlane' = ControlPlane /\ Fixed' = Fixed
  BY Zenon DEF Etcd, ControlPlane, Fixed
<1>4. Requests' = Requests
  BY Zenon, <1>2 DEF Requests
<1>5. Statuses' = Statuses
  BY Zenon, <1>2 DEF Statuses
<1>6. Fresh' = Fresh
  BY Zenon, <1>1 DEF Fresh
<1>7. (Original .. Wiped)' = Original .. Wiped
  BY Zenon, <1>6 DEF Original, Wiped
<1> QED
  BY Zenon, <1>1, <1>2, <1>3, <1>4, <1>5, <1>7

LEMMA InitIInv ==
    ASSUME Init
    PROVE  IInv
<1>0. scenario \in Scenarios
  BY Zenon DEF Init
<1>1. /\ Etcd \subseteq Machines /\ ControlPlane \subseteq Machines /\ Early \subseteq Machines
      /\ Early = (Etcd \cup ControlPlane) \ scenario.late
      /\ scenario.late \subseteq Etcd \cup ControlPlane
      /\ FirstInitNode \in Etcd \cap Early
      /\ scenario.creates \in Nat /\ scenario.rotates \in Nat
      /\ None \notin Machines /\ Self \notin Machines
  BY Zenon, <1>0, ScenarioFacts
<1>2. Fresh \in Nat /\ Wiped \in Nat /\ Original = 0 /\ Wiped = Fresh + 1
  BY <1>0, SnapshotFacts DEF Wiped, Original
<1>3. /\ NoPlan \in Plans /\ NoPlan.kind = "none" /\ NoPlan.join = None
      /\ \A m : StartPlan(m) \in Plans /\ StartPlan(m).kind \in {"none", "desired"}
      /\ \A m : StartPlan(m).kind = "none" <=> m \notin Early
      /\ \A m : m \notin Early => StartPlan(m) = NoPlan
  <2>1. NoPlan \in Plans /\ NoPlan.kind = "none" /\ NoPlan.join = None
    BY Zenon DEF NoPlan, Plans, Kinds
  <2>2. ASSUME NEW m, m \in Early
        PROVE  StartPlan(m) \in Plans /\ StartPlan(m).kind = "desired"
    <3> DEFINE j == IF m = FirstInitNode THEN Self ELSE FirstInitNode
    <3>1. j \in Machines \cup {Self, None}
      BY Zenon, <1>1
    <3>2. StartPlan(m) = [NoPlan EXCEPT !.kind = "desired", !.join = j]
      BY Zenon, <2>2 DEF StartPlan
    <3> HIDE DEF j
    <3> QED
      BY ZenonT(60), <2>1, <3>1, <3>2 DEF Plans, Kinds
  <2>3. \A m : m \notin Early => StartPlan(m) = NoPlan
    BY Zenon DEF StartPlan
  <2> QED
    BY <2>1, <2>2, <2>3
<1>4. /\ \A m \in Machines : node[m].plan = StartPlan(m) /\ node[m].state = "applied"
      /\ node \in [Machines -> Nodes]
  <2> DEFINE r(m) == [plan |-> StartPlan(m), state |-> "applied"]
  <2>1. \A m : r(m) \in Nodes /\ r(m).plan = StartPlan(m) /\ r(m).state = "applied"
    BY Zenon, <1>3 DEF Nodes
  <2>2. node = [m \in Machines |-> r(m)]
    BY Zenon DEF Init
  <2> HIDE DEF r
  <2> QED
    BY Zenon, <2>1, <2>2
<1>5. TypeOK
  <2>1. spec \in Requests /\ spec.restore = 0
    BY <1>1 DEF Init, Requests
  <2>2. status \in Statuses
    BY <1>1 DEF Init, Statuses, Phases, CreatePhases
  <2>3. issued \in Requests /\ cache \in [spec : Requests, status : Statuses]
    BY Zenon, <2>1, <2>2 DEF Init
  <2>4. db \in [Machines -> Original .. Wiped]
    BY <1>2 DEF Init
  <2>5. stamp \in [Machines -> Nat \X (Machines \cup {Self, None})]
    <3>1. \A m : StartPlan(m).join \in Machines \cup {Self, None}
      BY Zenon, <1>3 DEF Plans
    <3> QED
      BY Zenon, <3>1 DEF Init
  <2>6. /\ labels \subseteq Machines /\ forced \subseteq Etcd
        /\ joinURL \subseteq Machines /\ up \subseteq Machines
    BY Zenon, <1>1 DEF Init
  <2>7. life \in [Machines -> {"absent", "alive", "deleting", "lost", "gone"}]
    BY Zenon DEF Init
  <2>8. snapped \in [Machines -> 0 .. scenario.creates]
    BY <1>1 DEF Init
  <2>9. quiet \in BOOLEAN /\ capi \in [paused : BOOLEAN, known : BOOLEAN]
    BY ZenonT(60) DEF Init
  <2> QED
    BY Zenon, <1>0, <1>4, <2>1, <2>2, <2>3, <2>4, <2>5, <2>6, <2>7, <2>8, <2>9 DEF TypeOK
<1>6. \A m \in Machines : life[m] = IF m \in Early THEN "alive"
                                    ELSE IF m \in scenario.late THEN "absent" ELSE "gone"
  BY Zenon DEF Init
<1>7. Present = Early /\ NotDeleting = Early
  BY Zenon, <1>1, <1>6 DEF Present, NotDeleting
<1>8. HostsAreSound
  <2>1. labels \subseteq Present
    BY Zenon, <1>1, <1>7 DEF Init
  <2>2. joinURL = Early /\ up = Early
    BY Zenon DEF Init
  <2>3. ASSUME NEW m \in Machines
        PROVE  /\ life[m] # "gone" => m \in Etcd \cup ControlPlane
               /\ life[m] = "absent" => m \notin joinURL
    BY Zenon, <1>1, <1>6, <2>2
  <2>4. ASSUME NEW m \in Machines
        PROVE  /\ m \notin Present => node[m].plan = NoPlan
               /\ node[m].plan.kind = "none" => node[m].plan = NoPlan /\ m \notin up
               /\ node[m].plan.kind \notin {"stop", "restore"}
    BY Zenon, <1>3, <1>4, <1>7, <2>2
  <2> QED
    BY Zenon, <2>1, <2>3, <2>4 DEF HostsAreSound
<1>9. Undisturbed
  <2>1. /\ status.phase = "none" /\ status.restore = 0 /\ cache.status = status
    BY Zenon DEF Init
  <2>2. \A m \in Machines : node[m].plan.kind \notin {"stop", "restore"}
    BY Zenon, <1>3, <1>4
  <2>3. StatusIsSound(status) /\ StatusIsSound(cache.status)
    BY Zenon, <2>1 DEF StatusIsSound, Uninitialized
  <2> QED
    BY Zenon, <2>1, <2>2, <2>3 DEF Undisturbed, NotDeleting, Uninitialized
<1> QED
  BY Zenon, <1>5, <1>8, <1>9 DEF IInv

-----------------------------------------------------------------------------
(* It is preserved by a pass,                                              *)

LEMMA PassIInv ==
    ASSUME IInv, PassStep
    PROVE  IInv'
<1>0. /\ UNCHANGED <<scenario, spec, issued, cache, life, joinURL, up, db, stamp, snapped, quiet>>
      /\ capi' \in [paused : BOOLEAN, known : BOOLEAN] /\ forced' \subseteq Etcd
      /\ status' = status \/ (cache = [spec |-> spec, status |-> status] /\ status' \in Statuses)
  BY Zenon DEF PassStep, PassFrame, hosts
<1>1. /\ Present' = Present /\ NotDeleting' = NotDeleting /\ Present \subseteq Machines
      /\ NotDeleting \subseteq Present
  BY Zenon, <1>0 DEF Present, NotDeleting
<1>2. labels' \subseteq Present
  <2>1. labels \subseteq Present
    BY Zenon DEF IInv, HostsAreSound
  <2> QED
    BY Zenon, <2>1 DEF PassStep, Elected
<1>3. Writes
  <2>1. CASE UNCHANGED node
    BY Zenon, <2>1 DEF IInv, TypeOK, Writes
  <2> QED
    BY Zenon, <2>1 DEF PassStep
<1>4. TypeOK'
  <2>1. TypeOK /\ node' \in [Machines -> Nodes] /\ status' \in Statuses
    BY Zenon, <1>0, <1>3 DEF IInv, TypeOK, Writes
  <2>2. labels' \subseteq Machines
    BY Zenon, <1>1, <1>2
  <2> QED
    BY ZenonT(60), <1>0, <2>1, <2>2, SameScenario DEF TypeOK
<1>5. HostsAreSound'
  <2>1. labels' \subseteq Present'
    BY Zenon, <1>1, <1>2
  <2>2. ASSUME NEW m \in Machines
        PROVE  /\ life'[m] # "gone" => m \in Etcd' \cup ControlPlane'
               /\ life'[m] = "absent" => m \notin joinURL'
    BY ZenonT(60), <1>0, SameScenario DEF IInv, HostsAreSound
  <2>3. ASSUME NEW m \in Machines
        PROVE  /\ m \notin Present' => node'[m].plan = NoPlan
               /\ node'[m].plan.kind = "none" => node'[m].plan = NoPlan /\ m \notin up'
               /\ node'[m].plan.kind = "stop" /\ node'[m].state = "applied" => m \notin up'
               /\ node'[m].plan.kind = "restore" => node'[m].plan.for \in Restores'
    <3>0. /\ m \notin Present => node[m].plan = NoPlan
          /\ node[m].plan.kind = "none" => node[m].plan = NoPlan /\ m \notin up
          /\ node[m].plan.kind = "stop" /\ node[m].state = "applied" => m \notin up
          /\ node[m].plan.kind = "restore" => node[m].plan.for \in Restores
      BY Zenon DEF IInv, HostsAreSound
    <3>1. CASE node'[m] = node[m]
      BY Zenon, <1>0, <1>1, <3>0, <3>1, SameScenario
    <3>2. CASE m \in Present /\ node'[m].state = "pending" /\ Permitted(m, node'[m].plan)
      <4>1. \/ node'[m].plan.kind \in {"desired", "podCleanup", "nodeCleanup", "rotate", "create", "stop"}
            \/ restoring("Restore") /\ node'[m].plan = RestorePlan
        BY Zenon, <3>2 DEF Permitted, Starting
      <4>2. ASSUME restoring("Restore")
            PROVE  cache.status.restore \in Restores
        <5>1. cache.status.restore \in Restores \cup {0}
          BY Zenon, CacheType DEF IInv
        <5> QED
          BY Zenon, <4>2, <5>1 DEF restoring
      <4>3. RestorePlan.kind = "restore" /\ RestorePlan.for = cache.status.restore
        BY Zenon DEF RestorePlan
      <4> QED
        BY Zenon, <1>0, <1>1, <3>2, <4>1, <4>2, <4>3, SameScenario
    <3> QED
      BY Zenon, <1>3, <3>1, <3>2 DEF Writes
  <2> QED
    BY Zenon, <2>1, <2>2, <2>3 DEF HostsAreSound
<1>6. Undisturbed'
  <2>0. /\ StatusIsSound(status) /\ StatusIsSound(cache.status)
        /\ cache.status.phase \in Uninitialized => ~status.initialized /\ ~cache.status.initialized
        /\ status.initialized \/ cache.status.initialized =>
              \A m \in NotDeleting : node[m].plan.kind \notin {"stop", "restore"}
    BY Zenon DEF IInv, Undisturbed, StatusIsSound
  <2>1. CASE UNCHANGED status
    <3>1. status.initialized \/ cache.status.initialized =>
              \A m \in NotDeleting : node'[m].plan.kind \notin {"stop", "restore"}
      <4> SUFFICES ASSUME status.initialized \/ cache.status.initialized, NEW m \in NotDeleting
                   PROVE  node'[m].plan.kind \notin {"stop", "restore"}
        BY Zenon
      <4>1. cache.status.phase \notin {"Shutdown", "Restore"} /\ m \in Machines
        BY Zenon, <1>1, <2>0 DEF Uninitialized
      <4>2. CASE node'[m] = node[m]
        BY Zenon, <2>0, <4>2
      <4>3. CASE Permitted(m, node'[m].plan)
        BY Zenon, <4>1, <4>3 DEF Permitted, Starting, restoring
      <4> QED
        BY Zenon, <1>3, <4>1, <4>2, <4>3 DEF Writes
    <3> QED
      BY Zenon, <1>0, <1>1, <2>0, <2>1, <3>1 DEF Undisturbed
  <2>2. CASE cache = [spec |-> spec, status |-> status] /\ Keeps(status')
    <3>0. /\ cache.status = status /\ status'.restore = status.restore /\ status'.phase = status.phase
          /\ status'.initialized => status.initialized
      BY Zenon, <2>2 DEF Keeps
    <3>1. status.initialized =>
              \A m \in NotDeleting : node'[m].plan.kind \notin {"stop", "restore"}
      <4> SUFFICES ASSUME status.initialized, NEW m \in NotDeleting
                   PROVE  node'[m].plan.kind \notin {"stop", "restore"}
        BY Zenon
      <4>1. cache.status.phase \notin {"Shutdown", "Restore"} /\ m \in Machines
        BY Zenon, <1>1, <2>0 DEF Uninitialized
      <4>2. CASE node'[m] = node[m]
        BY Zenon, <2>0, <4>2
      <4>3. CASE Permitted(m, node'[m].plan)
        BY Zenon, <4>1, <4>3 DEF Permitted, Starting, restoring
      <4> QED
        BY Zenon, <1>3, <4>1, <4>2, <4>3 DEF Writes
    <3>2. StatusIsSound(status')
      BY Zenon, <2>0, <3>0 DEF StatusIsSound
    <3> QED
      BY Zenon, <1>0, <1>1, <2>0, <3>0, <3>1, <3>2 DEF Undisturbed
  <2>3. CASE cache = [spec |-> spec, status |-> status] /\ UNCHANGED node /\ Initializes(status')
    <3>0. /\ cache.status = status /\ status'.restore = status.restore /\ status'.phase = status.phase
          /\ status.phase \notin Uninitialized
          /\ \A m \in NotDeleting : node[m].plan.kind = "desired"
      BY Zenon, <2>3 DEF Initializes, Stopping, Uninitialized
    <3>2. StatusIsSound(status')
      BY Zenon, <2>0, <3>0 DEF StatusIsSound
    <3> QED
      BY Zenon, <1>0, <1>1, <2>0, <2>3, <3>0, <3>2 DEF Undisturbed
  <2>4. CASE cache = [spec |-> spec, status |-> status] /\ UNCHANGED node /\ Progresses(status')
    <3>0. cache.status = status /\ (status'.initialized => status.initialized)
      BY Zenon, <2>4 DEF Progresses
    <3>1. StatusIsSound(status')
      BY ZenonT(60), <2>0, <2>4, <3>0 DEF StatusIsSound, Progresses, restoring, AfterPods, Uninitialized
    <3> QED
      BY Zenon, <1>0, <1>1, <2>0, <2>4, <3>0, <3>1 DEF Undisturbed
  <2> QED
    BY Zenon, <1>0, <2>1, <2>2, <2>3, <2>4 DEF PassStep
<1> QED
  BY Zenon, <1>4, <1>5, <1>6 DEF IInv

(* by the informers and the user,                                          *)

LEMMA RequestsOfUser ==
    ASSUME IInv, User
    PROVE  /\ spec' \in Requests /\ issued' \in Requests
           /\ UNCHANGED <<scenario, status, cache, capi, labels, life, forced, node, joinURL, up, db, stamp,
                          snapped, quiet>>
           /\ spec.restore # 0 /\ spec'.restore = 0 => "restore" \in scenario.withdrawals
<1>0. /\ spec \in Requests /\ issued \in Requests /\ scenario.creates \in Nat /\ scenario.rotates \in Nat
      /\ Restores \subseteq Nat \ {0}
  BY Zenon, ScenarioFacts, SnapshotFacts DEF IInv, TypeOK
<1>1. ASSUME NEW s, Ask(s)
      PROVE  /\ spec' = s
             /\ UNCHANGED <<scenario, status, cache, capi, labels, life, forced, node, joinURL, up, db, stamp,
                            snapped, quiet>>
  BY Zenon, <1>1 DEF Ask, hosts
<1>2. CASE RequestRestore
  <2> DEFINE r == issued.restore + 1
  <2>1. r \in Restores /\ r # 0 /\ issued' = [issued EXCEPT !.restore = r] /\ Ask([spec EXCEPT !.restore = r])
    BY Zenon, <1>0, <1>2 DEF RequestRestore
  <2>2. spec' = [spec EXCEPT !.restore = r]
    BY Zenon, <1>1, <2>1
  <2> HIDE DEF r
  <2>3. issued' \in Requests /\ spec' \in Requests /\ spec'.restore # 0
    BY Zenon, <1>0, <2>1, <2>2 DEF Requests
  <2> QED
    BY Zenon, <1>1, <2>1, <2>3
<1>3. CASE RequestCreate
  <2> DEFINE r == issued.create + 1
  <2>1. /\ issued.create < scenario.creates /\ issued' = [issued EXCEPT !.create = r]
        /\ Ask([spec EXCEPT !.create = r])
    BY Zenon, <1>3 DEF RequestCreate
  <2>2. spec' = [spec EXCEPT !.create = r]
    BY Zenon, <1>1, <2>1
  <2>3. r \in 0 .. scenario.creates
    <3>1. issued.create \in 0 .. scenario.creates
      BY Zenon, <1>0 DEF Requests
    <3> QED
      BY <1>0, <2>1, <3>1
  <2> HIDE DEF r
  <2>4. issued' \in Requests /\ spec' \in Requests /\ spec'.restore = spec.restore
    BY Zenon, <1>0, <2>1, <2>2, <2>3 DEF Requests
  <2> QED
    BY Zenon, <1>1, <2>1, <2>4
<1>4. CASE RequestRotate
  <2> DEFINE r == issued.certs + 1
  <2>1. /\ issued.certs < scenario.rotates /\ issued' = [issued EXCEPT !.certs = r]
        /\ Ask([spec EXCEPT !.certs = r])
    BY Zenon, <1>4 DEF RequestRotate
  <2>2. spec' = [spec EXCEPT !.certs = r]
    BY Zenon, <1>1, <2>1
  <2>3. r \in 0 .. scenario.rotates
    <3>1. issued.certs \in 0 .. scenario.rotates
      BY Zenon, <1>0 DEF Requests
    <3> QED
      BY <1>0, <2>1, <3>1
  <2> HIDE DEF r
  <2>4. issued' \in Requests /\ spec' \in Requests /\ spec'.restore = spec.restore
    BY Zenon, <1>0, <2>1, <2>2, <2>3 DEF Requests
  <2> QED
    BY Zenon, <1>1, <2>1, <2>4
<1>5. CASE Withdraw
  <2>1. PICK op \in scenario.withdrawals : Ask([spec EXCEPT ![op] = 0])
    BY Zenon, <1>5 DEF Withdraw
  <2>2. op \in {"restore", "create", "certs"}
    BY Zenon, ScenariosAssumption DEF IInv, TypeOK, IsScenario, Operations
  <2>3. spec' = [spec EXCEPT ![op] = 0] /\ issued' = issued
    BY Zenon, <1>1, <1>5, <2>1 DEF Withdraw
  <2>4. CASE op = "restore"
    <3>1. spec' \in Requests
      BY Zenon, <1>0, <2>3, <2>4 DEF Requests
    <3> QED
      BY Zenon, <1>0, <1>1, <2>1, <2>3, <2>4, <3>1
  <2>5. CASE op = "create"
    <3>1. spec' \in Requests /\ spec'.restore = spec.restore
      BY <1>0, <2>3, <2>5 DEF Requests
    <3> QED
      BY Zenon, <1>0, <1>1, <2>1, <2>3, <3>1
  <2>6. CASE op = "certs"
    <3>1. spec' \in Requests /\ spec'.restore = spec.restore
      BY <1>0, <2>3, <2>6 DEF Requests
    <3> QED
      BY Zenon, <1>0, <1>1, <2>1, <2>3, <3>1
  <2> QED
    BY Zenon, <2>2, <2>4, <2>5, <2>6
<1> QED
  BY Zenon, <1>2, <1>3, <1>4, <1>5 DEF User

(* What the rest of the state does not depend on.                          *)
LEMMA HostsUnchanged ==
    ASSUME IInv, UNCHANGED <<scenario, labels, life, node, joinURL, up>>
    PROVE  /\ Present' = Present /\ NotDeleting' = NotDeleting /\ HostsAreSound'
<1>1. Present' = Present /\ NotDeleting' = NotDeleting
  BY Zenon DEF Present, NotDeleting
<1> QED
  BY Zenon, <1>1, SameScenario DEF IInv, HostsAreSound

LEMMA CacheSyncIInv ==
    ASSUME IInv, CacheSync
    PROVE  IInv'
<1>0. /\ UNCHANGED <<scenario, spec, issued, status, capi, labels, life, forced, node, joinURL, up, db, stamp,
                     snapped, quiet>>
      /\ cache' = [spec |-> spec, status |-> status]
  BY Zenon DEF CacheSync, hosts
<1>1. cache'.spec = spec /\ cache'.status = status /\ cache' \in [spec : Requests, status : Statuses]
  BY Zenon, <1>0 DEF IInv, TypeOK
<1>2. TypeOK'
  BY ZenonT(60), <1>0, <1>1, SameScenario DEF IInv, TypeOK
<1>3. HostsAreSound' /\ NotDeleting' = NotDeleting
  BY Zenon, <1>0, HostsUnchanged
<1>4. Undisturbed'
  BY Zenon, <1>0, <1>1, <1>3 DEF IInv, Undisturbed, StatusIsSound
<1> QED
  BY Zenon, <1>2, <1>3, <1>4 DEF IInv

LEMMA CapiSyncIInv ==
    ASSUME IInv, CapiSync
    PROVE  IInv'
<1>0. /\ UNCHANGED <<scenario, spec, issued, status, cache, labels, life, forced, node, joinURL, up, db, stamp,
                     snapped, quiet>>
      /\ capi' = [capi EXCEPT !.known = capi.paused]
  BY Zenon DEF CapiSync, hosts
<1>1. capi' \in [paused : BOOLEAN, known : BOOLEAN]
  BY Zenon, <1>0 DEF IInv, TypeOK
<1>2. TypeOK'
  BY ZenonT(60), <1>0, <1>1, SameScenario DEF IInv, TypeOK
<1>3. HostsAreSound' /\ NotDeleting' = NotDeleting
  BY Zenon, <1>0, HostsUnchanged
<1>4. Undisturbed'
  BY Zenon, <1>0, <1>3 DEF IInv, Undisturbed, StatusIsSound
<1> QED
  BY Zenon, <1>2, <1>3, <1>4 DEF IInv

LEMMA UserIInv ==
    ASSUME IInv, User
    PROVE  IInv'
<1>0. /\ spec' \in Requests /\ issued' \in Requests
      /\ UNCHANGED <<scenario, status, cache, capi, labels, life, forced, node, joinURL, up, db, stamp,
                     snapped, quiet>>
  BY Zenon, RequestsOfUser
<1>2. TypeOK'
  BY ZenonT(60), <1>0, SameScenario DEF IInv, TypeOK
<1>3. HostsAreSound' /\ NotDeleting' = NotDeleting
  BY Zenon, <1>0, HostsUnchanged
<1>4. Undisturbed'
  BY Zenon, <1>0, <1>3 DEF IInv, Undisturbed, StatusIsSound
<1> QED
  BY Zenon, <1>2, <1>3, <1>4 DEF IInv

LEMMA QuietenIInv ==
    ASSUME IInv, Quieten
    PROVE  IInv'
<1>0. /\ UNCHANGED <<scenario, spec, issued, status, cache, capi, labels, life, forced, node, joinURL, up, db,
                     stamp, snapped>>
      /\ quiet' \in BOOLEAN
  BY Zenon DEF Quieten, hosts
<1>2. TypeOK'
  BY Zenon, <1>0, SameScenario DEF IInv, TypeOK
<1>3. HostsAreSound' /\ NotDeleting' = NotDeleting
  BY Zenon, <1>0, HostsUnchanged
<1>4. Undisturbed'
  BY Zenon, <1>0, <1>3 DEF IInv, Undisturbed, StatusIsSound
<1> QED
  BY Zenon, <1>2, <1>3, <1>4 DEF IInv

LEMMA StutterIInv ==
    ASSUME IInv, UNCHANGED vars
    PROVE  IInv'
<1>0. UNCHANGED <<scenario, spec, issued, status, cache, capi, labels, life, forced, node, joinURL, up, db,
                  stamp, snapped, quiet>>
  BY Zenon DEF vars
<1>2. TypeOK'
  BY Zenon, <1>0, SameScenario DEF IInv, TypeOK
<1>3. HostsAreSound' /\ NotDeleting' = NotDeleting
  BY Zenon, <1>0, HostsUnchanged
<1>4. Undisturbed'
  BY Zenon, <1>0, <1>3 DEF IInv, Undisturbed, StatusIsSound
<1> QED
  BY Zenon, <1>2, <1>3, <1>4 DEF IInv

(* by the agents,                                                          *)

LEMMA SetState ==
    ASSUME TypeOK, NEW m \in Machines, NEW v \in {"pending", "applied", "failed"},
           node' = [node EXCEPT ![m].state = v]
    PROVE  /\ node' \in [Machines -> Nodes]
           /\ node'[m].plan = node[m].plan /\ node'[m].state = v
           /\ \A n \in Machines \ {m} : node'[n] = node[n]
<1> DEFINE r == [node[m] EXCEPT !.state = v]
<1>0. node \in [Machines -> Nodes]
  BY Zenon DEF TypeOK
<1>1. r \in Nodes /\ r.plan = node[m].plan /\ r.state = v
  BY Zenon, <1>0 DEF Nodes
<1>2. node' = [node EXCEPT ![m] = r]
  BY Zenon
<1> HIDE DEF r
<1> QED
  BY Zenon, <1>0, <1>1, <1>2

(* An agent that is done with its plan: what becomes of its host.          *)
AgentStep(m) ==
    /\ m \in Present /\ node[m].state = "pending" /\ node[m].plan.kind # "none"
    /\ node' \in [Machines -> Nodes]
    /\ node'[m].plan = node[m].plan /\ node'[m].state \in {"applied", "failed"}
    /\ \A n \in Machines \ {m} : node'[n] = node[n]
    /\ joinURL' \subseteq joinURL \cup {m} /\ up' \subseteq up \cup {m}
    /\ node[m].plan.kind \in {"stop", "restore"} => up' = up \ {m} /\ joinURL' = joinURL
    /\ db' \in [Machines -> Original .. Wiped] /\ stamp' \in [Machines -> Nat \X (Machines \cup {Self, None})]
    /\ snapped' \in [Machines -> 0 .. scenario.creates]
    /\ UNCHANGED <<scenario, spec, issued, status, cache, capi, labels, life, forced, quiet>>

LEMMA EtcdiseType ==
    ASSUME IInv, NEW m \in Machines, NEW data \in Original .. Wiped, Etcdise(m, data)
    PROVE  db' \in [Machines -> Original .. Wiped]
BY Zenon DEF IInv, TypeOK, Etcdise

LEMMA StartType ==
    ASSUME IInv, NEW m \in Machines, Start(m)
    PROVE  /\ joinURL' \subseteq joinURL \cup {m} /\ up' \subseteq up \cup {m}
           /\ db' \in [Machines -> Original .. Wiped]
           /\ stamp' \in [Machines -> Nat \X (Machines \cup {Self, None})]
           /\ UNCHANGED snapped
<1>0. /\ db \in [Machines -> Original .. Wiped] /\ up \subseteq Machines
      /\ stamp \in [Machines -> Nat \X (Machines \cup {Self, None})]
      /\ node[m].plan \in Plans
  BY Zenon DEF IInv, TypeOK, Nodes
<1>1. CASE ~Starts(m)
  BY Zenon, <1>0, <1>1 DEF Start, hosts
<1>2. CASE Starts(m)
  <2> DEFINE plan == node[m].plan
             fresh == IF plan.join = Self THEN Fresh ELSE db[plan.join]
  <2>1. /\ stamp' = [stamp EXCEPT ![m] = <<plan.generation, plan.join>>]
        /\ up' = up \cup {m} /\ joinURL' = joinURL \cup {m}
        /\ db' = IF m \in Etcd /\ db[m] = Wiped THEN [db EXCEPT ![m] = fresh] ELSE db
        /\ UNCHANGED snapped
    BY Zenon, <1>2 DEF Start
  <2>2. plan.generation \in Nat /\ plan.join \in Machines \cup {Self, None}
    BY Zenon, <1>0 DEF Plans
  <2>3. stamp' \in [Machines -> Nat \X (Machines \cup {Self, None})]
    <3> HIDE DEF plan
    <3> QED
      BY Zenon, <1>0, <2>1, <2>2
  <2>4. fresh \in Original .. Wiped
    <3>1. Fresh \in Original .. Wiped
      <4>1. Fresh \in Nat
        BY Zenon, SnapshotFacts DEF IInv, TypeOK
      <4> QED
        BY <4>1 DEF Original, Wiped
    <3>2. plan.join \in up \cup {Self}
      BY Zenon, <1>2 DEF Starts
    <3> QED
      BY Zenon, <1>0, <3>1, <3>2
  <2> HIDE DEF plan, fresh
  <2>5. db' \in [Machines -> Original .. Wiped]
    BY Zenon, <1>0, <2>1, <2>4
  <2> QED
    BY Zenon, <2>1, <2>3, <2>5
<1> QED
  BY Zenon, <1>1, <1>2

(* Data that an agent leaves behind.                                       *)
LEMMA DataType ==
    ASSUME IInv, NEW m \in Machines
    PROVE  /\ Wiped \in Original .. Wiped
           /\ node[m].plan.kind = "restore" => node[m].plan.for \in Original .. Wiped
<1>1. scenario \in Scenarios /\ (node[m].plan.kind = "restore" => node[m].plan.for \in Restores)
  BY Zenon DEF IInv, TypeOK, HostsAreSound
<1>2. Fresh \in Nat
  BY Zenon, <1>1, SnapshotFacts
<1>3. Wiped \in Original .. Wiped
  BY <1>2 DEF Original, Wiped
<1> QED
  BY Zenon, <1>1, <1>3, SnapshotFacts

LEMMA RunStep ==
    ASSUME IInv, NEW m \in Machines, Run(m)
    PROVE  AgentStep(m)
<1> DEFINE plan == node[m].plan
<1>0. /\ TypeOK /\ m \in Present /\ node[m].state = "pending" /\ plan.kind # "none"
      /\ UNCHANGED <<scenario, spec, issued, status, cache, capi, labels, life, forced, quiet>>
  BY Zenon DEF IInv, HostsAreSound, Run, Agent, Present
<1>1. /\ node' \in [Machines -> Nodes] /\ node'[m].plan = plan /\ node'[m].state = "applied"
      /\ \A n \in Machines \ {m} : node'[n] = node[n]
  BY ZenonT(60), <1>0, SetState DEF Run
<1>2. /\ db \in [Machines -> Original .. Wiped] /\ up \subseteq Machines
      /\ stamp \in [Machines -> Nat \X (Machines \cup {Self, None})]
      /\ snapped \in [Machines -> 0 .. scenario.creates]
  BY Zenon, <1>0 DEF TypeOK
<1>3. CASE plan.kind \in {"desired", "podCleanup", "nodeCleanup"} /\ Start(m)
  BY Zenon, <1>0, <1>1, <1>2, <1>3, StartType DEF AgentStep
<1>4. CASE /\ plan.kind = "stop" \/ plan.kind = "restore"
           /\ up' = up \ {m} /\ Etcdise(m, IF plan.kind = "stop" THEN Wiped ELSE plan.for)
           /\ UNCHANGED <<joinURL, stamp, snapped>>
  <2> DEFINE data == IF plan.kind = "stop" THEN Wiped ELSE plan.for
  <2>1. data \in Original .. Wiped
    BY Zenon, <1>4, DataType
  <2>2. Etcdise(m, data)
    BY Zenon, <1>4
  <2> HIDE DEF data
  <2>3. db' \in [Machines -> Original .. Wiped]
    BY Zenon, <2>1, <2>2, EtcdiseType
  <2> QED
    BY ZenonT(60), <1>0, <1>1, <1>2, <1>4, <2>3 DEF AgentStep
<1>5. CASE /\ plan.kind = "create" /\ snapped' = [snapped EXCEPT ![m] = status.create]
           /\ UNCHANGED <<joinURL, up, db, stamp>>
  <2>1. status.create \in 0 .. scenario.creates
    BY Zenon, <1>0 DEF TypeOK, Statuses
  <2>2. snapped' \in [Machines -> 0 .. scenario.creates]
    BY Zenon, <1>2, <1>5, <2>1
  <2> QED
    BY Zenon, <1>0, <1>1, <1>2, <1>5, <2>2 DEF AgentStep
<1>6. CASE plan.kind = "rotate" /\ UNCHANGED hosts
  BY Zenon, <1>0, <1>1, <1>2, <1>6 DEF AgentStep, hosts
<1> QED
  BY Zenon, <1>3, <1>4, <1>5, <1>6 DEF Run

LEMMA FailStep ==
    ASSUME IInv, NEW m \in Machines, Fail(m)
    PROVE  AgentStep(m)
<1> DEFINE kind == node[m].plan.kind
<1>0. /\ TypeOK /\ m \in Present /\ node[m].state = "pending"
      /\ kind \in {"restore", "podCleanup", "nodeCleanup", "create"}
      /\ UNCHANGED <<scenario, spec, issued, status, cache, capi, labels, life, forced, joinURL, stamp,
                     snapped, quiet>>
  BY Zenon DEF IInv, Fail, Agent, Present
<1>1. /\ node' \in [Machines -> Nodes] /\ node'[m].plan = node[m].plan /\ node'[m].state = "failed"
      /\ \A n \in Machines \ {m} : node'[n] = node[n]
  BY ZenonT(60), <1>0, SetState DEF Fail
<1>2. /\ db \in [Machines -> Original .. Wiped] /\ up \subseteq Machines
      /\ stamp \in [Machines -> Nat \X (Machines \cup {Self, None})]
      /\ snapped \in [Machines -> 0 .. scenario.creates]
  BY Zenon, <1>0 DEF TypeOK
<1>3. CASE kind = "restore" /\ up' = up \ {m} /\ Etcdise(m, Wiped)
  <2>1. db' \in [Machines -> Original .. Wiped]
    BY Zenon, <1>3, DataType, EtcdiseType
  <2> QED
    BY ZenonT(60), <1>0, <1>1, <1>2, <1>3, <2>1 DEF AgentStep
<1>4. CASE kind # "restore" /\ UNCHANGED <<up, db>>
  BY Zenon, <1>0, <1>1, <1>2, <1>4 DEF AgentStep
<1> QED
  BY Zenon, <1>3, <1>4 DEF Fail

LEMMA AgentIInv ==
    ASSUME IInv, NEW m \in Machines, AgentStep(m)
    PROVE  IInv'
<1>0. /\ UNCHANGED <<scenario, spec, issued, status, cache, capi, labels, life, forced, quiet>>
      /\ node' \in [Machines -> Nodes]
      /\ node'[m].plan = node[m].plan /\ \A n \in Machines \ {m} : node'[n] = node[n]
      /\ joinURL' \subseteq joinURL \cup {m} /\ up' \subseteq up \cup {m}
      /\ m \in Present /\ node[m].plan.kind # "none"
      /\ node[m].plan.kind = "stop" => m \notin up'
  BY ZenonT(60) DEF AgentStep
<1>1. Present' = Present /\ NotDeleting' = NotDeleting /\ Present \subseteq Machines
  BY Zenon, <1>0 DEF Present, NotDeleting
<1>2. TypeOK'
  <2>1. /\ joinURL' \subseteq Machines /\ up' \subseteq Machines
        /\ db' \in [Machines -> Original .. Wiped]
        /\ stamp' \in [Machines -> Nat \X (Machines \cup {Self, None})]
        /\ snapped' \in [Machines -> 0 .. scenario.creates]
    BY Zenon, <1>0 DEF IInv, TypeOK, AgentStep
  <2> QED
    BY ZenonT(60), <1>0, <2>1, SameScenario DEF IInv, TypeOK
<1>3. HostsAreSound'
  <2>1. labels' \subseteq Present'
    BY Zenon, <1>0, <1>1 DEF IInv, HostsAreSound
  <2>2. ASSUME NEW n \in Machines
        PROVE  /\ life'[n] # "gone" => n \in Etcd' \cup ControlPlane'
               /\ life'[n] = "absent" => n \notin joinURL'
    <3>1. life[m] # "absent"
      BY Zenon, <1>0 DEF Present
    <3> QED
      BY ZenonT(60), <1>0, <3>1, SameScenario DEF IInv, HostsAreSound
  <2>3. ASSUME NEW n \in Machines
        PROVE  /\ n \notin Present' => node'[n].plan = NoPlan
               /\ node'[n].plan.kind = "none" => node'[n].plan = NoPlan /\ n \notin up'
               /\ node'[n].plan.kind = "stop" /\ node'[n].state = "applied" => n \notin up'
               /\ node'[n].plan.kind = "restore" => node'[n].plan.for \in Restores'
    <3>0. /\ n \notin Present => node[n].plan = NoPlan
          /\ node[n].plan.kind = "none" => node[n].plan = NoPlan /\ n \notin up
          /\ node[n].plan.kind = "stop" /\ node[n].state = "applied" => n \notin up
          /\ node[n].plan.kind = "restore" => node[n].plan.for \in Restores
      BY Zenon DEF IInv, HostsAreSound
    <3>1. CASE n = m
      BY ZenonT(60), <1>0, <1>1, <3>0, <3>1, SameScenario
    <3>2. CASE n # m
      BY Zenon, <1>0, <1>1, <3>0, <3>2, SameScenario
    <3> QED
      BY Zenon, <3>1, <3>2
  <2> QED
    BY Zenon, <2>1, <2>2, <2>3 DEF HostsAreSound
<1>4. Undisturbed'
  <2>1. \A n \in Machines : node'[n].plan.kind = node[n].plan.kind
    BY Zenon, <1>0
  <2>2. NotDeleting \subseteq Machines
    BY Zenon DEF NotDeleting
  <2> QED
    BY ZenonT(60), <1>0, <1>1, <2>1, <2>2 DEF IInv, Undisturbed, StatusIsSound
<1> QED
  BY Zenon, <1>2, <1>3, <1>4 DEF IInv

(* and by CAPI.                                                            *)

LEMMA LifeIInv ==
    ASSUME IInv, NEW m \in Machines, NEW v \in {"alive", "deleting", "lost"},
           life' = [life EXCEPT ![m] = v], up' \subseteq up, life[m] # "gone",
           v = "alive" => life[m] = "absent",
           UNCHANGED <<scenario, spec, issued, status, cache, capi, labels, forced, node, joinURL, db, stamp,
                       snapped, quiet>>
    PROVE  IInv'
<1>1. /\ life' \in [Machines -> {"absent", "alive", "deleting", "lost", "gone"}]
      /\ life'[m] = v /\ \A n \in Machines \ {m} : life'[n] = life[n]
  BY Zenon DEF IInv, TypeOK
<1>2. Present' = Present \cup {m} /\ NotDeleting' \subseteq NotDeleting \cup (IF v = "alive" THEN {m} ELSE {})
  BY Zenon, <1>1 DEF Present, NotDeleting
<1>3. TypeOK'
  BY ZenonT(60), <1>1, SameScenario DEF IInv, TypeOK
<1>4. HostsAreSound'
  <2>1. labels' \subseteq Present'
    BY Zenon, <1>2 DEF IInv, HostsAreSound
  <2>2. ASSUME NEW n \in Machines
        PROVE  /\ life'[n] # "gone" => n \in Etcd' \cup ControlPlane'
               /\ life'[n] = "absent" => n \notin joinURL'
    BY Zenon, <1>1, SameScenario DEF IInv, HostsAreSound
  <2>3. ASSUME NEW n \in Machines
        PROVE  /\ n \notin Present' => node'[n].plan = NoPlan
               /\ node'[n].plan.kind = "none" => node'[n].plan = NoPlan /\ n \notin up'
               /\ node'[n].plan.kind = "stop" /\ node'[n].state = "applied" => n \notin up'
               /\ node'[n].plan.kind = "restore" => node'[n].plan.for \in Restores'
    BY Zenon, <1>2, SameScenario DEF IInv, HostsAreSound
  <2> QED
    BY Zenon, <2>1, <2>2, <2>3 DEF HostsAreSound
<1>5. Undisturbed'
  <2>1. ASSUME v = "alive"
        PROVE  node[m].plan.kind = "none"
    <3>1. m \notin Present
      BY Zenon, <2>1 DEF Present
    <3>2. node[m].plan = NoPlan
      BY Zenon, <3>1 DEF IInv, HostsAreSound
    <3> QED
      BY <3>2 DEF NoPlan
  <2>2. status.initialized \/ cache.status.initialized =>
          \A n \in NotDeleting' : node[n].plan.kind \notin {"stop", "restore"}
    BY ZenonT(60), <1>2, <2>1 DEF IInv, Undisturbed
  <2> QED
    BY Zenon, <2>2 DEF IInv, Undisturbed, StatusIsSound
<1> QED
  BY Zenon, <1>3, <1>4, <1>5 DEF IInv

LEMMA RemoveEffect ==
    ASSUME IInv, NEW m \in Machines, Remove(m)
    PROVE  /\ life' \in [Machines -> {"absent", "alive", "deleting", "lost", "gone"}] /\ life'[m] = "gone"
           /\ \A n \in Machines \ {m} : life'[n] = life[n] /\ node'[n] = node[n]
           /\ node' \in [Machines -> Nodes] /\ node'[m].plan = NoPlan /\ node'[m].plan.kind = "none"
           /\ node'[m].state = "applied"
           /\ up' = up \ {m} /\ joinURL' = joinURL \ {m} /\ labels' = labels \ {m}
           /\ UNCHANGED <<scenario, spec, issued, status, cache, capi, forced, db, stamp, snapped, quiet>>
           /\ Present' = Present \ {m} /\ NotDeleting' = NotDeleting \ {m} /\ m \notin NotDeleting
<1>1. /\ life' \in [Machines -> {"absent", "alive", "deleting", "lost", "gone"}] /\ life'[m] = "gone"
      /\ \A n \in Machines \ {m} : life'[n] = life[n]
      /\ life[m] \in {"deleting", "lost"}
      /\ up' = up \ {m} /\ joinURL' = joinURL \ {m} /\ labels' = labels \ {m}
      /\ UNCHANGED <<scenario, spec, issued, status, cache, capi, forced, db, stamp, snapped, quiet>>
  BY Zenon DEF IInv, TypeOK, Remove, isDeleting
<1> DEFINE r == [plan |-> NoPlan, state |-> "applied"]
<1>2. r \in Nodes /\ r.plan = NoPlan /\ r.plan.kind = "none" /\ r.state = "applied"
  BY Zenon DEF Nodes, Plans, Kinds, NoPlan
<1>3. node' = [node EXCEPT ![m] = r] /\ node \in [Machines -> Nodes]
  BY Zenon DEF IInv, TypeOK, Remove
<1> HIDE DEF r
<1>4. /\ node' \in [Machines -> Nodes] /\ node'[m] = r
      /\ \A n \in Machines \ {m} : node'[n] = node[n]
  BY Zenon, <1>2, <1>3
<1>5. Present' = Present \ {m} /\ NotDeleting' = NotDeleting \ {m} /\ m \notin NotDeleting
  BY Zenon, <1>1 DEF Present, NotDeleting
<1> QED
  BY ZenonT(60), <1>1, <1>2, <1>4, <1>5

LEMMA RemoveIInv ==
    ASSUME IInv, NEW m \in Machines, Remove(m)
    PROVE  IInv'
<1>0. /\ life' \in [Machines -> {"absent", "alive", "deleting", "lost", "gone"}] /\ life'[m] = "gone"
      /\ \A n \in Machines \ {m} : life'[n] = life[n] /\ node'[n] = node[n]
      /\ node' \in [Machines -> Nodes] /\ node'[m].plan = NoPlan /\ node'[m].plan.kind = "none"
      /\ up' = up \ {m} /\ joinURL' = joinURL \ {m} /\ labels' = labels \ {m}
      /\ UNCHANGED <<scenario, spec, issued, status, cache, capi, forced, db, stamp, snapped, quiet>>
      /\ Present' = Present \ {m} /\ NotDeleting' = NotDeleting \ {m} /\ m \notin NotDeleting
  BY ZenonT(60), RemoveEffect
<1>1. TypeOK'
  BY ZenonT(60), <1>0, SameScenario DEF IInv, TypeOK
<1>2. HostsAreSound'
  <2>1. labels' \subseteq Present'
    BY ZenonT(60), <1>0 DEF IInv, HostsAreSound
  <2>2. ASSUME NEW n \in Machines
        PROVE  /\ life'[n] # "gone" => n \in Etcd' \cup ControlPlane'
               /\ life'[n] = "absent" => n \notin joinURL'
    BY ZenonT(60), <1>0, SameScenario DEF IInv, HostsAreSound
  <2>3. ASSUME NEW n \in Machines
        PROVE  /\ n \notin Present' => node'[n].plan = NoPlan
               /\ node'[n].plan.kind = "none" => node'[n].plan = NoPlan /\ n \notin up'
               /\ node'[n].plan.kind = "stop" /\ node'[n].state = "applied" => n \notin up'
               /\ node'[n].plan.kind = "restore" => node'[n].plan.for \in Restores'
    BY ZenonT(60), <1>0, SameScenario DEF IInv, HostsAreSound
  <2> QED
    BY Zenon, <2>1, <2>2, <2>3 DEF HostsAreSound
<1>3. Undisturbed'
  <2>1. NotDeleting' = NotDeleting /\ \A n \in NotDeleting : node'[n] = node[n]
    <3>1. NotDeleting \subseteq Machines
      BY Zenon DEF NotDeleting
    <3> QED
      BY Zenon, <1>0, <3>1
  <2> QED
    BY Zenon, <1>0, <2>1 DEF IInv, Undisturbed, StatusIsSound
<1> QED
  BY Zenon, <1>1, <1>2, <1>3 DEF IInv

LEMMA NextIInv ==
    ASSUME IInv, [Next]_vars
    PROVE  IInv'
<1>1. CASE Process
  BY Zenon, <1>1, ProcessStep, PassIInv, StutterIInv
<1>2. ASSUME NEW m \in Machines, Run(m) \/ Fail(m)
      PROVE  IInv'
  BY Zenon, <1>2, RunStep, FailStep, AgentIInv
<1>3. ASSUME NEW m \in Machines, Arrive(m)
      PROVE  IInv'
  <2>1. /\ life' = [life EXCEPT ![m] = "alive"] /\ life[m] = "absent"
        /\ UNCHANGED <<scenario, spec, issued, status, cache, capi, labels, forced, node, joinURL, up, db,
                       stamp, snapped, quiet>>
    BY Zenon, <1>3 DEF Arrive, hosts
  <2> QED
    BY Zenon, <2>1, LifeIInv
<1>4. ASSUME NEW m \in Machines, Delete(m)
      PROVE  IInv'
  <2>1. /\ life' = [life EXCEPT ![m] = "deleting"] /\ life[m] = "alive"
        /\ UNCHANGED <<scenario, spec, issued, status, cache, capi, labels, forced, node, joinURL, up, db,
                       stamp, snapped, quiet>>
    BY Zenon, <1>4 DEF Delete, hosts
  <2> QED
    BY Zenon, <2>1, LifeIInv
<1>5. ASSUME NEW m \in Machines, Lose(m)
      PROVE  IInv'
  <2>1. /\ life' = [life EXCEPT ![m] = "lost"] /\ life[m] = "deleting" /\ up' \subseteq up
        /\ UNCHANGED <<scenario, spec, issued, status, cache, capi, labels, forced, node, joinURL, db,
                       stamp, snapped, quiet>>
    BY Zenon, <1>5 DEF Lose
  <2> QED
    BY ZenonT(60), <2>1, LifeIInv
<1> QED
  BY Zenon, <1>1, <1>2, <1>3, <1>4, <1>5, RemoveIInv, CacheSyncIInv, CapiSyncIInv, UserIInv, QuietenIInv, StutterIInv
  DEF Next

-----------------------------------------------------------------------------
(* A plan to take a snapshot is written only for an initialized cluster.   *)
LEMMA CreationStepSpares ==
    ASSUME IInv, [Next]_vars, NEW m \in NotDeleting,
           node'[m].plan.kind = "create", node[m].plan.kind # "create"
    PROVE  node[m].plan.kind \notin {"stop", "restore"}
<1>0. m \in Machines
  BY Zenon DEF NotDeleting
<1>1. CASE PassStep
  <2>1. Writes
    <3>1. CASE UNCHANGED node
      BY Zenon, <3>1 DEF IInv, TypeOK, Writes
    <3> QED
      BY Zenon, <1>1, <3>1 DEF PassStep
  <2>2. Permitted(m, node'[m].plan)
    BY ZenonT(60), <1>0, <2>1 DEF Writes
  <2>3. RestorePlan.kind = "restore"
    BY Zenon DEF RestorePlan
  <2>4. cache.status.initialized
    BY Zenon, <2>2, <2>3 DEF Permitted, Starting
  <2> QED
    BY Zenon, <2>4 DEF IInv, Undisturbed
<1>2. ASSUME NEW n \in Machines, AgentStep(n)
      PROVE  FALSE
  BY Zenon, <1>0, <1>2 DEF AgentStep
<1>3. ASSUME NEW n \in Machines, Remove(n)
      PROVE  FALSE
  <2>1. node'[n].plan.kind = "none" /\ \A k \in Machines \ {n} : node'[k] = node[k]
    BY <1>3, RemoveEffect
  <2> QED
    BY Zenon, <1>0, <2>1
<1>4. CASE Process
  BY Zenon, <1>1, <1>4, ProcessStep DEF vars
<1>5. CASE CacheSync \/ CapiSync \/ Quieten \/ UNCHANGED vars
  BY Zenon, <1>5 DEF CacheSync, CapiSync, Quieten, vars
<1>6. CASE User
  BY Zenon, <1>6, RequestsOfUser
<1>7. ASSUME NEW n \in Machines, Arrive(n) \/ Delete(n) \/ Lose(n)
      PROVE  FALSE
  BY Zenon, <1>7 DEF Arrive, Delete, Lose
<1> QED
  BY Zenon, <1>2, <1>3, <1>4, <1>5, <1>6, <1>7, RunStep, FailStep DEF Next

(* Every variable stays in its domain, whatever the environment does.      *)
THEOREM TypeCorrect == Spec => []TypeOK
<1>1. IInv => TypeOK
  BY Zenon DEF IInv
<1> QED
  BY InitIInv, NextIInv, <1>1, PTL DEF Spec

(* The creation of a snapshot, createEtcdSnapshot, never replaces the plan *)
(* of a machine that a restoration has stopped: it waits until the cluster *)
(* is initialized, which a restoration takes back before it stops the      *)
(* first machine.                                                          *)
THEOREM CreationsSpareRestorations == Spec => CreationSparesRestoration
<1> DEFINE Spares ==
             \A m \in NotDeleting : node'[m].plan.kind = "create" /\ node[m].plan.kind # "create" =>
                node[m].plan.kind \notin {"stop", "restore"}
<1>1. IInv /\ [Next]_vars => [Spares]_vars
  BY Zenon, CreationStepSpares
<1>2. Spec => [][Spares]_vars
  BY InitIInv, NextIInv, <1>1, PTL DEF Spec
<1> QED
  BY Zenon, <1>2 DEF CreationSparesRestoration

-----------------------------------------------------------------------------
(* Restorations while no server runs.                                      *)

LEMMA InitRInv ==
    ASSUME Init
    PROVE  RInv
<1>0. /\ status.phase = "none" /\ status.restore = 0 /\ spec.restore = 0
      /\ cache.status = status /\ cache.spec = spec
  BY ZenonT(60) DEF Init
<1>1. IInv /\ scenario \in Scenarios
  BY ZenonT(60), InitIInv DEF Init
<1>2. \A m \in Machines : node[m].state = "applied"
  BY Zenon DEF Init
<1>3. EnvironmentStays
  <2>1. \A m \in Etcd : life[m] \in {"absent", "alive"}
    <3>1. Etcd \subseteq Machines /\ Early = (Etcd \cup ControlPlane) \ scenario.late
      BY Zenon, <1>1, ScenarioFacts
    <3> QED
      BY Zenon, <3>1 DEF Init
  <2> QED
    BY Zenon, <1>0, <2>1 DEF EnvironmentStays
<1>4. RestoreIsHalted /\ RestoredOnce
  BY Zenon, <1>0 DEF RestoreIsHalted, RestoredOnce
<1>5. RestoringIsHalted
  BY Zenon, <1>2 DEF RestoringIsHalted, Restoring
<1> QED
  BY Zenon, <1>3, <1>4, <1>5 DEF RInv

LEMMA InRestores ==
    ASSUME IInv, cache.status.phase = "Restore"
    PROVE  cache.status.restore \in Restores
<1>1. cache.status.restore \in Restores \cup {0}
  BY Zenon, CacheType DEF IInv
<1>2. cache.status.restore # 0
  BY Zenon DEF IInv, Undisturbed, StatusIsSound
<1> QED
  BY Zenon, <1>1, <1>2

LEMMA ChosenIsEtcd ==
    ASSUME IInv, cache.status.phase = "Restore", NEW m, Chosen(m)
    PROVE  m \in Etcd \cap Present
<1>1. m \in Present
  BY Zenon DEF Chosen, IInv, HostsAreSound
<1>2. Snapshots[cache.status.restore].on \in Etcd
  BY Zenon, InRestores, SnapshotFacts DEF IInv, TypeOK
<1>3. Fixed # None => Fixed \in Etcd
  BY ZenonT(60), ScenariosAssumption DEF IInv, TypeOK, IsScenario, Fixed, Etcd
<1> QED
  BY Zenon, <1>1, <1>2, <1>3 DEF Chosen, canBeInitNode

(* The election of one labelled machine, in closed form.                   *)
LEMMA ElectedForm ==
    ASSUME IInv, NEW m \in Machines, labels = {m}
    PROVE  electInitNode.init = m <=>
              IF Fixed # None THEN Fixed = m
              ELSE m \in canBeInitNode /\ (m \in joinURL \/ canBeInitNode \cap joinURL = {})
<1> DEFINE f == findInitNode
           other == IF labels # {} THEN {}
                    ELSE IF canBeInitNode \cap joinURL # {} THEN {Min(canBeInitNode \cap joinURL)}
                    ELSE IF canBeInitNode # {} THEN {Min(canBeInitNode)}
                    ELSE {}
<1>0. m # None /\ m \in Present
  BY Zenon, IInvFacts
<1>1. electInitNode = IF ~f.err \/ Fixed # None
                      THEN [init |-> IF f.err THEN None ELSE f.found, labels |-> f.labels]
                      ELSE [init |-> None, labels |-> other]
  BY Zenon DEF electInitNode
<1>2. electInitNode.init = IF ~f.err THEN f.found ELSE None
  <2> HIDE DEF f, other
  <2> QED
    BY Zenon, <1>1
<1>3. CASE Fixed # None
  <2>1. f = findAndDesignateFixedInitNode
    BY Zenon, <1>3 DEF findInitNode
  <2>2. CASE Fixed = m
    <3>1. f = [found |-> Fixed, err |-> FALSE, labels |-> labels]
      BY Zenon, <1>0, <2>1, <2>2 DEF findAndDesignateFixedInitNode
    <3> HIDE DEF f
    <3> QED
      BY Zenon, <1>2, <1>3, <2>2, <3>1
  <2>3. CASE Fixed # m
    <3>1. f.err
      BY Zenon, <2>1, <2>3 DEF findAndDesignateFixedInitNode
    <3> HIDE DEF f
    <3> QED
      BY Zenon, <1>0, <1>2, <1>3, <2>3, <3>1
  <2> QED
    BY Zenon, <2>2, <2>3
<1>4. CASE Fixed = None
  <2> DEFINE suitable == labels \cap canBeInitNode
             init == CHOOSE n \in suitable : TRUE
             late == init \notin joinURL /\ canBeInitNode \cap joinURL # {}
  <2>1. Single(labels)
    BY Zenon DEF Single
  <2>2. CASE m \notin canBeInitNode
    <3>1. suitable = {}
      BY Zenon, <2>2
    <3>2. f = [found |-> None, err |-> TRUE, labels |-> labels]
      BY Zenon, <1>4, <3>1 DEF findInitNode
    <3> HIDE DEF f
    <3> QED
      BY Zenon, <1>0, <1>2, <1>4, <2>2, <3>2
  <2>3. CASE m \in canBeInitNode
    <3>1. suitable = {m} /\ suitable # {}
      BY Zenon, <2>3
    <3>2. init = m
      BY Zenon, <3>1
    <3>3. f = [found |-> init, labels |-> labels, err |-> late]
      BY Zenon, <1>4, <2>1, <3>1 DEF findInitNode
    <3>4. late \in BOOLEAN
      BY Zenon
    <3>5. f.found = m /\ f.err = late
      <4> HIDE DEF late, init, f
      <4> QED
        BY Zenon, <3>2, <3>3, <3>4
    <3>6. late <=> ~(m \in joinURL \/ canBeInitNode \cap joinURL = {})
      BY ZenonT(60), <3>2
    <3> HIDE DEF late, f
    <3> QED
      BY <1>0, <1>2, <1>4, <2>3, <3>4, <3>5, <3>6
  <2> QED
    BY Zenon, <2>2, <2>3
<1> QED
  BY Zenon, <1>3, <1>4

(* The election for a restoration: who is the init node is chosen,         *)
LEMMA ElectedIsChosen ==
    ASSUME IInv, restoring("Restore"), NEW m \in Present, labels = {m},
           runEtcdRestoreInitNodeElection.init = m
    PROVE  Chosen(m)
<1> DEFINE snapshot == Snapshots[cache.spec.restore]
           d == designateInitNodeByMachineID(snapshot.on)
<1>0. cache.spec.restore = cache.status.restore /\ m \in Machines /\ m # None
  BY Zenon, IInvFacts DEF restoring
<1>1. runEtcdRestoreInitNodeElection =
        IF snapshot.kind = "local" THEN d
        ELSE IF snapshot.kind = "s3" \/ Single(canBeInitNode) THEN electInitNode
        ELSE [init |-> None, labels |-> labels]
  BY Zenon DEF runEtcdRestoreInitNodeElection
<1>2. CASE snapshot.kind = "local"
  <2>1. d.init = m
    BY ZenonT(60), <1>1, <1>2
  <2>2. d.init \in {snapshot.on, None}
    BY Zenon DEF designateInitNodeByMachineID
  <2> HIDE DEF d
  <2> QED
    BY Zenon, <1>0, <1>2, <2>1, <2>2 DEF Chosen
<1>3. CASE snapshot.kind # "local"
  <2>1. electInitNode.init = m
    <3> HIDE DEF snapshot, d
    <3> QED
      BY <1>0, <1>1, <1>3
  <2> QED
    BY Zenon, <1>0, <1>3, <2>1, ElectedForm DEF Chosen
<1> QED
  BY Zenon, <1>2, <1>3

(* and the chosen machine keeps its label.                                 *)
LEMMA ChosenKeepsLabel ==
    ASSUME IInv, restoring("Restore"), NEW m \in Machines, Chosen(m),
           runEtcdRestoreInitNodeElection.init = None
    PROVE  runEtcdRestoreInitNodeElection.labels = labels
<1> DEFINE snapshot == Snapshots[cache.spec.restore]
           d == designateInitNodeByMachineID(snapshot.on)
<1>0. /\ cache.spec.restore = cache.status.restore /\ m # None
      /\ labels = {m} /\ m \in Present
  BY Zenon, IInvFacts DEF restoring, Chosen
<1>1. runEtcdRestoreInitNodeElection =
        IF snapshot.kind = "local" THEN d
        ELSE IF snapshot.kind = "s3" \/ Single(canBeInitNode) THEN electInitNode
        ELSE [init |-> None, labels |-> labels]
  BY Zenon DEF runEtcdRestoreInitNodeElection
<1>2. CASE snapshot.kind = "local"
  <2>1. snapshot.on = m
    BY Zenon, <1>0, <1>2 DEF Chosen
  <2>2. d.init = m
    BY Zenon, <1>0, <2>1 DEF designateInitNodeByMachineID
  <2> QED
    BY ZenonT(60), <1>0, <1>1, <1>2, <2>2
<1>3. CASE snapshot.kind # "local"
  <2>1. electInitNode.init = m
    BY Zenon, <1>0, <1>3, ElectedForm DEF Chosen
  <2> HIDE DEF snapshot, d
  <2> QED
    BY <1>0, <1>1, <1>3, <2>1
<1> QED
  BY Zenon, <1>2, <1>3

(* What the choice depends on.                                             *)
LEMMA ChosenStays ==
    ASSUME NEW m, Chosen(m), UNCHANGED scenario, labels' = labels,
           cache'.status.restore = cache.status.restore,
           m \in canBeInitNode => m \in canBeInitNode', m \in joinURL => m \in joinURL',
           canBeInitNode' \cap joinURL' \subseteq canBeInitNode \cap joinURL
    PROVE  Chosen(m)'
<1>1. Snapshots' = Snapshots /\ Fixed' = Fixed
  BY Zenon, SameScenario
<1> QED
  BY Zenon, <1>1 DEF Chosen

(* A pass preserves it.                                                    *)
LEMMA PassRInv ==
    ASSUME IInv, IInv', RInv, PassStep
    PROVE  RInv'
<1> DEFINE phase == cache.status.phase
<1>0. /\ UNCHANGED <<scenario, spec, cache, life, joinURL, up>>
      /\ Present' = Present /\ canBeInitNode' = canBeInitNode
      /\ status' = status \/ (cache.spec = spec /\ cache.status = status)
  <2>1. UNCHANGED <<scenario, spec, cache, life, joinURL, up>>
    BY Zenon DEF PassStep, PassFrame, hosts
  <2>2. status' = status \/ (cache.spec = spec /\ cache.status = status)
    BY DEF PassStep
  <2> QED
    BY Zenon, <2>1, <2>2, SameScenario DEF Present, canBeInitNode, NotDeleting
<1>1. Writes
  <2>1. CASE UNCHANGED node
    BY Zenon, <2>1 DEF IInv, TypeOK, Writes
  <2> QED
    BY Zenon, <2>1 DEF PassStep
<1>2. phase \in {"Shutdown", "Restore"} => ~cache.status.initialized /\ ~status.initialized
  BY Zenon DEF IInv, Undisturbed, StatusIsSound, Uninitialized
<1>3. /\ EnvironmentStays /\ RestoreIsHalted /\ RestoringIsHalted /\ RestoredOnce
  BY Zenon DEF RInv
(* The statuses that are saved.                                            *)
<1>4. \/ status' = status
      \/ cache.status = status /\ Keeps(status')
      \/ cache.status = status /\ Initializes(status')
      \/ cache.status = status /\ UNCHANGED <<labels, node>> /\ Progresses(status')
  BY Zenon, <1>0 DEF PassStep
<1>5. ~(cache.spec.restore = 0 /\ cache.status.restore # 0)
  BY Zenon, <1>3 DEF EnvironmentStays
(* Plans that do not stop or restore are not written while there is a      *)
(* restoration that does.                                                  *)
<1>6. ASSUME ~cache.status.initialized, phase \in Stopping, NEW m \in Machines, node'[m] # node[m]
      PROVE  /\ m \in Present /\ node'[m].state = "pending"
             /\ \/ node'[m].plan.kind = "stop" /\ phase = "Shutdown"
                \/ /\ restoring("Restore") /\ phase = "Restore" /\ Chosen(m)
                   /\ node'[m].plan = RestorePlan /\ ~Settled(m, RestorePlan)
  <2>1. m \in Present /\ node'[m].state = "pending" /\ Permitted(m, node'[m].plan)
    BY Zenon, <1>1, <1>6 DEF Writes
  <2>2. CASE /\ restoring("Restore") /\ labels = {m} /\ runEtcdRestoreInitNodeElection.init = m
             /\ node'[m].plan = RestorePlan /\ ~Settled(m, node'[m].plan)
    <3>1. Chosen(m)
      BY Zenon, <2>1, <2>2, ElectedIsChosen
    <3> QED
      BY ZenonT(60), <2>1, <2>2, <3>1 DEF restoring
  <2> QED
    BY ZenonT(60), <1>6, <2>1, <2>2 DEF Permitted
<1>7. RestorePlan.kind = "restore" /\ NoPlan.kind = "none"
  BY Zenon DEF RestorePlan, NoPlan
<1>8. ASSUME Halted, ~cache.status.initialized, phase \in Stopping
      PROVE  Halted'
  <2>1. ASSUME NEW m \in Machines
        PROVE  node'[m].plan.kind \in {"none", "stop", "restore"}
    <3>1. CASE node'[m] = node[m]
      BY Zenon, <1>8, <3>1 DEF Halted
    <3>2. CASE node'[m] # node[m]
      BY Zenon, <1>6, <1>7, <1>8, <3>2
    <3> QED
      BY Zenon, <3>1, <3>2
  <2> QED
    BY Zenon, <1>0, <1>8, <2>1 DEF Halted
(* The chosen machine stays the chosen one.                                *)
<1>9. ASSUME NEW m \in Machines, Chosen(m), phase = "Restore"
      PROVE  Chosen(m)'
  <2>1. CASE labels' = labels
    BY Zenon, <1>0, <1>9, <2>1, ChosenStays
  <2>2. CASE labels' # labels
    <3>1. /\ restoring("Restore") /\ labels' = runEtcdRestoreInitNodeElection.labels
          /\ runEtcdRestoreInitNodeElection.init = None
      BY Zenon, <1>9, <2>2 DEF PassStep, Elected
    <3> QED
      BY Zenon, <1>9, <2>2, <3>1, ChosenKeepsLabel
  <2> QED
    BY Zenon, <2>1, <2>2
<1>10. RestorePlan' = RestorePlan
  BY Zenon, <1>0 DEF RestorePlan
<1>11. EnvironmentStays'
  <2>1. \A m \in Etcd' : life'[m] \in {"absent", "alive"}
    BY Zenon, <1>0, <1>3, SameScenario DEF EnvironmentStays
  <2>2. /\ cache.spec.restore = 0 => status'.restore = 0
        /\ status'.restore = 0 => cache.status.restore = 0
    <3>1. CASE status' = status
      BY Zenon, <1>3, <3>1 DEF EnvironmentStays
    <3>2. CASE cache.status = status /\ status'.restore = status.restore
      BY Zenon, <1>3, <3>2 DEF EnvironmentStays
    <3>3. CASE cache.spec.restore # 0 /\ status'.restore = cache.spec.restore
      BY Zenon, <3>3
    <3> QED
      BY ZenonT(60), <1>4, <1>5, <3>1, <3>2, <3>3 DEF Keeps, Initializes, Progresses
  <2> QED
    BY Zenon, <1>0, <1>3, <2>1, <2>2 DEF EnvironmentStays
<1>12. RestoreIsHalted'
  <2>1. ASSUME cache.status = status, UNCHANGED node, Progresses(status'), status'.phase = "Restore"
        PROVE  /\ phase = "Shutdown" /\ \A m \in Machines : node[m].plan.kind # "restore"
               /\ Halted
    <3>1. /\ phase = "Shutdown"
          /\ \A m \in Present : node[m].plan = NoPlan \/
                (node[m].plan.kind = "stop" /\ node[m].state = "applied")
      BY Zenon, <2>1 DEF Progresses, AfterPods, restoring
    <3>2. ASSUME NEW m \in Machines
          PROVE  node[m].plan.kind \in {"none", "stop"} /\ m \notin up
      <4>1. /\ m \notin Present => node[m].plan = NoPlan
            /\ node[m].plan.kind = "none" => m \notin up
            /\ node[m].plan.kind = "stop" /\ node[m].state = "applied" => m \notin up
        BY Zenon DEF IInv, HostsAreSound
      <4> QED
        BY Zenon, <1>7, <3>1, <4>1
    <3>3. up \subseteq Machines
      BY Zenon DEF IInv, TypeOK
    <3> QED
      BY Zenon, <3>1, <3>2, <3>3 DEF Halted
  <2>2. status'.phase = "Restore" =>
          \/ phase = "Restore" /\ cache.status.restore = status'.restore
          \/ phase = "Shutdown" /\ \A m \in Machines : node'[m].plan.kind # "restore"
    <3>1. CASE status' = status
      <4>1. ASSUME phase = "Shutdown", \A m \in Machines : node[m].plan.kind # "restore", NEW m \in Machines
            PROVE  node'[m].plan.kind # "restore"
        BY Zenon, <1>2, <1>6, <4>1 DEF Stopping
      <4> QED
        BY Zenon, <1>3, <3>1, <4>1 DEF RestoreIsHalted
    <3>2. CASE cache.status = status /\ Keeps(status')
      BY Zenon, <3>2 DEF Keeps
    <3>3. CASE cache.status = status /\ Initializes(status')
      BY Zenon, <3>3 DEF Initializes, Stopping
    <3>4. CASE cache.status = status /\ UNCHANGED <<labels, node>> /\ Progresses(status')
      BY Zenon, <2>1, <3>4
    <3> QED
      BY ZenonT(60), <1>4, <3>1, <3>2, <3>3, <3>4
  <2>3. status'.phase = "Restore" \/ phase = "Restore" => Halted'
    <3>1. CASE phase = "Restore" \/ status.phase = "Restore"
      <4>1. phase \in {"Shutdown", "Restore"} /\ Halted
        BY Zenon, <1>3, <3>1 DEF RestoreIsHalted
      <4> QED
        BY Zenon, <1>2, <1>8, <4>1 DEF Stopping
    <3>2. CASE status'.phase = "Restore" /\ phase # "Restore" /\ status.phase # "Restore"
      <4>1. cache.status = status /\ UNCHANGED <<labels, node>> /\ Progresses(status')
        BY Zenon, <1>4, <3>2 DEF Keeps, Initializes
      <4>2. Halted
        BY Zenon, <2>1, <3>2, <4>1
      <4> QED
        BY Zenon, <1>0, <4>1, <4>2 DEF Halted
    <3> QED
      BY Zenon, <3>1, <3>2
  <2> QED
    BY Zenon, <1>0, <2>2, <2>3 DEF RestoreIsHalted
<1>13. RestoringIsHalted'
  <2> SUFFICES ASSUME NEW m \in Machines, Restoring(m)'
               PROVE  /\ Halted'
                      /\ status'.phase \in Stopping /\ phase \in Stopping
                      /\ ~status'.initialized /\ ~cache.status.initialized
                      /\ phase = "Restore" => Chosen(m)'
    BY Zenon, <1>0 DEF RestoringIsHalted
  <2>1. CASE node'[m] = node[m]
    <3>0. Restoring(m)
      BY Zenon, <2>1 DEF Restoring
    <3>1. /\ Halted /\ status.phase \in Stopping /\ phase \in Stopping
          /\ ~status.initialized /\ ~cache.status.initialized
          /\ phase = "Restore" => Chosen(m)
      BY Zenon, <1>3, <3>0 DEF RestoringIsHalted
    <3>2. Halted'
      BY Zenon, <1>8, <3>1
    <3>3. phase = "Restore" => Chosen(m)'
      BY Zenon, <1>9, <3>1
    <3>4. status'.phase \in Stopping /\ ~status'.initialized
      <4>1. CASE status' = status
        BY Zenon, <3>1, <4>1
      <4>2. CASE cache.status = status /\ Keeps(status')
        BY Zenon, <3>1, <4>2 DEF Keeps
      <4>3. CASE cache.status = status /\ Initializes(status')
        BY Zenon, <3>1, <4>3 DEF Initializes
      <4>4. CASE cache.status = status /\ Progresses(status')
        <5>1. ASSUME NEW n \in Present, phase = "Restore", labels = {n}, Settled(n, RestorePlan)
              PROVE  FALSE
          BY Zenon, <3>0, <3>1, <5>1 DEF Chosen, Settled, Restoring
        <5> QED
          BY ZenonT(60), <1>5, <3>1, <4>4, <5>1 DEF Progresses, Stopping, AfterPods, restoring
      <4> QED
        BY Zenon, <1>4, <4>1, <4>2, <4>3, <4>4
    <3> QED
      BY Zenon, <3>1, <3>2, <3>3, <3>4
  <2>2. CASE node'[m] # node[m]
    <3>1. Permitted(m, node'[m].plan) /\ node'[m].plan.kind = "restore"
      BY Zenon, <1>1, <2>2 DEF Writes, Restoring
    <3>2. phase = "Restore"
      BY Zenon, <3>1 DEF Permitted, Starting, restoring
    <3>3. Chosen(m) /\ ~Settled(m, RestorePlan)
      BY Zenon, <1>2, <1>6, <2>2, <3>1, <3>2 DEF Stopping
    <3>4. Halted'
      BY Zenon, <1>0, <1>12, <3>2 DEF RestoreIsHalted
    <3>5. status.phase \in Stopping
      BY Zenon, <1>3, <3>2, <3>3 DEF RestoredOnce, Chosen
    <3>6. status'.phase \in Stopping /\ ~status'.initialized
      <4>1. status' = status \/ (cache.status = status /\ Keeps(status'))
        BY Zenon, <1>0, <2>2 DEF PassStep
      <4> QED
        BY Zenon, <1>2, <3>2, <3>5, <4>1 DEF Keeps
    <3> QED
      BY Zenon, <1>2, <1>9, <3>2, <3>3, <3>4, <3>6 DEF Stopping
  <2> QED
    BY ZenonT(60), <2>1, <2>2
<1>14. RestoredOnce'
  <2> SUFFICES ASSUME phase = "Restore", status'.phase \notin Stopping
               PROVE  \E m \in Machines : Chosen(m)' /\ Settled(m, RestorePlan)'
    BY Zenon, <1>0 DEF RestoredOnce
  <2>1. CASE status.phase \notin Stopping
    <3>1. PICK m \in Machines : Chosen(m) /\ Settled(m, RestorePlan)
      BY Zenon, <1>3, <2>1 DEF RestoredOnce
    <3>2. node'[m] = node[m]
      BY Zenon, <1>2, <1>6, <3>1 DEF Stopping
    <3> QED
      BY Zenon, <1>9, <1>10, <3>1, <3>2 DEF Settled
  <2>2. CASE status.phase \in Stopping
    <3>1. cache.status = status /\ UNCHANGED <<labels, node>> /\ Progresses(status')
      BY Zenon, <1>4, <2>2 DEF Keeps, Initializes, Stopping
    <3>2. PICK m \in Present : /\ labels = {m} /\ runEtcdRestoreInitNodeElection.init = m
                               /\ Settled(m, RestorePlan) /\ restoring("Restore")
      BY Zenon, <1>5, <3>1 DEF Progresses, Stopping, AfterPods, restoring
    <3>3. Chosen(m) /\ m \in Machines
      BY Zenon, <3>2, ElectedIsChosen DEF Present
    <3> QED
      BY Zenon, <1>9, <1>10, <3>1, <3>2, <3>3 DEF Settled
  <2> QED
    BY Zenon, <2>1, <2>2
<1> QED
  BY Zenon, <1>11, <1>12, <1>13, <1>14 DEF RInv

LEMMA CacheSyncRInv ==
    ASSUME IInv, RInv, CacheSync
    PROVE  RInv'
<1>0. /\ UNCHANGED <<scenario, spec, status, labels, life, node, joinURL, up>>
      /\ cache'.spec = spec /\ cache'.status = status
  BY Zenon DEF CacheSync, hosts
<1>1. /\ EnvironmentStays /\ RestoreIsHalted /\ RestoringIsHalted
  BY Zenon DEF RInv
<1>2. EnvironmentStays'
  BY Zenon, <1>0, <1>1, SameScenario DEF EnvironmentStays
<1>3. RestoreIsHalted'
  BY Zenon, <1>0, <1>1 DEF RestoreIsHalted, Halted
<1>4. RestoringIsHalted'
  <2> SUFFICES ASSUME NEW m \in Machines, Restoring(m)
               PROVE  /\ Halted /\ status.phase \in Stopping /\ ~status.initialized
                      /\ status.phase = "Restore" => Chosen(m)'
    BY Zenon, <1>0 DEF RestoringIsHalted, Restoring, Halted
  <2>1. /\ Halted /\ status.phase \in Stopping /\ ~status.initialized
        /\ cache.status.phase = "Restore" => Chosen(m)
    BY Zenon, <1>1 DEF RestoringIsHalted
  <2>2. ASSUME status.phase = "Restore"
        PROVE  Chosen(m)'
    <3>1. cache.status.phase = "Restore" /\ cache.status.restore = status.restore
      BY Zenon, <1>1, <2>2 DEF RestoreIsHalted, Restoring
    <3>2. canBeInitNode' = canBeInitNode
      BY Zenon, <1>0, SameScenario DEF canBeInitNode, NotDeleting
    <3> QED
      BY ZenonT(60), <1>0, <2>1, <3>1, <3>2, ChosenStays
  <2> QED
    BY Zenon, <2>1, <2>2
<1>5. RestoredOnce'
  BY Zenon, <1>0 DEF RestoredOnce, Stopping
<1> QED
  BY Zenon, <1>2, <1>3, <1>4, <1>5 DEF RInv

(* Only the request may change.                                            *)
LEMMA RequestRInv ==
    ASSUME IInv, RInv, spec'.restore = 0 => spec.restore = 0,
           UNCHANGED <<scenario, status, cache, labels, life, node, joinURL, up>>
    PROVE  RInv'
<1>1. EnvironmentStays'
  BY Zenon, SameScenario DEF RInv, EnvironmentStays
<1>2. \A m : Chosen(m)' <=> Chosen(m)
  <2>1. canBeInitNode' = canBeInitNode /\ Snapshots' = Snapshots /\ Fixed' = Fixed
    BY Zenon, SameScenario DEF canBeInitNode, NotDeleting
  <2> QED
    BY Zenon, <2>1 DEF Chosen
<1>3. RestoreIsHalted' /\ RestoringIsHalted'
  BY ZenonT(60), <1>2 DEF RInv, RestoreIsHalted, RestoringIsHalted, Halted, Restoring
<1>4. RestoredOnce'
  BY Zenon, <1>2 DEF RInv, RestoredOnce, Settled, RestorePlan
<1> QED
  BY Zenon, <1>1, <1>3, <1>4 DEF RInv

(* Agents stop machines, and start none as long as all are stopped.        *)
LEMMA AgentRInv ==
    ASSUME IInv, RInv, NEW n \in Machines, AgentStep(n)
    PROVE  RInv'
<1>0. /\ UNCHANGED <<scenario, spec, status, cache, labels, life>>
      /\ node[n].state = "pending" /\ node[n].plan.kind # "none"
      /\ node'[n].plan = node[n].plan /\ node'[n].state \in {"applied", "failed"}
      /\ \A m \in Machines \ {n} : node'[m] = node[m]
      /\ node[n].plan.kind \in {"stop", "restore"} => up' = up \ {n} /\ joinURL' = joinURL
  BY Zenon DEF AgentStep
<1>1. \A m \in Machines : node'[m].plan = node[m].plan
  BY Zenon, <1>0
<1>2. ASSUME Halted
      PROVE  Halted' /\ \A m \in Machines : Chosen(m) => Chosen(m)'
  <2>1. up' = {} /\ joinURL' = joinURL
    BY Zenon, <1>0, <1>2 DEF Halted
  <2>2. canBeInitNode' = canBeInitNode
    BY Zenon, <1>0, SameScenario DEF canBeInitNode, NotDeleting
  <2>3. \A m \in Machines : Chosen(m) => Chosen(m)'
    BY Zenon, <1>0, <2>1, <2>2, ChosenStays
  <2> QED
    BY Zenon, <1>1, <1>2, <2>1, <2>3 DEF Halted
<1>3. EnvironmentStays'
  BY Zenon, <1>0, SameScenario DEF RInv, EnvironmentStays
<1>4. RestoreIsHalted'
  BY ZenonT(60), <1>0, <1>1, <1>2 DEF RInv, RestoreIsHalted
<1>5. RestoringIsHalted'
  <2>1. \A m \in Machines : Restoring(m)' => Restoring(m)
    BY Zenon, <1>0 DEF Restoring
  <2> QED
    BY ZenonT(60), <1>0, <1>2, <2>1 DEF RInv, RestoringIsHalted
<1>6. RestoredOnce'
  <2> SUFFICES ASSUME cache.status.phase = "Restore", status.phase \notin Stopping
               PROVE  \E m \in Machines : Chosen(m)' /\ Settled(m, RestorePlan)'
    BY Zenon, <1>0 DEF RestoredOnce
  <2>1. Halted
    BY Zenon DEF RInv, RestoreIsHalted
  <2>2. PICK m \in Machines : Chosen(m) /\ Settled(m, RestorePlan)
    BY Zenon DEF RInv, RestoredOnce
  <2>3. m # n
    BY Zenon, <1>0, <2>2 DEF Settled
  <2>4. RestorePlan' = RestorePlan
    BY ZenonT(60), <1>0 DEF RestorePlan
  <2> QED
    BY Zenon, <1>0, <1>2, <2>1, <2>2, <2>3, <2>4 DEF Settled
<1> QED
  BY Zenon, <1>3, <1>4, <1>5, <1>6 DEF RInv

(* Machines come and go, but for those of etcd, which only come.           *)
LEMMA MachineRInv ==
    ASSUME IInv, RInv, NEW n \in Machines,
           UNCHANGED <<scenario, spec, status, cache>>, labels' = labels \ {n} \/ labels' = labels,
           n \in Etcd => labels' = labels /\ life[n] = "absent" /\ life'[n] = "alive",
           \A m \in Machines \ {n} : life'[m] = life[m] /\ node'[m] = node[m],
           node'[n] = node[n] \/ (n \notin Etcd /\ node'[n].plan.kind = "none"),
           up' \subseteq up, joinURL' = joinURL \/ (n \notin Etcd /\ joinURL' = joinURL \ {n})
    PROVE  RInv'
<1>0. Etcd \subseteq Machines /\ Etcd' = Etcd
  BY Zenon, ScenarioFacts, SameScenario DEF IInv, TypeOK
<1>1. /\ \A m \in canBeInitNode : m \in canBeInitNode'
      /\ canBeInitNode' \cap joinURL' \subseteq canBeInitNode \cap joinURL
  <2>1. \A m \in canBeInitNode : m \in canBeInitNode'
    BY Zenon, <1>0 DEF canBeInitNode, NotDeleting
  <2>2. canBeInitNode' \subseteq canBeInitNode \cup ({n} \cap Etcd)
    BY Zenon, <1>0 DEF canBeInitNode, NotDeleting
  <2>3. n \in Etcd => n \notin joinURL
    BY Zenon DEF IInv, HostsAreSound
  <2> QED
    BY Zenon, <2>1, <2>2, <2>3
<1>2. ASSUME NEW m \in Machines, Chosen(m), cache.status.phase = "Restore"
      PROVE  Chosen(m)' /\ m # n
  <2>1. m \in Etcd /\ m \in Present /\ labels = {m}
    BY Zenon, <1>2, ChosenIsEtcd DEF Chosen
  <2>2. m # n
    BY Zenon, <2>1 DEF Present
  <2>3. labels' = labels /\ (m \in joinURL => m \in joinURL')
    BY Zenon, <2>1, <2>2
  <2> QED
    BY Zenon, <1>1, <1>2, <2>2, <2>3, ChosenStays
<1>3. EnvironmentStays'
  BY Zenon, <1>0 DEF RInv, EnvironmentStays
<1>4. Halted => Halted'
  BY Zenon DEF Halted
<1>5. RestoreIsHalted'
  BY Zenon, <1>4 DEF RInv, RestoreIsHalted
<1>6. RestoringIsHalted'
  <2>1. \A m \in Machines : Restoring(m)' => Restoring(m)
    BY ZenonT(60) DEF Restoring
  <2> QED
    BY ZenonT(60), <1>2, <1>4, <2>1 DEF RInv, RestoringIsHalted
<1>7. RestoredOnce'
  <2> SUFFICES ASSUME cache.status.phase = "Restore", status.phase \notin Stopping
               PROVE  \E m \in Machines : Chosen(m)' /\ Settled(m, RestorePlan)'
    BY ZenonT(60) DEF RestoredOnce
  <2>1. PICK m \in Machines : Chosen(m) /\ Settled(m, RestorePlan)
    BY Zenon DEF RInv, RestoredOnce
  <2>2. RestorePlan' = RestorePlan
    BY ZenonT(60) DEF RestorePlan
  <2> QED
    BY Zenon, <1>2, <2>1, <2>2 DEF Settled
<1> QED
  BY ZenonT(60), <1>3, <1>5, <1>6, <1>7 DEF RInv

LEMMA NextRInv ==
    ASSUME RestorationsStay, IInv, IInv', RInv, [Next]_vars
    PROVE  RInv'
<1>0. /\ scenario.removable \cap Etcd = {} /\ "restore" \notin scenario.withdrawals
      /\ \A m \in Etcd : life[m] \in {"absent", "alive"}
      /\ life \in [Machines -> {"absent", "alive", "deleting", "lost", "gone"}]
  BY ZenonT(60) DEF RestorationsStay, IInv, TypeOK, Etcd, RInv, EnvironmentStays
<1>1. CASE UNCHANGED vars
  BY Zenon, <1>1, RequestRInv DEF vars
<1>2. CASE Process
  BY Zenon, <1>1, <1>2, ProcessStep, PassRInv
<1>3. CASE CapiSync \/ Quieten
  BY Zenon, <1>3, RequestRInv DEF CapiSync, Quieten, hosts
<1>4. CASE User
  BY Zenon, <1>0, <1>4, RequestsOfUser, RequestRInv
<1>5. ASSUME NEW m \in Machines, Arrive(m)
      PROVE  RInv'
  <2>1. /\ life[m] = "absent" /\ life'[m] = "alive" /\ \A n \in Machines \ {m} : life'[n] = life[n]
        /\ UNCHANGED <<scenario, spec, status, cache, labels, node, joinURL, up>>
    BY Zenon, <1>0, <1>5 DEF Arrive, hosts
  <2> QED
    BY Zenon, <2>1, MachineRInv
<1>6. ASSUME NEW m \in Machines, Delete(m)
      PROVE  RInv'
  <2>1. /\ m \notin Etcd /\ \A n \in Machines \ {m} : life'[n] = life[n]
        /\ UNCHANGED <<scenario, spec, status, cache, labels, node, joinURL, up>>
    BY Zenon, <1>0, <1>6 DEF Delete, hosts
  <2> QED
    BY Zenon, <2>1, MachineRInv
<1>7. ASSUME NEW m \in Machines, Lose(m)
      PROVE  RInv'
  <2>1. /\ m \notin Etcd /\ \A n \in Machines \ {m} : life'[n] = life[n]
        /\ UNCHANGED <<scenario, spec, status, cache, labels, node, joinURL>> /\ up' \subseteq up
    BY Zenon, <1>0, <1>7 DEF Lose
  <2> QED
    BY Zenon, <2>1, MachineRInv
<1>8. ASSUME NEW m \in Machines, Remove(m)
      PROVE  RInv'
  <2>1. m \notin Etcd
    BY Zenon, <1>0, <1>8 DEF Remove, isDeleting
  <2>2. /\ \A n \in Machines \ {m} : life'[n] = life[n] /\ node'[n] = node[n]
        /\ node'[m].plan.kind = "none"
        /\ up' = up \ {m} /\ joinURL' = joinURL \ {m} /\ labels' = labels \ {m}
        /\ UNCHANGED <<scenario, spec, status, cache>>
    BY Zenon, <1>8, RemoveEffect
  <2> QED
    BY Zenon, <2>1, <2>2, MachineRInv
<1> QED
  BY Zenon, <1>1, <1>2, <1>3, <1>4, <1>5, <1>6, <1>7, <1>8, CacheSyncRInv, RunStep, FailStep, AgentRInv DEF Next

(* A snapshot is restored while no server of the cluster runs, provided    *)
(* that restorations are not withdrawn and no etcd machine is deleted: the *)
(* Restore phase is entered with every machine stopped, one machine gets   *)
(* the plan, and no other plan is written before it is applied; a pass     *)
(* with an old status finds it applied, and does not write it again.       *)
THEOREM RestorationsAreStopped ==
    ASSUME RestorationsStay
    PROVE  Spec => RestoredWhileStopped
<1> DEFINE Halts == \A m \in Machines : Finishes(m) /\ node[m].plan.kind = "restore" => up = {}
<1>1. Init => IInv /\ RInv
  BY Zenon, InitIInv, InitRInv
<1>2. IInv /\ RInv /\ [Next]_vars => IInv' /\ RInv'
  BY Zenon, NextIInv, NextRInv
<1>3. IInv /\ RInv /\ [Next]_vars => [Halts]_vars
  BY Zenon DEF RInv, RestoringIsHalted, Restoring, Halted, Finishes
<1>4. Spec => [][Halts]_vars
  BY <1>1, <1>2, <1>3, PTL DEF Spec
<1> QED
  BY Zenon, <1>4 DEF RestoredWhileStopped
=============================================================================
