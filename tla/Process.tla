------------------------------ MODULE Process ------------------------------
(***************************************************************************)
(* One pass of the planner over a cluster, Process of                      *)
(* pkg/capr/planner/planner.go, with the operations it goes through in     *)
(* this order: creation of an etcd snapshot (etcdcreate.go), restoration   *)
(* of one (etcdrestore.go), rotation of certificates                       *)
(* (certificaterotation.go), and the ordinary reconciliation.  Rotation of *)
(* encryption keys, between the last two, is EncryptionKeyRotation.        *)
(*                                                                         *)
(* A pass works on the cached control plane object and returns a status,   *)
(* which is saved when the object has not changed meanwhile.  It writes    *)
(* plans, labels and the pause of the CAPI cluster one at a time; here     *)
(* each write is a step, and the rest of the pass is the next step.        *)
(* Machines with the worker role only are left out, but that there is one: *)
(* they are stopped, restarted and rotated as machines with the            *)
(* controlplane role only are, in a later tier.                            *)
(***************************************************************************)
EXTENDS Naturals, Sequences, FiniteSetsExt

CONSTANTS Machines,   \* numbers, in the order of the names of the machines
          Scenarios,  \* the clusters and the environments to look at
          Self,       \* the join server of an init node, "-"
          None

Operations == {"restore", "create", "certs"}
Snapshot == [kind : {"s3", "local", "unknown"}, on : Machines]

(* The environment of a cluster: its machines with the etcd and the        *)
(* controlplane role, those created later, those that may be deleted; the  *)
(* init node that the control plane object prescribes, or None; the        *)
(* snapshot of each restore request, with its kind and the etcd machine    *)
(* that took it; bounds on the creations and the rotations asked for; the  *)
(* operations whose request may be withdrawn; whether writes conflict and  *)
(* Rancher stops before it saves, plans fail, and the cached CAPI cluster  *)
(* is behind.                                                              *)
IsScenario(s) ==
    /\ s.etcd \cup s.controlPlane \subseteq Machines
    /\ s.etcd \ s.late # {} /\ s.controlPlane \ s.late # {}
    /\ s.late \cup s.removable \subseteq s.etcd \cup s.controlPlane
    /\ s.fixed \in (s.etcd \ s.late) \cup {None}
    /\ s.snapshots \in Seq(Snapshot) /\ \A k \in DOMAIN s.snapshots : s.snapshots[k].on \in s.etcd
    /\ s.creates \in Nat /\ s.rotates \in Nat /\ s.withdrawals \subseteq Operations
    /\ {s.crashes, s.failures, s.lag} \subseteq BOOLEAN

(* The numbers are the order in which collect sorts the machines: there is *)
(* a first one in any set of them.                                         *)
ASSUME ScenariosAssumption ==
    /\ Machines \subseteq Nat
    /\ \A S \in SUBSET Machines : S # {} => \E m \in S : \A n \in S : m <= n
    /\ Self # None /\ {Self, None} \cap Machines = {}
    /\ \A s \in Scenarios : IsScenario(s)

(* The empty phases are "none".                                            *)
VARIABLES
    scenario,   \* the environment, which does not change
    spec,       \* of the control plane object: the generations asked for, 0 for nil
    issued,     \* the last generations asked for
    status,     \* of the control plane object
    cache,      \* the control plane object as the planner knows it
    capi,       \* spec.paused of the CAPI cluster, and the cached copy of it
    labels,     \* machines whose plan secret has the init-node label
    life,       \* of each machine
    forced,     \* bootstraps with the force-remove annotation
    node,       \* plan secret of each machine
    joinURL,    \* machines whose plan secret has a join URL
    up,         \* machines whose server runs
    db,         \* the snapshot the etcd of a machine goes back to
    stamp,      \* the restart stamp each server was started with: generation and join server
    snapped,    \* the creation that was asked for when a machine last took a snapshot
    quiet       \* no more requests, deletions, failures and restarts of Rancher

hosts == <<joinURL, up, db, stamp, snapped>>
vars == <<scenario, spec, issued, status, cache, capi, labels, life, forced, node,
          joinURL, up, db, stamp, snapped, quiet>>

Etcd == scenario.etcd
ControlPlane == scenario.controlPlane
Fixed == scenario.fixed
Snapshots == scenario.snapshots
Restores == DOMAIN Snapshots
Original == 0
Fresh == Len(Snapshots) + 1          \* an etcd that was started anew
Wiped == Fresh + 1                   \* an etcd directory with a tombstone, or none at all

Phases == {"none", "Started", "Shutdown", "Restore", "PostRestorePodCleanup",
           "InitialRestartCluster", "PostRestoreNodeCleanup", "RestartCluster", "Finished"}
CreatePhases == {"none", "Started", "RestartCluster", "Finished", "Failed"}
Requests == [restore : Restores \cup {0}, create : 0 .. scenario.creates, certs : 0 .. scenario.rotates]
Statuses == [restore : Restores \cup {0}, phase : Phases,
             create : 0 .. scenario.creates, createPhase : CreatePhases,
             certs : 0 .. scenario.rotates, initialized : BOOLEAN, bootstrapped : BOOLEAN,
             configGeneration : Nat]
Kinds == {"none", "desired", "stop", "restore", "podCleanup", "nodeCleanup", "create", "rotate"}
Plans == [kind : Kinds, for : Nat, join : Machines \cup {Self, None},
          generation : Nat, keep : SUBSET Machines]
Nodes == [plan : Plans, state : {"pending", "applied", "failed"}]

(* Every variable stays in its domain.                                     *)
TypeOK ==
    /\ scenario \in Scenarios /\ spec \in Requests /\ issued \in Requests /\ status \in Statuses
    /\ cache \in [spec : Requests, status : Statuses]
    /\ capi \in [paused : BOOLEAN, known : BOOLEAN] /\ labels \subseteq Machines
    /\ life \in [Machines -> {"absent", "alive", "deleting", "lost", "gone"}]
    /\ forced \subseteq Etcd /\ node \in [Machines -> Nodes]
    /\ joinURL \subseteq Machines /\ up \subseteq Machines
    /\ db \in [Machines -> Original .. Wiped] /\ stamp \in [Machines -> Nat \X (Machines \cup {Self, None})]
    /\ snapped \in [Machines -> 0 .. scenario.creates] /\ quiet \in BOOLEAN

-----------------------------------------------------------------------------
(* The cluster plan of a pass: who is there, and who is the init node.     *)

Present == {m \in Machines : life[m] \in {"alive", "deleting", "lost"}}
isDeleting(m) == life[m] \in {"deleting", "lost"}
NotDeleting == {m \in Machines : life[m] = "alive"}
canBeInitNode == NotDeleting \cap Etcd
clusterIsSane == NotDeleting \cap Etcd # {} /\ NotDeleting \cap ControlPlane # {}

(* A mutant: machines without the etcd role are force-deleted too.         *)
deletingAny == {m \in Present : isDeleting(m)}

deletingEtcd == {m \in Present \cap Etcd : isDeleting(m)}

joinServer(m) == IF m \in joinURL THEN m ELSE None

findAndDesignateFixedInitNode ==
    LET others == (labels \cap Etcd) \ {Fixed}
    IN  IF Fixed \notin Present THEN [found |-> None, err |-> TRUE, labels |-> labels]
        ELSE IF Fixed \in labels THEN [found |-> Fixed, err |-> FALSE, labels |-> labels]
        ELSE [found |-> None, err |-> TRUE,
              labels |-> IF others # {} THEN labels \ others ELSE labels \cup {Fixed}]

(* A collection of one machine.                                            *)
Single(S) == \E m \in S : S = {m}

findInitNode ==
    LET suitable == labels \cap canBeInitNode
        init == CHOOSE m \in suitable : TRUE
    IN  IF Fixed # None THEN findAndDesignateFixedInitNode
        ELSE IF ~Single(labels) \/ suitable = {}
        THEN [found |-> None, err |-> TRUE, labels |-> labels]
        ELSE [found |-> init, labels |-> labels,
              err |-> init \notin joinURL /\ canBeInitNode \cap joinURL # {}]

(* The init node to go on with, or None and the labels that the election   *)
(* leaves; it ends the pass whenever it changes a label.                   *)
electInitNode ==
    LET f == findInitNode
        best == canBeInitNode \cap joinURL
        elected == IF labels # {} THEN {}
                   ELSE IF best # {} THEN {Min(best)}
                   ELSE IF canBeInitNode # {} THEN {Min(canBeInitNode)}
                   ELSE {}
    IN  IF ~f.err \/ Fixed # None THEN [init |-> IF f.err THEN None ELSE f.found, labels |-> f.labels]
        ELSE [init |-> None, labels |-> elected]

designateInitNodeByMachineID(id) ==
    LET designated == IF id \in Present THEN {id} ELSE {}
    IN  [init |-> IF id \in Present /\ labels = {id} THEN id ELSE None, labels |-> designated]

runEtcdRestoreInitNodeElection ==
    LET snapshot == Snapshots[cache.spec.restore]
    IN  IF snapshot.kind = "local" THEN designateInitNodeByMachineID(snapshot.on)
        ELSE IF snapshot.kind = "s3" \/ Single(canBeInitNode) THEN electInitNode
        ELSE [init |-> None, labels |-> labels]

-----------------------------------------------------------------------------
(* Plans, and what a pass may write.                                       *)

NoPlan == [kind |-> "none", for |-> 0, join |-> None, generation |-> 0, keep |-> {}]

(* addRoleConfig: an init node joins nobody, another machine the given     *)
(* server, or the one it was joined to when there is none.                 *)
joinedTo(m, server) ==
    IF m \in labels THEN Self
    ELSE IF server # None THEN server
    ELSE IF node[m].plan.join \in Machines THEN node[m].plan.join
    ELSE None

PlanFor(kind, m, for, server) ==
    [kind |-> kind, for |-> for, join |-> joinedTo(m, server), generation |-> 0, keep |-> {}]
desiredPlan(m, server) ==
    [PlanFor("desired", m, 0, server) EXCEPT !.generation = cache.status.configGeneration]
generateEtcdSnapshotCreatePlan(m, server) == PlanFor("create", m, 0, server)
generateStopServiceAndKillAllPlan(m, server) == PlanFor("stop", m, 0, server)
generateEtcdSnapshotRestorePlan(m, server) == PlanFor("restore", m, cache.status.restore, server)
rotateCertificatesPlan(m, server) == PlanFor("rotate", m, cache.spec.certs, server)
PodCleanupPlan(m, server) ==
    [desiredPlan(m, server) EXCEPT !.kind = "podCleanup", !.for = cache.status.restore]
(* A mutant: the machines to keep are collected from the etcd role only.   *)
NodeCleanupPlanEtcd(m) ==
    [desiredPlan(m, None) EXCEPT !.kind = "nodeCleanup", !.for = cache.status.restore,
                                 !.keep = NotDeleting \cap Etcd]

NodeCleanupPlan(m) ==
    [desiredPlan(m, None) EXCEPT !.kind = "nodeCleanup", !.for = cache.status.restore,
                                 !.keep = NotDeleting]

Settled(m, plan) == node[m].plan = plan /\ node[m].state = "applied"
UpdatePlan(m, plan) == node' = [node EXCEPT ![m] = [plan |-> plan, state |-> "pending"]]

(* assignAndCheckPlan as long as it returns an error: the plan is written, *)
(* or its outcome is waited for.                                           *)
assignAndCheckPlan(m, plan) ==
    IF node[m].plan # plan THEN UpdatePlan(m, plan) ELSE UNCHANGED node

(* The status a pass returns is saved unless the object has changed since  *)
(* it was cached, or Rancher stops before.                                 *)
Save(s) ==
    \/ cache = [spec |-> spec, status |-> status] /\ status' = s
    \/ cache # [spec |-> spec, status |-> status] /\ UNCHANGED status
    \/ ~quiet /\ scenario.crashes /\ UNCHANGED status

(* pauseCAPICluster does nothing when the cached cluster is as wanted, and *)
(* its update conflicts when the cached cluster is behind.                 *)
pauseNeeded(pause) == capi.known # pause
pauseCAPICluster(pause) ==
    capi' = IF capi.known = pause \/ capi.known # capi.paused THEN capi
            ELSE [paused |-> pause, known |-> IF scenario.lag THEN capi.known ELSE pause]

(* What every step of a pass leaves alone, and a pass that only saves,     *)
(* only elects, or only pauses.                                            *)
PassFrame == UNCHANGED <<scenario, spec, issued, cache, life, hosts, quiet>>
SaveOnly(s) == Save(s) /\ PassFrame /\ UNCHANGED <<capi, labels, forced, node>>
Elect(e) == labels' = e.labels /\ PassFrame /\ UNCHANGED <<status, capi, forced, node>>
PauseOnly(pause) ==
    pauseCAPICluster(pause) /\ PassFrame /\ UNCHANGED <<status, labels, forced, node>>
Assign(m, plan) ==
    assignAndCheckPlan(m, plan) /\ PassFrame /\ UNCHANGED <<status, capi, labels, forced>>
ForceDelete ==
    forced' = forced \cup deletingEtcd /\ PassFrame /\ UNCHANGED <<status, capi, labels, node>>

-----------------------------------------------------------------------------
(* createEtcdSnapshot                                                      *)

(* A mutant: the creation does not wait for an initialized cluster.        *)
creationPendingAlways ==
    IF cache.spec.create = 0 THEN cache.status.create # 0
    ELSE \/ cache.status.create # cache.spec.create
         \/ cache.status.createPhase = "Started" /\ findInitNode.found \in joinURL
         \/ cache.status.createPhase = "RestartCluster"

(* There is something to do: createEtcdSnapshot ends the pass.             *)
creationPending ==
    IF cache.spec.create = 0 THEN cache.status.create # 0
    ELSE /\ cache.status.initialized /\ cache.status.bootstrapped
         /\ \/ cache.status.create # cache.spec.create
            \/ /\ cache.status.createPhase = "Started"
               /\ findInitNode.err \/ findInitNode.found \in joinURL
            \/ cache.status.createPhase = "RestartCluster"

setEtcdSnapshotCreateState(create, phase) ==
    [cache.status EXCEPT !.create = create, !.createPhase = phase]

resetEtcdSnapshotCreateState ==
    /\ cache.spec.create = 0
    /\ SaveOnly(setEtcdSnapshotCreateState(0, "none"))

startOrRestartEtcdSnapshotCreate ==
    /\ cache.spec.create \notin {0, cache.status.create}
    /\ SaveOnly(setEtcdSnapshotCreateState(cache.spec.create, "Started"))

creating(phase) ==
    cache.spec.create \in {cache.status.create} \ {0} /\ cache.status.createPhase = phase

(* A mutant: the snapshot of one machine is enough.                        *)
createdOne(servers, server) ==
    \E m \in servers : Settled(m, generateEtcdSnapshotCreatePlan(m, server))

created(servers, server) ==
    \A m \in servers : Settled(m, generateEtcdSnapshotCreatePlan(m, server))

(* Every etcd machine gets its plan in one pass.  An error other than      *)
(* waiting, a write that conflicts included, fails the creation.           *)
runEtcdSnapshotCreate ==
    /\ creating("Started")
    /\ IF findInitNode.err THEN Elect(findInitNode)
       ELSE LET servers == Present \cap Etcd
                plan(m) == generateEtcdSnapshotCreatePlan(m, findInitNode.found)
                todo == {m \in servers : node[m].plan # plan(m)}
            IN  \E conflicts \in IF scenario.crashes /\ ~quiet THEN SUBSET todo ELSE {{}} :
                  /\ node' = [m \in Machines |-> IF m \in todo \ conflicts
                                 THEN [plan |-> plan(m), state |-> "pending"] ELSE node[m]]
                  /\ Save(IF \/ conflicts # {}
                             \/ \E m \in servers \ todo : node[m].state = "failed"
                          THEN setEtcdSnapshotCreateState(cache.spec.create, "Failed")
                          ELSE IF created(servers, findInitNode.found)
                          THEN setEtcdSnapshotCreateState(cache.spec.create, "RestartCluster")
                          ELSE cache.status)
                  /\ PassFrame /\ UNCHANGED <<capi, labels, forced>>

(* The machines of a tier of the reconciliation whose plan may be replaced *)
(* now.  Every tier has a concurrency of 1, which an empty one stands for. *)
replaceable(tier, server) ==
    {m \in tier : /\ node[m].plan # desiredPlan(m, server)
                  /\ \/ node[m].plan = NoPlan \/ node[m].state = "failed"
                     \/ \A n \in tier : node[n].plan = NoPlan \/ node[n].state = "applied"}
outOfSync(tier, server) == {m \in tier : ~Settled(m, desiredPlan(m, server))}

runEtcdSnapshotManagementServiceStart ==
    LET bootstrap == labels \cap NotDeleting
        server == findInitNode.found
        late == outOfSync((NotDeleting \cap Etcd) \ labels, server)
    IN  /\ creating("RestartCluster")
        /\ IF outOfSync(bootstrap, None) # {}
           THEN \E m \in bootstrap :
                  IF m \in replaceable(bootstrap, None) THEN Assign(m, desiredPlan(m, None))
                  ELSE UNCHANGED vars
           ELSE IF findInitNode.err THEN Elect(findInitNode)
           ELSE IF server \notin joinURL THEN UNCHANGED vars
           ELSE IF late # {} THEN Assign(Min(late), desiredPlan(Min(late), server))
           ELSE SaveOnly(setEtcdSnapshotCreateState(cache.spec.create, "Finished"))

-----------------------------------------------------------------------------
(* fullReconcile: the init node, the other etcd machines, the other        *)
(* control plane machines; then the cluster is initialized.  While there   *)
(* is something to do it returns an error, and the status it has got.      *)

reconcileTier(tier, server) ==
    /\ IF replaceable(tier, server) = {} THEN UNCHANGED node
       ELSE \E m \in replaceable(tier, server) : UpdatePlan(m, desiredPlan(m, server))
    /\ Save([cache.status EXCEPT !.bootstrapped = TRUE])
    /\ PassFrame /\ UNCHANGED <<capi, labels, forced>>

reconciled ==
    LET i == electInitNode.init
    IN  /\ i \in joinURL /\ cache.status.initialized
        /\ outOfSync({i} \cap NotDeleting, None) = {}
        /\ outOfSync(NotDeleting \ labels, i) = {}
        /\ ControlPlane \cap joinURL \cap NotDeleting # {}

fullReconcile ==
    LET i == electInitNode.init
        bootstrap == labels \cap NotDeleting
        etcd == (NotDeleting \cap Etcd) \ labels
        control == (NotDeleting \cap ControlPlane) \ labels
    IN  IF i = None THEN Elect(electInitNode)
        ELSE IF outOfSync(bootstrap, None) # {} THEN reconcileTier(bootstrap, None)
        ELSE IF i \notin joinURL THEN reconcileTier({}, None)
        ELSE IF outOfSync(etcd, i) # {} THEN reconcileTier(etcd, i)
        ELSE IF outOfSync(control, i) # {} THEN reconcileTier(control, i)
        ELSE SaveOnly([cache.status EXCEPT !.bootstrapped = TRUE,
                         !.initialized = @ \/ ControlPlane \cap joinURL \cap NotDeleting # {}])

-----------------------------------------------------------------------------
(* restoreEtcdSnapshot                                                     *)

restorePending ==
    IF cache.spec.restore = 0 THEN cache.status.restore # 0
    ELSE cache.status.restore # cache.spec.restore \/ cache.status.phase # "Finished"

setEtcdSnapshotRestoreState(restore, phase) ==
    [cache.status EXCEPT !.restore = restore, !.phase = phase]
restoreNext(phase) == setEtcdSnapshotRestoreState(cache.spec.restore, phase)

resetEtcdSnapshotRestoreState ==
    /\ cache.spec.restore = 0
    /\ SaveOnly(setEtcdSnapshotRestoreState(0, "none"))

startOrRestartEtcdSnapshotRestore ==
    /\ cache.spec.restore \notin {0, cache.status.restore}
    /\ SaveOnly(restoreNext("Started"))

restoring(phase) ==
    cache.spec.restore \in {cache.status.restore} \ {0} /\ cache.status.phase = phase

restoreStarted ==
    /\ restoring("Started")
    /\ SaveOnly([restoreNext("Shutdown") EXCEPT !.initialized = FALSE])

(* A mutant: only the etcd machines are waited for.                        *)
stoppedEtcd(servers) == \A m \in servers \cap Etcd : node[m].state = "applied"

stopped(servers) == \A m \in servers : node[m].state = "applied"

runEtcdRestoreServiceStop ==
    LET e == runEtcdRestoreInitNodeElection
        servers == {m \in Present : node[m].plan # NoPlan}
        plan(m) == generateStopServiceAndKillAllPlan(m, joinServer(e.init))
        todo == {m \in servers : node[m].plan # plan(m)}
    IN  /\ restoring("Shutdown")
        /\ IF e.init = None THEN Elect(e)
           ELSE IF deletingEtcd # {} THEN ForceDelete
           ELSE IF todo # {} THEN \E m \in todo : Assign(m, plan(m))
           ELSE IF stopped(servers)
           THEN SaveOnly([restoreNext("Restore") EXCEPT !.bootstrapped = FALSE])
           ELSE UNCHANGED vars

(* A mutant: the phase ends when the plan is written.                      *)
restoredWhenAssigned(m, plan) == node[m].plan = plan

restored(m, plan) == Settled(m, plan)

(* A mutant: the configuration generation stays, so no server restarts.    *)
afterRestoreSameGeneration == restoreNext("PostRestorePodCleanup")

afterRestore ==
    [restoreNext("PostRestorePodCleanup") EXCEPT !.configGeneration = @ + 1]

runEtcdSnapshotRestorePlan ==
    LET e == runEtcdRestoreInitNodeElection
        plan == generateEtcdSnapshotRestorePlan(e.init, joinServer(e.init))
    IN  /\ restoring("Restore")
        /\ IF e.init = None THEN Elect(e)
           ELSE IF ~Single(labels) THEN UNCHANGED vars
           ELSE IF pauseNeeded(TRUE) THEN PauseOnly(TRUE)
           ELSE IF ~restored(e.init, plan) THEN Assign(e.init, plan)
           ELSE SaveOnly(afterRestore)

(* The init node is started; the pods are cleaned up by it, or by the      *)
(* first control plane machine when it is not one.  There is no election.  *)
runEtcdSnapshotPostRestorePodCleanupPlan ==
    LET i == CHOOSE m \in labels : TRUE
        first == Min(NotDeleting \cap ControlPlane)
        initPlan == IF i \in ControlPlane THEN PodCleanupPlan(i, None) ELSE desiredPlan(i, None)
        firstPlan == PodCleanupPlan(first, findInitNode.found)
    IN  /\ restoring("PostRestorePodCleanup")
        /\ IF ~Single(labels) THEN UNCHANGED vars
           ELSE IF ~Settled(i, initPlan) THEN Assign(i, initPlan)
           ELSE IF i \in ControlPlane THEN SaveOnly(restoreNext("InitialRestartCluster"))
           ELSE IF findInitNode.err \/ findInitNode.found \notin joinURL THEN Elect(findInitNode)
           ELSE IF ~Settled(first, firstPlan) THEN Assign(first, firstPlan)
           ELSE SaveOnly(restoreNext("InitialRestartCluster"))

restartCluster(phase, next) ==
    /\ restoring(phase)
    /\ IF pauseNeeded(FALSE) THEN PauseOnly(FALSE)
       ELSE IF ~reconciled THEN fullReconcile
       ELSE SaveOnly(restoreNext(next))

runEtcdSnapshotPostRestoreNodeCleanupPlan ==
    LET i == CHOOSE m \in labels : TRUE
    IN  /\ restoring("PostRestoreNodeCleanup")
        /\ IF ~Single(labels) THEN UNCHANGED vars
           ELSE IF ~Settled(i, NodeCleanupPlan(i)) THEN Assign(i, NodeCleanupPlan(i))
           ELSE SaveOnly(restoreNext("RestartCluster"))

restoreEtcdSnapshot ==
    \/ resetEtcdSnapshotRestoreState
    \/ startOrRestartEtcdSnapshotRestore
    \/ restoreStarted
    \/ runEtcdRestoreServiceStop
    \/ runEtcdSnapshotRestorePlan
    \/ runEtcdSnapshotPostRestorePodCleanupPlan
    \/ restartCluster("InitialRestartCluster", "PostRestoreNodeCleanup")
    \/ runEtcdSnapshotPostRestoreNodeCleanupPlan
    \/ restartCluster("RestartCluster", "Finished")

-----------------------------------------------------------------------------
(* rotateCertificates: every machine in turn, the CAPI cluster paused      *)
(* while one has not got there.                                            *)

shouldRotate ==
    /\ cache.spec.certs \notin {0, cache.status.certs} /\ cache.status.initialized
    /\ findInitNode.err \/ findInitNode.found \in joinURL

rotateCertificates ==
    LET plan(m) == rotateCertificatesPlan(m, findInitNode.found)
        late == {m \in Present : ~Settled(m, plan(m))}
    IN  IF findInitNode.err THEN Elect(findInitNode)
        ELSE IF late = {} THEN
             IF pauseNeeded(FALSE) THEN PauseOnly(FALSE)
             ELSE SaveOnly([cache.status EXCEPT !.certs = cache.spec.certs])
        ELSE /\ assignAndCheckPlan(Min(late), plan(Min(late)))
             /\ pauseCAPICluster(TRUE) \/ (scenario.crashes /\ ~quiet /\ UNCHANGED capi)
             /\ PassFrame /\ UNCHANGED <<status, labels, forced>>

-----------------------------------------------------------------------------
(* Process                                                                 *)

uninitialize ==
    IF cache.status.initialized THEN SaveOnly([cache.status EXCEPT !.initialized = FALSE])
    ELSE ForceDelete

(* An etcd plane that was replaced entirely waits for a restoration.       *)
etcdPlaneReplaced ==
    /\ \/ cache.status.bootstrapped \/ joinURL # {}
       \/ \E m \in Present : node[m].plan.join \in Machines
    /\ \A m \in Present \cap Etcd : node[m].plan = NoPlan

reconcileMachines ==
    IF capi.known \/ etcdPlaneReplaced \/ reconciled THEN UNCHANGED vars ELSE fullReconcile

createEtcdSnapshot ==
    \/ resetEtcdSnapshotCreateState
    \/ startOrRestartEtcdSnapshotCreate
    \/ runEtcdSnapshotCreate
    \/ runEtcdSnapshotManagementServiceStart

Process ==
    \/ ~clusterIsSane /\ uninitialize
    \/ clusterIsSane /\ creationPending /\ createEtcdSnapshot
    \/ /\ clusterIsSane /\ ~creationPending
       /\ \/ restorePending /\ restoreEtcdSnapshot
          \/ ~restorePending /\ shouldRotate /\ rotateCertificates
          \/ ~restorePending /\ ~shouldRotate /\ reconcileMachines

CacheSync ==
    /\ cache' = [spec |-> spec, status |-> status]
    /\ UNCHANGED <<scenario, spec, issued, status, capi, labels, life, forced, node, hosts, quiet>>

-----------------------------------------------------------------------------
(* The machines: system-agent and the servers it runs (external).          *)

Agent(m) == life[m] \in {"alive", "deleting"}

Starts(m) ==
    LET plan == node[m].plan
    IN  /\ stamp[m] # <<plan.generation, plan.join>>
        /\ plan.join \in up \cup {Self}

Start(m) ==
    LET plan == node[m].plan
        fresh == IF plan.join = Self THEN Fresh ELSE db[plan.join]
    IN  IF ~Starts(m) THEN UNCHANGED hosts
        ELSE /\ stamp' = [stamp EXCEPT ![m] = <<plan.generation, plan.join>>]
             /\ up' = up \cup {m} /\ joinURL' = joinURL \cup {m}
             /\ db' = IF m \in Etcd /\ db[m] = Wiped THEN [db EXCEPT ![m] = fresh] ELSE db
             /\ UNCHANGED snapped

HasSnapshot(m, r) == Snapshots[r].kind = "s3" \/ Snapshots[r].on = m
Etcdise(m, data) == db' = IF m \in Etcd THEN [db EXCEPT ![m] = data] ELSE db

Run(m) ==
    LET plan == node[m].plan
    IN  /\ Agent(m) /\ node[m].state = "pending" /\ plan # NoPlan
        /\ node' = [node EXCEPT ![m].state = "applied"]
        /\ \/ /\ plan.kind \in {"desired", "podCleanup", "nodeCleanup"}
              /\ Starts(m) \/ (m \in up /\ stamp[m] = <<plan.generation, plan.join>>)
              /\ Start(m)
           \/ /\ plan.kind = "stop" \/ (plan.kind = "restore" /\ HasSnapshot(m, plan.for))
              /\ up' = up \ {m} /\ Etcdise(m, IF plan.kind = "stop" THEN Wiped ELSE plan.for)
              /\ UNCHANGED <<joinURL, stamp, snapped>>
           \/ /\ plan.kind = "create" /\ m \in up
              /\ snapped' = [snapped EXCEPT ![m] = status.create]
              /\ UNCHANGED <<joinURL, up, db, stamp>>
           \/ plan.kind = "rotate" /\ m \in up /\ UNCHANGED hosts
        /\ UNCHANGED <<scenario, spec, issued, status, cache, capi, labels, life, forced, quiet>>

(* A plan with a limit on its attempts fails: a restoration after it has   *)
(* removed the etcd directory, a snapshot also because there is no server. *)
Fail(m) ==
    LET kind == node[m].plan.kind
    IN  /\ Agent(m) /\ node[m].state = "pending"
        /\ \/ scenario.failures /\ ~quiet /\ kind \in {"restore", "podCleanup", "nodeCleanup", "create"}
           \/ kind = "create" /\ m \notin up
           \/ kind = "restore" /\ ~HasSnapshot(m, node[m].plan.for)
        /\ node' = [node EXCEPT ![m].state = "failed"]
        /\ IF kind = "restore" THEN up' = up \ {m} /\ Etcdise(m, Wiped) ELSE UNCHANGED <<up, db>>
        /\ UNCHANGED <<scenario, spec, issued, status, cache, capi, labels, life, forced, joinURL,
                       stamp, snapped, quiet>>

-----------------------------------------------------------------------------
(* CAPI creates and removes machines while the cluster is not paused; the  *)
(* pre-terminate hook holds an etcd machine until its member is removed,   *)
(* or its removal is forced (external; the hook itself is Membership).     *)

Arrive(m) ==
    /\ life[m] = "absent" /\ ~capi.paused
    /\ life' = [life EXCEPT ![m] = "alive"]
    /\ UNCHANGED <<scenario, spec, issued, status, cache, capi, labels, forced, node, hosts, quiet>>

Delete(m) ==
    /\ ~quiet /\ m \in scenario.removable /\ life[m] = "alive"
    /\ life' = [life EXCEPT ![m] = "deleting"]
    /\ UNCHANGED <<scenario, spec, issued, status, cache, capi, labels, forced, node, hosts, quiet>>

Lose(m) ==
    /\ ~quiet /\ life[m] = "deleting"
    /\ life' = [life EXCEPT ![m] = "lost"] /\ up' = up \ {m}
    /\ UNCHANGED <<scenario, spec, issued, status, cache, capi, labels, forced, node, joinURL, db,
                   stamp, snapped, quiet>>

Remove(m) ==
    /\ isDeleting(m) /\ ~capi.paused
    /\ \/ m \notin Etcd \/ m \in forced
       \/ (Etcd \ {m}) \cap up # {} /\ ControlPlane \cap up # {}
    /\ life' = [life EXCEPT ![m] = "gone"]
    /\ up' = up \ {m} /\ joinURL' = joinURL \ {m} /\ labels' = labels \ {m}
    /\ node' = [node EXCEPT ![m] = [plan |-> NoPlan, state |-> "applied"]]
    /\ UNCHANGED <<scenario, spec, issued, status, cache, capi, forced, db, stamp, snapped, quiet>>

CapiSync ==
    /\ capi.known # capi.paused
    /\ capi' = [capi EXCEPT !.known = capi.paused]
    /\ UNCHANGED <<scenario, spec, issued, status, cache, labels, life, forced, node, hosts, quiet>>

(* The user asks for an operation, by a new generation, or takes the       *)
(* request back.                                                           *)
Ask(s) ==
    /\ ~quiet /\ spec' = s
    /\ UNCHANGED <<scenario, status, cache, capi, labels, life, forced, node, hosts, quiet>>

RequestRestore ==
    /\ issued.restore + 1 \in Restores
    /\ issued' = [issued EXCEPT !.restore = @ + 1]
    /\ Ask([spec EXCEPT !.restore = issued.restore + 1])
RequestCreate ==
    /\ issued.create < scenario.creates
    /\ issued' = [issued EXCEPT !.create = @ + 1]
    /\ Ask([spec EXCEPT !.create = issued.create + 1])
RequestRotate ==
    /\ issued.certs < scenario.rotates
    /\ issued' = [issued EXCEPT !.certs = @ + 1]
    /\ Ask([spec EXCEPT !.certs = issued.certs + 1])
Withdraw ==
    /\ UNCHANGED issued
    /\ \E op \in scenario.withdrawals : spec[op] # 0 /\ Ask([spec EXCEPT ![op] = 0])

Quieten ==
    /\ ~quiet /\ quiet' = TRUE
    /\ UNCHANGED <<scenario, spec, issued, status, cache, capi, labels, life, forced, node, hosts>>

-----------------------------------------------------------------------------
FirstInitNode == IF Fixed # None THEN Fixed ELSE Min(Etcd \ scenario.late)
Early == (Etcd \cup ControlPlane) \ scenario.late
StartPlan(m) ==
    IF m \notin Early THEN NoPlan
    ELSE [NoPlan EXCEPT !.kind = "desired", !.join = IF m = FirstInitNode THEN Self ELSE FirstInitNode]

Init ==
    /\ scenario \in Scenarios
    /\ spec = [restore |-> 0, create |-> 0, certs |-> 0] /\ issued = spec
    /\ status = [restore |-> 0, phase |-> "none", create |-> 0, createPhase |-> "none", certs |-> 0,
                 initialized |-> TRUE, bootstrapped |-> TRUE, configGeneration |-> 0]
    /\ cache = [spec |-> spec, status |-> status]
    /\ capi = [paused |-> FALSE, known |-> FALSE] /\ labels = {FirstInitNode}
    /\ life = [m \in Machines |-> IF m \in Early THEN "alive"
                                  ELSE IF m \in scenario.late THEN "absent" ELSE "gone"]
    /\ forced = {}
    /\ node = [m \in Machines |-> [plan |-> StartPlan(m), state |-> "applied"]]
    /\ joinURL = Early /\ up = Early
    /\ db = [m \in Machines |-> IF m \in Early \cap Etcd THEN Original ELSE Wiped]
    /\ stamp = [m \in Machines |-> <<0, StartPlan(m).join>>]
    /\ snapped = [m \in Machines |-> 0] /\ quiet = FALSE

User == RequestRestore \/ RequestCreate \/ RequestRotate \/ Withdraw

Next ==
    \/ Process
    \/ CacheSync
    \/ CapiSync
    \/ User
    \/ \E m \in Machines :
         Run(m) \/ Fail(m) \/ Arrive(m) \/ Delete(m) \/ Lose(m) \/ Remove(m)
    \/ Quieten

(* Controllers and agents go on for ever: a pass follows every change of   *)
(* an object it reads, informers catch up, some agent that has a plan it   *)
(* can settle does so, and CAPI retries a removal.                         *)
Agents == \E m \in Machines : Run(m) \/ (quiet /\ Fail(m))
Removals == \E m \in Machines : Remove(m)
Fairness ==
    /\ WF_vars(Process) /\ WF_vars(CacheSync) /\ WF_vars(CapiSync)
    /\ WF_vars(Agents) /\ WF_vars(Removals)

Spec == Init /\ [][Next]_vars /\ Fairness

-----------------------------------------------------------------------------
(* The agent of machine m finishes its plan in this step.                  *)
Finishes(m) ==
    node[m].state = "pending" /\ node'[m] = [node[m] EXCEPT !.state = "applied"]

(* A snapshot is restored by "server --cluster-reset", which makes one     *)
(* machine the only etcd member, while no server of the cluster runs: the  *)
(* Shutdown phase has stopped every machine and none has come back.        *)
RestoredWhileStopped ==
    [][\A m \in Machines : Finishes(m) /\ node[m].plan.kind = "restore" => up = {}]_vars

(* The bounds under which the data of a snapshot that was restored is      *)
(* served: a snapshot that one machine only has is on the init node that   *)
(* the control plane object prescribes, if it prescribes one.              *)
FixedHasSnapshots ==
    \A s \in Scenarios : s.fixed # None =>
        \A k \in DOMAIN s.snapshots : s.snapshots[k].kind = "local" => s.snapshots[k].on = s.fixed

(* Once the restoration has left the Restore phase, every etcd member that *)
(* runs serves the data of the snapshot asked for.                         *)
RestoredDataServed ==
    status.phase \in Phases \ {"none", "Started", "Shutdown", "Restore"} =>
        \A m \in up \cap Etcd : db[m] = status.restore

(* The node cleanup of a restoration deletes the nodes of no machine that  *)
(* runs and is not being deleted.                                          *)
NodeCleanupSparesMachines ==
    [][\A m \in Machines : Finishes(m) /\ node[m].plan.kind = "nodeCleanup" =>
          up \cap NotDeleting \subseteq node[m].plan.keep]_vars

(* Every operation that is asked for ends: the restoration with an         *)
(* initialized cluster whose servers run, the creation with a snapshot or  *)
(* a failure, the rotation on every machine; and CAPI is not left paused.  *)
OperationsConclude ==
    <>quiet => <>[](
        /\ spec.restore # 0 =>
              /\ status.restore = spec.restore /\ status.phase = "Finished"
              /\ status.initialized /\ NotDeleting \subseteq up
        /\ spec.create # 0 =>
              status.create = spec.create /\ status.createPhase \in {"Finished", "Failed"}
        /\ spec.certs # 0 => status.certs = spec.certs
        /\ ~capi.paused)

(* No creation of a snapshot replaces the plan of a machine that a         *)
(* restoration has stopped and is to bring back: the creation waits for an *)
(* initialized cluster.                                                    *)
CreationSparesRestoration ==
    [][\A m \in NotDeleting : node'[m].plan.kind = "create" /\ node[m].plan.kind # "create" =>
          node[m].plan.kind \notin {"stop", "restore"}]_vars

(* The bound under which a creation takes a snapshot on every machine.     *)
OneCreation == \A s \in Scenarios : s.creates <= 1

(* A creation whose plans have all been applied has taken a snapshot on    *)
(* every etcd machine the cluster began with.  (The plans carry no         *)
(* generation: a request that replaces another whose plans are still in    *)
(* place finds them applied.)                                              *)
SnapshotOnEveryMachine ==
    status.createPhase \in {"RestartCluster", "Finished"} =>
        \A m \in canBeInitNode \ scenario.late : snapped[m] = status.create
============================================================================
