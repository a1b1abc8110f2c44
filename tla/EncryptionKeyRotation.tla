----------------------- MODULE EncryptionKeyRotation -----------------------
(***************************************************************************)
(* Rotation of the encryption keys of a cluster: rotateEncryptionKeys of   *)
(* the planner (pkg/capr/planner/encryptionkeyrotation.go).  The phase is  *)
(* kept in the status of the control plane object; each pass of the        *)
(* planner looks at the phase, delivers the next plan, or moves on to the  *)
(* next phase.  A leader runs the three secrets-encrypt commands; after    *)
(* each of them all servers are restarted.  CAPI is paused meanwhile.      *)
(*                                                                         *)
(* The status a pass returns is saved by the status handler of the         *)
(* control plane object: not at all when the pass returns an error other   *)
(* than errWaiting, and not when the object has changed since it was read. *)
(* The CAPI cluster is read from a cache, which may be behind.             *)
(***************************************************************************)
EXTENDS Naturals

CONSTANTS Machines,       \* server machines, as numbers: collect sorts them
          ControlPlane,   \* those with the controlplane role; the others are etcd only
          MaxGeneration,  \* bound on the rotations the user asks for
          MaxAttempts,    \* how often a restart is tried: 5 in the code
          Clusters,       \* the clusters to look at
          None            \* no leader, no stage

Commands == {"Prepare", "Rotate", "Reencrypt"}
Restarts == {"PostPrepareRestart", "PostRotateRestart", "PostReencryptRestart"}
InProgress == Commands \cup Restarts

(* A cluster: its init node, and the states that may be in; the control plane machines that
   may become unsuitable; whether the user changes the request while a rotation runs; where and
   in which phases an attempt may fail because of its machine, and whether the last one may. *)
IsCluster(c) ==
    /\ c.initNode \in Machines /\ c.flaky \subseteq ControlPlane
    /\ "ready" \in c.initStates /\ c.initStates \subseteq {"ready", "unserving", "missing"}
    /\ {c.interrupts, c.lasting} \subseteq BOOLEAN /\ c.troubled \subseteq Machines \X InProgress

(* The numbers are the order in which collect sorts the machines: there is a first one in any
   set of them. *)
ASSUME ClustersAssumption ==
    /\ Machines \subseteq Nat
    /\ \A S \in SUBSET Machines : S # {} => \E m \in S : \A n \in S : m <= n
    /\ ControlPlane \subseteq Machines /\ ControlPlane # {}
    /\ MaxGeneration \in Nat \ {0} /\ MaxAttempts \in Nat \ {0}
    /\ \A c \in Clusters : IsCluster(c)

VARIABLES
    cluster,     \* which does not change
    spec,        \* generation of spec.rotateEncryptionKeys, 0 when it is nil
    issued,      \* the last generation asked for
    supported,   \* the release has encryption-key-rotation 2.x
    server,      \* the init node is "ready", "unserving" (no join URL yet, or the
                 \* control plane is not initialized) or "missing"
    suitable,    \* control plane machines with a node, ready and not deleting
    status,      \* of the control plane object
    paused,      \* spec.paused of the CAPI cluster
    known,       \* the same, of the CAPI cluster in the cache of the planner
    node,        \* plan secret of each machine
    lastAttempt, \* the attempt at which a machine last ran an idempotent instruction
    stage,       \* the rotation stage in the datastore
    view,        \* the rotation stage each server works with
    quiet        \* no more changes, conflicts and failures

vars == <<cluster, spec, issued, supported, server, suitable, status, paused, known, node,
          lastAttempt, stage, view, quiet>>
world == <<cluster, issued, supported, server, suitable, quiet>>
capi == <<paused, known>>
machine == <<lastAttempt, stage, view>>

InitNode == cluster.initNode

Phases == InProgress \cup {"none", "Done", "Failed"}    \* the empty phase is "none"
Stages == {"start", "prepare", "rotate",
           "reencrypt_request", "reencrypt_active", "reencrypt_finished"}
Plans == [phase : InProgress \cup {"none"}, gen : 0 .. MaxGeneration, expect : Stages \cup {None}]
Nodes == [plan : Plans, state : {"pending", "applied", "failed"}, attempt : 1 .. MaxAttempts,
          output : Stages \cup {None}, periodic : Stages \cup {None}]

(* The idempotent instructions, and those each machine has run, at whichever attempt. *)
Instructions == InProgress \X (1 .. MaxGeneration)
ran == [m \in Machines |-> {i \in Instructions : lastAttempt[m][i] # 0}]

(* The plan that desiredPlan renders. *)
Desired == [phase |-> "none", gen |-> 0, expect |-> None]

-----------------------------------------------------------------------------
(* The decisions of a pass. *)

rotateEncryptionKeyInProgress == status.phase \in InProgress

canRotateEncryptionKeys ==
    /\ status.ready \/ rotateEncryptionKeyInProgress
    /\ ~(status.gen = spec /\ status.phase \in {"Done", "Failed"})

shouldRestartEncryptionKeyRotation ==
    /\ status.ready
    /\ \/ status.gen = 0
       \/ status.phase \in {"none", "Done", "Failed"} /\ status.gen # spec
       \/ ~rotateEncryptionKeyInProgress /\ status.phase # "Done"

encryptionKeyRotationIsSuitableControlPlane(m) == m \in ControlPlane /\ m \in suitable

FirstSuitable == CHOOSE m \in suitable : \A n \in suitable : m <= n

(* A mutant: a leader is elected in every phase. *)
encryptionKeyRotationFindLeaderInAnyPhase ==
    IF status.leader # None /\ status.leader \in suitable THEN status.leader
    ELSE IF InitNode \in ControlPlane THEN InitNode
    ELSE IF suitable # {} THEN FirstSuitable
    ELSE None

(* A mutant: the role of the init node is not looked at. *)
encryptionKeyRotationFindLeaderInitNode ==
    IF status.leader # None /\ status.leader \in suitable THEN status.leader
    ELSE IF status.phase # "Prepare" THEN None
    ELSE InitNode

(* The leader, or None where the code returns an error. *)
encryptionKeyRotationFindLeader ==
    IF status.leader # None /\ encryptionKeyRotationIsSuitableControlPlane(status.leader)
    THEN status.leader
    ELSE IF status.phase # "Prepare" THEN None
    ELSE IF InitNode \in ControlPlane THEN InitNode
    ELSE IF suitable # {} THEN FirstSuitable
    ELSE None

NextPhase ==
    [Prepare |-> "PostPrepareRestart", PostPrepareRestart |-> "Rotate",
     Rotate |-> "PostRotateRestart", PostRotateRestart |-> "Reencrypt",
     Reencrypt |-> "PostReencryptRestart", PostReencryptRestart |-> "Done"]

encryptionKeyRotationIsCurrentStageAllowed(s) ==
    CASE status.phase = "Prepare"   -> s = "prepare"
      [] status.phase = "Rotate"    -> s = "rotate"
      [] status.phase = "Reencrypt" -> s \in {"reencrypt_request", "reencrypt_active",
                                              "reencrypt_finished"}

(* The plan of a machine in the current phase; a follower is to find the stage of the leader. *)
PhasePlan(expect) == [phase |-> status.phase, gen |-> spec, expect |-> expect]

Followers(leader) == ControlPlane \ {leader, InitNode}

EtcdOnly == Machines \ (ControlPlane \cup {InitNode})

(* The machines encryptionKeyRotationRestartNodes restarts: the init node and the etcd
   machines, unless the init node leads; the leader; its followers. *)
Restarted(leader) ==
    {leader} \cup Followers(leader) \cup IF leader = InitNode THEN {} ELSE {InitNode} \cup EtcdOnly

RestartRank(m, leader) ==
    IF m = InitNode THEN 0 ELSE IF m \in EtcdOnly THEN 1 ELSE IF m = leader THEN 2 ELSE 3

RestartsBefore(m, n, leader) ==
    \/ RestartRank(m, leader) < RestartRank(n, leader)
    \/ RestartRank(m, leader) = RestartRank(n, leader) /\ m < n

RestartPlan(m, leader) ==
    PhasePlan(IF m \in Followers(leader) THEN node[leader].output ELSE None)

Settled(m, plan) == node[m].plan = plan /\ node[m].state = "applied"

-----------------------------------------------------------------------------
(* What a pass does. *)

(* The status handler saves the status; a conflict loses it. *)
Save(s) == status' = s \/ (~quiet /\ UNCHANGED status)
Waiting == Save([status EXCEPT !.ready = FALSE])
setEncryptionKeyRotateState(s, gen, phase) ==
    Save([s EXCEPT !.gen = gen, !.phase = phase, !.ready = FALSE])

(* The attempts are counted for each plan. *)
UpdatePlan(m, plan) ==
    node' = [node EXCEPT ![m].plan = plan, ![m].state = "pending", ![m].attempt = 1]

(* assignAndCheckPlan, up to where it returns nil: the plan is assigned, or it is pending, or
   it has failed; an error leaves the status as it was. *)
assignAndCheckPlan(m, plan) ==
    \/ node[m].plan # plan /\ UpdatePlan(m, plan) /\ Waiting
    \/ node[m].plan = plan /\ node[m].state = "pending" /\ UNCHANGED node /\ Waiting
    \/ node[m].plan = plan /\ node[m].state = "failed" /\ UNCHANGED <<node, status>>

resetEncryptionKeyRotateState ==
    /\ spec = 0
    /\ ~(status.gen = 0 /\ status.phase = "none")
    /\ setEncryptionKeyRotateState(status, 0, "none")
    /\ UNCHANGED <<spec, capi, node, world, machine>>

encryptionKeyRotationUnsupported ==
    /\ spec # 0 /\ ~supported
    /\ ~(status.gen = spec /\ status.phase = "Failed")
    /\ setEncryptionKeyRotateState(status, spec, "Failed")
    /\ UNCHANGED <<spec, capi, node, world, machine>>

(* rotateEncryptionKeys has nothing to do, or leaves it for later. *)
Skips ==
    \/ spec = 0 /\ status.gen = 0 /\ status.phase = "none"
    \/ spec # 0 /\ ~supported /\ status.gen = spec /\ status.phase = "Failed"
    \/ spec # 0 /\ supported /\ (~canRotateEncryptionKeys \/ server = "unserving")

(* The rest of the pass: it stops when CAPI is paused, and is a fullReconcile otherwise. *)
fullReconcile ==
    /\ Skips
    /\ IF known THEN UNCHANGED node /\ Waiting
       ELSE \/ \E m \in Machines : node[m].plan # Desired /\ UpdatePlan(m, Desired) /\ Waiting
            \/ /\ \E m \in Machines : ~Settled(m, Desired)
               /\ \A m \in Machines : node[m].plan = Desired
               /\ UNCHANGED node /\ Waiting
            \/ /\ \A m \in Machines : Settled(m, Desired)
               /\ UNCHANGED node /\ Save([status EXCEPT !.ready = TRUE])
    /\ UNCHANGED <<spec, capi, world, machine>>

(* The checks are passed; no init node is an error. *)
Rotates == spec # 0 /\ supported /\ canRotateEncryptionKeys /\ server = "ready"

startRotation ==
    /\ Rotates /\ shouldRestartEncryptionKeyRotation
    /\ setEncryptionKeyRotateState(status, spec, "Prepare")
    /\ UNCHANGED <<spec, capi, node, world, machine>>

electLeader ==
    /\ Rotates /\ ~shouldRestartEncryptionKeyRotation
    /\ encryptionKeyRotationFindLeader \notin {None, status.leader}
    /\ Save([status EXCEPT !.leader = encryptionKeyRotationFindLeader, !.ready = FALSE])
    /\ UNCHANGED <<spec, capi, node, world, machine>>

(* The pass gets to the phase with this leader. *)
Leads(leader) ==
    /\ Rotates /\ ~shouldRestartEncryptionKeyRotation
    /\ leader = encryptionKeyRotationFindLeader /\ leader = status.leader

(* Nothing is done when the cached cluster is as wanted. *)
pauseCAPICluster(pause) ==
    /\ known \in {pause, paused}
    /\ paused' = IF known = pause THEN paused ELSE pause
    /\ UNCHANGED known

(* The update conflicts when the cache is behind, and may fail for other reasons. *)
pauseConflicts(pause) == known # pause /\ (~quiet \/ known # paused) /\ UNCHANGED capi

pauseFails ==
    /\ \E leader \in ControlPlane : Leads(leader)
    /\ status.phase = "Prepare" /\ pauseConflicts(TRUE)
    /\ Waiting
    /\ UNCHANGED <<spec, capi, node, world, machine>>

(* A mutant: the stage the plan printed is not followed up. *)
ReencryptingNever(leader) == FALSE

(* The command has printed that the cluster reencrypts; it is over when the periodic
   instruction says so. *)
Reencrypting(leader) ==
    /\ node[leader].output \in {"reencrypt_request", "reencrypt_active"}
    /\ node[leader].periodic # "reencrypt_finished"

encryptionKeyRotationLeaderPhaseReconcile(leader) ==
    LET plan == PhasePlan(None) IN
    /\ Leads(leader) /\ status.phase \in Commands
    /\ IF status.phase = "Prepare" THEN pauseCAPICluster(TRUE) ELSE UNCHANGED capi
    /\ \/ assignAndCheckPlan(leader, plan)
       \/ /\ Settled(leader, plan)
          /\ UNCHANGED node
          /\ IF ~encryptionKeyRotationIsCurrentStageAllowed(node[leader].output)
             THEN UNCHANGED status
             ELSE IF Reencrypting(leader) THEN Waiting
             ELSE setEncryptionKeyRotateState(status, spec, NextPhase[status.phase])
    /\ UNCHANGED <<spec, world, machine>>

(* Two mutants: CAPI is unpaused before the last command already, or never. *)
UnpausesEarlyAt(phase) == phase \in {"PostRotateRestart", "PostReencryptRestart"}
UnpausesNeverAt(phase) == FALSE

UnpausesAt(phase) == phase = "PostReencryptRestart"

(* All servers are restarted: on to the next phase, after the last one with CAPI unpaused and
   without a leader.  Unpausing may fail. *)
RestartsDone ==
    \/ /\ IF UnpausesAt(status.phase) THEN pauseCAPICluster(FALSE) ELSE UNCHANGED capi
       /\ setEncryptionKeyRotateState(
            [status EXCEPT !.leader = IF NextPhase[status.phase] = "Done" THEN None ELSE @],
            spec, NextPhase[status.phase])
    \/ UnpausesAt(status.phase) /\ pauseConflicts(FALSE) /\ Waiting

encryptionKeyRotationRestartNodes(leader) ==
    LET Strays(m) == m \in Followers(leader) /\ node[m].output # node[leader].output
        Behind == {m \in Restarted(leader) : ~Settled(m, RestartPlan(m, leader)) \/ Strays(m)}
    IN  /\ Leads(leader) /\ status.phase \in Restarts
        /\ \/ \E m \in Behind : /\ \A n \in Behind \ {m} : RestartsBefore(m, n, leader)
                                /\ assignAndCheckPlan(m, RestartPlan(m, leader)) /\ UNCHANGED capi
           \/ Behind = {} /\ RestartsDone /\ UNCHANGED node
        /\ UNCHANGED <<spec, world, machine>>

Pass ==
    \/ resetEncryptionKeyRotateState \/ encryptionKeyRotationUnsupported
    \/ fullReconcile \/ startRotation \/ electLeader \/ pauseFails
    \/ \E leader \in ControlPlane : \/ encryptionKeyRotationLeaderPhaseReconcile(leader)
                                    \/ encryptionKeyRotationRestartNodes(leader)

-----------------------------------------------------------------------------
(* The machines: the system-agent runs plans, the server keeps the rotation stage. *)

(* The stages a secrets-encrypt command starts from, and the stage it leads to. *)
Precedes == [Prepare |-> {"start", "reencrypt_finished"}, Rotate |-> {"prepare"},
             Reencrypt |-> {"rotate"}]
LeadsTo == [Prepare |-> "prepare", Rotate |-> "rotate", Reencrypt |-> "reencrypt_request"]

(* How often a plan is tried: restarts are assigned with five failures, commands with one. *)
Attempts(plan) == IF plan.phase \in Restarts THEN MaxAttempts ELSE 1

(* The idempotent instruction of the plan is skipped when it was last run at an attempt of the
   same number. *)
Runs(m) ==
    LET plan == node[m].plan IN
    plan.phase \in InProgress /\ lastAttempt[m][<<plan.phase, plan.gen>>] # node[m].attempt

(* The stage as the machine sees it when the plan has run, or None when its command fails. *)
Outcome(m) ==
    LET plan == node[m].plan IN
    IF ~Runs(m) THEN view[m]
    ELSE IF plan.phase \in Restarts THEN stage
    ELSE IF stage \in Precedes[plan.phase] THEN LeadsTo[plan.phase]
    ELSE None

Succeeds(m) == Outcome(m) # None /\ node[m].plan.expect \in {None, Outcome(m)}

TakesEffect(m) ==
    /\ Outcome(m) # None
    /\ view' = [view EXCEPT ![m] = Outcome(m)]
    /\ stage' = IF Runs(m) /\ node[m].plan.phase \in Commands THEN Outcome(m) ELSE stage

(* The script writes the number of the attempt down before it runs the instruction. *)
RecordAttempt(m) ==
    LET plan == node[m].plan IN
    lastAttempt' = [lastAttempt EXCEPT ![m] =
        IF Runs(m) THEN [@ EXCEPT ![<<plan.phase, plan.gen>>] = node[m].attempt] ELSE @]

AgentApplies(m) ==
    LET plan == node[m].plan
        scraped == IF m \in ControlPlane /\ plan.phase # "none" THEN Outcome(m) ELSE None
    IN  /\ node[m].state = "pending" /\ Succeeds(m)
        /\ node' = [node EXCEPT ![m].state = "applied", ![m].output = scraped,
                                ![m].periodic = IF plan.phase \in Commands THEN scraped ELSE @]
        /\ TakesEffect(m) /\ RecordAttempt(m)
        /\ UNCHANGED <<spec, status, capi, world>>

(* Something is wrong with the machine. *)
Trouble(m) ==
    /\ ~quiet /\ <<m, node[m].plan.phase>> \in cluster.troubled
    /\ cluster.lasting \/ node[m].attempt < Attempts(node[m].plan)

(* An attempt fails: a command starts from the wrong stage, a follower does not find the stage
   of the leader, or something is wrong with the machine, before or after the instruction has
   taken effect.  After the last attempt the plan has failed. *)
AgentFails(m) ==
    LET plan == node[m].plan IN
    /\ node[m].state = "pending" /\ plan.phase # "none"
    /\ \/ Outcome(m) = None /\ UNCHANGED <<stage, view>>
       \/ ~Succeeds(m) /\ TakesEffect(m)
       \/ Trouble(m) /\ (TakesEffect(m) \/ UNCHANGED <<stage, view>>)
    /\ node' = IF node[m].attempt < Attempts(plan) THEN [node EXCEPT ![m].attempt = @ + 1]
               ELSE [node EXCEPT ![m].state = "failed"]
    /\ RecordAttempt(m)
    /\ UNCHANGED <<spec, status, capi, world>>

AgentPeriodic(m) ==
    /\ node[m].plan.phase \in Commands /\ node[m].state = "applied"
    /\ node[m].periodic # view[m]
    /\ node' = [node EXCEPT ![m].periodic = view[m]]
    /\ UNCHANGED <<spec, status, capi, world, machine>>

(* The server that was told to reencrypt does so. *)
ServerReencrypts(m) ==
    /\ view[m] \in {"reencrypt_request", "reencrypt_active"}
    /\ stage' = IF view[m] = "reencrypt_request" THEN "reencrypt_active" ELSE "reencrypt_finished"
    /\ view' = [view EXCEPT ![m] = stage']
    /\ UNCHANGED <<spec, status, capi, node, lastAttempt, world>>

-----------------------------------------------------------------------------
(* The user and the cluster. *)

(* A rotation is asked for with a new generation, or the request is dropped. *)
RequestChanges ==
    /\ ~quiet
    /\ cluster.interrupts \/ (~rotateEncryptionKeyInProgress /\ (spec = 0 \/ spec = status.gen))
    /\ \/ issued < MaxGeneration /\ issued' = issued + 1 /\ spec' = issued + 1
       \/ spec # 0 /\ spec' = 0 /\ UNCHANGED issued
    /\ UNCHANGED <<cluster, supported, server, suitable, status, capi, node, machine, quiet>>

(* The Kubernetes version is changed to one whose release does not support the rotation. *)
SupportChanges ==
    /\ ~quiet /\ cluster.interrupts
    /\ supported' = ~supported
    /\ UNCHANGED <<cluster, spec, issued, server, suitable, status, capi, node, machine, quiet>>

MachinesChange ==
    /\ ~quiet
    /\ \E lost \in SUBSET cluster.flaky : suitable' = ControlPlane \ lost
    /\ server' \in cluster.initStates
    /\ suitable' # suitable \/ server' # server
    /\ UNCHANGED <<cluster, spec, issued, supported, status, capi, node, machine, quiet>>

Quieten ==
    /\ ~quiet /\ quiet' = TRUE
    /\ suitable' = ControlPlane /\ server' = "ready" /\ supported' = TRUE
    /\ UNCHANGED <<cluster, spec, issued, status, capi, node, machine>>

(* The cache of the planner learns of the CAPI cluster. *)
CapiSync ==
    /\ known # paused /\ known' = paused
    /\ UNCHANGED <<spec, status, paused, node, world, machine>>

Init ==
    /\ cluster \in Clusters
    /\ spec = 0 /\ issued = 0 /\ supported = TRUE /\ server = "ready"
    /\ suitable = ControlPlane
    /\ status = [gen |-> 0, phase |-> "none", leader |-> None, ready |-> TRUE]
    /\ paused = FALSE /\ known = FALSE
    /\ node = [m \in Machines |-> [plan |-> Desired, state |-> "applied", attempt |-> 1,
                                   output |-> None, periodic |-> None]]
    /\ lastAttempt = [m \in Machines |-> [i \in Instructions |-> 0]]
    /\ stage = "start" /\ view = [m \in Machines |-> "start"]
    /\ quiet = FALSE

Next ==
    \/ Pass
    \/ \E m \in Machines : \/ AgentApplies(m) \/ AgentFails(m) \/ AgentPeriodic(m)
                           \/ ServerReencrypts(m)
    \/ CapiSync
    \/ RequestChanges \/ SupportChanges \/ MachinesChange \/ Quieten

(* The planner is enqueued by every change of a plan secret, of a machine and of the object;
   the agents and servers run; its cache is kept up to date. *)
Spec ==
    /\ Init /\ [][Next]_vars
    /\ WF_vars(Pass) /\ WF_vars(CapiSync)
    /\ \A m \in Machines : /\ WF_vars(AgentApplies(m) \/ AgentFails(m))
                           /\ WF_vars(AgentPeriodic(m)) /\ WF_vars(ServerReencrypts(m))

-----------------------------------------------------------------------------
(* Every variable stays in its domain. *)
TypeOK ==
    /\ cluster \in Clusters
    /\ spec \in 0 .. MaxGeneration /\ issued \in 0 .. MaxGeneration
    /\ supported \in BOOLEAN /\ server \in cluster.initStates
    /\ suitable \subseteq ControlPlane
    /\ status \in [gen : 0 .. MaxGeneration, phase : Phases,
                   leader : ControlPlane \cup {None}, ready : BOOLEAN]
    /\ paused \in BOOLEAN /\ known \in BOOLEAN
    /\ node \in [Machines -> Nodes]
    /\ lastAttempt \in [Machines -> [Instructions -> 0 .. MaxAttempts]]
    /\ stage \in Stages /\ view \in [Machines -> Stages]
    /\ quiet \in BOOLEAN

(* When a rotation is done, the secrets have been reencrypted with the new key, and every
   control plane server works with it: rotateEncryptionKeys has brought the leader through all
   stages and restarted all servers after each, whatever was retried, lost or changed on the
   way. *)
DoneMeansReencrypted ==
    status.phase = "Done" =>
        /\ stage = "reencrypt_finished"
        /\ \A m \in ControlPlane : view[m] = "reencrypt_finished"

(* The commands of one rotation run on one machine: encryptionKeyRotationFindLeader elects no
   other leader once the keys are prepared. *)
OneLeaderPerRotation ==
    \A g \in 1 .. MaxGeneration : \A m, n \in Machines :
        <<"Rotate", g>> \in ran[m] /\ <<"Reencrypt", g>> \in ran[n] => m = n

(* A server rotates keys, or restarts for it, only while CAPI is paused, or when it repeats the
   last restart of a rotation that is over.  pauseCAPICluster leaves a cluster alone that the
   cache shows paused, but it is paused then.  The last phase is repeated when CAPI is unpaused
   and the status update is lost; idempotentInstruction runs a restart again whose plan was
   replaced meanwhile, if it is now at an attempt of another number.  By then the secrets are
   reencrypted and every control plane server works with the new key.  (The user must not ask for
   another rotation just then: its servers are restarted, unpaused, where the first had got
   to.) *)
RotationHoldsPause ==
    ~cluster.interrupts => \A m \in Machines :
        node[m].state = "pending" /\ Runs(m) =>
            \/ paused
            \/ /\ node[m].plan.phase = "PostReencryptRestart"
               /\ <<"PostReencryptRestart", node[m].plan.gen>> \in ran[m]
               /\ stage = "reencrypt_finished"
               /\ \A n \in ControlPlane : view[n] = "reencrypt_finished"

(* When nothing disturbs it any more, a rotation that was asked for is done, and the cluster
   is left unpaused, in a cluster where plans succeed in the end, a rotation is not interrupted
   by the user and the init node has the control plane role: no unpausing is skipped because the
   cached CAPI cluster looks unpaused already. *)
RotationConcludes ==
    (<>quiet) /\ ~cluster.lasting /\ ~cluster.interrupts /\ InitNode \in ControlPlane =>
        <>[](/\ ~paused /\ status.phase \notin InProgress
             /\ spec # 0 => status.gen = spec /\ status.phase = "Done")

(* "Encryption key rotation will not be restarted again until requested": a failed plan ends
   the rotation, "allowing the cluster to continue the reconciliation loop". *)
FailureEndsRotation ==
    (<>quiet) => <>[](status.phase \notin InProgress)

============================================================================
