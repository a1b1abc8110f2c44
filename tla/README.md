# Verification of the Rancher cluster planner

This directory holds TLA+ models of the part of Rancher that provisions and
operates RKE2/K3s clusters, the *planner* (`pkg/capr/planner`) and the
controllers around it (`pkg/controllers/capr`), model-checked with TLC and, for
most of their safety properties, proved with TLAPS. The modules are written from the Go sources; every
definition is traced to its lines in `PROJECT.json` (`map`).

## 1. The system

Rancher is a set of Kubernetes controllers. Most of it translates objects into
other objects. The part in which several processes share state and must agree
is the planner:

| Part | Source | State | Operations |
|---|---|---|---|
| Planner | `capr/planner/planner.go`, `store.go` | none of its own; reads plan secrets live and machines, control plane and CAPI cluster from caches | one pass `Process` per change of any of these objects: load, operations (snapshot, restore, rotations), `fullReconcile` |
| Machine plan secret | `store.go`, `plansecret.go` | plan, applied plan, checksums, failure count and limits, probe statuses, annotations and labels | written by planner, plan-secret controller, machine-drain controller, system-agent |
| Init node election | `initnode.go` | label `init-node` on plan secrets | elect, designate, find a fixed one |
| Roll-out | `planner.go` `reconcile` | plans of all machines, concurrency, drain options | tier by tier: bootstrap, etcd, control plane, worker |
| Drain | `drain.go`, `machinedrain.go` | eight annotations of the plan secret; the node's cordon | drain, uncordon, hooks, clean-up |
| Encryption key rotation | `encryptionkeyrotation.go` | phase, generation, leader in the control plane's status; CAPI pause | three commands on a leader, a restart of all servers after each |
| etcd snapshot create/restore | `etcdcreate.go`, `etcdrestore.go` | phase in the status | stop, restore, restart, clean up |
| Certificate rotation | `certificaterotation.go` | generation in the status | one plan for each machine |
| Membership | `bootstrap/controller.go`, `etcdmgmt` | join URLs, pre-terminate annotations | join, safe removal |
| Control plane handler | `controllers/capr/planner/controller.go` and its generated status handler | conditions and status | saves the status a pass returns, or drops it |
| system-agent, k3s/rke2 server, Cluster API | external | | run plans; rotate keys; create and delete machines |

How they interact: everything is level-triggered. A pass looks at the objects,
does the first thing that has to be done, and returns `errWaiting`; the effect
of what it did causes the next pass. There are no locks beyond one per cluster
around `Process`. Writers use Kubernetes' optimistic concurrency, so an update
of a stale copy conflicts. What can go wrong is therefore what is carried over
from an earlier read: annotations loaded at the start of a pass, a cached
secret, a plan the agent has started, a status that is returned and not saved.

The hard behaviours, with their lines, are the `hazards` of `PROJECT.json`. In
short: passes interrupted between two writes; a plan, a drain option or a
request replaced while the former one is carried out; outcomes of an earlier
plan taken for those of the present one; several controllers writing one secret
back; counts taken from what was loaded; status lost with an error; everything
that must come to an end once it is left alone.

What correctness means here: one init node; what the planner believes of a
machine is true of it; no machine is taken down beyond the allowed number, out
of tier order, or undrained; operations run all their phases, in order, and
conclude; and a cluster that is left alone reaches the state asked for.

## 2. Modules

| Module | Models | Depends on |
|---|---|---|
| `InitNode` | election, designation and fixed init node, one label write per step | |
| `InitNodeProofs` | its theorems | `InitNode` |
| `PlanDelivery` | what the planner may rely on when it gives plans to a machine | |
| `PlanSecret` (`MCPlanSecret`) | one plan secret between planner, plan-secret controller and agent | implements `PlanDelivery` |
| `PlanSecretProofs` | its theorems | `PlanSecret` |
| `MachineDrain` | drain and uncordon of one node between planner and machine-drain controller | |
| `MachineDrainProofs` | its theorems | `MachineDrain` |
| `Reconcile` (`MCReconcile`) | the roll-out over all machines | abstracts `PlanSecret` and `MachineDrain` |
| `ReconcileProofs` | its theorems | `Reconcile` |
| `EncryptionKeyRotation` (`MCRotation`) | the rotation over all servers, and the saving of the status | abstracts `PlanSecret` |
| `EncryptionKeyRotationProofs` | its theorems | `EncryptionKeyRotation` |
| `Process` (`MCProcess`) | a pass with its operations: snapshot creation, restoration, certificate rotation, reconciliation | composes `InitNode` with the operations; abstracts `PlanSecret`, `Reconcile` |
| `ProcessProofs` | its theorems: types, creation and restoration, restored while stopped | `Process` |
| `SnapshotProofs` | its theorems: snapshots taken, data served, node cleanup | `ProcessProofs` |
| `Membership` (`MCMembership`) | how machines leave: pre-terminate hook, safe removal, election and re-joining | composes `InitNode` and join URLs with the bootstrap controller |
| `MembershipProofs` | its theorems | `Membership` |

### InitNode
`marked` is the set of machines whose secret has the label, `joinURL` those with
a join URL, `life` what CAPI says of a machine. A pass is `pc`, with what it has
still to write (`todo`, `target`). `electInitNode`, `findAndDesignateFixedInitNode`
and `designateInitNodeByMachineID` decide from what the pass loaded and start the
writes; `WriteLabel` does one, `WriteRefused` meets a secret that is gone,
`PassInterrupted` is a conflict or a restart of Rancher. Machines change between
any two writes.

### PlanSecret
`secret` is the secret; `loaded` the annotation a pass carries, `cached` the
controller's copy, `running`/`outcome` the agent. A plan stands for its bytes and
its checksum. `reconcile` and `assignAndCheckPlan` are the two callers of
`UpdatePlan`, with the retry limits of all their call sites in `Limits`.
`OnChange` is the whole handler of the controller: recording the applied plan,
the probes-passed annotation, the condition of the machine. `ran` and
`passedSince` are history variables.

`PlanDelivery` is the view of this that `SecretToNode` gives to the rest of the
planner: the plan assigned, the plan recorded as applied, whether the plan is seen
failed, and whether its probes are recorded to have passed. A step assigns another
plan, applies *the plan that is assigned*, fails it before its probes have passed,
succeeds at another try, or forgets the probes. `ImplementsDelivery` is the
refinement: with agent, controller, caches and write-backs hidden, every step of
`PlanSecret` is one of these or none. `Reconcile`, `EncryptionKeyRotation`,
`Process` and `Membership` rest on this view when they take a plan as pending,
applied or failed.

### MachineDrain
`ann` are the annotations of the secret, `cache` the controller's copy, `pass`
what the planner loaded. The planner's `reconcile` drains, delivers (`plan`) or
undrains; it writes all annotations it loaded back (`CopyPlanMetadataToSecret`).
The controller's `OnChange` cordons, drains, asks hooks, uncordons and cleans up;
`cordoned` and `drained` are the node. A plan is the restart stamp it carries:
only a changed stamp drains. `upgrade` and `answered` are history variables.

### Reconcile
`node` is what a secret says of its machine, reduced to versions, health and the
state of its drain. `Load` copies everything to `seen`; `reconcile(tier)` takes
the decisions of the loop over a tier from `seen` and writes; `reconcileFails` is
a pass that fails on the way; `initialize`, `Uninitialize` are the steps of
`fullReconcile` and `Process` on the status. `Admitted` is the loop: it counts
the machines it makes unavailable as it goes.

### EncryptionKeyRotation
A pass is one step up to the saving of the status it returns: passes of one
cluster exclude each other, plan secrets are read live, and `Save` leaves it open
whether the status update conflicts. `status` holds phase,
generation, leader and the Ready condition; `paused` is CAPI's and `known` the
planner's cached copy of it. `pauseCAPICluster` does nothing when the cached copy is
as wanted, and `pauseConflicts` when it is outdated; the retries on a conflict
(`planner.go:1228`) read the same cache, and are the next pass here. Where the code
returns an error other than `errWaiting` the status keeps its value, as the
generated handler does. `stage` and `view` are the rotation stage in the
datastore and at each server: these are external and modelled from the plans and from
the way the planner reads their output. `attempt` is the number the agent gives to a
try of a plan, up to 5 for a restart and 1 for a command (`encryptionkeyrotation.go:449,
510`), and `lastAttempt` what `idempotentActionScript` has written down: an instruction
is skipped only when it was last run at an attempt of the same number (`Runs`). So the
comment of `idempotentInstruction` (`idempotent.go:57`, "exactly once") does not hold of
a restart that is tried again, nor of one that is delivered again at another attempt
than the one it succeeded at. `ran` are the instructions that a machine has run at all.
The count starts anew with every plan that is delivered. In the code a failed plan
that is replaced, and delivered again before another one has succeeded, is seen failed
at once, since the failed checksum is still its own (`store.go:195-210`); the passes
then return an error and change nothing, as for any failed plan.

### Process
`spec` and `status` are the control plane object and `cache` the planner's copy;
`capi` is the pause and its cached copy. A step is a pass up to its first write,
and what follows the write is the next pass: that is how the code goes on, since
every write is followed by `errWaiting`, and it leaves the environment in between.
`Save` leaves the status as it was when the copy was outdated or Rancher stops.
`Process` goes through the operations in the order of the code; each operation has
an operator that says whether it ends the pass (`creationPending`,
`restorePending`, `shouldRotate`) and one action for each phase.
A plan is a record of what the planner compares: its kind, the request it is for,
the join server and the configuration generation, which is the restart stamp.
What plans do on a machine is external and modelled from their instructions: a
server that is `up`, the data its etcd holds (`db`: of the original cluster, of a
snapshot, of a new cluster, or none), the stamp it was started with.

### Membership
`machine` and `secret` are the objects, each with a cache; the planner's `pass`
holds the machines it loaded, while secrets are read live.
`reconcileMachinePreTerminateAnnotation` is the whole handler of the bootstrap
controller; `SafelyRemoved` and `AskRemoval` are its exchange with the etcd
controller of the cluster through annotations of the node (`removal`), for which it
needs the kubeconfig secret (`kubeconfig`): without it the hook is removed
(`controller.go:512`). The checks for a missing CAPI cluster, reference or control
plane object (`:449-473`) come to the same as their deletion, and all are `dying`. A
machine with a node has its plan secret in the cache. `Load`,
`Process`, `electInitNode`, `fullReconcile` are the planner reduced to labels, join
URLs and who is joined to whom, in the order of the tiers. `members` is the etcd
cluster.

## 3. Runs

| Run (configuration) | Properties | Shows |
|---|---|---|
| `init` (`MCInitNode`) | `TypeOK`, `LabelAddedAlone`, `ElectionSettles`, `FixedInitNodeSettles` | only a designation sets a label beside another one; elections repair what interrupted designations leave, and settle; a fixed init node gets the label for good |
| `plan` (`MCPlanSecret`) | `TypeOK`, `InSyncPlanRan`, `ProbesPassedForThisPlan`, `ImplementsDelivery`, `FailedPlanStaysFailed`, `PlanConcludes`, `ConditionFollowsSecret` | the secret implements `PlanDelivery`; what the planner reads from it is true of the machine; failed plans stay failed; every plan concludes and the machine's condition tells how |
| `drain_safety` (`MCMachineDrain`) | `TypeOK`, `DrainedUntilApplied`, `UnCordonHasOptions` | with drain options that change during drains: a drained node stays so until its plan is applied, unless an uncordon had been asked for already; uncordon requests keep their options |
| `drain_hooks` (`MCMachineDrainHooks`) | `DrainWaitsForHook`, `UpgradeConcludes` | with hooks before and after: each drain waits for its own answer; every upgrade concludes with nothing left behind |
| `rollout` (`MCReconcile`) | `TypeOK`, `TiersInOrder`, `ConcurrencyRespected`, `RolloutConcludes` | versions never run ahead of an earlier tier, with machines that join and leave; no more machines are taken down than allowed, with drains and a percentage that is rounded up; the roll-out reaches every machine and uncordons it |
| `rotation` (`MCRotation`) | `TypeOK`, `DoneMeansReencrypted`, `OneLeaderPerRotation`, `RotationHoldsPause`, `RotationConcludes` | with requests changed and dropped at any time, failing plans and lost status updates: Done means reencrypted everywhere, and one leader runs the commands of a rotation; a rotation that is not interrupted runs commands and restarts only while CAPI is paused, also when attempts fail and the cached CAPI cluster is behind, is done in the end and unpauses |
| `restore` (`MCProcessRestore`) | `TypeOK`, `RestoredWhileStopped`, `RestoredDataServed`, `NodeCleanupSparesMachines` | whatever is superseded, withdrawn, deleted, failed or lost: a snapshot is restored while no server runs, no member serves other data after it, and the node cleanup takes no node of a machine that stays |
| `operations` (`MCProcessOperations`) | `SnapshotOnEveryMachine`, `CreationSparesRestoration`, `OperationsConclude` | creation, restoration and certificate rotation that overlap, with Rancher stopping at any time: all end, CAPI is left unpaused, and a creation does not touch machines that are being restored |
| `membership` (`MCMembership`) | `TypeOK`, `MemberRemovedFirst`, `NobodyLeftBehind`, `OneEtcdCluster`, `DeletedMachinesGo` | with every cache behind: a deleted etcd machine stays until nobody is joined to it and its member is removed, or the kubeconfig secret is missing; no election starts a second etcd cluster; deleted machines go |

Three runs show a disagreement between the code and its comments (quoted under
`findings`); TLC is expected to find a counterexample:

| Run (configuration) | Property | Shows |
|---|---|---|
| `drain_race` (`MCMachineDrainRace`) | `UpgradeRequiresDrain` | a change that arrives during the uncordon is delivered to a node that is no longer drained |
| `rotation_failure` (`MCRotationFails`) | `FailureEndsRotation` | the phase Failed is returned with an error, so it is never saved and the cluster stays at the rotation |
| `operations_scale_up` (`MCProcessScaleUp`) | `OperationsConclude` | a machine that has no plan yet gets the plan of a certificate rotation as its first one, which it cannot apply; the rotation waits for it with CAPI paused |

Properties one might expect and that the models do not have, each because of what
the code does:

- *A plan in sync is the last one the machine ran.* `SecretToNode` (`store.go:297`)
  compares with the last plan recorded; a plan that comes back after one that was
  not recorded is in sync at once. `InSyncPlanRan` is what remains.
- *The clean-up removes every answer of a hook.* It removes those of the current
  options (`machinedrain.go:260`); and a drain that is switched off is delivered
  with the annotations the pass loaded, removed ones included. `DrainWaitsForHook`
  is therefore checked with options that stay.
- *At most one etcd machine is unhealthy.* `isUnavailable` (`planner.go:566`)
  ignores the health of a machine that has a further change, and the bootstrap
  tier counts the init node alone (`planner.go:895`). `ConcurrencyRespected` counts
  within a tier and makes the code's exception.
- *A dropped request unpauses CAPI; a generation that is Done was rotated.* Only
  phase and generation are reset when a request is dropped
  (`encryptionkeyrotation.go:124`), and a new generation during a rotation takes
  the remaining phases over (`:257`). `RotationHoldsPause` and `RotationConcludes`
  are therefore about clusters whose requests are left alone while they are carried
  out, and `DoneMeansReencrypted` speaks of the stage.
- *Nothing of a rotation runs once CAPI is unpaused.* CAPI is unpaused before the phase
  Done is saved (`:210`). When the status is lost, the last phase is repeated: a server
  whose plan had been replaced in between gets it again, and restarts again if it had
  succeeded at a later attempt than the first (`idempotent.go:26`). `RotationHoldsPause` makes
  this exception, and says that nothing is left to rotate then.
- *A replaced leader is harmless.* With an init node that is etcd only, a leader
  that becomes unsuitable in phase Prepare is replaced while its command may still
  run; the second `prepare` then fails, and `rotation_failure` applies. The init
  node in `RotationConcludes` is a control plane machine.
- *A plan the agent has given up is seen failed.* `assignAndCheckPlan` names its
  last parameters `failureThreshold, maxRetries` and passes them as `maxFailures,
  failureThreshold` (`store.go:500`). With equal limits, as most callers have them,
  it makes no difference; with the 1 and -1 of the restart after a snapshot
  (`etcdcreate.go:91`) the agent tries once and the planner waits without end.
  `PlanConcludes` is checked with the other limits.
- *A snapshot for every generation.* The plan of a creation does not have the
  generation in it (`etcdcreate.go:114`), so a request that replaces one in phase
  Started finds plans that are applied. `SnapshotOnEveryMachine` is checked with one
  request at a time.
- *A restoration survives the loss of the restored machine.* After the restore one
  machine has the data. If it is deleted before another has joined it, the election
  in `InitialRestartCluster` takes a machine with an empty etcd; and when the control
  plane object prescribes an init node (`fixed`) other than the machine of a local
  snapshot, designation and election move the label in turn (`initnode.go:95`).
  Neither is in `RestoreScenarios` or `OperationScenarios`.
- *A withdrawn restoration is over.* Withdrawing resets the phase
  (`etcdrestore.go:761`); plans that stop or restore machines stay. If the
  restoration had replaced another one with a different init node, the agent of the
  first may restore while the reconciliation has started others. The scenarios have
  withdrawals or replacements.
- *The pause ends with the operation.* `pauseCAPICluster` compares with the cached
  CAPI cluster (`planner.go:1237`) and does nothing when it looks right. With a cache
  that is behind (`lag`) a restoration or a rotation of certificates can end with CAPI
  paused. The safety properties are checked with such caches, `OperationsConclude` with
  a cache that knows the planner's own writes. A rotation of encryption keys whose
  request is left alone is safe from this (`RotationConcludes`): the pass that leaves the
  phase Prepare finds the command applied, which an earlier pass delivered after the pause,
  and does not go on unless the cache shows the pause. For the same reason of the pause, a restoration that is
  asked for while another one has CAPI paused waits for deleted etcd machines that
  CAPI does not remove (`etcdrestore.go:634`).
- *Nobody is joined to a machine that goes.* The handler looks for joined machines in
  a cache of secrets (`bootstrap/controller.go:496`). When the init node and then its
  successor are deleted, a machine that has just been joined to the successor is not
  seen. The same happens to a worker that arrives: a pass that loaded the machines
  before the deletion joins it to the server that goes. `NobodyLeftBehind` is checked
  with one server that others join deleted at a time and no worker that arrives, and
  proved of clusters in which only one server may go and no machine comes.
- *Every member is removed.* The handler lets a machine go, member and all, when the
  kubeconfig secret is not found (`bootstrap/controller.go:512`), as its comment says
  (`:410`); `MemberRemovedFirst` makes this exception. A machine that is deleted before it has a node is let go
  (`:481`), and may still join etcd in between; so may one that is deleted before its
  hook is set (`:433`), to which others may already be joined. `MemberRemovedFirst` is
  about hooks and machines with nodes, and in `MembershipScenarios` a machine that
  arrives is not elected.
- *One etcd cluster when all etcd machines are replaced.* The test for a replaced
  etcd plane (`planner.go:340`) counts the plans of machines that are being deleted.
  When every old machine is being deleted and a new one is there, the new one is
  elected and starts an etcd of its own. In `MembershipScenarios` an old etcd machine
  stays.

### Bounds
- *InitNode*: three machines, with no fixed init node or with one
  (`FixedInitNodes`). Two are enough for two labels; the third lets a machine be
  removed while two others compete. No other bound.
- *PlanSecret*: two plans, failure counts up to 2 (`MaxFailureCount`, at which
  they saturate), the limits of the roll-out and those of an operation with two
  attempts: counts below, at and above a threshold all occur. The limits 0 and 0
  of certificate rotation act as those of the roll-out do.
- *MachineDrain*: one node, two restart stamps, two drain options without hooks or
  one with hooks. Nodes share no annotations. Stamps and options alternate without
  bound, so that a stamp that returns stands for a further one.
- *Reconcile*: three machines in four clusters (`RolloutClusters`): a new one that a
  machine joins late and a worker leaves, one that a machine leaves, and upgrades of
  a settled cluster with three etcd machines or with two workers, drained. `MaxVersion` is 2: one upgrade, asked for at any time.
- *EncryptionKeyRotation*: three servers, `MaxGeneration` 2: a rotation and the
  request that follows or disturbs it; 1 in `rotation_failure`. `MaxAttempts` is 2,
  where the code has 5: two are enough for an attempt that is repeated, for the last
  one, and for a number that differs from the one written down. The fields
  `interrupts`, `lasting`, `flaky` and `initStates` of a cluster say which disturbances
  it has, and `troubled` at which machines and in which phases an attempt may fail for no
  reason of the rotation: the commands and one restart in the first cluster, the last
  restart in the second; a follower that does not find the stage of the leader fails
  in all of them. `rotation` has one cluster with everything and one with what a rotation
  survives. The proofs take any of these, and any number of attempts.
- *Process*: up to four machines, of which 1 has the etcd role, 2 both and 3 the
  controlplane role unless a scenario says otherwise; at most two restorations, one
  creation and one certificate rotation, asked for, withdrawn and replaced at any
  time. One etcd machine besides the init node is enough for an election and for
  data that disagree; the control plane machine shows the waiting for servers
  without etcd. A tier changes one machine at a time: the etcd tiers always do, and the
  control plane tier does with the default concurrency, which a restoration resets
  to; `Reconcile` has the other values.
- *Membership*: up to four machines, in eight clusters (`MembershipScenarios`): an init
  node replaced, one without the control plane role, an etcd plane that shrinks by
  two, too few machines, a node deleted, the cluster deleted, and the kubeconfig secret
  deleted and made again while an init node or a machine that has just come is deleted.

All runs check for deadlock. In `InitNode`, `PlanSecret` and `Reconcile` a system at
rest has the stuttering step `Quieten` left, so that it is the liveness properties
that show that nothing gets stuck there.

### Fairness
`quiet`, set once by `Quieten`, ends the disturbances (changes by the user,
failures, conflicts, machines that come and go); liveness is stated as
`(<>quiet) => <>[]P`. Weak fairness is assumed of
- a pass of the planner: it is enqueued by every change of the objects it reads,
  and errors other than `errWaiting` are retried;
- the handlers of the controllers, for the same reason;
- the informers, which deliver in the end what was written;
- Cluster API and the etcd controller of the cluster, which retry, in `Process` and
  `Membership`;
- the agents, which poll, and the owners of hooks, without whom nothing can end.

Strong fairness is assumed of the informer cache in `MachineDrain`: it delivers
whatever the handler is doing, and the guard only says that a handler that runs
keeps its copy. Nothing is assumed of failures, conflicts and restarts.

## 4. Proofs

TLAPS proves, for every value of the constants that satisfies the named
assumptions, the following. The properties are those of the runs: TLC shows them on
the instances of section 3, the theorems for any number of machines, plans, options,
versions and requests.

| Theorem | States |
|---|---|
| `InitNodeProofs!LabelsAreAddedAlone` | `Spec` implies `LabelAddedAlone` |
| `InitNodeProofs!ElectionsLeaveOneInitNode` | `ElectSpec`, in which no machine is designated, implies `[]AtMostOneInitNode` |
| `PlanSecretProofs!InSyncPlansRan` | `Spec` implies `[]InSyncPlanRan` |
| `PlanSecretProofs!AnnotationsBelongToThePlan` | `Spec` implies `[]ProbesPassedForThisPlan` |
| `PlanSecretProofs!FailedPlansStayFailed` | `Spec` implies `FailedPlanStaysFailed` |
| `PlanSecretProofs!PlansAreDelivered` | `Spec` implies `ImplementsDelivery`: the refinement of `PlanDelivery` |
| `MachineDrainProofs!NodesStayDrained` | `Spec` implies `[]DrainedUntilApplied` |
| `MachineDrainProofs!UnCordonsCanBeCarriedOut` | `Spec` implies `[]UnCordonHasOptions` |
| `MachineDrainProofs!DrainsWaitForTheirHook` | with one set of drain options, `Spec` implies `[]DrainWaitsForHook` |
| `ReconcileProofs!TiersGoInOrder` | `Spec` implies `[]TiersInOrder` |
| `ReconcileProofs!ConcurrencyIsRespected` | `Spec` implies `ConcurrencyRespected` |
| `EncryptionKeyRotationProofs!RotationsReencrypt` | `Spec` implies `[]DoneMeansReencrypted` |
| `EncryptionKeyRotationProofs!RotationsHaveOneLeader` | `Spec` implies `[]OneLeaderPerRotation` |
| `EncryptionKeyRotationProofs!RotationsHoldThePause` | `Spec` implies `[]RotationHoldsPause` |
| `MembershipProofs!MembersAreRemovedFirst` | `Spec` implies `MemberRemovedFirst` |
| `MembershipProofs!ElectionsKeepTheCluster` | with `EtcdStays`, `Spec` implies `OneEtcdCluster` |
| `MembershipProofs!NobodyIsLeftBehind` | `Spec` and `OneServerLeaves` imply `NobodyLeftBehind` |
| `ProcessProofs!CreationsSpareRestorations` | `Spec` implies `CreationSparesRestoration` |
| `ProcessProofs!RestorationsAreStopped` | with `RestorationsStay`, `Spec` implies `RestoredWhileStopped` |
| `SnapshotProofs!SnapshotsAreTaken` | with `OneCreation`, `Spec` implies `[]SnapshotOnEveryMachine` |
| `SnapshotProofs!RestoredClustersServe` | with `RestorationsStay` and `FixedHasSnapshots`, `Spec` implies `[]RestoredDataServed` |
| `SnapshotProofs!CleanupsSpareMachines` | with the same, `Spec` implies `NodeCleanupSparesMachines` |

Each of these modules, but for the last, also has `TypeCorrect`: `Spec` implies `[]TypeOK`.

Every proof has the same shape: an inductive invariant, a lemma for each operation
that it keeps the conjuncts it can disturb, and a theorem that draws the property
from the invariant. The invariants are the following; TLC checked each of them on the
instances of the runs before it was proved, those that belong to a hypothesis on
instances that satisfy it.

*InitNode.* `AtMostOneInitNode` is not inductive: a pass that is about to set a
label must know that none is left. `SetsAlone` says so: a pass in `"set"` has one
machine to do, its target, and there is no label; a pass in `"clear"` has no
target. It holds because a label is set only by a pass that loaded none, and
passes of one cluster exclude each other. `LabelsOnEtcd` is needed since
the pass for a fixed init node looks for other labels on etcd machines only.
Assumed: the machines are integers, for the order `collect` sorts them in, and the
etcd machines are some of them.

*PlanSecret.* `ReportsAreTrue` says that what the agent reported and what the
controller recorded has run; it follows the plan from the agent through the
checksum to the applied plan. `AnnotationsAreFresh` says that without a passing
probe since the last update neither the secret nor the planner's pass carries the
annotation: the second half is what makes the write-back of a loaded annotation
harmless. `OutcomesExclude` adds what the secret can say of a plan at once; with it
every action is shown to be a step of `PlanDelivery` or to leave its variables alone.
Assumed: `NoPlan` is no plan, `MaxFailureCount` is positive and the
limits lie between -1 and it.

*MachineDrain.* What protects the node is that nobody but the planner asks for an
uncordon, and that it does so only in a pass that found the plan applied.
`PassIsCurrent` says what can have changed since a pass loaded the secret,
`RequestsSurvive` that a request the secret has lost was carried out with that very
cache, and `DrainDoneHolds` that a drain reported done, in the secret or in what a pass will
write back, is one of a cordoned and drained node. For hooks, `AnswersAreFresh` says
that an answer that can still start a drain was given since the last clean-up. The
theorem on hooks takes one set of options, with or without hooks, as hypothesis:
with two TLC finds the drain that starts on the answer to former options (section 3).
Assumed: `None` is not among the options.

*Reconcile.* `PassIsAlone` says what may differ between what the pass loaded and what
is: agents apply the plans that were seen, drains go on that were seen, machines come
and go. `TiersLeftBehind` says that a pass that has come to a tier has seen all
earlier ones with the version, and `PlansInOrder` that plans, not only the applied
ones, are ordered by tier. For the concurrency the loop over a tier is given in closed
form: `Admitted` has a machine when the unavailable ones, and the available ones with
a change that come before it, leave room; this is what counting on
while walking the sorted entries comes to, since once the loop turns a machine away it
turns all the others away. The theorem then counts with cardinalities of finite
sets. Assumed: machines are finitely many integers, and clusters are as `IsCluster`
says.

*EncryptionKeyRotation.* The three theorems share one invariant. `GenerationInOrder`
says that the plans of a generation are of phases up to the current one, the later
commands with the leader alone; `CacheFollows` that the cached CAPI cluster is behind
the pause in the first phase at most, and behind the unpause only until the cluster is
ready again, so that a new rotation never skips the pause because of what the cache
says of the last; `PauseHeld` that without the pause nothing is pending but last
restarts that have run before, with the stage finished everywhere; `StageFits` gives, for every phase, the stages the
datastore and the servers can be at and the plans that can be pending. It is about
rotations that are carried through; one that was dropped half way leaves CAPI paused
(`Stuck`), and nothing begins after it. What a try of a plan does to a machine,
whether it succeeds, fails before its effect or after it, is brought into one form
(`Tries`, `Effects`), from which both actions of the agent are proved. The order of the restarts is a relation
(`RestartsBefore`) between the machines, of which the pass takes the first. Assumed:
machines are numbers and a set of them has a first one, there is a control plane
machine, and clusters are as `IsCluster` says.

*Membership.* `RemovedMembers`, that the member of a node reported removed is removed,
is all that `MemberRemovedFirst` needs, with its exceptions. For `OneEtcdCluster` the invariant says that
the first init node keeps the label until it is deleted (`FirstInitNodeStays`), that an
etcd machine which can be joined is a member unless it is being removed
(`ServersAreMembers`), and that only such machines are elected
(`ServersAreElected`); `MachinesKnown` bounds what caches and passes can have missed.
Hypothesis `EtcdStays`: an etcd machine of the beginning is never deleted, and the
node of no etcd machine other than the first init node is deleted by hand.
`MCMembership` assumes it of its scenarios, so that TLC evaluates it. The first part
is needed (section 3, the replacement of all etcd machines); so is the second: a machine
whose node is deleted is no etcd member any more, and keeps its join URL, for which it
may be elected.
For `NobodyLeftBehind` there are two times. Until a pass has loaded the deletion
(`Before`) every machine has its first plan and the planner writes none; from then on
(`After`) no pass takes the machine for a server. So the machines joined to it only
become fewer, an outdated cache of secrets shows too many and never too few
(`Released`), and the hook goes only when it shows none, the kubeconfig secret or not:
the machines of the beginning keep their join URLs, by which it is asked
(`MachinesStay`). `OneServerLeaves` is a
predicate of the cluster of a behaviour: at most one machine with the etcd or the control plane
role may be deleted, and no machine comes; workers, nodes and the cluster itself may be
deleted at any time. It holds of five of the eight clusters of the run `membership`
(not of `Replaced`, `Shrinks` and `Newcomer`), and does not need `EtcdStays`.

*Process.* All that a pass can do is brought into one form, `PassStep`: whose plan it
may write and of what kind, what becomes of the status, the label and the pause;
the lemmas show that each operation is of it, and the invariants are proved
from it. `Undisturbed` says that a cluster that is or was seen initialized has no
machine that a restoration stopped: that is why `createEtcdSnapshot`, which waits for
an initialized cluster, touches none. For `RestoredWhileStopped`,
`RestoreIsHalted` says that the phase Restore is reached with every machine stopped,
`RestoringIsHalted` that a restore plan is pending only while they are, in the phase Restore
on the machine that the election or designation comes to (`Chosen`), and `RestoredOnce` that a pass
with an old status of that phase finds the plan applied and so does not write it
again. Hypothesis `RestorationsStay`: requests are not withdrawn and no etcd machine is
deleted; anything else may happen, requests that replace each other, outdated
caches, lost status updates, control plane machines that are deleted and machines that
come. The second part is needed: when the init node is deleted in the phase
Restore with its plan still pending, another is elected, restored and started, and then
the agent of the first runs its plan. The run `restore` has scenarios outside the
hypothesis too, in which deletions and withdrawals leave the property true. Assumed:
machines are numbers and a set of them has a first one, and scenarios are as
`IsScenario` says; a snapshot is on an etcd machine.

*Process, snapshots and data.* `SnapshotProofs` goes on from the same `PassStep`, and
from `HostStep`, what an agent does to its host. For `SnapshotOnEveryMachine`:
`CreationIsSound` says that there is no plan of a creation, old or cached, before one
has been asked for and recorded, and `PlansTaken` that a machine that applied such a plan
took its snapshot for the generation in the status. Hypothesis `OneCreation`: one
request; with two the property is false, since the plans carry no generation
(section 3). For `RestoredDataServed`: in the phase Restore etcd has the data of the
snapshot or none (`RestoreData`), because every machine was stopped and its data put
aside, and a restore plan pending is for this snapshot; afterwards (`Served`) the machine
that restored it has the data and the one label, everybody else has it or nothing,
and whoever is to be started joins that machine. The argument turns on the label:
`Keeper` is a labelled etcd machine that no election takes the label from, `LabelHeld`
that there is one with a join URL whenever the status, or the cached one, is that of a
cluster after the pod cleanup or without a restoration, and `PhasesFollow` how far the cached phase
can be behind. For `NodeCleanupSparesMachines`: while the plan is pending
(`CleanupIsSound`), its machine has the label, so that a machine it does not know, which
came later, is not started before it is applied. Hypotheses: `RestorationsStay`, and
`FixedHasSnapshots`, that a snapshot which one machine has is on the init node the
control plane object prescribes, if it prescribes one. Without the second,
`findAndDesignateFixedInitNode` takes the label from the machine that was
restored, the prescribed one starts an etcd of its own, and TLC finds
`RestoredDataServed` violated (section 3). `MCProcess` assumes `OneCreation` and
`FixedHasSnapshots` of its scenarios, so that TLC evaluates them; `RestorationsStay`
holds of five of the eight scenarios of the runs `restore` and `operations`, and is
not assumed, since the others are worth checking too.

Only model-checked:
- everything temporal under fairness (`ElectionSettles`, `FixedInitNodeSettles`,
  `PlanConcludes`, `ConditionFollowsSecret`, `UpgradeConcludes`, `RolloutConcludes`,
  `RotationConcludes`, `OperationsConclude`, `DeletedMachinesGo`): out of reach of the
  prover;
- `NobodyLeftBehind` of the clusters `Replaced`, `Shrinks` and `Newcomer`, in which two
  servers go or one comes; in general it is false of such clusters (section 3);
- what `RestoredWhileStopped`, `RestoredDataServed` and `NodeCleanupSparesMachines` say of
  scenarios with a withdrawal or the deletion of an etcd machine;
- the violations of section 3.

## 5. What is not modelled
- Rendering: files, instructions, probes, registries and arguments. A plan is a
  value. A minor change, which is delivered without a drain, is not told apart
  from no change of the restart stamp.
- Output of plans except join URLs and the rotation stage; the list of snapshots.
- What comes before an election in a pass: `InitNode` elects in any state, while
  `Process` gets to it only with a sane cluster that is not paused and whose etcd plane
  was not replaced (`planner.go:266, 333, 340`); `Process` and `Membership` have these
  conditions.
- In `Reconcile` a machine that waits does so for its plan, its probes and its drain;
  that the kubelet has reported its version and that the cluster agent is connected
  (`planner.go:1013-1020`) are left out: both delay the next tier, and change nothing
  else.
- In `Process` the pause of CAPI is a step of its own. In `runEtcdSnapshotRestore` and
  `restartCluster` the assignment of a plan follows it in the same pass
  (`etcdrestore.go:214-222, 820-825`); here it is a further pass, which with a cache
  that is behind has to wait for it to catch up (`CapiSync`).
- In `Membership` the bootstrap object is deleted with its machine. A bootstrap that is
  deleted alone (`bootstrap/controller.go:433`) takes the way of a deleted machine in
  the handler.
- In `MachineDrain` the machine has a node and its drain slot; in
  `EncryptionKeyRotation` no machine is removed, and the other operations of
  `Process` are idle, as the rotation is in `Process`. Workers are in `Reconcile` and
  `Membership` only.
- In `Process`: the comparison of the Kubernetes version of a snapshot, the block
  for pod security policies, the state secret, certificate rotation of single
  services; a machine whose agent is gone and which is not deleted.
- The rest of the bootstrap controller (secrets, service accounts, install scripts),
  machine provisioning and the deletion of a cluster's objects, apart from its effect
  on the hooks.
- Concurrency values that are negative or not whole percentages.
- All other parts of Rancher (authentication, RBAC, catalogs, tunnels, RKE1 and
  hosted clusters, downstream controllers, generated code): see `components` in
  `PROJECT.json`, which names their principal files.

## 6. Plan
Done: the planner with all its operations, the plan secret, drains, membership,
the refinement of plan delivery, and the proofs of section 4. To come:

1. An abstract drain (drain, upgrade, uncordon), implemented by `MachineDrain`.
2. The deletion of a cluster's objects (`rkecontrolplane`, `rkecluster`) with
   machine provisioning.
