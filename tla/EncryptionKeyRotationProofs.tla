--------------------- MODULE EncryptionKeyRotationProofs ---------------------
(***************************************************************************)
(* Proofs, for clusters of any machines, interrupted and troubled in any   *)
(* way, that a rotation is done on reencrypted clusters only, by one       *)
(* leader, and while CAPI is paused.                                       *)
(***************************************************************************)
EXTENDS EncryptionKeyRotation, TLAPS

Rank == [Prepare |-> 1, PostPrepareRestart |-> 2, Rotate |-> 3, PostRotateRestart |-> 4,
         Reencrypt |-> 5, PostReencryptRestart |-> 6]

Planned(m, phase, gen) ==
    <<phase, gen>> \in ran[m] \/ (node[m].plan.phase = phase /\ node[m].plan.gen = gen)

(* Plans of the rotation have a generation that was asked for; commands are for the control
   plane; what is applied has run. *)
PlansAreSound ==
    \A m \in Machines :
        LET plan == node[m].plan IN
        /\ IF plan.phase = "none" THEN plan.gen = 0 ELSE plan.gen \in 1 .. issued
        /\ \A p \in InProgress, g \in 1 .. MaxGeneration : <<p, g>> \in ran[m] => g <= issued
        /\ plan.phase \in Commands => m \in ControlPlane
        /\ node[m].state = "applied" /\ plan.phase # "none" => <<plan.phase, plan.gen>> \in ran[m]

(* A rotation that is reported as done has left CAPI unpaused; one can start only when no
   machine has anything left of another. *)
StatusIsSound ==
    /\ spec \in {0, issued} /\ status.gen <= issued
    /\ status.gen = 0 => status.phase = "none"
    /\ status.phase \in InProgress \ {"Prepare"} => status.leader \in ControlPlane
    /\ status.phase = "Done" => ~paused
    /\ status.ready /\ ~rotateEncryptionKeyInProgress => \A m \in Machines : node[m].plan = Desired

(* The cache is behind the pause in the first phase only, and behind the unpause in the last
   one and until the cluster is ready: a new rotation knows that CAPI is not paused. *)
CacheFollows ==
    /\ paused /\ ~known => status.phase \notin InProgress \ {"Prepare"}
    /\ known /\ ~paused => status.phase # "Prepare" /\ ~status.ready
    /\ known /\ status.phase \in InProgress \ {"Prepare"} => ~status.ready
    /\ status.phase = "Prepare" /\ ~paused => \A m \in Machines : node[m].plan.phase = "none"

(* The phases come in order for a generation, and the later commands go to the leader. *)
GenerationInOrder ==
    \A m \in Machines : \A p \in InProgress :
        spec # 0 /\ Planned(m, p, spec) =>
            \/ status.phase \in {"Done", "Failed"} /\ status.gen = spec
            \/ /\ rotateEncryptionKeyInProgress /\ Rank[p] <= Rank[status.phase]
               /\ p \in {"Rotate", "Reencrypt"} => status.leader = m

OneLeaderPlanned ==
    \A g \in 1 .. MaxGeneration : \A m, n \in Machines :
        Planned(m, "Rotate", g) /\ Planned(n, "Reencrypt", g) => m = n

(* Etcd machines are restarted only by a leader that is not the init node. *)
EtcdMachinesFollow ==
    rotateEncryptionKeyInProgress =>
        \A m \in EtcdOnly : node[m].plan.phase # "none" =>
            status.phase # "Prepare" /\ status.leader # InitNode

(* The init node is nobody's follower. *)
InitNodeIsFree == node[InitNode].plan.expect = None

Views(S) == \A m \in ControlPlane : view[m] \in S

(* While CAPI is not paused nothing of a rotation is about to run, but for what has run before
   in a rotation that is over. *)
PauseHeld ==
    ~cluster.interrupts /\ ~paused =>
        /\ \A m \in Machines :
              LET plan == node[m].plan IN
              node[m].state = "pending" /\ plan.phase # "none" =>
                  /\ plan.phase = "PostReencryptRestart" /\ <<plan.phase, plan.gen>> \in ran[m]
                  /\ stage = "reencrypt_finished" /\ Views({"reencrypt_finished"})
        /\ status.phase = "PostReencryptRestart" =>
              \A m \in Restarted(status.leader) : <<"PostReencryptRestart", spec>> \in ran[m]

(* A rotation that was given up half way: CAPI stays paused and the planner waits. *)
Stuck == paused /\ known /\ ~rotateEncryptionKeyInProgress /\ ~status.ready

Rest == {"start", "reencrypt_finished"}
Active == {"reencrypt_request", "reencrypt_active"}

(* What the planner scrapes from a plan is what the server works with, or was: the one
   that reencrypts goes on. *)
IsViewed(m, s) ==
    \/ s = view[m]
    \/ s \in Active /\ view[m] \in {"reencrypt_active", "reencrypt_finished"}
          /\ node[m].plan.phase = "Reencrypt"

ScrapedIsViewed ==
    \A m \in ControlPlane :
        node[m].state = "applied" /\ node[m].plan.phase # "none" =>
            /\ IsViewed(m, node[m].output)
            /\ node[m].plan.phase \in Commands => IsViewed(m, node[m].periodic)

Pending(S) == \A m \in Machines : node[m].state = "pending" => node[m].plan.phase \in S \cup {"none"}
ViewsFollow(s) == \A m \in ControlPlane : view[m] = s => stage = s

(* An init node that has been told to restart in the last phase has done so, or it has failed
   to and tries again or not. *)
InitNodeRestarted ==
    InitNode \in ControlPlane /\ <<"PostReencryptRestart", spec>> \in ran[InitNode] =>
        \/ view[InitNode] = "reencrypt_finished"
        \/ /\ \/ node[InitNode].state = "failed"
              \/ node[InitNode].state = "pending" /\ Runs(InitNode)
           /\ node[InitNode].plan = [phase |-> "PostReencryptRestart", gen |-> spec, expect |-> None]

(* The stage in the datastore, and what the servers know of it, in every phase.  A rotation
   given up in the first phase while the cache is behind leaves things as in that phase. *)
StageFits ==
    /\ \A m \in Machines : view[m] \in Active => status.phase = "Reencrypt" /\ m = status.leader
    /\ ~paused =>
          /\ stage \in Rest /\ Views(Rest) /\ Pending(Restarts)
          /\ rotateEncryptionKeyInProgress => status.phase \in {"Prepare", "PostReencryptRestart"}
          /\ status.phase \in {"PostReencryptRestart", "Done"} =>
                stage = "reencrypt_finished" /\ Views({"reencrypt_finished"})
    /\ status.phase = "Prepare" \/ (paused /\ ~rotateEncryptionKeyInProgress) =>
          /\ stage \in Rest \cup {"prepare"} /\ Views(Rest \cup {"prepare"})
          /\ ViewsFollow("prepare") /\ Pending({"Prepare"})
    /\ status.phase = "PostPrepareRestart" =>
          /\ stage = "prepare" /\ Views(Rest \cup {"prepare"})
          /\ Pending({"Prepare", "PostPrepareRestart"})
    /\ status.phase = "Rotate" =>
          /\ stage \in {"prepare", "rotate"} /\ Views(Rest \cup {"prepare", "rotate"})
          /\ ViewsFollow("rotate") /\ Pending({"Rotate"})
    /\ status.phase = "PostRotateRestart" =>
          /\ stage = "rotate" /\ view[status.leader] = "rotate"
          /\ Pending({"Rotate", "PostRotateRestart"})
    /\ status.phase = "Reencrypt" =>
          /\ stage \in {"rotate", "reencrypt_finished"} \cup Active /\ view[status.leader] = stage
          /\ stage \in Active => node[status.leader].plan.phase = "Reencrypt"
          /\ Pending({"Reencrypt"})
          /\ \A m \in Machines : node[m].state = "pending" /\ node[m].plan.phase = "Reencrypt" =>
                m = status.leader
    /\ status.phase = "PostReencryptRestart" =>
          /\ stage = "reencrypt_finished" /\ view[status.leader] = "reencrypt_finished"
          /\ Pending({"Reencrypt", "PostReencryptRestart"}) /\ InitNodeRestarted

IInv ==
    /\ TypeOK /\ PlansAreSound /\ StatusIsSound /\ GenerationInOrder /\ OneLeaderPlanned
    /\ EtcdMachinesFollow /\ InitNodeIsFree /\ CacheFollows /\ PauseHeld
    /\ Stuck \/ (ScrapedIsViewed /\ StageFits)

Statuses == [gen : 0 .. MaxGeneration, phase : Phases, leader : ControlPlane \cup {None},
             ready : BOOLEAN]

-----------------------------------------------------------------------------

LEMMA InitIInv == Init => IInv
<1> SUFFICES ASSUME Init
             PROVE  IInv
  BY Zenon
<1>1. /\ MaxGeneration \in Nat /\ MaxGeneration >= 1 /\ ControlPlane \subseteq Machines
      /\ 1 \in 1 .. MaxAttempts /\ 0 \in 0 .. MaxAttempts
  BY ClustersAssumption
<1> DEFINE start == [plan |-> Desired, state |-> "applied", attempt |-> 1, output |-> None,
                     periodic |-> None]
<1>0. /\ cluster \in Clusters /\ spec = 0 /\ issued = 0 /\ supported = TRUE /\ server = "ready"
      /\ suitable = ControlPlane
      /\ status = [gen |-> 0, phase |-> "none", leader |-> None, ready |-> TRUE]
      /\ paused = FALSE /\ known = FALSE /\ quiet = FALSE /\ stage = "start"
      /\ node = [m \in Machines |-> start]
      /\ lastAttempt = [m \in Machines |-> [i \in Instructions |-> 0]]
      /\ view = [m \in Machines |-> "start"]
  BY Zenon DEF Init
<1>11. server \in cluster.initStates
  BY Zenon, <1>0, ClustersAssumption DEF IsCluster
<1>2. node \in [Machines -> Nodes]
  <2>1. Desired \in Plans
    BY <1>1 DEF Plans, Desired
  <2>2. start \in Nodes
    BY Zenon, <1>1, <2>1 DEF Nodes
  <2> HIDE DEF start
  <2> QED
    BY Zenon, <1>0, <2>2
<1>14. \A m \in Machines : ran[m] = {}
  BY Zenon, <1>0 DEF ran
<1>3. \A m \in Machines : /\ node[m].plan = Desired /\ node[m].state = "applied"
                          /\ ran[m] = {} /\ view[m] = "start"
  BY Zenon, <1>0, <1>14
<1>12. /\ status.gen = 0 /\ status.phase = "none" /\ status.leader = None /\ status.ready = TRUE
       /\ "none" \notin InProgress
  BY Zenon, <1>0 DEF InProgress, Commands, Restarts
<1>4. TypeOK
  <2>1. status \in Statuses
    BY <1>0, <1>1 DEF Statuses, Phases
  <2>2. lastAttempt \in [Machines -> [Instructions -> 0 .. MaxAttempts]]
    BY Zenon, <1>0, <1>1
  <2> HIDE DEF start
  <2> QED
    BY Zenon, <1>0, <1>1, <1>2, <1>11, <2>1, <2>2 DEF TypeOK, Statuses, Stages
<1>5. PlansAreSound
  <2>1. \A m \in Machines : /\ node[m].plan.phase = "none" /\ node[m].plan.gen = 0
                            /\ ran[m] = {}
    <3>1. Desired.phase = "none" /\ Desired.gen = 0
      BY Zenon DEF Desired
    <3> QED
      BY Zenon, <1>3, <3>1
  <2>2. "none" \notin Commands
    BY Zenon DEF Commands
  <2> QED
    <3> SUFFICES ASSUME NEW m \in Machines
                 PROVE  LET plan == node[m].plan IN
                        /\ IF plan.phase = "none" THEN plan.gen = 0 ELSE plan.gen \in 1 .. issued
                        /\ \A p \in InProgress, g \in 1 .. MaxGeneration :
                              <<p, g>> \in ran[m] => g <= issued
                        /\ plan.phase \in Commands => m \in ControlPlane
                        /\ node[m].state = "applied" /\ plan.phase # "none" =>
                              <<plan.phase, plan.gen>> \in ran[m]
      BY Zenon DEF PlansAreSound
    <3>1. node[m].plan.phase = "none" /\ node[m].plan.gen = 0 /\ ran[m] = {}
      BY Zenon, <2>1
    <3> QED
      BY Zenon, <2>2, <3>1
<1> HIDE DEF start
<1>6. StatusIsSound
  BY <1>0, <1>3, <1>12 DEF StatusIsSound
<1>7. GenerationInOrder /\ EtcdMachinesFollow /\ OneLeaderPlanned
  <2>1. \A g : \A m \in Machines, p \in InProgress : ~Planned(m, p, g)
    BY <1>3, <1>12 DEF Planned, Desired
  <2>2. ~rotateEncryptionKeyInProgress
    BY Zenon, <1>12 DEF rotateEncryptionKeyInProgress
  <2>3. "Rotate" \in InProgress
    BY Zenon DEF InProgress, Commands
  <2>4. GenerationInOrder
    BY Zenon, <2>1 DEF GenerationInOrder
  <2>5. OneLeaderPlanned
    BY Zenon, <2>1, <2>3 DEF OneLeaderPlanned
  <2> QED
    BY Zenon, <2>2, <2>4, <2>5 DEF EtcdMachinesFollow
<1>8. PauseHeld
  BY Zenon, <1>3, <1>12 DEF PauseHeld
<1>9. ScrapedIsViewed /\ CacheFollows
  BY <1>0, <1>1, <1>3, <1>12 DEF ScrapedIsViewed, CacheFollows, Desired
<1>10. StageFits
  BY Zenon, <1>0, <1>1, <1>3, <1>12 DEF StageFits, Rest, Active, Views, Pending,
                                 rotateEncryptionKeyInProgress
<1>13. InitNodeIsFree
  <2>1. InitNode \in Machines
    BY Zenon, <1>0, ClustersAssumption DEF InitNode, IsCluster
  <2> QED
    BY <1>3, <2>1 DEF InitNodeIsFree, Desired
<1> QED
  BY Zenon, <1>4, <1>5, <1>6, <1>7, <1>8, <1>9, <1>10, <1>13 DEF IInv

-----------------------------------------------------------------------------
(* Steps that leave the plans and the machines alone. *)

LEMMA RanType ==
    /\ ran \in [Machines -> SUBSET Instructions]
    /\ \A m \in Machines : \A p, g : <<p, g>> \in ran[m] =>
          p \in InProgress /\ g \in 1 .. MaxGeneration
<1>1. ran \in [Machines -> SUBSET Instructions]
  BY Zenon DEF ran
<1>2. \A p, g : <<p, g>> \in Instructions => p \in InProgress /\ g \in 1 .. MaxGeneration
  BY DEF Instructions
<1> QED
  BY Zenon, <1>1, <1>2

LEMMA StatusType ==
    ASSUME TypeOK
    PROVE  status \in Statuses
  BY Zenon DEF TypeOK, Statuses

(* The phase stays, the cluster may become ready or unready. *)
LEMMA SamePhaseIInv ==
    ASSUME IInv, TypeOK', UNCHANGED <<cluster, issued, spec, paused, known, node, ran, lastAttempt, stage, view>>,
           status'.gen = status.gen, status'.phase = status.phase, status'.leader = status.leader,
           status'.ready => status.ready \/ (~known /\ \A m \in Machines : node[m].plan = Desired)
    PROVE  IInv'
<1> USE DEF rotateEncryptionKeyInProgress
<1>1. PlansAreSound'
  BY Zenon DEF IInv, PlansAreSound
<1>2. StatusIsSound'
  BY Zenon DEF IInv, StatusIsSound
<1>3. GenerationInOrder' /\ OneLeaderPlanned'
  BY DEF IInv, GenerationInOrder, OneLeaderPlanned, Planned
<1>4. EtcdMachinesFollow' /\ InitNodeIsFree'
  BY Zenon DEF IInv, EtcdMachinesFollow, EtcdOnly, InitNode, InitNodeIsFree
<1>5. PauseHeld' /\ CacheFollows'
  <2>1. PauseHeld'
    BY Zenon DEF IInv, PauseHeld, Views, Restarted, Followers, EtcdOnly, InitNode
  <2>2. CacheFollows'
    BY Zenon DEF IInv, CacheFollows
  <2> QED
    BY Zenon, <2>1, <2>2
<1>6. (Stuck \/ (ScrapedIsViewed /\ StageFits))'
  <2>1. Stuck => Stuck'
    BY Zenon DEF Stuck
  <2>2. ScrapedIsViewed => ScrapedIsViewed'
    BY Zenon DEF ScrapedIsViewed, IsViewed
  <2>4. InitNodeRestarted => InitNodeRestarted'
    BY Zenon DEF InitNodeRestarted, InitNode, Runs
  <2>3. StageFits => StageFits'
    BY <2>4 DEF StageFits, Views, Pending, ViewsFollow
  <2> QED
    BY Zenon, <2>1, <2>2, <2>3 DEF IInv
<1> QED
  BY Zenon, <1>1, <1>2, <1>3, <1>4, <1>5, <1>6 DEF IInv

(* A rotation is given up: the request is gone, or not supported. *)
LEMMA GiveUpIInv ==
    ASSUME IInv, TypeOK', UNCHANGED <<cluster, issued, spec, paused, known, node, ran, lastAttempt, stage, view>>,
           status'.phase = (IF spec = 0 THEN "none" ELSE "Failed"), status'.gen = spec,
           ~status'.ready
    PROVE  IInv'
<1> USE DEF rotateEncryptionKeyInProgress
<1>0. {"none", "Failed"} \cap InProgress = {}
  BY Zenon DEF InProgress, Commands, Restarts
<1>1. PlansAreSound'
  BY Zenon DEF IInv, PlansAreSound
<1>2. StatusIsSound'
  BY <1>0 DEF IInv, TypeOK, StatusIsSound
<1>3. OneLeaderPlanned'
  BY DEF IInv, OneLeaderPlanned, Planned
<1>4. GenerationInOrder'
  BY Zenon DEF GenerationInOrder
<1>5. EtcdMachinesFollow' /\ InitNodeIsFree' /\ PauseHeld' /\ CacheFollows'
  BY Zenon, <1>0 DEF IInv, EtcdMachinesFollow, InitNodeIsFree, InitNode, PauseHeld, Views, CacheFollows
<1>6. CASE paused /\ known
  BY Zenon, <1>0, <1>1, <1>2, <1>3, <1>4, <1>5, <1>6 DEF IInv, Stuck
<1>8. CASE paused /\ ~known
  <2>1. /\ ScrapedIsViewed /\ StageFits
        /\ status.phase \notin InProgress \/ status.phase = "Prepare"
    BY Zenon, <1>8 DEF IInv, Stuck, CacheFollows
  <2>2. ScrapedIsViewed'
    BY Zenon, <2>1 DEF ScrapedIsViewed, IsViewed
  <2>3. \A m \in Machines : view[m] \notin Active
    BY Zenon, <2>1 DEF StageFits, InProgress, Commands
  <2>4. /\ stage \in Rest \cup {"prepare"} /\ Views(Rest \cup {"prepare"})
        /\ ViewsFollow("prepare") /\ Pending({"Prepare"})
    BY Zenon, <1>8, <2>1 DEF StageFits
  <2>5. StageFits'
    BY Zenon, <1>0, <1>8, <2>3, <2>4 DEF StageFits, Views, ViewsFollow, Pending
  <2> QED
    BY Zenon, <1>1, <1>2, <1>3, <1>4, <1>5, <2>2, <2>5 DEF IInv
<1>7. CASE ~paused
  <2>1. ScrapedIsViewed /\ StageFits
    BY Zenon, <1>7 DEF IInv, Stuck
  <2>2. ScrapedIsViewed'
    BY Zenon, <2>1 DEF ScrapedIsViewed, IsViewed
  <2>3. \A m \in Machines : view[m] \notin Active
    BY Zenon, <1>7, <2>1 DEF StageFits, InProgress, Commands
  <2>4. stage \in Rest /\ Views(Rest) /\ Pending(Restarts)
    BY Zenon, <1>7, <2>1 DEF StageFits
  <2>5. StageFits'
    BY Zenon, <1>0, <1>7, <2>3, <2>4 DEF StageFits, Views, Pending
  <2> QED
    BY Zenon, <1>1, <1>2, <1>3, <1>4, <1>5, <2>2, <2>5 DEF IInv
<1> QED
  BY Zenon, <1>6, <1>7, <1>8 DEF IInv, TypeOK

LEMMA StartIInv ==
    ASSUME IInv, TypeOK', UNCHANGED <<cluster, issued, spec, paused, known, node, ran, lastAttempt, stage, view>>,
           spec # 0, canRotateEncryptionKeys, shouldRestartEncryptionKeyRotation,
           status'.phase = "Prepare", status'.gen = spec, status'.leader = status.leader,
           ~status'.ready
    PROVE  IInv'
<1> USE DEF rotateEncryptionKeyInProgress
<1>0. {"none", "Done", "Failed"} \cap InProgress = {} /\ "Prepare" \in InProgress
  BY Zenon DEF InProgress, Commands, Restarts
<1>1. /\ status.ready /\ ~rotateEncryptionKeyInProgress
      /\ ~(status.gen = spec /\ status.phase \in {"Done", "Failed"})
  BY Zenon, <1>0 DEF canRotateEncryptionKeys, shouldRestartEncryptionKeyRotation, IInv, StatusIsSound
<1>2. /\ \A m \in Machines : node[m].plan = Desired
      /\ known => paused
  BY Zenon, <1>1 DEF IInv, StatusIsSound, CacheFollows
<1>3. \A m \in Machines : node[m].plan.phase = "none"
  BY <1>2 DEF Desired
<1>4. PlansAreSound'
  BY Zenon DEF IInv, PlansAreSound
<1>5. StatusIsSound'
  BY <1>0 DEF IInv, TypeOK, StatusIsSound
<1>6. OneLeaderPlanned'
  BY DEF IInv, OneLeaderPlanned, Planned
<1>7. \A m \in Machines, p \in InProgress : ~Planned(m, p, spec)
  BY Zenon, <1>1 DEF IInv, GenerationInOrder
<1>8. GenerationInOrder'
  BY Zenon, <1>7 DEF GenerationInOrder, Planned
<1>9. EtcdMachinesFollow' /\ InitNodeIsFree' /\ PauseHeld' /\ CacheFollows'
  BY Zenon, <1>2, <1>3 DEF IInv, EtcdMachinesFollow, EtcdOnly, InitNodeIsFree, PauseHeld, InitNode,
                           CacheFollows
<1>10. ScrapedIsViewed /\ StageFits
  BY Zenon, <1>1 DEF IInv, Stuck
<1>11. ScrapedIsViewed'
  BY Zenon, <1>10 DEF ScrapedIsViewed, IsViewed
<1>12. /\ \A m \in Machines : view[m] \notin Active
       /\ stage \in Rest \cup {"prepare"} /\ Views(Rest \cup {"prepare"}) /\ ViewsFollow("prepare")
       /\ ~paused => stage \in Rest /\ Views(Rest)
  <2>1. \A m \in Machines : view[m] \notin Active
    BY Zenon, <1>1, <1>10 DEF StageFits, InProgress, Commands
  <2>2. CASE paused
    BY Zenon, <1>1, <1>10, <2>1, <2>2 DEF StageFits
  <2>3. CASE ~paused
    BY Zenon, <1>10, <2>1, <2>3 DEF StageFits, Views, ViewsFollow, Rest
  <2> QED
    BY Zenon, <2>2, <2>3
<1>13. StageFits'
  BY Zenon, <1>3, <1>12 DEF StageFits, Views, Pending, ViewsFollow
<1> QED
  BY Zenon, <1>4, <1>5, <1>6, <1>8, <1>9, <1>11, <1>13 DEF IInv

LEMMA ElectedType ==
    ASSUME TypeOK
    PROVE  encryptionKeyRotationFindLeader \in ControlPlane \cup {None}
<1>1. suitable # {} => FirstSuitable \in suitable
  <2>1. suitable \subseteq Machines
    BY Zenon, ClustersAssumption DEF TypeOK
  <2>2. suitable # {} => \E m \in suitable : \A n \in suitable : m <= n
    BY Zenon, <2>1, ClustersAssumption
  <2> QED
    BY Zenon, <2>2 DEF FirstSuitable
<1> QED
  BY Zenon, <1>1 DEF encryptionKeyRotationFindLeader, encryptionKeyRotationIsSuitableControlPlane, TypeOK

LEMMA ElectIInv ==
    ASSUME IInv, TypeOK', UNCHANGED <<cluster, issued, spec, paused, known, node, ran, lastAttempt, stage, view>>,
           status.phase = "Prepare", status'.phase = "Prepare", status'.gen = status.gen,
           ~status'.ready
    PROVE  IInv'
<1> USE DEF rotateEncryptionKeyInProgress
<1>0. "Prepare" \in InProgress
  BY Zenon DEF InProgress, Commands
<1>1. PlansAreSound' /\ StatusIsSound' /\ OneLeaderPlanned'
  BY Zenon, <1>0 DEF IInv, PlansAreSound, StatusIsSound, OneLeaderPlanned, Planned
<1>2. GenerationInOrder'
  BY <1>0 DEF IInv, GenerationInOrder, Planned, Rank
<1>3. EtcdMachinesFollow' /\ InitNodeIsFree' /\ PauseHeld' /\ CacheFollows'
  BY Zenon, <1>0 DEF IInv, EtcdMachinesFollow, EtcdOnly, InitNodeIsFree, PauseHeld, Views, InitNode,
                     CacheFollows
<1>4. ScrapedIsViewed /\ StageFits
  BY Zenon, <1>0 DEF IInv, Stuck
<1>5. ScrapedIsViewed'
  BY Zenon, <1>4 DEF ScrapedIsViewed, IsViewed
<1>6. StageFits'
  BY Zenon, <1>4 DEF StageFits, Views, Pending, ViewsFollow
<1> QED
  BY Zenon, <1>1, <1>2, <1>3, <1>5, <1>6 DEF IInv

LEMMA RequestIInv ==
    ASSUME IInv, RequestChanges
    PROVE  IInv'
<1> USE DEF rotateEncryptionKeyInProgress
<1>0. /\ UNCHANGED <<cluster, supported, server, suitable, status, paused, known, node, ran,
                     lastAttempt, stage, view, quiet>>
      /\ issued \in 0 .. MaxGeneration /\ issued' \in 0 .. MaxGeneration /\ issued <= issued'
      /\ spec' = 0 \/ (spec' = issued' /\ issued' = issued + 1)
      /\ ~cluster.interrupts => ~rotateEncryptionKeyInProgress
      /\ MaxGeneration \in Nat
  <2>1. UNCHANGED ran
    BY Zenon DEF RequestChanges, machine, ran
  <2> QED
    BY <2>1, ClustersAssumption DEF RequestChanges, IInv, TypeOK, machine, capi
<1>1. TypeOK'
  BY <1>0 DEF IInv, TypeOK
<1>2. PlansAreSound'
  <2>1. \A g : g \in 1 .. issued => g \in 1 .. issued'
    BY <1>0
  <2>2. \A g \in 1 .. MaxGeneration : g <= issued => g <= issued'
    BY <1>0
  <2> QED
    BY ZenonT(60), <1>0, <2>1, <2>2 DEF IInv, PlansAreSound
<1>3. StatusIsSound'
  BY <1>0, StatusType DEF IInv, StatusIsSound, Statuses
<1>4. OneLeaderPlanned'
  BY <1>0 DEF IInv, OneLeaderPlanned, Planned
<1>5. \A m \in Machines, p \in InProgress : <<p, spec'>> \notin ran[m]
  <2> SUFFICES ASSUME NEW m \in Machines, NEW p \in InProgress, <<p, spec'>> \in ran[m]
               PROVE  FALSE
    BY Zenon
  <2>1. spec' \in 1 .. MaxGeneration
    BY Zenon, RanType
  <2>2. spec' <= issued
    BY Zenon, <2>1 DEF IInv, PlansAreSound
  <2> QED
    BY <1>0, <2>1, <2>2
<1>6. GenerationInOrder'
  <2> SUFFICES ASSUME NEW m \in Machines, NEW p \in InProgress, spec' # 0, Planned(m, p, spec)'
               PROVE  FALSE
    BY Zenon DEF GenerationInOrder
  <2>1. node[m].plan.phase = p /\ node[m].plan.gen = spec'
    BY Zenon, <1>0, <1>5 DEF Planned
  <2>2. p # "none"
    BY Zenon DEF InProgress, Commands, Restarts
  <2>3. spec' \in 1 .. issued
    BY Zenon, <2>1, <2>2 DEF IInv, PlansAreSound
  <2> QED
    BY <1>0, <2>3
<1>7. EtcdMachinesFollow' /\ InitNodeIsFree'
  BY Zenon, <1>0 DEF IInv, EtcdMachinesFollow, EtcdOnly, InitNode, InitNodeIsFree
<1>8. PauseHeld' /\ CacheFollows'
  BY Zenon, <1>0 DEF IInv, PauseHeld, Views, CacheFollows, InProgress, Restarts
<1>9. (Stuck \/ (ScrapedIsViewed /\ StageFits))'
  <2>1. Stuck' = Stuck
    BY Zenon, <1>0 DEF Stuck
  <2>2. ScrapedIsViewed => ScrapedIsViewed'
    BY Zenon, <1>0 DEF ScrapedIsViewed, IsViewed
  <2>3. ControlPlane \subseteq Machines /\ "PostReencryptRestart" \in InProgress
    BY Zenon, ClustersAssumption DEF InProgress, Restarts
  <2>5. InitNodeRestarted'
    BY Zenon, <1>0, <1>5, <2>3 DEF InitNodeRestarted, InitNode
  <2>4. StageFits => StageFits'
    BY <1>0, <2>5 DEF StageFits, Views, Pending, ViewsFollow
  <2> QED
    BY Zenon, <2>1, <2>2, <2>4 DEF IInv
<1> QED
  BY Zenon, <1>1, <1>2, <1>3, <1>4, <1>6, <1>7, <1>8, <1>9 DEF IInv

-----------------------------------------------------------------------------
(* The machines. *)

(* What does not depend on the stages, when a machine runs its plan. *)
Bookkeeping ==
    /\ PlansAreSound /\ StatusIsSound /\ GenerationInOrder /\ OneLeaderPlanned
    /\ EtcdMachinesFollow /\ InitNodeIsFree /\ CacheFollows

Tries(m) ==
    /\ UNCHANGED <<spec, status, paused, known, cluster, issued>>
    /\ node[m].state = "pending" /\ node'[m].plan = node[m].plan
    /\ \A n \in Machines \ {m} : /\ node'[n] = node[n] /\ ran'[n] = ran[n]
                                 /\ lastAttempt'[n] = lastAttempt[n]
    /\ ran'[m] = IF node[m].plan.phase = "none" THEN ran[m]
                 ELSE ran[m] \cup {<<node[m].plan.phase, node[m].plan.gen>>}

Effects(m) ==
    LET plan == node[m].plan IN
    /\ view' \in [Machines -> Stages] /\ stage' \in Stages
    /\ \A n \in Machines \ {m} : view'[n] = view[n]
    /\ \/ UNCHANGED <<stage, view>>
       \/ plan.phase \in Restarts /\ stage' = stage /\ view'[m] = stage
       \/ /\ plan.phase \in Commands /\ stage \in Precedes[plan.phase]
          /\ stage' = LeadsTo[plan.phase] /\ view'[m] = stage'

LEMMA PlanInstruction ==
    ASSUME IInv, NEW m \in Machines, node[m].plan.phase # "none"
    PROVE  /\ <<node[m].plan.phase, node[m].plan.gen>> \in Instructions
           /\ node[m].plan.phase \in InProgress
<1>1. node[m].plan.phase \in InProgress
  BY Zenon DEF IInv, TypeOK, Nodes, Plans
<1>2. node[m].plan.gen \in 1 .. issued /\ issued \in 0 .. MaxGeneration
  BY ZenonT(60) DEF IInv, PlansAreSound, TypeOK
<1>3. node[m].plan.gen \in 1 .. MaxGeneration
  BY <1>2, ClustersAssumption
<1> QED
  BY Zenon, <1>1, <1>3 DEF Instructions

(* The script records the attempt, and the instruction has run. *)
LEMMA Recorded ==
    ASSUME IInv, NEW m \in Machines, RecordAttempt(m)
    PROVE  /\ lastAttempt' \in [Machines -> [Instructions -> 0 .. MaxAttempts]]
           /\ \A n \in Machines \ {m} : ran'[n] = ran[n] /\ lastAttempt'[n] = lastAttempt[n]
           /\ ran'[m] = IF node[m].plan.phase = "none" THEN ran[m]
                        ELSE ran[m] \cup {<<node[m].plan.phase, node[m].plan.gen>>}
           /\ ~Runs(m) => ran'[m] = ran[m]
           /\ node[m].plan.phase # "none" =>
                 lastAttempt'[m][<<node[m].plan.phase, node[m].plan.gen>>] = node[m].attempt
<1> DEFINE plan == node[m].plan
           i == <<plan.phase, plan.gen>>
           a == node[m].attempt
           f == lastAttempt[m]
           g == IF Runs(m) THEN [f EXCEPT ![i] = a] ELSE f
<1>1. /\ lastAttempt \in [Machines -> [Instructions -> 0 .. MaxAttempts]]
      /\ a \in 1 .. MaxAttempts /\ f \in [Instructions -> 0 .. MaxAttempts]
  BY Zenon DEF IInv, TypeOK, Nodes
<1>2. lastAttempt' = [lastAttempt EXCEPT ![m] = g]
  BY Zenon, <1>1 DEF RecordAttempt
<1>3. plan.phase # "none" => i \in Instructions /\ plan.phase \in InProgress
  BY Zenon, PlanInstruction
<1>4. plan.phase = "none" => ~Runs(m)
  BY Zenon DEF Runs, InProgress, Commands, Restarts
<1>5. plan.phase # "none" /\ ~Runs(m) => f[i] = a
  BY Zenon, <1>3 DEF Runs
<1>6. a \in 0 .. MaxAttempts /\ a # 0
  BY <1>1, ClustersAssumption
<1> HIDE DEF i, a, f, plan
<1>7. /\ g \in [Instructions -> 0 .. MaxAttempts]
      /\ \A j \in Instructions : plan.phase # "none" /\ j = i => g[j] = a
      /\ \A j \in Instructions : plan.phase = "none" \/ j # i => g[j] = f[j]
      /\ ~Runs(m) => g = f
  BY ZenonT(60), <1>1, <1>3, <1>4, <1>5, <1>6
<1> HIDE DEF g
<1>8. lastAttempt' \in [Machines -> [Instructions -> 0 .. MaxAttempts]]
  BY Zenon, <1>1, <1>2, <1>7
<1>9. lastAttempt'[m] = g /\ \A n \in Machines \ {m} : lastAttempt'[n] = lastAttempt[n]
  BY Zenon, <1>1, <1>2
<1>10. \A n \in Machines : /\ ran[n] = {j \in Instructions : lastAttempt[n][j] # 0}
                           /\ ran'[n] = {j \in Instructions : lastAttempt'[n][j] # 0}
  BY Zenon DEF ran
<1>11. ASSUME NEW n \in Machines \ {m}
       PROVE  ran'[n] = ran[n]
  <2>1. lastAttempt'[n] = lastAttempt[n]
    BY Zenon, <1>9
  <2>2. \A j : j \in ran'[n] <=> j \in ran[n]
    BY Zenon, <1>10, <2>1
  <2> QED
    BY Zenon, <1>10, <2>2
<1>12. /\ ran[m] = {j \in Instructions : f[j] # 0}
       /\ ran'[m] = {j \in Instructions : g[j] # 0}
  BY Zenon, <1>9, <1>10 DEF f
<1>13. CASE plan.phase = "none"
  <2>1. ran'[m] = ran[m]
    BY Zenon, <1>4, <1>7, <1>12, <1>13
  <2> QED
    BY Zenon, <1>8, <1>9, <1>11, <1>13, <2>1 DEF plan
<1>14. CASE plan.phase # "none"
  <2>1. ran'[m] = ran[m] \cup {i}
    BY ZenonT(60), <1>3, <1>6, <1>7, <1>12, <1>14
  <2>2. ~Runs(m) => ran'[m] = ran[m]
    BY Zenon, <1>7, <1>12
  <2>3. lastAttempt'[m][i] = a
    BY Zenon, <1>3, <1>7, <1>9, <1>14
  <2> QED
    BY Zenon, <1>8, <1>9, <1>11, <1>14, <2>1, <2>2, <2>3 DEF plan, i, a
<1> QED
  BY Zenon, <1>13, <1>14

LEMMA TriesBookkeeping ==
    ASSUME IInv, NEW m \in Machines, Tries(m)
    PROVE  Bookkeeping'
<1> USE DEF rotateEncryptionKeyInProgress
<1>0. /\ node[m].plan \in Plans /\ "none" \notin InProgress /\ IInv
      /\ IF node[m].plan.phase = "none" THEN node[m].plan.gen = 0 ELSE node[m].plan.gen \in 1 .. issued
  BY Zenon DEF IInv, TypeOK, Nodes, InProgress, Commands, Restarts, PlansAreSound
<1>1. PlansAreSound'
  <2> SUFFICES ASSUME NEW n \in Machines
               PROVE  LET plan == node'[n].plan IN
                      /\ IF plan.phase = "none" THEN plan.gen = 0 ELSE plan.gen \in 1 .. issued
                      /\ \A p \in InProgress, g \in 1 .. MaxGeneration :
                            <<p, g>> \in ran'[n] => g <= issued
                      /\ plan.phase \in Commands => n \in ControlPlane
                      /\ node'[n].state = "applied" /\ plan.phase # "none" =>
                            <<plan.phase, plan.gen>> \in ran'[n]
    BY Zenon DEF Tries, PlansAreSound
  <2>1. CASE n # m
    BY Zenon, <1>0, <2>1 DEF IInv, Tries, PlansAreSound
  <2>2. CASE n = m
    <3>1. \A p \in InProgress, g \in 1 .. MaxGeneration : <<p, g>> \in ran'[m] => g <= issued
      <4> SUFFICES ASSUME NEW p \in InProgress, NEW g \in 1 .. MaxGeneration, <<p, g>> \in ran'[m]
                   PROVE  g <= issued
        BY Zenon
      <4>1. CASE <<p, g>> \in ran[m]
        BY Zenon, <4>1 DEF IInv, PlansAreSound
      <4>2. CASE node[m].plan.phase # "none" /\ g = node[m].plan.gen
        BY <1>0, <4>2 DEF IInv, TypeOK
      <4>3. <<p, g>> = <<node[m].plan.phase, node[m].plan.gen>> => g = node[m].plan.gen
        BY Zenon
      <4> QED
        BY Zenon, <4>1, <4>2, <4>3 DEF Tries
    <3> QED
      BY Zenon, <1>0, <2>2, <3>1 DEF IInv, Tries, PlansAreSound
  <2> QED
    BY Zenon, <2>1, <2>2
<1>2. \A n \in Machines : node'[n].plan = node[n].plan
  BY Zenon DEF Tries
<1>3. StatusIsSound'
  BY Zenon, <1>0, <1>2 DEF IInv, Tries, StatusIsSound
<1>4. \A g : \A n \in Machines, p \in InProgress : Planned(n, p, g)' => Planned(n, p, g)
  BY <1>0, <1>2 DEF Tries, Planned
<1>5. GenerationInOrder'
  BY Zenon, <1>0, <1>4 DEF IInv, Tries, GenerationInOrder
<1>6. OneLeaderPlanned'
  <2>1. {"Rotate", "Reencrypt"} \subseteq InProgress
    BY Zenon DEF InProgress, Commands
  <2> QED
    BY Zenon, <1>0, <1>4, <2>1 DEF IInv, OneLeaderPlanned
<1>7. EtcdMachinesFollow' /\ InitNodeIsFree'
  <2>1. InitNode \in Machines
    BY Zenon, <1>0, ClustersAssumption DEF IInv, TypeOK, IsCluster, InitNode
  <2> QED
    BY Zenon, <1>0, <1>2, <2>1 DEF IInv, Tries, EtcdMachinesFollow, EtcdOnly, InitNode, InitNodeIsFree
<1>8. CacheFollows'
  BY Zenon, <1>0, <1>2 DEF IInv, Tries, CacheFollows
<1> QED
  BY Zenon, <1>1, <1>3, <1>5, <1>6, <1>7, <1>8 DEF Bookkeeping

(* What a machine does while CAPI is not paused brings no server back. *)
LEMMA TriesPause ==
    ASSUME IInv, NEW m \in Machines, Tries(m), Effects(m)
    PROVE  PauseHeld'
<1> USE DEF rotateEncryptionKeyInProgress
<1> SUFFICES ASSUME ~cluster.interrupts, ~paused
             PROVE  PauseHeld'
  BY Zenon DEF PauseHeld, Tries
<1>0. IInv /\ PauseHeld /\ StageFits /\ ControlPlane \subseteq Machines
  BY Zenon, ClustersAssumption DEF IInv, Stuck
<1>1. \A n \in Machines : /\ ran[n] \subseteq ran'[n] /\ node'[n].plan = node[n].plan
                          /\ node'[n].state = "pending" => node[n].state = "pending"
  BY Zenon DEF Tries
<1>2. node[m].plan.phase \notin Commands
  BY ZenonT(60), <1>0 DEF StageFits, Pending, Tries, Commands, Restarts
<1>3. stage' = stage /\ \A n \in Machines : view'[n] \in {view[n], stage}
  BY Zenon, <1>2 DEF Effects
<1>4. stage = "reencrypt_finished" /\ Views({"reencrypt_finished"}) => Views({"reencrypt_finished"})'
  BY Zenon, <1>0, <1>3 DEF Views
<1>5. status.phase = "PostReencryptRestart" => Restarted(status.leader) \subseteq Machines
  <2>1. InitNode \in Machines
    BY Zenon, <1>0, ClustersAssumption DEF IInv, TypeOK, IsCluster, InitNode
  <2>2. status.phase = "PostReencryptRestart" => status.leader \in ControlPlane
    BY Zenon, <1>0 DEF IInv, StatusIsSound, InProgress, Restarts
  <2> QED
    BY Zenon, <1>0, <2>1, <2>2 DEF Restarted, Followers, EtcdOnly
<1>6. Restarted(status.leader)' = Restarted(status.leader)
  BY Zenon DEF Tries, Restarted, Followers, EtcdOnly, InitNode
<1> QED
  BY Zenon, <1>0, <1>1, <1>3, <1>4, <1>5, <1>6 DEF PauseHeld, Tries

LEMMA TriesFit ==
    ASSUME IInv, ~Stuck, NEW m \in Machines, Tries(m), Effects(m),
           status.phase = "PostReencryptRestart" => InitNodeRestarted'
    PROVE  StageFits'
<1> USE DEF rotateEncryptionKeyInProgress
<1> DEFINE plan == node[m].plan
<1>0. StageFits /\ ControlPlane \subseteq Machines /\ IInv
  BY Zenon, ClustersAssumption DEF IInv
<1>1. /\ UNCHANGED <<spec, status, paused, known, cluster, issued>>
      /\ node[m].state = "pending" /\ node'[m].plan = plan
      /\ \A n \in Machines : /\ node'[n].plan = node[n].plan
                             /\ node'[n].state = "pending" => node[n].state = "pending"
  BY Zenon DEF Tries
<1>2. \A S : Pending(S) => Pending(S)'
  BY Zenon, <1>1 DEF Pending
<1>3. CASE UNCHANGED <<stage, view>>
  <2>1. \A S : Views(S)' = Views(S) /\ ViewsFollow(S)' = ViewsFollow(S)
    BY Zenon, <1>3 DEF Views, ViewsFollow
  <2>2. status.phase = "Reencrypt" => status.leader \in Machines
    BY Zenon, <1>0 DEF IInv, StatusIsSound, InProgress, Commands
  <2> QED
    BY ZenonT(60), <1>0, <1>1, <1>2, <1>3, <2>1, <2>2 DEF StageFits
<1>4. CASE plan.phase \in Restarts /\ stage' = stage /\ view'[m] = stage
  <2>1. plan.phase \notin Commands \cup {"none"}
    BY Zenon, <1>4 DEF Commands, Restarts
  <2>2. ~(status.phase = "Reencrypt")
    BY Zenon, <1>0, <1>1, <1>4 DEF StageFits, Pending, Restarts
  <2>3. stage \notin Active
    BY ZenonT(60), <1>0, <1>1, <1>4, <2>2 DEF StageFits, Active, Rest, InProgress, Commands, Restarts
  <2>4. \A S : stage \in S /\ Views(S) => Views(S)'
    BY Zenon, <1>0, <1>4 DEF Views, Effects
  <2>5. \A s : ViewsFollow(s) => ViewsFollow(s)'
    BY ZenonT(60), <1>0, <1>4 DEF ViewsFollow, Effects
  <2>6. \A n \in Machines : view'[n] \in Active => view[n] \in Active
    BY Zenon, <1>4, <2>3 DEF Effects
  <2>7. \A n : view[n] = stage /\ n \in Machines => view'[n] = stage
    BY Zenon, <1>4 DEF Effects
  <2>8. status.phase \in {"PostReencryptRestart", "PostRotateRestart"} => status.leader \in Machines
    BY Zenon, <1>0 DEF IInv, StatusIsSound, InProgress, Commands, Restarts
  <2> HIDE DEF plan
  <2> QED
    BY ZenonT(60), <1>0, <1>1, <1>2, <1>4, <2>2, <2>4, <2>5, <2>6, <2>7, <2>8 DEF StageFits
<1>5. CASE /\ plan.phase \in Commands /\ stage \in Precedes[plan.phase]
           /\ stage' = LeadsTo[plan.phase] /\ view'[m] = stage'
  <2>1. m \in ControlPlane
    BY ZenonT(60), <1>0, <1>5 DEF IInv, PlansAreSound
  <2>2. paused /\ (status.phase \in InProgress \/ plan.phase = "Prepare")
    <3>1. paused
      BY ZenonT(60), <1>0, <1>1, <1>5 DEF StageFits, Pending, Commands, Restarts
    <3>2. status.phase \notin InProgress => plan.phase = "Prepare"
      BY ZenonT(60), <1>0, <1>1, <1>5, <3>1 DEF StageFits, Pending, Commands
    <3> QED
      BY Zenon, <3>1, <3>2
  <2>3. \/ /\ status.phase = "Prepare" \/ (paused /\ ~rotateEncryptionKeyInProgress)
           /\ plan.phase = "Prepare" /\ stage' = "prepare"
        \/ status.phase = "Rotate" /\ plan.phase = "Rotate" /\ stage' = "rotate"
        \/ /\ status.phase = "Reencrypt" /\ plan.phase = "Reencrypt" /\ stage' = "reencrypt_request"
           /\ m = status.leader
    BY <1>0, <1>1, <1>5, <2>2 DEF StageFits, Pending, Precedes, LeadsTo, InProgress, Commands, Restarts
  <2>4. CASE status.phase = "Prepare" \/ (paused /\ ~rotateEncryptionKeyInProgress)
    <3>0. /\ stage' = "prepare" /\ status.phase # "Reencrypt"
          /\ status.phase \notin InProgress \ {"Prepare"}
      BY Zenon, <2>3, <2>4 DEF InProgress, Commands
    <3>1. Views(Rest \cup {"prepare"})' /\ ViewsFollow("prepare")'
      BY ZenonT(60), <1>0, <1>5, <2>4, <3>0 DEF StageFits, Views, ViewsFollow, Effects
    <3>2. \A n \in Machines : view'[n] \notin Active
      BY Zenon, <1>0, <1>5, <3>0 DEF StageFits, Active, Effects
    <3> QED
      BY Zenon, <1>0, <1>1, <1>2, <2>2, <2>4, <3>0, <3>1, <3>2
      DEF StageFits, InProgress, Commands, Restarts
  <2>5. CASE status.phase = "Rotate"
    <3>0. stage' = "rotate" /\ status.phase \in InProgress
      BY Zenon, <2>3, <2>5 DEF InProgress, Commands
    <3>1. Views(Rest \cup {"prepare", "rotate"})' /\ ViewsFollow("rotate")'
      BY ZenonT(60), <1>0, <1>5, <2>5, <3>0 DEF StageFits, Views, ViewsFollow, Effects
    <3>2. \A n \in Machines : view'[n] \notin Active
      BY ZenonT(60), <1>0, <1>5, <2>5, <3>0 DEF StageFits, Active, Effects
    <3> QED
      BY ZenonT(60), <1>0, <1>1, <1>2, <2>2, <2>5, <3>0, <3>1, <3>2 DEF StageFits
  <2>6. CASE status.phase = "Reencrypt"
    <3>0. /\ stage' = "reencrypt_request" /\ status.phase \in InProgress /\ m = status.leader
          /\ plan.phase = "Reencrypt"
      BY Zenon, <2>3, <2>6 DEF InProgress, Commands
    <3>1. \A n \in Machines : view'[n] \in Active => n = status.leader
      BY Zenon, <1>0, <2>6, <3>0 DEF StageFits, Effects
    <3>2. node'[m].plan.phase = "Reencrypt"
      BY Zenon, <1>1, <3>0
    <3>3. \A n \in Machines : node'[n].state = "pending" /\ node'[n].plan.phase = "Reencrypt" =>
             n = status.leader
      BY Zenon, <1>0, <1>1, <2>6 DEF StageFits
    <3> QED
      BY ZenonT(60), <1>0, <1>1, <1>2, <1>5, <2>2, <2>6, <3>0, <3>1, <3>2, <3>3 DEF StageFits, Active
  <2> QED
    BY Zenon, <2>3, <2>4, <2>5, <2>6
<1> QED
  BY Zenon, <1>3, <1>4, <1>5 DEF Effects

LEMMA EffectOfPlan ==
    ASSUME IInv, NEW m \in Machines, TakesEffect(m)
    PROVE  /\ Effects(m) /\ Outcome(m) \in Stages /\ view'[m] = Outcome(m)
           /\ ~Runs(m) => UNCHANGED <<stage, view>>
           /\ Runs(m) /\ node[m].plan.phase \in Restarts => stage' = stage /\ view'[m] = stage
<1> DEFINE plan == node[m].plan
<1>1. /\ plan.phase \in InProgress \cup {"none"} /\ view[m] \in Stages /\ stage \in Stages
      /\ view \in [Machines -> Stages]
  BY Zenon DEF IInv, TypeOK, Nodes, Plans
<1>2. /\ \A c \in Commands : LeadsTo[c] \in Stages
      /\ Runs(m) => plan.phase \in InProgress
      /\ \A p \in Restarts : p \notin Commands
  BY DEF Commands, Restarts, LeadsTo, Stages, Runs
<1>3. \/ ~Runs(m) /\ Outcome(m) = view[m]
      \/ Runs(m) /\ plan.phase \in Restarts /\ plan.phase \notin Commands /\ Outcome(m) = stage
      \/ /\ Runs(m) /\ plan.phase \in Commands /\ plan.phase \notin Restarts
         /\ stage \in Precedes[plan.phase] /\ Outcome(m) = LeadsTo[plan.phase]
  BY Zenon, <1>1, <1>2 DEF Outcome, TakesEffect, InProgress
<1>4. Outcome(m) \in Stages
  BY Zenon, <1>1, <1>2, <1>3
<1>5. /\ view' = [view EXCEPT ![m] = Outcome(m)]
      /\ stage' = IF Runs(m) /\ plan.phase \in Commands THEN Outcome(m) ELSE stage
  BY Zenon DEF TakesEffect
<1>6. /\ view' \in [Machines -> Stages] /\ stage' \in Stages /\ view'[m] = Outcome(m)
      /\ \A n \in Machines \ {m} : view'[n] = view[n]
  BY Zenon, <1>1, <1>4, <1>5
<1>7. ~Runs(m) => UNCHANGED <<stage, view>>
  BY Zenon, <1>1, <1>3, <1>5
<1>8. Runs(m) /\ plan.phase \in Restarts => stage' = stage /\ view'[m] = stage
  BY Zenon, <1>2, <1>3, <1>5, <1>6
<1> HIDE DEF plan
<1>9. \/ UNCHANGED <<stage, view>>
      \/ plan.phase \in Restarts /\ stage' = stage /\ view'[m] = stage
      \/ /\ plan.phase \in Commands /\ stage \in Precedes[plan.phase]
         /\ stage' = LeadsTo[plan.phase] /\ view'[m] = stage'
  BY Zenon, <1>3, <1>5, <1>6, <1>7, <1>8
<1> QED
  BY Zenon, <1>4, <1>6, <1>7, <1>8, <1>9 DEF Effects, plan

LEMMA FinishedStays ==
    ASSUME IInv, ~Stuck, NEW m \in Machines, Tries(m), Effects(m),
           status.phase = "PostReencryptRestart", view[m] = "reencrypt_finished"
    PROVE  view'[m] = "reencrypt_finished"
<1>1. stage = "reencrypt_finished" /\ node[m].plan.phase \in {"Reencrypt", "PostReencryptRestart", "none"}
  BY Zenon DEF IInv, StageFits, Pending, Tries
<1>2. node[m].plan.phase \in Commands => stage \notin Precedes[node[m].plan.phase]
  BY <1>1 DEF Commands, Precedes
<1> QED
  BY Zenon, <1>1, <1>2 DEF Effects

LEMMA AgentAppliesIInv ==
    ASSUME IInv, NEW m \in Machines, AgentApplies(m)
    PROVE  IInv'
<1> USE DEF rotateEncryptionKeyInProgress
<1> DEFINE x == node[m]
           plan == node[m].plan
           o == Outcome(m)
           scraped == IF m \in ControlPlane /\ plan.phase # "none" THEN o ELSE None
           per == IF plan.phase \in Commands THEN scraped ELSE x.periodic
           y == [x EXCEPT !.state = "applied", !.output = scraped, !.periodic = per]
<1>1. /\ UNCHANGED <<cluster, spec, issued, supported, server, suitable, status, paused, known, quiet>>
      /\ x.state = "pending" /\ node' = [node EXCEPT ![m] = y]
      /\ TakesEffect(m) /\ RecordAttempt(m)
  BY Zenon DEF AgentApplies, world, capi, IInv, TypeOK
<1>2. /\ x \in Nodes /\ plan \in Plans /\ o \in Stages /\ plan = x.plan
      /\ node \in [Machines -> Nodes] /\ Effects(m) /\ view'[m] = o
  BY Zenon, <1>1, EffectOfPlan DEF IInv, TypeOK, Nodes
<1>3. y \in Nodes /\ y.plan = plan /\ y.state = "applied" /\ y.output = scraped /\ y.periodic = per
  <2>1. scraped \in Stages \cup {None}
    BY Zenon, <1>2
  <2> HIDE DEF scraped
  <2> QED
    BY Zenon, <1>2, <2>1 DEF Nodes
<1>4. plan.phase \in Commands => m \in ControlPlane
  BY ZenonT(60) DEF IInv, PlansAreSound
<1> HIDE DEF x, plan, o, y
<1>5. /\ node'[m] = y /\ node' \in [Machines -> Nodes]
      /\ \A n \in Machines \ {m} : node'[n] = node[n]
  BY Zenon, <1>1, <1>2, <1>3
<1>6. TypeOK'
  BY Zenon, <1>1, <1>2, <1>5, Recorded DEF IInv, TypeOK, Effects
<1>7. Tries(m)
  <2>1. node[m].state = "pending" /\ node'[m].plan = node[m].plan
    BY Zenon, <1>1, <1>3, <1>5 DEF x, plan
  <2> QED
    BY Zenon, <1>1, <1>5, <2>1, Recorded DEF Tries
<1>8. Bookkeeping' /\ PauseHeld'
  BY Zenon, <1>2, <1>7, TriesBookkeeping, TriesPause
<1>9. ASSUME ~Stuck
      PROVE  (ScrapedIsViewed /\ StageFits)'
  <2>0. ScrapedIsViewed /\ StageFits /\ ControlPlane \subseteq Machines
    BY Zenon, <1>9, ClustersAssumption DEF IInv
  <2>1. ScrapedIsViewed'
    <3> SUFFICES ASSUME NEW n \in ControlPlane, node'[n].state = "applied",
                        node'[n].plan.phase # "none"
                 PROVE  /\ IsViewed(n, node[n].output)'
                        /\ node'[n].plan.phase \in Commands => IsViewed(n, node[n].periodic)'
      BY Zenon DEF ScrapedIsViewed
    <3>1. CASE n # m
      BY Zenon, <1>2, <1>5, <2>0, <3>1 DEF ScrapedIsViewed, IsViewed, Effects
    <3>2. CASE n = m
      BY Zenon, <1>2, <1>3, <1>5, <3>2 DEF IsViewed
    <3> QED
      BY Zenon, <3>1, <3>2
  <2>2. status.phase = "PostReencryptRestart" => InitNodeRestarted'
    <3> SUFFICES ASSUME status.phase = "PostReencryptRestart", InitNode \in ControlPlane,
                        <<"PostReencryptRestart", spec>> \in ran'[InitNode]
                 PROVE  InitNodeRestarted'
      BY Zenon, <1>1 DEF InitNodeRestarted, InitNode
    <3>1. InitNodeRestarted /\ stage = "reencrypt_finished" /\ InitNode \in Machines
      BY Zenon, <2>0 DEF StageFits
    <3>2. CASE m # InitNode
      <4>1. /\ node'[InitNode] = node[InitNode] /\ ran'[InitNode] = ran[InitNode]
            /\ lastAttempt'[InitNode] = lastAttempt[InitNode] /\ view'[InitNode] = view[InitNode]
        BY Zenon, <1>2, <1>5, <1>7, <3>1, <3>2 DEF Effects, Tries
      <4>2. InitNode' = InitNode /\ spec' = spec
        BY Zenon, <1>1 DEF InitNode
      <4> HIDE DEF InitNode
      <4> QED
        BY Zenon, <3>1, <4>1, <4>2 DEF InitNodeRestarted, Runs
    <3>3. CASE m = InitNode
      <4>1. view[m] = "reencrypt_finished" => view'[m] = "reencrypt_finished"
        BY Zenon, <1>2, <1>7, <1>9, FinishedStays
      <4>2. Runs(m) /\ plan.phase \in Restarts => view'[m] = "reencrypt_finished"
        BY Zenon, <1>1, <3>1, EffectOfPlan DEF plan
      <4>3. "PostReencryptRestart" \in Restarts
        BY Zenon DEF Restarts
      <4>4. CASE <<"PostReencryptRestart", spec>> \in ran[m]
        <5>1. view[m] = "reencrypt_finished" \/ (Runs(m) /\ plan.phase = "PostReencryptRestart")
          <6>1. node[m].state # "failed"
            BY Zenon, <1>1 DEF x
          <6> QED
            BY <3>1, <3>3, <4>4, <6>1 DEF InitNodeRestarted, plan
        <5> QED
          BY Zenon, <1>1, <3>3, <4>1, <4>2, <4>3, <5>1 DEF InitNodeRestarted, InitNode
      <4>5. CASE <<"PostReencryptRestart", spec>> \notin ran[m]
        <5>1. Runs(m) /\ plan.phase = "PostReencryptRestart"
          <6>1. /\ <<"PostReencryptRestart", spec>> \in ran'[m]
                /\ ~Runs(m) => ran'[m] = ran[m]
                /\ ran'[m] = IF plan.phase = "none" THEN ran[m]
                            ELSE ran[m] \cup {<<plan.phase, plan.gen>>}
            BY Zenon, <1>1, <3>3, Recorded DEF plan
          <6> QED
            BY <4>5, <6>1
        <5> QED
          BY Zenon, <1>1, <3>3, <4>2, <4>3, <5>1 DEF InitNodeRestarted, InitNode
      <4> QED
        BY Zenon, <4>4, <4>5
    <3> QED
      BY Zenon, <3>2, <3>3
  <2> QED
    BY Zenon, <1>2, <1>7, <1>9, <2>1, <2>2, TriesFit
<1>10. Stuck => Stuck'
  BY Zenon, <1>1 DEF Stuck
<1> QED
  BY Zenon, <1>6, <1>8, <1>9, <1>10 DEF IInv, Bookkeeping

LEMMA AgentFailsIInv ==
    ASSUME IInv, NEW m \in Machines, AgentFails(m)
    PROVE  IInv'
<1> USE DEF rotateEncryptionKeyInProgress
<1> DEFINE x == node[m]
           a == node[m].attempt
           retries == a < Attempts(node[m].plan)
           y == IF retries THEN [x EXCEPT !.attempt = a + 1] ELSE [x EXCEPT !.state = "failed"]
<1>1. /\ UNCHANGED <<cluster, spec, issued, supported, server, suitable, status, paused, known, quiet>>
      /\ x.state = "pending" /\ x.plan.phase # "none"
      /\ node' = [node EXCEPT ![m] = y]
      /\ TakesEffect(m) \/ UNCHANGED <<stage, view>>
      /\ RecordAttempt(m)
  BY Zenon DEF AgentFails, world, capi, IInv, TypeOK
<1>2. /\ x \in Nodes /\ node \in [Machines -> Nodes] /\ a \in 1 .. MaxAttempts /\ x.attempt = a
      /\ view \in [Machines -> Stages] /\ stage \in Stages /\ x.plan \in Plans
  BY Zenon DEF IInv, TypeOK, Nodes
<1>3. Effects(m)
  BY Zenon, <1>1, <1>2, EffectOfPlan DEF Effects
<1>4. retries => a + 1 \in 1 .. MaxAttempts /\ a + 1 # a
  BY <1>2, ClustersAssumption DEF Attempts
<1> HIDE DEF x, a, retries
<1>5. /\ y \in Nodes /\ y.plan = x.plan /\ y.state \in {"pending", "failed"}
      /\ y.state # "failed" => y.attempt # a
  <2>1. CASE retries
    BY ZenonT(60), <1>1, <1>2, <1>4, <2>1 DEF Nodes
  <2>2. CASE ~retries
    BY ZenonT(60), <1>1, <1>2, <2>2 DEF Nodes
  <2> QED
    BY Zenon, <2>1, <2>2
<1> HIDE DEF y
<1>6. /\ node'[m] = y /\ node' \in [Machines -> Nodes]
      /\ \A n \in Machines \ {m} : node'[n] = node[n]
  BY Zenon, <1>1, <1>2, <1>5
<1>7. TypeOK'
  BY Zenon, <1>1, <1>3, <1>6, Recorded DEF IInv, TypeOK, Effects
<1>8. Tries(m)
  <2>1. node[m].state = "pending" /\ node'[m].plan = node[m].plan
    BY Zenon, <1>1, <1>5, <1>6 DEF x
  <2> QED
    BY Zenon, <1>1, <1>6, <2>1, Recorded DEF Tries
<1>9. Bookkeeping' /\ PauseHeld'
  BY Zenon, <1>3, <1>8, TriesBookkeeping, TriesPause
<1>10. ASSUME ~Stuck
       PROVE  (ScrapedIsViewed /\ StageFits)'
  <2>0. ScrapedIsViewed /\ StageFits /\ ControlPlane \subseteq Machines
    BY Zenon, <1>10, ClustersAssumption DEF IInv
  <2>1. ScrapedIsViewed'
    <3> SUFFICES ASSUME NEW n \in ControlPlane, node'[n].state = "applied",
                        node'[n].plan.phase # "none"
                 PROVE  /\ IsViewed(n, node[n].output)'
                        /\ node'[n].plan.phase \in Commands => IsViewed(n, node[n].periodic)'
      BY Zenon DEF ScrapedIsViewed
    <3>1. n # m
      BY Zenon, <1>5, <1>6
    <3> QED
      BY Zenon, <1>3, <1>6, <2>0, <3>1 DEF ScrapedIsViewed, IsViewed, Effects
  <2>2. status.phase = "PostReencryptRestart" => InitNodeRestarted'
    <3> SUFFICES ASSUME status.phase = "PostReencryptRestart", InitNode \in ControlPlane,
                        <<"PostReencryptRestart", spec>> \in ran'[InitNode]
                 PROVE  InitNodeRestarted'
      BY Zenon, <1>1 DEF InitNodeRestarted, InitNode
    <3>1. InitNodeRestarted /\ stage = "reencrypt_finished" /\ InitNode \in Machines
      BY Zenon, <2>0 DEF StageFits
    <3>2. CASE m # InitNode
      <4>1. /\ node'[InitNode] = node[InitNode] /\ ran'[InitNode] = ran[InitNode]
            /\ lastAttempt'[InitNode] = lastAttempt[InitNode] /\ view'[InitNode] = view[InitNode]
        BY Zenon, <1>3, <1>6, <1>8, <3>1, <3>2 DEF Effects, Tries
      <4>2. InitNode' = InitNode /\ spec' = spec
        BY Zenon, <1>1 DEF InitNode
      <4> HIDE DEF InitNode
      <4> QED
        BY Zenon, <3>1, <4>1, <4>2 DEF InitNodeRestarted, Runs
    <3>3. CASE m = InitNode
      <4>1. CASE view[m] = "reencrypt_finished"
        <5>1. view'[m] = "reencrypt_finished"
          BY Zenon, <1>3, <1>8, <1>10, <4>1, FinishedStays
        <5> QED
          BY Zenon, <1>1, <3>3, <5>1 DEF InitNodeRestarted, InitNode
      <4>2. CASE view[m] # "reencrypt_finished"
        <5>1. x.plan.phase = "PostReencryptRestart" /\ x.plan.gen = spec
          <6>1. CASE <<"PostReencryptRestart", spec>> \in ran[m]
            BY <3>1, <3>3, <4>2, <6>1 DEF InitNodeRestarted, x
          <6>2. CASE <<"PostReencryptRestart", spec>> \notin ran[m]
            <7>1. /\ <<"PostReencryptRestart", spec>> \in ran'[m]
                  /\ ran'[m] = ran[m] \cup {<<x.plan.phase, x.plan.gen>>}
              BY Zenon, <1>1, <3>3, Recorded DEF x
            <7> QED
              BY <6>2, <7>1
          <6> QED
            BY Zenon, <6>1, <6>2
        <5>2. x.plan.expect = None
          BY Zenon, <3>3 DEF x, IInv, InitNodeIsFree
        <5>3. node'[m].plan = [phase |-> "PostReencryptRestart", gen |-> spec, expect |-> None]
          BY Zenon, <1>2, <1>5, <1>6, <5>1, <5>2 DEF Plans
        <5>4. lastAttempt'[m][<<"PostReencryptRestart", spec>>] = a
          BY Zenon, <1>1, <5>1, Recorded DEF x, a
        <5>5. node'[m].state = "failed" \/ (node'[m].state = "pending" /\ Runs(m)')
          <6>1. "PostReencryptRestart" \in InProgress
            BY Zenon DEF InProgress, Restarts
          <6> QED
            BY <1>5, <1>6, <5>3, <5>4, <6>1 DEF Runs
        <5> QED
          BY Zenon, <1>1, <3>3, <5>3, <5>5 DEF InitNodeRestarted, InitNode
      <4> QED
        BY Zenon, <4>1, <4>2
    <3> QED
      BY Zenon, <3>2, <3>3
  <2> QED
    BY Zenon, <1>3, <1>8, <1>10, <2>1, <2>2, TriesFit
<1>11. Stuck => Stuck'
  BY Zenon, <1>1 DEF Stuck
<1> QED
  BY Zenon, <1>7, <1>9, <1>10, <1>11 DEF IInv, Bookkeeping

LEMMA RanSame ==
    ASSUME UNCHANGED lastAttempt
    PROVE  UNCHANGED ran
BY Zenon DEF ran

LEMMA AgentPeriodicIInv ==
    ASSUME IInv, NEW m \in Machines, AgentPeriodic(m)
    PROVE  IInv'
<1> USE DEF rotateEncryptionKeyInProgress
<1> DEFINE x == node[m]
           y == [x EXCEPT !.periodic = view[m]]
<1>1. /\ UNCHANGED <<cluster, spec, issued, supported, server, suitable, status, paused, known, quiet,
                     ran, lastAttempt, stage, view>>
      /\ node' = [node EXCEPT ![m] = y]
  BY Zenon, RanSame DEF AgentPeriodic, world, capi, machine, IInv, TypeOK
<1>2. /\ x \in Nodes /\ node \in [Machines -> Nodes] /\ view[m] \in Stages
      /\ y \in Nodes /\ y.plan = x.plan /\ y.state = x.state /\ y.output = x.output
      /\ y.attempt = x.attempt /\ y.periodic = view[m]
  BY ZenonT(60) DEF IInv, TypeOK, Nodes
<1> HIDE DEF x, y
<1>3. /\ node'[m] = y /\ node' \in [Machines -> Nodes]
      /\ \A n \in Machines \ {m} : node'[n] = node[n]
  BY Zenon, <1>1, <1>2
<1>4. \A n \in Machines : /\ node'[n].plan = node[n].plan /\ node'[n].state = node[n].state
                          /\ node'[n].output = node[n].output /\ node'[n].attempt = node[n].attempt
  BY Zenon, <1>2, <1>3 DEF x
<1>5. TypeOK' /\ PlansAreSound' /\ StatusIsSound'
  <2>1. TypeOK' /\ StatusIsSound'
    BY Zenon, <1>1, <1>3, <1>4 DEF IInv, TypeOK, StatusIsSound
  <2>2. PlansAreSound'
    BY ZenonT(60), <1>1, <1>4 DEF IInv, PlansAreSound
  <2> QED
    BY Zenon, <2>1, <2>2
<1>6. GenerationInOrder' /\ OneLeaderPlanned'
  BY <1>1, <1>4 DEF IInv, GenerationInOrder, OneLeaderPlanned, Planned
<1>7. InitNode \in Machines
  BY Zenon, ClustersAssumption DEF IInv, TypeOK, IsCluster, InitNode
<1>8. EtcdMachinesFollow' /\ InitNodeIsFree' /\ CacheFollows'
  BY Zenon, <1>1, <1>4, <1>7 DEF IInv, EtcdMachinesFollow, EtcdOnly, InitNodeIsFree, InitNode, CacheFollows
<1>81. PauseHeld'
  BY ZenonT(60), <1>1, <1>4 DEF IInv, PauseHeld, Restarted, Followers, EtcdOnly, InitNode, Views
<1>9. ASSUME ~Stuck
      PROVE  (ScrapedIsViewed /\ StageFits)'
  <2>0. ScrapedIsViewed /\ StageFits /\ ControlPlane \subseteq Machines
    BY Zenon, <1>9, ClustersAssumption DEF IInv
  <2>1. ScrapedIsViewed'
    BY <1>1, <1>2, <1>3, <1>4, <2>0 DEF ScrapedIsViewed, IsViewed
  <2>2. status.phase = "Reencrypt" => status.leader \in Machines
    BY Zenon, <2>0 DEF IInv, StatusIsSound, InProgress, Commands
  <2>3. /\ \A S : Pending(S)' = Pending(S) /\ Views(S)' = Views(S) /\ ViewsFollow(S)' = ViewsFollow(S)
        /\ InitNodeRestarted => InitNodeRestarted'
    BY ZenonT(60), <1>1, <1>4, <1>7 DEF Pending, Views, ViewsFollow, InitNodeRestarted, InitNode, Runs
  <2>4. StageFits'
    BY ZenonT(60), <1>1, <1>4, <2>0, <2>2, <2>3 DEF StageFits
  <2> QED
    BY Zenon, <2>1, <2>4
<1>10. Stuck => Stuck'
  BY Zenon, <1>1 DEF Stuck
<1> QED
  BY Zenon, <1>5, <1>6, <1>8, <1>81, <1>9, <1>10 DEF IInv

LEMMA ServerReencryptsIInv ==
    ASSUME IInv, NEW m \in Machines, ServerReencrypts(m)
    PROVE  IInv'
<1> USE DEF rotateEncryptionKeyInProgress
<1>1. /\ UNCHANGED <<cluster, spec, issued, supported, server, suitable, status, paused, known, quiet,
                     ran, lastAttempt, node>>
      /\ view[m] \in Active /\ stage' \in {"reencrypt_active", "reencrypt_finished"}
      /\ view[m] = "reencrypt_active" => stage' = "reencrypt_finished"
      /\ view' = [view EXCEPT ![m] = stage'] /\ view \in [Machines -> Stages]
  BY Zenon, RanSame DEF ServerReencrypts, world, capi, Active, IInv, TypeOK
<1>2. TypeOK'
  BY Zenon, <1>1 DEF IInv, TypeOK, Stages
<1>3. Bookkeeping'
  BY ZenonT(60), <1>1 DEF IInv, Bookkeeping, PlansAreSound, StatusIsSound, GenerationInOrder, OneLeaderPlanned,
              EtcdMachinesFollow, InitNodeIsFree, CacheFollows, Planned, EtcdOnly, InitNode
<1>31. PauseHeld'
  <2> SUFFICES ASSUME ~paused PROVE FALSE
    BY Zenon, <1>1 DEF PauseHeld
  <2> QED
    BY Zenon, <1>1 DEF IInv, Stuck, StageFits, InProgress, Commands
<1>4. ASSUME ~Stuck
      PROVE  (ScrapedIsViewed /\ StageFits)'
  <2>0. ScrapedIsViewed /\ StageFits /\ ControlPlane \subseteq Machines
    BY Zenon, <1>4, ClustersAssumption DEF IInv
  <2>1. /\ status.phase = "Reencrypt" /\ m = status.leader /\ view[m] = stage
        /\ node[m].plan.phase = "Reencrypt"
    BY Zenon, <1>1, <2>0 DEF StageFits
  <2>2. view'[m] = stage' /\ \A n \in Machines \ {m} : view'[n] = view[n]
    BY Zenon, <1>1
  <2>3. ScrapedIsViewed'
    BY <1>1, <2>0, <2>1, <2>2 DEF ScrapedIsViewed, IsViewed, Active
  <2>4. paused /\ rotateEncryptionKeyInProgress
    BY Zenon, <2>0, <2>1 DEF StageFits, InProgress, Commands
  <2>5. \A S : Pending(S)' = Pending(S)
    BY ZenonT(60), <1>1 DEF Pending
  <2>6. StageFits'
    BY Zenon, <1>1, <2>0, <2>1, <2>2, <2>4, <2>5 DEF StageFits, Active
  <2> QED
    BY Zenon, <2>3, <2>6
<1>5. Stuck => Stuck'
  BY Zenon, <1>1 DEF Stuck
<1> QED
  BY Zenon, <1>2, <1>3, <1>31, <1>4, <1>5 DEF IInv, Bookkeeping

-----------------------------------------------------------------------------
(* The planner assigns a plan. *)

LEMMA UpdatePlanFields ==
    ASSUME TypeOK, NEW m \in Machines, NEW plan \in Plans, UpdatePlan(m, plan)
    PROVE  /\ node' \in [Machines -> Nodes]
           /\ node'[m].plan = plan /\ node'[m].state = "pending" /\ node'[m].attempt = 1
           /\ \A n \in Machines \ {m} : node'[n] = node[n]
<1> DEFINE x == node[m]
           y == [x EXCEPT !.plan = plan, !.state = "pending", !.attempt = 1]
<1>1. node' = [node EXCEPT ![m] = y] /\ node \in [Machines -> Nodes]
  BY Zenon DEF UpdatePlan, TypeOK
<1>2. x \in Nodes
  BY Zenon, <1>1
<1>3. 1 \in 1 .. MaxAttempts
  BY ClustersAssumption
<1> HIDE DEF x
<1>4. y \in Nodes /\ y.plan = plan /\ y.state = "pending" /\ y.attempt = 1
  BY ZenonT(60), <1>2, <1>3 DEF Nodes
<1> HIDE DEF y
<1> QED
  BY Zenon, <1>1, <1>4

(* The status, but for the readiness, is the same; so are the machines. *)
Assigns ==
    /\ UNCHANGED <<cluster, spec, issued, supported, server, suitable, known, quiet, ran,
                   lastAttempt, stage, view>>
    /\ status' \in Statuses /\ status'.gen = status.gen /\ status'.phase = status.phase
    /\ status'.leader = status.leader /\ (status'.ready => status.ready)

LEMMA DesireIInv ==
    ASSUME IInv, NEW m \in Machines, Assigns, ~known, UNCHANGED paused, UpdatePlan(m, Desired)
    PROVE  IInv'
<1> USE DEF rotateEncryptionKeyInProgress
<1>0. Desired \in Plans /\ Desired.phase = "none" /\ Desired.gen = 0 /\ Desired.expect = None
      /\ "none" \notin InProgress \cup Commands
  BY ClustersAssumption DEF Plans, Desired, InProgress, Commands, Restarts
<1>1. /\ node' \in [Machines -> Nodes]
      /\ node'[m].plan = Desired /\ node'[m].state = "pending"
      /\ \A n \in Machines \ {m} : node'[n] = node[n]
  BY Zenon, <1>0, UpdatePlanFields DEF IInv
<1>2. TypeOK' /\ InitNode \in Machines /\ ControlPlane \subseteq Machines
  <2>1. TypeOK'
    BY Zenon, <1>1 DEF IInv, TypeOK, Assigns, Statuses
  <2> QED
    BY Zenon, <2>1, ClustersAssumption DEF IInv, TypeOK, InitNode, IsCluster
<1>3. PlansAreSound'
  BY ZenonT(60), <1>0, <1>1 DEF IInv, PlansAreSound, Assigns
<1>4. StatusIsSound'
  BY Zenon, <1>1 DEF IInv, StatusIsSound, Assigns
<1>5. \A g : \A n \in Machines, p \in InProgress : Planned(n, p, g)' => Planned(n, p, g)
  BY ZenonT(60), <1>0, <1>1 DEF Planned, Assigns
<1>6. GenerationInOrder'
  BY Zenon, <1>5 DEF IInv, GenerationInOrder, Assigns
<1>7. OneLeaderPlanned'
  BY Zenon, <1>5 DEF IInv, OneLeaderPlanned, InProgress, Commands
<1>8. EtcdMachinesFollow' /\ InitNodeIsFree'
  BY <1>0, <1>1, <1>2 DEF IInv, EtcdMachinesFollow, InitNodeIsFree, EtcdOnly, InitNode, Assigns
<1>9. PauseHeld' /\ CacheFollows'
  <2>1. \A S : Views(S)' = Views(S)
    BY Zenon DEF Views, Assigns
  <2>2. Restarted(status.leader)' = Restarted(status.leader)
    BY ZenonT(60) DEF Assigns, Restarted, Followers, EtcdOnly, InitNode
  <2>3. PauseHeld'
    BY ZenonT(60), <1>0, <1>1, <2>1, <2>2 DEF IInv, PauseHeld, Assigns
  <2>4. CacheFollows'
    BY ZenonT(60), <1>0, <1>1 DEF IInv, CacheFollows, Assigns
  <2> QED
    BY Zenon, <2>3, <2>4
<1>10. ScrapedIsViewed /\ StageFits
  BY Zenon DEF IInv, Stuck
<1>11. ScrapedIsViewed'
  BY <1>1, <1>2, <1>10 DEF ScrapedIsViewed, IsViewed, Assigns
<1>12. \A S : Pending(S) => Pending(S)'
  BY Zenon, <1>0, <1>1 DEF Pending
<1>13. \A S : Views(S)' = Views(S) /\ ViewsFollow(S)' = ViewsFollow(S)
  BY Zenon DEF Views, ViewsFollow, Assigns
<1>14. status.phase \in InProgress \ {"Prepare"} => ~paused
  BY Zenon DEF IInv, CacheFollows
<1>141. status.phase # "Reencrypt"
  BY Zenon, <1>10, <1>14 DEF StageFits, InProgress, Commands
<1>15. status.phase = "PostReencryptRestart" /\ InitNode \in ControlPlane =>
          view[InitNode] = "reencrypt_finished"
  BY Zenon, <1>10, <1>14 DEF StageFits, Views, InProgress, Restarts
<1>151. status.phase = "PostReencryptRestart" => InitNodeRestarted'
  BY Zenon, <1>15 DEF InitNodeRestarted, InitNode, Assigns
<1>16. StageFits'
  BY ZenonT(60), <1>10, <1>12, <1>13, <1>141, <1>151 DEF StageFits, Assigns
<1> QED
  BY Zenon, <1>2, <1>3, <1>4, <1>6, <1>7, <1>8, <1>9, <1>11, <1>16 DEF IInv

(* The plan of a phase is in its domain. *)
LEMMA PhasePlanType ==
    ASSUME IInv, status.phase \in InProgress, spec # 0, NEW e \in Stages \cup {None}
    PROVE  /\ PhasePlan(e) \in Plans /\ PhasePlan(e).phase = status.phase
           /\ PhasePlan(e).gen = spec /\ PhasePlan(e).expect = e
           /\ spec \in 1 .. issued /\ spec \in 1 .. MaxGeneration
<1>1. spec \in 0 .. MaxGeneration /\ spec = issued
  BY Zenon DEF IInv, TypeOK, StatusIsSound
<1> QED
  BY <1>1, ClustersAssumption DEF PhasePlan, Plans

(* Before a command CAPI is paused: pauseCAPICluster has paused it, or the cache is right. *)
LEMMA PauseTaken ==
    ASSUME IInv, status.phase \in Commands,
           IF status.phase = "Prepare" THEN pauseCAPICluster(TRUE) ELSE UNCHANGED capi
    PROVE  /\ paused' = TRUE /\ UNCHANGED known
           /\ known \/ (status.phase = "Prepare" /\ ~paused)
<1> USE DEF rotateEncryptionKeyInProgress
<1>0. paused \in BOOLEAN /\ known \in BOOLEAN /\ StageFits /\ CacheFollows /\ status.phase \in InProgress
  BY Zenon DEF IInv, TypeOK, Stuck, InProgress
<1>1. CASE status.phase = "Prepare"
  <2>1. pauseCAPICluster(TRUE) /\ (known => paused)
    BY Zenon, <1>0, <1>1 DEF CacheFollows
  <2> QED
    BY Zenon, <1>0, <1>1, <2>1 DEF pauseCAPICluster
<1>2. CASE status.phase # "Prepare"
  <2>1. UNCHANGED <<paused, known>>
    BY Zenon, <1>2 DEF capi
  <2>2. paused
    BY Zenon, <1>0, <1>2 DEF StageFits, Commands
  <2>3. known
    BY Zenon, <1>0, <1>2, <2>2 DEF CacheFollows
  <2> QED
    BY <1>0, <2>1, <2>2, <2>3
<1> QED
  BY Zenon, <1>1, <1>2

LEMMA LeaderAssignIInv ==
    ASSUME IInv, NEW m \in ControlPlane, Assigns, spec # 0, status.phase \in Commands,
           status.leader = m, paused' = TRUE, known \/ (status.phase = "Prepare" /\ ~paused),
           UpdatePlan(m, PhasePlan(None))
    PROVE  IInv'
<1> USE DEF rotateEncryptionKeyInProgress
<1> DEFINE plan == PhasePlan(None)
<1>0. /\ plan \in Plans /\ plan.phase = status.phase /\ plan.gen = spec /\ plan.expect = None
      /\ spec \in 1 .. issued /\ spec \in 1 .. MaxGeneration
      /\ m \in Machines /\ ControlPlane \subseteq Machines /\ InitNode \in Machines
      /\ Commands \subseteq InProgress /\ status.phase \in InProgress /\ "none" \notin InProgress
  <2>1. InitNode \in Machines /\ ControlPlane \subseteq Machines
    BY Zenon, ClustersAssumption DEF IInv, TypeOK, InitNode, IsCluster
  <2>2. Commands \subseteq InProgress /\ "none" \notin InProgress
    BY Zenon DEF InProgress, Commands, Restarts
  <2> QED
    BY Zenon, <2>1, <2>2, PhasePlanType
<1> HIDE DEF plan
<1>1. /\ node' \in [Machines -> Nodes]
      /\ node'[m].plan = plan /\ node'[m].state = "pending"
      /\ \A n \in Machines \ {m} : node'[n] = node[n]
  BY Zenon, <1>0, UpdatePlanFields DEF IInv, plan
<1>2. ScrapedIsViewed /\ StageFits
  BY Zenon, <1>0 DEF IInv, Stuck
<1>3. paused' /\ paused' \in BOOLEAN
  BY Zenon
<1>4. TypeOK'
  BY Zenon, <1>1, <1>3 DEF IInv, TypeOK, Assigns, Statuses
<1>5. PlansAreSound'
  BY ZenonT(60), <1>0, <1>1 DEF IInv, PlansAreSound, Assigns
<1>6. StatusIsSound'
  BY Zenon, <1>0 DEF IInv, StatusIsSound, Assigns, Commands
<1>7. \A g : \A n \in Machines, p \in InProgress :
         Planned(n, p, g)' => Planned(n, p, g) \/ (n = m /\ p = status.phase /\ g = spec)
  BY Zenon, <1>0, <1>1 DEF Planned, Assigns
<1>8. Rank[status.phase] <= Rank[status.phase]
  BY DEF Rank, Commands
<1>9. GenerationInOrder'
  BY Zenon, <1>0, <1>7, <1>8 DEF IInv, GenerationInOrder, Assigns
<1>10. OneLeaderPlanned'
  <2> SUFFICES ASSUME NEW g \in 1 .. MaxGeneration, NEW n \in Machines, NEW k \in Machines,
                      Planned(n, "Rotate", g)', Planned(k, "Reencrypt", g)'
               PROVE  n = k
    BY Zenon DEF OneLeaderPlanned
  <2>1. \A n0 \in Machines : \A p \in {"Rotate", "Reencrypt"} :
           Planned(n0, p, spec) => n0 = m
    <3>1. status.phase \notin {"Done", "Failed"} /\ {"Rotate", "Reencrypt"} \subseteq InProgress
      BY Zenon DEF Commands, InProgress
    <3> QED
      BY Zenon, <1>0, <3>1 DEF IInv, GenerationInOrder
  <2>2. {"Rotate", "Reencrypt"} \subseteq InProgress
    BY Zenon DEF InProgress, Commands
  <2>3. CASE g = spec
    BY Zenon, <1>7, <2>1, <2>2, <2>3
  <2>4. CASE g # spec
    BY Zenon, <1>7, <2>2, <2>4 DEF IInv, OneLeaderPlanned
  <2> QED
    BY Zenon, <2>3, <2>4
<1>11. EtcdMachinesFollow' /\ InitNodeIsFree'
  BY <1>0, <1>1 DEF IInv, EtcdMachinesFollow, InitNodeIsFree, EtcdOnly, InitNode, Assigns
<1>12. PauseHeld' /\ CacheFollows'
  BY Zenon, <1>3 DEF IInv, PauseHeld, CacheFollows, Assigns
<1>13. ScrapedIsViewed'
  BY <1>0, <1>1, <1>2 DEF ScrapedIsViewed, IsViewed, Assigns
<1>14. \A S : status.phase \in S /\ Pending(S) => Pending(S)'
  BY Zenon, <1>0, <1>1 DEF Pending
<1>15. \A S : Views(S)' = Views(S) /\ ViewsFollow(S)' = ViewsFollow(S)
  BY Zenon DEF Views, ViewsFollow, Assigns
<1>16. StageFits'
  BY ZenonT(60), <1>0, <1>1, <1>2, <1>3, <1>14, <1>15 DEF StageFits, Assigns, Commands
<1> QED
  BY Zenon, <1>4, <1>5, <1>6, <1>9, <1>10, <1>11, <1>12, <1>13, <1>16 DEF IInv

LEMMA RestartedMachines ==
    ASSUME IInv, NEW leader \in ControlPlane
    PROVE  /\ ControlPlane \subseteq Restarted(leader) /\ Restarted(leader) \subseteq Machines
           /\ \A m \in Machines : m \in Restarted(leader) <=> ~(m \in EtcdOnly /\ leader = InitNode)
           /\ InitNode \in Restarted(leader) /\ InitNode \in Machines /\ ControlPlane \subseteq Machines
<1>1. InitNode \in Machines /\ ControlPlane \subseteq Machines
  BY Zenon, ClustersAssumption DEF IInv, TypeOK, InitNode, IsCluster
<1> QED
  BY Zenon, <1>1 DEF Restarted, Followers, EtcdOnly

LEMMA RestartAssignIInv ==
    ASSUME IInv, NEW leader \in ControlPlane, NEW m \in Restarted(leader), Assigns,
           UNCHANGED paused, spec # 0, status.phase \in Restarts, status.leader = leader,
           node[m].plan # RestartPlan(m, leader), UpdatePlan(m, RestartPlan(m, leader))
    PROVE  IInv'
<1> USE DEF rotateEncryptionKeyInProgress
<1> DEFINE plan == RestartPlan(m, leader)
<1>0. /\ plan \in Plans /\ plan.phase = status.phase /\ plan.gen = spec
      /\ m = InitNode => plan = PhasePlan(None) /\ plan.expect = None
      /\ spec \in 1 .. issued /\ spec \in 1 .. MaxGeneration
      /\ m \in Machines /\ ControlPlane \subseteq Machines /\ InitNode \in Machines
      /\ status.phase \in InProgress /\ "none" \notin InProgress
      /\ status.phase \notin Commands \cup {"Done", "none"}
  <2>1. m \in Machines /\ InitNode \in Machines /\ ControlPlane \subseteq Machines
    BY Zenon, RestartedMachines
  <2>2. /\ Restarts \subseteq InProgress /\ "none" \notin InProgress
        /\ status.phase \notin Commands \cup {"Done", "none"}
    BY Zenon DEF InProgress, Commands, Restarts
  <2>3. node[leader].output \in Stages \cup {None}
    BY Zenon, <2>1 DEF IInv, TypeOK, Nodes
  <2>4. PICK e \in Stages \cup {None} : plan = PhasePlan(e) /\ (m = InitNode => e = None)
    BY ZenonT(60), <2>3 DEF RestartPlan, Followers
  <2> HIDE DEF plan
  <2> QED
    BY Zenon, <2>1, <2>2, <2>4, PhasePlanType
<1> HIDE DEF plan
<1>1. /\ node' \in [Machines -> Nodes]
      /\ node'[m].plan = plan /\ node'[m].state = "pending"
      /\ \A n \in Machines \ {m} : node'[n] = node[n]
  BY ZenonT(60), <1>0, UpdatePlanFields DEF IInv, plan
<1>2. ScrapedIsViewed /\ StageFits
  BY ZenonT(60), <1>0 DEF IInv, Stuck
<1>4. TypeOK'
  BY ZenonT(60), <1>1 DEF IInv, TypeOK, Assigns, Statuses
<1>5. PlansAreSound'
  BY ZenonT(60), <1>0, <1>1 DEF IInv, PlansAreSound, Assigns
<1>6. StatusIsSound'
  BY Zenon, <1>0 DEF IInv, StatusIsSound, Assigns
<1>7. \A g : \A n \in Machines, p \in InProgress :
         Planned(n, p, g)' => Planned(n, p, g) \/ (n = m /\ p = status.phase /\ g = spec)
  BY <1>0, <1>1 DEF Planned, Assigns
<1>8. Rank[status.phase] <= Rank[status.phase]
  BY DEF Rank, Restarts
<1>9. GenerationInOrder'
  BY ZenonT(60), <1>0, <1>7, <1>8 DEF IInv, GenerationInOrder, Assigns, Commands
<1>10. OneLeaderPlanned'
  BY ZenonT(60), <1>0, <1>7 DEF IInv, OneLeaderPlanned, Commands, InProgress
<1>11. EtcdMachinesFollow'
  <2>1. m \in EtcdOnly => leader # InitNode
    BY Zenon, <1>0, RestartedMachines
  <2> QED
    BY <1>0, <1>1, <2>1 DEF IInv, EtcdMachinesFollow, EtcdOnly, InitNode, Assigns, Commands
<1>12. InitNodeIsFree'
  BY Zenon, <1>0, <1>1 DEF IInv, InitNodeIsFree, InitNode, Assigns
<1>13. PauseHeld'
  <2>1. ~paused => status.phase = "PostReencryptRestart"
    BY ZenonT(60), <1>0, <1>2 DEF StageFits, Commands
  <2>2. Restarted(status.leader)' = Restarted(status.leader)
    BY ZenonT(60) DEF Assigns, Restarted, Followers, EtcdOnly, InitNode
  <2>3. \A S : Views(S)' = Views(S)
    BY Zenon DEF Views, Assigns
  <2>4. ~paused => stage = "reencrypt_finished" /\ Views({"reencrypt_finished"})
    BY Zenon, <1>2, <2>1 DEF StageFits
  <2> QED
    BY ZenonT(60), <1>0, <1>1, <2>1, <2>2, <2>3, <2>4 DEF IInv, PauseHeld, Assigns
<1>131. CacheFollows'
  BY Zenon, <1>0 DEF IInv, CacheFollows, Assigns, Commands
<1>14. ScrapedIsViewed'
  BY <1>0, <1>1, <1>2 DEF ScrapedIsViewed, IsViewed, Assigns
<1>15. \A S : status.phase \in S /\ Pending(S) => Pending(S)'
  BY Zenon, <1>0, <1>1 DEF Pending
<1>16. \A S : Views(S)' = Views(S) /\ ViewsFollow(S)' = ViewsFollow(S)
  BY Zenon DEF Views, ViewsFollow, Assigns
<1>17. status.phase = "PostReencryptRestart" /\ InitNode \in ControlPlane
          /\ <<"PostReencryptRestart", spec>> \in ran[InitNode] =>
             view[InitNode] = "reencrypt_finished" \/ node'[InitNode] = node[InitNode]
  BY ZenonT(60), <1>0, <1>1, <1>2 DEF StageFits, InitNodeRestarted, PhasePlan, plan
<1>171. status.phase = "PostReencryptRestart" => InitNodeRestarted'
  BY ZenonT(60), <1>2, <1>17 DEF StageFits, InitNodeRestarted, InitNode, Runs, Assigns
<1>18. StageFits'
  BY ZenonT(60), <1>0, <1>2, <1>15, <1>16, <1>171 DEF StageFits, Assigns, Commands
<1> QED
  BY Zenon, <1>4, <1>5, <1>6, <1>9, <1>10, <1>11, <1>12, <1>13, <1>131, <1>14, <1>18 DEF IInv

-----------------------------------------------------------------------------
(* The planner moves on to the next phase. *)

(* The bookkeeping when the phase is moved on and the plans are left alone. *)
MovesOn ==
    /\ UNCHANGED <<cluster, spec, issued, supported, server, suitable, known, quiet, node, ran,
                   lastAttempt, stage, view>>
    /\ status' \in Statuses /\ status'.gen = spec /\ status'.phase = NextPhase[status.phase]
    /\ ~status'.ready /\ spec # 0 /\ status.phase \in InProgress

LEMMA MovesOnIInv ==
    ASSUME IInv, MovesOn, paused' \in BOOLEAN,
           status'.phase = "Done" => ~paused',
           status'.phase # "Done" => status'.leader \in ControlPlane /\ status'.leader = status.leader,
           status'.phase # "Done" => paused' /\ known,
           PauseHeld', ScrapedIsViewed', StageFits'
    PROVE  IInv'
<1> USE DEF rotateEncryptionKeyInProgress
<1>0. /\ NextPhase[status.phase] \in (InProgress \ {"Prepare"}) \cup {"Done"}
      /\ status'.phase # "Prepare" /\ status'.phase # "none" /\ "Done" \notin InProgress
      /\ status'.phase \in InProgress =>
            \A p \in InProgress : Rank[p] <= Rank[status.phase] => Rank[p] <= Rank[status'.phase]
  BY DEF MovesOn, NextPhase, InProgress, Commands, Restarts, Rank
<1>1. TypeOK'
  BY ZenonT(60) DEF IInv, TypeOK, MovesOn, Statuses
<1>2. PlansAreSound'
  BY ZenonT(60) DEF IInv, PlansAreSound, MovesOn
<1>3. StatusIsSound'
  BY <1>0 DEF IInv, TypeOK, StatusIsSound, MovesOn
<1>4. OneLeaderPlanned'
  BY DEF IInv, OneLeaderPlanned, Planned, MovesOn
<1>5. GenerationInOrder'
  <2> SUFFICES ASSUME NEW m \in Machines, NEW p \in InProgress, Planned(m, p, spec),
                      status'.phase # "Done"
               PROVE  /\ status'.phase \in InProgress /\ Rank[p] <= Rank[status'.phase]
                      /\ p \in {"Rotate", "Reencrypt"} => status'.leader = m
    BY ZenonT(60) DEF GenerationInOrder, Planned, MovesOn
  <2>1. /\ status'.phase \in InProgress /\ status'.leader = status.leader
        /\ status.phase \notin {"Done", "Failed"}
    BY Zenon, <1>0 DEF MovesOn, InProgress, Commands, Restarts
  <2>2. /\ Rank[p] <= Rank[status.phase]
        /\ p \in {"Rotate", "Reencrypt"} => status.leader = m
    BY Zenon, <2>1 DEF IInv, GenerationInOrder, MovesOn
  <2> QED
    BY Zenon, <1>0, <2>1, <2>2
<1>6. EtcdMachinesFollow' /\ InitNodeIsFree'
  BY Zenon, <1>0 DEF IInv, EtcdMachinesFollow, EtcdOnly, InitNodeIsFree, InitNode, MovesOn
<1>7. CacheFollows'
  BY Zenon, <1>0 DEF CacheFollows, MovesOn
<1> QED
  BY ZenonT(60), <1>1, <1>2, <1>3, <1>4, <1>5, <1>6, <1>7 DEF IInv

(* The leader's command has done its work. *)
LEMMA CommandDoneIInv ==
    ASSUME IInv, MovesOn, NEW leader \in ControlPlane, status.leader = leader,
           status'.leader = leader, status.phase \in Commands,
           paused' = TRUE, known \/ (status.phase = "Prepare" /\ ~paused),
           Settled(leader, PhasePlan(None)),
           encryptionKeyRotationIsCurrentStageAllowed(node[leader].output), ~Reencrypting(leader)
    PROVE  IInv'
<1> USE DEF rotateEncryptionKeyInProgress
<1>0. /\ ScrapedIsViewed /\ StageFits /\ leader \in Machines /\ InitNode \in Machines
      /\ ControlPlane \subseteq Machines
  BY Zenon, RestartedMachines DEF IInv, Stuck, MovesOn
<1>1. paused' /\ paused' \in BOOLEAN
  BY Zenon
<1>2. /\ node[leader].plan.phase = status.phase /\ status.phase # "none"
      /\ IsViewed(leader, node[leader].output) /\ IsViewed(leader, node[leader].periodic)
  BY <1>0 DEF ScrapedIsViewed, Settled, PhasePlan, Commands
<1>21. known
  BY Zenon, <1>0, <1>2 DEF IInv, CacheFollows
<1>3. PauseHeld'
  BY ZenonT(60), <1>1 DEF PauseHeld
<1>4. ScrapedIsViewed'
  BY ZenonT(60), <1>0 DEF ScrapedIsViewed, IsViewed, MovesOn
<1>5. \A S, T : S \subseteq T /\ Pending(S) => Pending(T)'
  BY Zenon DEF Pending, MovesOn
<1>6. \A S : Views(S)' = Views(S) /\ ViewsFollow(S)' = ViewsFollow(S)
  BY Zenon DEF Views, ViewsFollow, MovesOn
<1>7. CASE status.phase = "Prepare"
  <2>1. status'.phase = "PostPrepareRestart" /\ status'.phase \in InProgress
    BY <1>7 DEF MovesOn, NextPhase, InProgress, Restarts
  <2>2. view[leader] = "prepare"
    BY Zenon, <1>2, <1>7 DEF IsViewed, Active, encryptionKeyRotationIsCurrentStageAllowed
  <2>3. stage = "prepare"
    BY ZenonT(60), <1>0, <1>7, <2>2 DEF StageFits, ViewsFollow
  <2>4. Pending({"Prepare", "PostPrepareRestart"})'
    BY ZenonT(60), <1>0, <1>5, <1>7 DEF StageFits
  <2>5. StageFits'
    BY ZenonT(60), <1>0, <1>1, <1>6, <1>7, <2>1, <2>3, <2>4 DEF StageFits, MovesOn
  <2> QED
    BY ZenonT(60), <1>1, <1>21, <1>3, <1>4, <2>1, <2>5, MovesOnIInv
<1>8. CASE status.phase = "Rotate"
  <2>1. status'.phase = "PostRotateRestart" /\ status'.phase \in InProgress
    BY <1>8 DEF MovesOn, NextPhase, InProgress, Restarts
  <2>2. view[leader] = "rotate"
    BY Zenon, <1>2, <1>8 DEF IsViewed, Active, encryptionKeyRotationIsCurrentStageAllowed
  <2>3. stage = "rotate"
    BY ZenonT(60), <1>0, <1>8, <2>2 DEF StageFits, ViewsFollow
  <2>4. Pending({"Rotate", "PostRotateRestart"})'
    BY ZenonT(60), <1>0, <1>5, <1>8 DEF StageFits
  <2>5. StageFits'
    BY ZenonT(60), <1>0, <1>1, <1>6, <1>8, <2>1, <2>2, <2>3, <2>4 DEF StageFits, MovesOn
  <2> QED
    BY ZenonT(60), <1>1, <1>21, <1>3, <1>4, <2>1, <2>5, MovesOnIInv
<1>9. CASE status.phase = "Reencrypt"
  <2>1. status'.phase = "PostReencryptRestart" /\ status'.phase \in InProgress
    BY <1>9 DEF MovesOn, NextPhase, InProgress, Restarts
  <2>2. view[leader] = "reencrypt_finished"
    BY Zenon, <1>2, <1>9 DEF IsViewed, Active, encryptionKeyRotationIsCurrentStageAllowed, Reencrypting
  <2>3. stage = "reencrypt_finished" /\ \A m \in Machines : view[m] \notin Active
    BY ZenonT(60), <1>0, <1>9, <2>2 DEF StageFits, Active
  <2>4. Pending({"Reencrypt", "PostReencryptRestart"})'
    BY ZenonT(60), <1>0, <1>5, <1>9 DEF StageFits
  <2>5. <<"PostReencryptRestart", spec>> \notin ran[InitNode]
    <3>1. "PostReencryptRestart" \in InProgress /\ ~(Rank["PostReencryptRestart"] <= Rank["Reencrypt"])
      BY DEF InProgress, Restarts, Rank
    <3>2. ~Planned(InitNode, "PostReencryptRestart", spec)
      BY ZenonT(60), <1>0, <1>9, <3>1 DEF IInv, GenerationInOrder, MovesOn
    <3> QED
      BY ZenonT(60), <3>2 DEF Planned
  <2>51. InitNodeRestarted'
    BY ZenonT(60), <2>5 DEF InitNodeRestarted, MovesOn, InitNode
  <2>6. StageFits'
    BY ZenonT(60), <1>0, <1>1, <1>6, <1>9, <2>1, <2>2, <2>3, <2>4, <2>51 DEF StageFits, MovesOn
  <2> QED
    BY ZenonT(60), <1>1, <1>21, <1>3, <1>4, <2>1, <2>6, MovesOnIInv
<1> QED
  BY Zenon, <1>7, <1>8, <1>9 DEF Commands

(* All servers are restarted, and agree with the leader. *)
AllRestarted(leader) ==
    /\ \A m \in Restarted(leader) : Settled(m, RestartPlan(m, leader))
    /\ \A m \in Followers(leader) : node[m].output = node[leader].output

LEMMA AllRestartedFacts ==
    ASSUME IInv, NEW leader \in ControlPlane, status.leader = leader, status.phase \in Restarts,
           AllRestarted(leader)
    PROVE  /\ \A m \in Machines : node[m].state = "pending" => node[m].plan.phase = "none"
           /\ \A m \in Restarted(leader) : <<status.phase, spec>> \in ran[m]
           /\ status.phase = "PostReencryptRestart" => Views({"reencrypt_finished"})
<1> USE DEF rotateEncryptionKeyInProgress
<1>0. /\ ScrapedIsViewed /\ StageFits /\ status.phase \in InProgress
      /\ status.phase \notin Commands \cup {"none"}
  BY Zenon DEF IInv, Stuck, InProgress, Restarts, Commands
<1>1. \A m \in Restarted(leader) :
         /\ node[m].state = "applied" /\ node[m].plan.phase = status.phase /\ node[m].plan.gen = spec
         /\ m \in Machines
  <2> TAKE m \in Restarted(leader)
  <2>1. node[m].plan = RestartPlan(m, leader) /\ node[m].state = "applied"
    BY Zenon DEF AllRestarted, Settled
  <2>2. RestartPlan(m, leader).phase = status.phase /\ RestartPlan(m, leader).gen = spec
    BY Zenon DEF RestartPlan, PhasePlan
  <2>3. m \in Machines
    BY Zenon, RestartedMachines
  <2> QED
    BY Zenon, <2>1, <2>2, <2>3
<1>2. \A m \in Machines : m \notin Restarted(leader) => node[m].plan.phase = "none"
  BY Zenon, <1>0, RestartedMachines DEF IInv, EtcdMachinesFollow
<1>3. \A m \in Restarted(leader) : <<status.phase, spec>> \in ran[m]
  BY Zenon, <1>0, <1>1 DEF IInv, PlansAreSound
<1>4. ASSUME status.phase = "PostReencryptRestart", NEW m \in ControlPlane
      PROVE  view[m] = "reencrypt_finished"
  <2>1. m \in Restarted(leader) /\ leader \in Restarted(leader) /\ InitNode \in Restarted(leader)
    BY Zenon, RestartedMachines
  <2>2. \A n \in ControlPlane : n \in Restarted(leader) => node[n].output = view[n]
    BY Zenon, <1>0, <1>1, <1>4 DEF ScrapedIsViewed, IsViewed
  <2>3. view[leader] = "reencrypt_finished"
    BY ZenonT(60), <1>0, <1>4 DEF StageFits
  <2>4. CASE m = leader
    BY Zenon, <2>3, <2>4
  <2>5. CASE m \in Followers(leader)
    BY Zenon, <2>1, <2>2, <2>3, <2>5 DEF AllRestarted
  <2>6. CASE m = InitNode
    <3>1. InitNodeRestarted /\ node[InitNode].state = "applied"
      BY Zenon, <1>0, <1>1, <1>4, <2>1 DEF StageFits
    <3> QED
      BY ZenonT(60), <1>3, <1>4, <2>1, <2>6, <3>1 DEF InitNodeRestarted
  <2> QED
    BY Zenon, <2>4, <2>5, <2>6 DEF Followers
<1> QED
  BY Zenon, <1>1, <1>2, <1>3, <1>4 DEF Views

(* CAPI is unpaused in the last phase: a cache that shows it unpaused is right. *)
LEMMA UnpauseTaken ==
    ASSUME IInv, status.phase \in Restarts,
           IF UnpausesAt(status.phase) THEN pauseCAPICluster(FALSE) ELSE UNCHANGED capi
    PROVE  paused' = (paused /\ ~UnpausesAt(status.phase)) /\ UNCHANGED known
<1>0. paused \in BOOLEAN /\ known \in BOOLEAN /\ (paused => known)
  BY Zenon DEF IInv, TypeOK, CacheFollows, InProgress, Restarts
<1>1. CASE UnpausesAt(status.phase)
  <2>1. pauseCAPICluster(FALSE)
    BY Zenon, <1>1
  <2>2. known \in {FALSE, paused} /\ paused' = (IF known = FALSE THEN paused ELSE FALSE) /\ UNCHANGED known
    BY Zenon, <2>1 DEF pauseCAPICluster
  <2>3. paused' = FALSE
    BY <1>0, <2>2
  <2> QED
    BY Zenon, <1>1, <2>2, <2>3
<1>2. CASE ~UnpausesAt(status.phase)
  <2>1. UNCHANGED <<paused, known>>
    BY Zenon, <1>2 DEF capi
  <2> QED
    BY Zenon, <1>0, <1>2, <2>1
<1> QED
  BY Zenon, <1>1, <1>2

LEMMA RestartsDoneIInv ==
    ASSUME IInv, MovesOn, NEW leader \in ControlPlane, status.leader = leader,
           status.phase \in Restarts, AllRestarted(leader),
           status'.leader = (IF NextPhase[status.phase] = "Done" THEN None ELSE leader),
           paused' = (paused /\ ~UnpausesAt(status.phase))
    PROVE  IInv'
<1> USE DEF rotateEncryptionKeyInProgress
<1>0. /\ ScrapedIsViewed /\ StageFits /\ leader \in Machines /\ InitNode \in Machines
      /\ ControlPlane \subseteq Machines
  BY Zenon, RestartedMachines DEF IInv, Stuck, MovesOn
<1>1. /\ \A m \in Machines : node[m].state = "pending" => node[m].plan.phase = "none"
      /\ status.phase = "PostReencryptRestart" => Views({"reencrypt_finished"})
  BY ZenonT(60), AllRestartedFacts
<1>2. ScrapedIsViewed'
  BY Zenon, <1>0 DEF ScrapedIsViewed, IsViewed, MovesOn
<1>3. \A S : Pending(S)'
  BY Zenon, <1>1 DEF Pending, MovesOn
<1>4. \A S : Views(S)' = Views(S) /\ ViewsFollow(S)' = ViewsFollow(S)
  BY ZenonT(60) DEF Views, ViewsFollow, MovesOn
<1>5. status'.phase # "PostReencryptRestart"
  BY DEF MovesOn, NextPhase, Restarts
<1>6. PauseHeld'
  BY ZenonT(60), <1>1, <1>5 DEF PauseHeld, MovesOn
<1>7. paused' \in BOOLEAN /\ (paused => known)
  BY Zenon DEF IInv, TypeOK, CacheFollows, InProgress, Restarts
<1>8. CASE status.phase = "PostPrepareRestart"
  <2>1. status'.phase = "Rotate" /\ status'.leader = leader /\ status'.phase \in InProgress
    BY <1>8 DEF MovesOn, NextPhase, InProgress, Commands
  <2>2. paused /\ paused'
    BY ZenonT(60), <1>0, <1>8 DEF StageFits, UnpausesAt, MovesOn
  <2>3. ViewsFollow("rotate") /\ Views(Rest \cup {"prepare", "rotate"})
    BY ZenonT(60), <1>0, <1>8 DEF StageFits, ViewsFollow, Views, Rest
  <2>4. StageFits'
    BY ZenonT(60), <1>0, <1>3, <1>4, <1>8, <2>1, <2>2, <2>3 DEF StageFits, MovesOn
  <2> QED
    BY ZenonT(60), <1>2, <1>6, <1>7, <2>1, <2>2, <2>4, MovesOnIInv
<1>9. CASE status.phase = "PostRotateRestart"
  <2>1. status'.phase = "Reencrypt" /\ status'.leader = leader /\ status'.phase \in InProgress
    BY <1>9 DEF MovesOn, NextPhase, InProgress, Commands
  <2>2. paused /\ paused'
    BY ZenonT(60), <1>0, <1>9 DEF StageFits, UnpausesAt, MovesOn
  <2>3. \A m \in Machines : ~(node[m].state = "pending" /\ node[m].plan.phase = "Reencrypt")
    BY Zenon, <1>1
  <2>4. StageFits'
    BY ZenonT(60), <1>0, <1>3, <1>4, <1>9, <2>1, <2>2, <2>3 DEF StageFits, MovesOn, Active
  <2> QED
    BY ZenonT(60), <1>2, <1>6, <1>7, <2>1, <2>2, <2>4, MovesOnIInv
<1>10. CASE status.phase = "PostReencryptRestart"
  <2>0. UnpausesAt(status.phase)
    BY Zenon, <1>10 DEF UnpausesAt
  <2>1. status'.phase = "Done" /\ ~paused'
    <3>1. status'.phase = "Done"
      BY <1>10 DEF MovesOn, NextPhase
    <3> QED
      BY ZenonT(60), <2>0, <3>1
  <2>2. Views(Rest) /\ stage = "reencrypt_finished" /\ "Done" \notin InProgress
    BY Zenon, <1>0, <1>1, <1>10 DEF StageFits, Views, Rest, InProgress, Commands, Restarts
  <2>3. StageFits'
    BY ZenonT(60), <1>0, <1>1, <1>3, <1>4, <1>10, <2>1, <2>2 DEF StageFits, MovesOn, Rest
  <2> QED
    BY ZenonT(60), <1>2, <1>6, <1>7, <2>1, <2>3, MovesOnIInv
<1> QED
  BY Zenon, <1>8, <1>9, <1>10 DEF Restarts

(* CAPI is unpaused, but the status update is lost. *)
LEMMA UnpauseIInv ==
    ASSUME IInv, NEW leader \in ControlPlane, status.leader = leader,
           status.phase \in Restarts, AllRestarted(leader),
           UNCHANGED <<cluster, spec, issued, supported, server, suitable, known, quiet, node, ran,
                       lastAttempt, stage, view, status>>,
           paused' = (paused /\ ~UnpausesAt(status.phase))
    PROVE  IInv'
<1> USE DEF rotateEncryptionKeyInProgress
<1>0. /\ ScrapedIsViewed /\ StageFits /\ status.phase \in InProgress
  BY Zenon DEF IInv, Stuck, InProgress
<1>1. /\ \A m \in Machines : node[m].state = "pending" => node[m].plan.phase = "none"
      /\ \A m \in Restarted(leader) : <<status.phase, spec>> \in ran[m]
      /\ status.phase = "PostReencryptRestart" => Views({"reencrypt_finished"})
  BY ZenonT(60), AllRestartedFacts
<1>2. TypeOK' /\ PlansAreSound' /\ StatusIsSound'
  BY ZenonT(60), <1>0 DEF IInv, TypeOK, PlansAreSound, StatusIsSound
<1>3. GenerationInOrder' /\ OneLeaderPlanned' /\ EtcdMachinesFollow' /\ InitNodeIsFree'
  BY ZenonT(60) DEF IInv, GenerationInOrder, OneLeaderPlanned, Planned, EtcdMachinesFollow, EtcdOnly,
         InitNodeIsFree, InitNode
<1>4. PauseHeld' /\ CacheFollows'
  <2>1. Restarted(status.leader)' = Restarted(leader)
    BY Zenon DEF Restarted, Followers, EtcdOnly, InitNode
  <2>2. PauseHeld'
    BY Zenon, <1>1, <2>1 DEF PauseHeld
  <2>3. status.phase \in InProgress \ {"Prepare"}
    BY Zenon DEF InProgress, Restarts
  <2>4. CacheFollows'
    BY Zenon, <2>3 DEF IInv, CacheFollows
  <2> QED
    BY Zenon, <2>2, <2>4
<1>5. ScrapedIsViewed'
  BY ZenonT(60), <1>0 DEF ScrapedIsViewed, IsViewed
<1>6. \A S : Views(S)' = Views(S) /\ ViewsFollow(S)' = ViewsFollow(S) /\ Pending(S)'
  BY ZenonT(60), <1>1 DEF Views, ViewsFollow, Pending
<1>7. StageFits'
  <2>0. InitNodeRestarted => InitNodeRestarted'
    BY Zenon DEF InitNodeRestarted, InitNode, Runs
  <2>1. CASE UNCHANGED paused
    BY <1>0, <1>6, <2>0, <2>1 DEF StageFits
  <2>2. CASE status.phase = "PostReencryptRestart"
    <3>1. Views(Rest) /\ stage = "reencrypt_finished"
      BY Zenon, <1>0, <1>1, <2>2 DEF StageFits, Views, Rest
    <3> QED
      BY ZenonT(60), <1>0, <1>1, <1>6, <2>0, <2>2, <3>1 DEF StageFits, Rest
  <2> QED
    BY ZenonT(60), <2>1, <2>2 DEF UnpausesAt, IInv, TypeOK
<1> QED
  BY Zenon, <1>2, <1>3, <1>4, <1>5, <1>7 DEF IInv

(* CAPI is paused for the rotation, and nothing else happens. *)
LEMMA PauseIInv ==
    ASSUME IInv, Assigns, UNCHANGED node, status.phase \in Commands,
           paused' = TRUE, known \/ (status.phase = "Prepare" /\ ~paused)
    PROVE  IInv'
<1> USE DEF rotateEncryptionKeyInProgress
<1>0. /\ ScrapedIsViewed /\ StageFits /\ status.phase \in InProgress
  BY Zenon DEF IInv, Stuck, InProgress
<1>1. paused' /\ paused' \in BOOLEAN
  BY Zenon
<1>3. TypeOK' /\ PlansAreSound' /\ StatusIsSound'
  <2>1. status.phase # "Done"
    BY Zenon DEF Commands
  <2>2. TypeOK'
    BY ZenonT(60), <1>1 DEF IInv, TypeOK, Assigns, Statuses
  <2>3. PlansAreSound'
    BY ZenonT(60) DEF IInv, PlansAreSound, Assigns
  <2>4. StatusIsSound'
    BY Zenon, <1>0, <2>1 DEF IInv, StatusIsSound, Assigns
  <2> QED
    BY Zenon, <2>2, <2>3, <2>4
<1>4. GenerationInOrder' /\ OneLeaderPlanned' /\ EtcdMachinesFollow' /\ InitNodeIsFree'
  BY DEF IInv, GenerationInOrder, OneLeaderPlanned, Planned, EtcdMachinesFollow, EtcdOnly,
         InitNodeIsFree, InitNode, Assigns
<1>5. PauseHeld' /\ CacheFollows' /\ ScrapedIsViewed'
  BY Zenon, <1>0, <1>1 DEF IInv, PauseHeld, CacheFollows, ScrapedIsViewed, IsViewed, Assigns
<1>6. StageFits'
  <2>1. \A S : Views(S)' = Views(S) /\ ViewsFollow(S)' = ViewsFollow(S) /\ Pending(S)' = Pending(S)
    BY Zenon DEF Views, ViewsFollow, Pending, Assigns
  <2> QED
    BY ZenonT(60), <1>0, <1>1, <2>1 DEF StageFits, Assigns, Commands
<1> QED
  BY Zenon, <1>3, <1>4, <1>5, <1>6 DEF IInv

-----------------------------------------------------------------------------
(* Every step preserves the invariant. *)

LEMMA SavedStatus ==
    ASSUME TypeOK, NEW s \in Statuses, Save(s)
    PROVE  status' = s \/ status' = status
  BY Zenon DEF Save

LEMMA WaitingStatus ==
    ASSUME TypeOK, Waiting
    PROVE  /\ status' \in Statuses /\ status'.gen = status.gen /\ status'.phase = status.phase
           /\ status'.leader = status.leader /\ (status'.ready => status.ready)
  BY Zenon, StatusType DEF Waiting, Save, Statuses

LEMMA WaitingAssigns ==
    ASSUME TypeOK, Waiting \/ UNCHANGED status, UNCHANGED <<spec, known, world, machine>>
    PROVE  Assigns
<1>1. CASE Waiting
  BY Zenon, <1>1, WaitingStatus, RanSame DEF Assigns, world, machine
<1>2. CASE UNCHANGED status
  BY Zenon, <1>2, StatusType, RanSame DEF Assigns, world, machine
<1> QED
  BY Zenon, <1>1, <1>2

LEMMA IdleIInv ==
    ASSUME IInv, Waiting \/ UNCHANGED status, UNCHANGED <<spec, capi, node, world, machine>>
    PROVE  IInv'
<1>1. Assigns /\ UNCHANGED paused
  BY Zenon, WaitingAssigns DEF IInv, capi
<1>2. TypeOK'
  BY Zenon, <1>1 DEF Assigns, IInv, TypeOK, Statuses
<1> QED
  BY Zenon, <1>1, <1>2, SamePhaseIInv DEF Assigns

LEMMA GiveUpsIInv ==
    ASSUME IInv, resetEncryptionKeyRotateState \/ encryptionKeyRotationUnsupported
    PROVE  IInv'
<1> DEFINE s == [status EXCEPT !.gen = spec, !.phase = IF spec = 0 THEN "none" ELSE "Failed",
                               !.ready = FALSE]
<1>1. Save(s) /\ UNCHANGED <<spec, capi, node, world, machine>>
  BY Zenon DEF resetEncryptionKeyRotateState, encryptionKeyRotationUnsupported,
         setEncryptionKeyRotateState
<1>2. CASE UNCHANGED status
  BY Zenon, <1>1, <1>2, IdleIInv
<1>3. CASE status' = s
  <2>1. /\ s \in Statuses /\ s.gen = spec /\ s.phase = (IF spec = 0 THEN "none" ELSE "Failed")
        /\ ~s.ready
    BY Zenon, StatusType DEF IInv, TypeOK, Statuses, Phases
  <2> HIDE DEF s
  <2>2. TypeOK'
    BY Zenon, <1>1, <1>3, <2>1 DEF IInv, TypeOK, Statuses, world, machine, capi
  <2> QED
    BY Zenon, <1>1, <1>3, <2>1, <2>2, GiveUpIInv, RanSame DEF world, machine, capi
<1> QED
  BY Zenon, <1>1, <1>2, <1>3 DEF Save

LEMMA FullReconcileIInv ==
    ASSUME IInv, fullReconcile
    PROVE  IInv'
<1>0. TypeOK /\ UNCHANGED <<spec, capi, world, machine>> /\ UNCHANGED <<paused, known>>
  BY Zenon DEF IInv, fullReconcile, capi
<1>1. CASE UNCHANGED node /\ Waiting
  BY Zenon, <1>0, <1>1, IdleIInv
<1>2. ASSUME ~known, NEW m \in Machines, UpdatePlan(m, Desired), Waiting
      PROVE  IInv'
  BY Zenon, <1>0, <1>2, WaitingAssigns, DesireIInv
<1>3. CASE /\ ~known /\ \A m \in Machines : Settled(m, Desired)
           /\ UNCHANGED node /\ Save([status EXCEPT !.ready = TRUE])
  <2>1. /\ status' \in Statuses /\ status'.gen = status.gen /\ status'.phase = status.phase
        /\ status'.leader = status.leader
    BY Zenon, <1>0, <1>3, StatusType DEF Save, Statuses
  <2>2. TypeOK'
    BY Zenon, <1>0, <1>3, <2>1 DEF TypeOK, Statuses, world, machine, capi
  <2> QED
    BY Zenon, <1>0, <1>3, <2>1, <2>2, SamePhaseIInv, RanSame DEF Settled, world, machine
<1> QED
  BY Zenon, <1>1, <1>2, <1>3 DEF fullReconcile

LEMMA StartRotationIInv ==
    ASSUME IInv, startRotation
    PROVE  IInv'
<1> DEFINE s == [status EXCEPT !.gen = spec, !.phase = "Prepare", !.ready = FALSE]
<1>1. Save(s) /\ UNCHANGED <<spec, capi, node, world, machine>>
  BY Zenon DEF startRotation, setEncryptionKeyRotateState
<1>2. CASE UNCHANGED status
  BY Zenon, <1>1, <1>2, IdleIInv
<1>3. CASE status' = s
  <2>1. /\ s \in Statuses /\ s.gen = spec /\ s.phase = "Prepare" /\ s.leader = status.leader
        /\ ~s.ready
    BY Zenon, StatusType DEF IInv, TypeOK, Statuses, Phases, InProgress, Commands
  <2> HIDE DEF s
  <2>2. TypeOK'
    BY Zenon, <1>1, <1>3, <2>1 DEF IInv, TypeOK, Statuses, world, machine, capi
  <2>3. spec # 0 /\ canRotateEncryptionKeys /\ shouldRestartEncryptionKeyRotation
    BY Zenon DEF startRotation, Rotates
  <2> QED
    BY Zenon, <1>1, <1>3, <2>1, <2>2, <2>3, StartIInv, RanSame DEF world, machine, capi
<1> QED
  BY Zenon, <1>1, <1>2, <1>3 DEF Save

LEMMA ElectLeaderIInv ==
    ASSUME IInv, electLeader
    PROVE  IInv'
<1> DEFINE s == [status EXCEPT !.leader = encryptionKeyRotationFindLeader, !.ready = FALSE]
<1>1. Save(s) /\ UNCHANGED <<spec, capi, node, world, machine>>
  BY Zenon DEF electLeader
<1>2. CASE UNCHANGED status
  BY Zenon, <1>1, <1>2, IdleIInv
<1>3. CASE status' = s
  <2>1. status.phase = "Prepare"
    BY Zenon DEF electLeader, encryptionKeyRotationFindLeader
  <2>2. encryptionKeyRotationFindLeader \in ControlPlane \cup {None}
    BY Zenon, ElectedType DEF IInv
  <2>3. s \in Statuses /\ s.gen = status.gen /\ s.phase = status.phase /\ ~s.ready
    BY Zenon, <2>2, StatusType DEF IInv, Statuses
  <2> HIDE DEF s
  <2>4. TypeOK'
    BY Zenon, <1>1, <1>3, <2>3 DEF IInv, TypeOK, Statuses, world, machine, capi
  <2> QED
    BY Zenon, <1>1, <1>3, <2>1, <2>3, <2>4, ElectIInv, RanSame DEF world, machine, capi
<1> QED
  BY Zenon, <1>1, <1>2, <1>3 DEF Save

LEMMA NextPhaseStatus ==
    ASSUME IInv, status.phase \in InProgress, spec # 0, NEW leader \in ControlPlane \cup {None},
           status' = [status EXCEPT !.leader = leader, !.gen = spec,
                                    !.phase = NextPhase[status.phase], !.ready = FALSE],
           UNCHANGED <<spec, known, node, world, machine>>
    PROVE  MovesOn /\ status'.leader = leader
<1>1. status \in Statuses /\ NextPhase[status.phase] \in Phases /\ spec \in 0 .. MaxGeneration
  BY StatusType DEF IInv, TypeOK, NextPhase, Phases, InProgress, Commands, Restarts
<1>2. /\ status' \in Statuses /\ status'.gen = spec /\ status'.phase = NextPhase[status.phase]
      /\ ~status'.ready /\ status'.leader = leader
  BY Zenon, <1>1 DEF Statuses
<1> QED
  BY Zenon, <1>2, RanSame DEF MovesOn, world, machine

LEMMA LeaderPhaseIInv ==
    ASSUME IInv, NEW leader \in ControlPlane, encryptionKeyRotationLeaderPhaseReconcile(leader)
    PROVE  IInv'
<1> DEFINE plan == PhasePlan(None)
<1>0. /\ TypeOK /\ UNCHANGED <<spec, world, machine>> /\ spec # 0 /\ status.leader = leader
      /\ status.phase \in Commands /\ status.phase \in InProgress
      /\ paused' = TRUE /\ UNCHANGED known /\ (known \/ (status.phase = "Prepare" /\ ~paused))
  BY Zenon, PauseTaken DEF IInv, encryptionKeyRotationLeaderPhaseReconcile, Leads, Rotates, InProgress
<1>1. CASE UpdatePlan(leader, plan) /\ Waiting
  BY Zenon, <1>0, <1>1, WaitingAssigns, LeaderAssignIInv
<1>2. CASE UNCHANGED node /\ (Waiting \/ UNCHANGED status)
  BY Zenon, <1>0, <1>2, WaitingAssigns, PauseIInv
<1>3. CASE /\ Settled(leader, plan) /\ UNCHANGED node /\ ~UNCHANGED status
           /\ encryptionKeyRotationIsCurrentStageAllowed(node[leader].output)
           /\ ~Reencrypting(leader)
           /\ setEncryptionKeyRotateState(status, spec, NextPhase[status.phase])
  <2>1. status' = [status EXCEPT !.gen = spec, !.phase = NextPhase[status.phase], !.ready = FALSE]
    BY Zenon, <1>3 DEF setEncryptionKeyRotateState, Save
  <2>2. status' = [status EXCEPT !.leader = leader, !.gen = spec,
                                 !.phase = NextPhase[status.phase], !.ready = FALSE]
    BY ZenonT(60), <1>0, <2>1, StatusType DEF Statuses
  <2>3. MovesOn /\ status'.leader = leader
    BY Zenon, <1>0, <1>3, <2>2, NextPhaseStatus
  <2> QED
    BY Zenon, <1>0, <1>3, <2>3, CommandDoneIInv
<1> QED
  BY Zenon, <1>1, <1>2, <1>3 DEF encryptionKeyRotationLeaderPhaseReconcile, assignAndCheckPlan,
     setEncryptionKeyRotateState, Save

LEMMA RestartNodesIInv ==
    ASSUME IInv, NEW leader \in ControlPlane, encryptionKeyRotationRestartNodes(leader)
    PROVE  IInv'
<1> DEFINE Strays(m) == m \in Followers(leader) /\ node[m].output # node[leader].output
           Behind == {m \in Restarted(leader) : ~Settled(m, RestartPlan(m, leader)) \/ Strays(m)}
           next == IF NextPhase[status.phase] = "Done" THEN None ELSE leader
<1>0. /\ TypeOK /\ UNCHANGED <<spec, world, machine>> /\ spec # 0 /\ status.leader = leader
      /\ status.phase \in Restarts /\ status.phase \in InProgress
  BY ZenonT(60) DEF IInv, encryptionKeyRotationRestartNodes, Leads, Rotates, InProgress
<1>1. ASSUME NEW m \in Behind, assignAndCheckPlan(m, RestartPlan(m, leader)), UNCHANGED capi
      PROVE  IInv'
  <2>1. CASE /\ node[m].plan # RestartPlan(m, leader) /\ UpdatePlan(m, RestartPlan(m, leader))
             /\ Waiting
    <3>1. Assigns
      BY Zenon, <1>0, <1>1, <2>1, WaitingAssigns DEF capi
    <3>2. m \in Restarted(leader) /\ UNCHANGED paused
      BY Zenon, <1>1 DEF capi
    <3> QED
      BY ZenonT(60), <1>0, <1>1, <2>1, <3>1, <3>2, RestartAssignIInv
  <2>2. CASE UNCHANGED node /\ (Waiting \/ UNCHANGED status)
    BY Zenon, <1>0, <1>1, <2>2, IdleIInv
  <2> QED
    BY Zenon, <1>1, <2>1, <2>2 DEF assignAndCheckPlan
<1>2. CASE Behind = {} /\ RestartsDone /\ UNCHANGED node
  <2>1. AllRestarted(leader)
    <3>1. \A m \in Restarted(leader) : Settled(m, RestartPlan(m, leader)) /\ ~Strays(m)
      BY Zenon, <1>2
    <3>2. Followers(leader) \subseteq Restarted(leader)
      BY Zenon DEF Restarted
    <3> QED
      BY Zenon, <3>1, <3>2 DEF AllRestarted
  <2>2. CASE UNCHANGED capi /\ Waiting
    BY Zenon, <1>0, <1>2, <2>2, IdleIInv
  <2>3. CASE /\ IF UnpausesAt(status.phase) THEN pauseCAPICluster(FALSE) ELSE UNCHANGED capi
             /\ UNCHANGED status
    BY Zenon, <1>0, <1>2, <2>1, <2>3, UnpauseTaken, UnpauseIInv, RanSame DEF world, machine
  <2>4. CASE /\ IF UnpausesAt(status.phase) THEN pauseCAPICluster(FALSE) ELSE UNCHANGED capi
             /\ status' = [[status EXCEPT !.leader = IF NextPhase[status.phase] = "Done" THEN None
                                                     ELSE @]
                              EXCEPT !.gen = spec, !.phase = NextPhase[status.phase],
                                     !.ready = FALSE]
    <3>1. status' = [status EXCEPT !.leader = next, !.gen = spec,
                                   !.phase = NextPhase[status.phase], !.ready = FALSE]
      BY Zenon, <1>0, <2>4, StatusType DEF Statuses
    <3>2. /\ next \in ControlPlane \cup {None}
          /\ paused' = (paused /\ ~UnpausesAt(status.phase)) /\ UNCHANGED known
      BY Zenon, <1>0, <2>4, UnpauseTaken
    <3>3. MovesOn /\ status'.leader = next
      <4> HIDE DEF next
      <4> QED
        BY Zenon, <1>0, <1>2, <3>1, <3>2, NextPhaseStatus
    <3> QED
      BY Zenon, <1>0, <2>1, <3>2, <3>3, RestartsDoneIInv
  <2> QED
    BY Zenon, <1>2, <2>2, <2>3, <2>4 DEF RestartsDone, pauseConflicts, setEncryptionKeyRotateState, Save
<1> QED
  BY Zenon, <1>1, <1>2 DEF encryptionKeyRotationRestartNodes

(* The cache catches up. *)
LEMMA SyncIInv ==
    ASSUME IInv, CapiSync
    PROVE  IInv'
<1> USE DEF rotateEncryptionKeyInProgress
<1>1. /\ UNCHANGED <<cluster, spec, issued, supported, server, suitable, quiet, status, paused, node,
                     ran, lastAttempt, stage, view>>
      /\ known # paused /\ known' = paused
  BY Zenon, RanSame DEF CapiSync, world, machine
<1>2. paused \in BOOLEAN /\ known \in BOOLEAN
  BY Zenon DEF IInv, TypeOK
<1>3. paused => ~known /\ known'
  BY Zenon, <1>1, <1>2
<1>4. ~paused => known /\ ~known'
  BY Zenon, <1>1, <1>2
<1>5. TypeOK' /\ PlansAreSound' /\ StatusIsSound'
  BY ZenonT(60), <1>1 DEF IInv, TypeOK, PlansAreSound, StatusIsSound
<1>6. GenerationInOrder' /\ OneLeaderPlanned' /\ EtcdMachinesFollow' /\ InitNodeIsFree'
  BY ZenonT(60), <1>1 DEF IInv, GenerationInOrder, OneLeaderPlanned, Planned, EtcdMachinesFollow, EtcdOnly,
         InitNodeIsFree, InitNode
<1>7. CacheFollows'
  BY Zenon, <1>1, <1>3, <1>4 DEF IInv, CacheFollows
<1>8. \A S : Views(S)' = Views(S) /\ ViewsFollow(S)' = ViewsFollow(S) /\ Pending(S)' = Pending(S)
  BY ZenonT(60), <1>1 DEF Views, ViewsFollow, Pending
<1>9. PauseHeld'
  <2>1. Restarted(status.leader)' = Restarted(status.leader)
    BY Zenon, <1>1 DEF Restarted, Followers, EtcdOnly, InitNode
  <2> QED
    BY ZenonT(60), <1>1, <1>8, <2>1 DEF IInv, PauseHeld
<1>10. ScrapedIsViewed /\ StageFits
  BY Zenon, <1>3 DEF IInv, Stuck
<1>11. ScrapedIsViewed'
  BY ZenonT(60), <1>1, <1>10 DEF ScrapedIsViewed, IsViewed
<1>12. StageFits'
  <2>1. InitNodeRestarted => InitNodeRestarted'
    BY Zenon, <1>1 DEF InitNodeRestarted, InitNode, Runs
  <2> QED
    BY ZenonT(60), <1>1, <1>8, <1>10, <2>1 DEF StageFits
<1> QED
  BY Zenon, <1>5, <1>6, <1>7, <1>9, <1>11, <1>12 DEF IInv

LEMMA NextIInv == IInv /\ [Next]_vars => IInv'
<1> SUFFICES ASSUME IInv, [Next]_vars
             PROVE  IInv'
  BY Zenon
<1>1. CASE Pass
  <2>1. CASE pauseFails
    BY Zenon, <2>1, IdleIInv DEF pauseFails
  <2> QED
    BY Zenon, <1>1, <2>1, GiveUpsIInv, FullReconcileIInv, StartRotationIInv, ElectLeaderIInv,
       LeaderPhaseIInv, RestartNodesIInv DEF Pass
<1>2. ASSUME NEW m \in Machines,
             AgentApplies(m) \/ AgentFails(m) \/ AgentPeriodic(m) \/ ServerReencrypts(m)
      PROVE  IInv'
  BY Zenon, <1>2, AgentAppliesIInv, AgentFailsIInv, AgentPeriodicIInv, ServerReencryptsIInv
<1>3. CASE SupportChanges \/ MachinesChange \/ Quieten \/ UNCHANGED vars
  <2>1. UNCHANGED <<cluster, issued, spec, paused, known, node, ran, lastAttempt, stage, view, status>>
    BY ZenonT(60), <1>3, RanSame DEF SupportChanges, MachinesChange, Quieten, machine, capi, vars
  <2>2. TypeOK'
    <3>1. supported' \in BOOLEAN /\ quiet' \in BOOLEAN /\ suitable' \subseteq ControlPlane
      BY Zenon, <1>3 DEF IInv, TypeOK, SupportChanges, MachinesChange, Quieten, vars
    <3>2. server' \in cluster.initStates
      BY <1>3, ClustersAssumption DEF IInv, TypeOK, SupportChanges, MachinesChange, Quieten, vars,
         IsCluster
    <3> QED
      BY ZenonT(60), <2>1, <3>1, <3>2 DEF IInv, TypeOK
  <2> QED
    BY Zenon, <2>1, <2>2, SamePhaseIInv
<1> QED
  BY Zenon, <1>1, <1>2, <1>3, RequestIInv, SyncIInv DEF Next

-----------------------------------------------------------------------------

(* Every variable of the rotation stays in its domain. *)
THEOREM TypeCorrect == Spec => []TypeOK
<1>1. IInv => TypeOK
  BY Zenon DEF IInv
<1> QED
  BY InitIInv, NextIInv, <1>1, PTL DEF Spec

(* encryptionKeyRotationRestartNodes sets the phase Done only when the secrets are reencrypted
   and every control plane server works with the new key: for any number of machines and of
   requests, with any machine as init node, whatever fails, is lost or is asked for meanwhile. *)
THEOREM RotationsReencrypt == Spec => []DoneMeansReencrypted
<1>1. IInv => DoneMeansReencrypted
  <2>1. "Done" \notin InProgress
    BY Zenon DEF InProgress, Commands, Restarts
  <2> QED
    BY Zenon, <2>1 DEF IInv, DoneMeansReencrypted, StatusIsSound, Stuck, StageFits, Views
<1> QED
  BY InitIInv, NextIInv, <1>1, PTL DEF Spec

(* encryptionKeyRotationFindLeader elects one machine to run the commands of a rotation. *)
THEOREM RotationsHaveOneLeader == Spec => []OneLeaderPerRotation
<1>1. IInv => OneLeaderPerRotation
  BY Zenon DEF IInv, OneLeaderPerRotation, OneLeaderPlanned, Planned
<1> QED
  BY InitIInv, NextIInv, <1>1, PTL DEF Spec

(* CAPI is paused whenever an agent is about to run a command or a restart of a rotation, also
   when it tries one again; the one exception is a restart of the last phase that has run before,
   after which nothing is left to rotate. *)
THEOREM RotationsHoldThePause == Spec => []RotationHoldsPause
<1>1. IInv => RotationHoldsPause
  <2>1. "none" \notin InProgress
    BY Zenon DEF InProgress, Commands, Restarts
  <2>2. \A m \in Machines : Runs(m) => node[m].plan.phase # "none"
    BY Zenon, <2>1 DEF Runs
  <2> QED
    BY ZenonT(60), <2>2 DEF IInv, RotationHoldsPause, PauseHeld, Views
<1> QED
  BY InitIInv, NextIInv, <1>1, PTL DEF Spec
=============================================================================
