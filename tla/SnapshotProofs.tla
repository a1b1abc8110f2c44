--------------------------- MODULE SnapshotProofs ---------------------------
(***************************************************************************)
(* Proofs about Process, continued: that a creation takes a snapshot on    *)
(* every etcd machine, that a restored cluster serves the data of the      *)
(* snapshot, and that the node cleanup of a restoration spares the         *)
(* machines that run.                                                      *)
(***************************************************************************)
EXTENDS ProcessProofs

(* What the agent of a machine does to its host when it is done with a     *)
(* plan: the server is started, stopped, or left as it is.                 *)
HostStarts(m) ==
    LET plan == node[m].plan
    IN  /\ up' = up \cup {m} /\ joinURL' = joinURL \cup {m} /\ plan.join \in up \cup {Self}
        /\ db'[m] = IF m \in Etcd /\ db[m] = Wiped
                    THEN IF plan.join = Self THEN Fresh ELSE db[plan.join]
                    ELSE db[m]

HostStops(m) ==
    /\ up' = up \ {m} /\ UNCHANGED joinURL
    /\ m \in Etcd =>
         IF node'[m].state = "applied" /\ node[m].plan.kind = "restore" THEN db'[m] = node[m].plan.for
         ELSE db'[m] = Wiped

HostStep(m) ==
    /\ AgentStep(m)
    /\ \A n \in Machines \ {m} : db'[n] = db[n]
    /\ \/ /\ node[m].plan.kind \in Starting
          /\ \/ node'[m].state = "applied" /\ HostStarts(m)
             \/ UNCHANGED <<joinURL, up, db>> /\ (node'[m].state = "applied" => m \in up)
       \/ node[m].plan.kind \in {"stop", "restore"} /\ HostStops(m)
       \/ node[m].plan.kind \in {"create", "rotate"} /\ UNCHANGED <<joinURL, up, db>>
    /\ \A n \in Machines : snapped'[n] = snapped[n] \/ (n = m /\ snapped'[n] = status.create)
    /\ node[m].plan.kind = "create" /\ node'[m].state = "applied" => snapped'[m] = status.create

LEMMA EtcdiseEffect ==
    ASSUME IInv, NEW m \in Machines, NEW data, Etcdise(m, data)
    PROVE  /\ \A n \in Machines \ {m} : db'[n] = db[n]
           /\ m \in Etcd => db'[m] = data
BY Zenon DEF IInv, TypeOK, Etcdise

LEMMA StartEffect ==
    ASSUME IInv, NEW m \in Machines, Starts(m), Start(m)
    PROVE  HostStarts(m) /\ \A n \in Machines \ {m} : db'[n] = db[n]
<1> DEFINE plan == node[m].plan
           fresh == IF plan.join = Self THEN Fresh ELSE db[plan.join]
<1>0. db \in [Machines -> Original .. Wiped]
  BY Zenon DEF IInv, TypeOK
<1>1. /\ up' = up \cup {m} /\ joinURL' = joinURL \cup {m} /\ plan.join \in up \cup {Self}
      /\ db' = IF m \in Etcd /\ db[m] = Wiped THEN [db EXCEPT ![m] = fresh] ELSE db
  BY Zenon DEF Start, Starts
<1>2. /\ db'[m] = IF m \in Etcd /\ db[m] = Wiped THEN fresh ELSE db[m]
      /\ \A n \in Machines \ {m} : db'[n] = db[n]
  <2> HIDE DEF fresh
  <2> QED
    BY Zenon, <1>0, <1>1
<1> QED
  BY Zenon, <1>1, <1>2 DEF HostStarts

LEMMA RunHost ==
    ASSUME IInv, NEW m \in Machines, Run(m)
    PROVE  HostStep(m)
<1> DEFINE plan == node[m].plan
<1>0. AgentStep(m) /\ snapped \in [Machines -> 0 .. scenario.creates]
  BY Zenon, RunStep DEF IInv, TypeOK
<1>1. node'[m].state = "applied"
  <2>1. node' = [node EXCEPT ![m].state = "applied"] /\ TypeOK
    BY Zenon DEF Run, IInv
  <2> QED
    BY Zenon, <2>1, SetState
<1>2. CASE plan.kind \in Starting /\ Starts(m) /\ Start(m)
  <2>1. UNCHANGED snapped
    BY Zenon, <1>2, StartType
  <2> QED
    BY Zenon, <1>0, <1>1, <1>2, <2>1, StartEffect DEF HostStep, Starting
<1>3. CASE plan.kind \in Starting /\ ~Starts(m) /\ m \in up /\ Start(m)
  BY Zenon, <1>0, <1>1, <1>3 DEF HostStep, Start, hosts, Starting
<1>4. CASE /\ plan.kind = "stop" \/ plan.kind = "restore"
           /\ up' = up \ {m} /\ Etcdise(m, IF plan.kind = "stop" THEN Wiped ELSE plan.for)
           /\ UNCHANGED <<joinURL, stamp, snapped>>
  <2> DEFINE data == IF plan.kind = "stop" THEN Wiped ELSE plan.for
  <2>0. Etcdise(m, data)
    BY Zenon, <1>4
  <2> HIDE DEF data
  <2>1. (\A n \in Machines \ {m} : db'[n] = db[n]) /\ (m \in Etcd => db'[m] = data)
    BY Zenon, <2>0, EtcdiseEffect
  <2>2. HostStops(m)
    <3>1. CASE plan.kind = "stop"
      BY Zenon, <1>4, <2>1, <3>1 DEF HostStops, data
    <3>2. CASE plan.kind = "restore"
      BY Zenon, <1>1, <1>4, <2>1, <3>2 DEF HostStops, data
    <3> QED
      BY Zenon, <1>4, <3>1, <3>2
  <2>3. UNCHANGED snapped
    BY Zenon, <1>4
  <2> QED
    BY Zenon, <1>0, <1>4, <2>1, <2>2, <2>3 DEF HostStep
<1>5. CASE /\ plan.kind = "create" /\ snapped' = [snapped EXCEPT ![m] = status.create]
           /\ UNCHANGED <<joinURL, up, db, stamp>>
  BY Zenon, <1>0, <1>1, <1>5 DEF HostStep
<1>6. CASE plan.kind = "rotate" /\ UNCHANGED hosts
  BY Zenon, <1>0, <1>1, <1>6 DEF HostStep, hosts
<1> QED
  BY Zenon, <1>2, <1>3, <1>4, <1>5, <1>6 DEF Run, Starting

LEMMA FailHost ==
    ASSUME IInv, NEW m \in Machines, Fail(m)
    PROVE  HostStep(m)
<1> DEFINE kind == node[m].plan.kind
<1>0. /\ AgentStep(m) /\ kind \in {"restore", "podCleanup", "nodeCleanup", "create"}
      /\ UNCHANGED <<joinURL, snapped>>
  BY Zenon, FailStep DEF Fail
<1>1. node'[m].state = "failed"
  <2>1. node' = [node EXCEPT ![m].state = "failed"] /\ TypeOK
    BY Zenon DEF Fail, IInv
  <2> QED
    BY Zenon, <2>1, SetState
<1>2. CASE kind = "restore" /\ up' = up \ {m} /\ Etcdise(m, Wiped)
  <2>1. (\A n \in Machines \ {m} : db'[n] = db[n]) /\ (m \in Etcd => db'[m] = Wiped)
    BY Zenon, <1>2, EtcdiseEffect
  <2> QED
    BY Zenon, <1>0, <1>1, <1>2, <2>1 DEF HostStep, HostStops
<1>3. CASE kind # "restore" /\ UNCHANGED <<up, db>>
  BY Zenon, <1>0, <1>1, <1>3 DEF HostStep, Starting
<1> QED
  BY Zenon, <1>2, <1>3 DEF Fail

(* A pass: who is there stays, and what the plans of the machines are.     *)
LEMMA PassFacts ==
    ASSUME IInv, PassStep
    PROVE  /\ UNCHANGED <<scenario, spec, issued, cache, life, joinURL, up, db, snapped>>
           /\ Present' = Present /\ NotDeleting' = NotDeleting /\ Etcd' = Etcd /\ Fixed' = Fixed
           /\ Writes
           /\ \/ UNCHANGED status
              \/ /\ cache.spec = spec /\ cache.status = status /\ UNCHANGED labels /\ Creation(status')
                 /\ \/ Keeps(status') \/ Initializes(status')
                    \/ UNCHANGED node /\ Progresses(status')
           /\ UNCHANGED labels \/ (Elected(labels') /\ UNCHANGED <<node, status>>)
<1>1. UNCHANGED <<scenario, spec, issued, cache, life, joinURL, up, db, snapped>>
  BY Zenon DEF PassStep, PassFrame, hosts
<1>2. Present' = Present /\ NotDeleting' = NotDeleting /\ Etcd' = Etcd /\ Fixed' = Fixed
  BY Zenon, <1>1, SameScenario DEF Present, NotDeleting
<1>3. Writes
  <2>1. CASE UNCHANGED node
    BY Zenon, <2>1 DEF IInv, TypeOK, Writes
  <2> QED
    BY Zenon, <2>1 DEF PassStep
<1>4. \/ UNCHANGED status
      \/ cache.spec = spec /\ cache.status = status /\ Creation(status')
  <2>1. \/ UNCHANGED status
        \/ cache = [spec |-> spec, status |-> status] /\ Creation(status')
    BY Zenon DEF PassStep
  <2> QED
    BY <2>1
<1>5. \/ UNCHANGED status
      \/ UNCHANGED labels /\ (Keeps(status') \/ Initializes(status') \/ (UNCHANGED node /\ Progresses(status')))
  BY Zenon DEF PassStep
<1>6. UNCHANGED labels \/ (Elected(labels') /\ UNCHANGED <<node, status>>)
  BY Zenon DEF PassStep
<1> QED
  BY Zenon, <1>1, <1>2, <1>3, <1>4, <1>5, <1>6

-----------------------------------------------------------------------------
(* The creation of a snapshot.                                             *)

NoCreatePlan == \A m \in Machines : node[m].plan.kind # "create"

(* Before the request, and until the creation has started, no machine has  *)
(* a plan to take a snapshot.                                              *)
CreationIsSound ==
    /\ spec.create \in {0, issued.create}
    /\ issued.create = 0 =>
         /\ status.create = 0 /\ cache.status.create = 0 /\ cache.spec.create = 0
         /\ NoCreatePlan
    /\ spec.create # 0 /\ status.create = 0 => cache.status.create = 0 /\ NoCreatePlan
    /\ \A m \in Machines : life[m] = "absent" => m \in scenario.late

(* A machine that has applied one has taken the snapshot.                  *)
PlansTaken ==
    status.create # 0 => \A m \in Machines :
        node[m].plan.kind = "create" /\ node[m].state = "applied" => snapped[m] = status.create

CInv == CreationIsSound /\ PlansTaken /\ SnapshotOnEveryMachine

LEMMA CreateNumbers ==
    ASSUME OneCreation, IInv
    PROVE  /\ status.create \in {0, 1} /\ cache.status.create \in {0, 1}
           /\ spec.create \in {0, 1} /\ cache.spec.create \in {0, 1} /\ issued.create \in {0, 1}
<1>1. scenario \in Scenarios /\ scenario.creates \in Nat
  BY Zenon, ScenarioFacts DEF IInv, TypeOK
<1>2. scenario.creates <= 1
  BY Zenon, <1>1 DEF OneCreation
<1>3. 0 .. scenario.creates \subseteq {0, 1}
  BY <1>1, <1>2
<1>4. status \in Statuses /\ spec \in Requests /\ issued \in Requests
  BY Zenon DEF IInv, TypeOK
<1>5. cache.status \in Statuses /\ cache.spec \in Requests
  BY Zenon, CacheType DEF IInv
<1> QED
  BY Zenon, <1>3, <1>4, <1>5 DEF Statuses, Requests

LEMMA UserCreates ==
    ASSUME OneCreation, IInv, User
    PROVE  \/ spec'.create = spec.create /\ issued'.create = issued.create
           \/ spec'.create = 0 /\ issued'.create = issued.create
           \/ issued.create = 0 /\ issued'.create = 1 /\ spec'.create = 1
<1>0. spec \in Requests /\ issued \in Requests /\ scenario \in Scenarios
  BY Zenon DEF IInv, TypeOK
<1>1. CASE RequestRestore
  <2> DEFINE r == issued.restore + 1
  <2>1. issued' = [issued EXCEPT !.restore = r] /\ spec' = [spec EXCEPT !.restore = r]
    BY Zenon, <1>1 DEF RequestRestore, Ask
  <2> HIDE DEF r
  <2> QED
    BY Zenon, <1>0, <2>1 DEF Requests
<1>2. CASE RequestRotate
  <2> DEFINE r == issued.certs + 1
  <2>1. issued' = [issued EXCEPT !.certs = r] /\ spec' = [spec EXCEPT !.certs = r]
    BY Zenon, <1>2 DEF RequestRotate, Ask
  <2> HIDE DEF r
  <2> QED
    BY Zenon, <1>0, <2>1 DEF Requests
<1>3. CASE RequestCreate
  <2> DEFINE r == issued.create + 1
  <2>1. /\ issued' = [issued EXCEPT !.create = r] /\ spec' = [spec EXCEPT !.create = r]
        /\ issued.create < scenario.creates
    BY Zenon, <1>3 DEF RequestCreate, Ask
  <2>2. issued.create = 0 /\ r = 1
    <3>1. issued.create \in {0, 1} /\ scenario.creates \in Nat /\ scenario.creates <= 1
      BY Zenon, <1>0, CreateNumbers, ScenarioFacts DEF OneCreation
    <3> QED
      BY <2>1, <3>1
  <2> HIDE DEF r
  <2> QED
    BY Zenon, <1>0, <2>1, <2>2 DEF Requests
<1>4. CASE Withdraw
  <2>1. PICK op \in scenario.withdrawals : spec' = [spec EXCEPT ![op] = 0] /\ issued' = issued
    BY Zenon, <1>4 DEF Withdraw, Ask
  <2>2. op \in {"restore", "create", "certs"}
    BY Zenon, <1>0, ScenariosAssumption DEF IsScenario, Operations
  <2>3. CASE op = "create"
    BY Zenon, <1>0, <2>1, <2>3 DEF Requests
  <2>4. CASE op = "restore"
    BY Zenon, <1>0, <2>1, <2>4 DEF Requests
  <2>5. CASE op = "certs"
    BY Zenon, <1>0, <2>1, <2>5 DEF Requests
  <2> QED
    BY Zenon, <2>2, <2>3, <2>4, <2>5
<1> QED
  BY Zenon, <1>1, <1>2, <1>3, <1>4 DEF User

LEMMA InitCInv ==
    ASSUME Init
    PROVE  CInv
<1>1. /\ issued.create = 0 /\ spec.create = 0 /\ status.create = 0 /\ status.createPhase = "none"
      /\ cache.spec = spec /\ cache.status = status
  BY ZenonT(60) DEF Init
<1>2. NoCreatePlan
  <2>1. \A m \in Machines : node[m].plan = StartPlan(m)
    BY Zenon DEF Init
  <2>2. \A m \in Machines : StartPlan(m).kind \in {"none", "desired"}
    BY DEF StartPlan, NoPlan
  <2> QED
    BY Zenon, <2>1, <2>2 DEF NoCreatePlan
<1>3. \A m \in Machines : life[m] = "absent" => m \in scenario.late
  BY Zenon DEF Init
<1> QED
  BY Zenon, <1>1, <1>2, <1>3 DEF CInv, CreationIsSound, PlansTaken, SnapshotOnEveryMachine

(* A pass: what it writes, it writes for the creation that is cached.      *)
LEMMA PassCInv ==
    ASSUME OneCreation, IInv, IInv', CInv, PassStep
    PROVE  CInv'
<1>0. /\ UNCHANGED <<scenario, spec, issued, cache, life, snapped>> /\ canBeInitNode' = canBeInitNode
      /\ canBeInitNode \subseteq Present \cap Etcd /\ Present \subseteq Machines
      /\ status' = status \/ (cache.spec = spec /\ cache.status = status /\ Creation(status'))
  BY Zenon, PassFacts DEF canBeInitNode, NotDeleting, Present
<1>1. CreationIsSound /\ PlansTaken /\ SnapshotOnEveryMachine
  BY Zenon DEF CInv
<1>2. ASSUME NEW m \in Machines, node'[m].plan.kind = "create"
      PROVE  \/ node'[m] = node[m]
             \/ node'[m].state = "pending" /\ creating("Started")
  <2>1. node'[m] = node[m] \/ (node'[m].state = "pending" /\ Permitted(m, node'[m].plan))
    BY Zenon, PassFacts DEF Writes
  <2>2. RestorePlan.kind = "restore"
    BY Zenon DEF RestorePlan
  <2> QED
    BY Zenon, <1>2, <2>1, <2>2 DEF Permitted, Starting
<1>3. NoCreatePlan /\ ~creating("Started") => NoCreatePlan'
  BY Zenon, <1>2 DEF NoCreatePlan
<1>4. \/ status'.create = status.create /\ status'.createPhase = status.createPhase
      \/ cache.spec = spec /\ cache.status = status /\ spec.create = 0 /\ status'.create = 0
         /\ status'.createPhase = "none"
      \/ cache.spec = spec /\ cache.status = status /\ spec.create # 0 /\ status'.create = spec.create
         /\ \/ status'.createPhase \in {"Started", "Failed"}
            \/ /\ status'.createPhase = "RestartCluster" /\ spec.create = status.create
               /\ \A m \in Present \cap Etcd : node[m].plan.kind = "create" /\ node[m].state = "applied"
            \/ /\ status'.createPhase = "Finished" /\ spec.create = status.create
               /\ status.createPhase = "RestartCluster"
  BY ZenonT(60), <1>0 DEF Creation, creating
<1>5. CreationIsSound'
  <2>1. ASSUME issued.create = 0
        PROVE  /\ status'.create = 0 /\ cache.status.create = 0 /\ cache.spec.create = 0
               /\ NoCreatePlan'
    <3>1. /\ status.create = 0 /\ cache.status.create = 0 /\ cache.spec.create = 0 /\ NoCreatePlan
      BY Zenon, <1>1, <2>1 DEF CreationIsSound
    <3>2. NoCreatePlan'
      BY Zenon, <1>3, <3>1 DEF creating
    <3> QED
      BY Zenon, <1>4, <3>1, <3>2
  <2>2. ASSUME spec.create # 0, status'.create = 0
        PROVE  cache.status.create = 0 /\ NoCreatePlan'
    <3>1. status.create = 0
      BY Zenon, <1>4, <2>2
    <3>2. cache.status.create = 0 /\ NoCreatePlan
      BY Zenon, <1>1, <2>2, <3>1 DEF CreationIsSound
    <3> QED
      BY Zenon, <1>3, <3>2 DEF creating
  <2> QED
    BY Zenon, <1>0, <1>1, <2>1, <2>2 DEF CreationIsSound
<1>6. PlansTaken'
  <2> SUFFICES ASSUME status'.create # 0, NEW m \in Machines, node'[m].plan.kind = "create",
                      node'[m].state = "applied"
               PROVE  snapped[m] = status'.create
    BY Zenon, <1>0 DEF PlansTaken
  <2>1. node'[m] = node[m]
    BY Zenon, <1>2
  <2>2. status.create # 0
    <3>1. CASE status.create = 0
      <4>1. spec.create # 0
        BY Zenon, <1>4, <3>1
      <4> QED
        BY Zenon, <1>1, <2>1, <3>1, <4>1 DEF CreationIsSound, NoCreatePlan
    <3> QED
      BY Zenon, <3>1
  <2>3. status'.create = status.create
    <3>1. status.create \in {0, 1} /\ spec.create \in {0, 1}
      BY Zenon, CreateNumbers
    <3> QED
      BY Zenon, <1>4, <2>2, <3>1
  <2> QED
    BY Zenon, <1>1, <2>1, <2>2, <2>3 DEF PlansTaken
<1>7. SnapshotOnEveryMachine'
  <2> SUFFICES ASSUME status'.createPhase \in {"RestartCluster", "Finished"},
                      NEW m \in canBeInitNode \ scenario.late
               PROVE  snapped[m] = status'.create
    BY Zenon, <1>0 DEF SnapshotOnEveryMachine
  <2>1. CASE status'.create = status.create /\ status'.createPhase = status.createPhase
    BY Zenon, <1>1, <2>1 DEF SnapshotOnEveryMachine
  <2>2. CASE /\ status'.create = status.create /\ status.create # 0
             /\ node[m].plan.kind = "create" /\ node[m].state = "applied"
    BY Zenon, <1>0, <1>1, <2>2 DEF PlansTaken
  <2>3. CASE status'.create = status.create /\ status.createPhase = "RestartCluster"
    BY Zenon, <1>1, <2>3 DEF SnapshotOnEveryMachine
  <2> QED
    BY Zenon, <1>0, <1>4, <2>1, <2>2, <2>3
<1> QED
  BY Zenon, <1>5, <1>6, <1>7 DEF CInv

(* A request, or the cache that catches up.                                *)
LEMMA RequestCInv ==
    ASSUME CInv, UNCHANGED <<scenario, status, life, node, snapped>>,
           \/ UNCHANGED <<spec, issued>>
           \/ cache' = cache /\ \/ spec'.create = spec.create /\ issued'.create = issued.create
                                \/ spec'.create = 0 /\ issued'.create = issued.create
                                \/ issued.create = 0 /\ issued'.create = 1 /\ spec'.create = 1,
           cache' = cache \/ (cache'.spec = spec /\ cache'.status = status)
    PROVE  CInv'
<1>0. canBeInitNode' = canBeInitNode /\ NoCreatePlan' = NoCreatePlan
  BY Zenon, SameScenario DEF canBeInitNode, NotDeleting, NoCreatePlan
<1>1. CreationIsSound /\ PlansTaken /\ SnapshotOnEveryMachine
  BY Zenon DEF CInv
<1>2. PlansTaken' /\ SnapshotOnEveryMachine'
  BY Zenon, <1>0, <1>1 DEF PlansTaken, SnapshotOnEveryMachine
<1>3. CreationIsSound'
  <2>1. CASE cache' = cache
    BY Zenon, <1>0, <1>1, <2>1 DEF CreationIsSound
  <2>2. CASE UNCHANGED <<spec, issued>> /\ cache'.spec = spec /\ cache'.status = status
    <3>1. issued.create = 0 => spec.create = 0
      BY Zenon, <1>1 DEF CreationIsSound
    <3> QED
      BY Zenon, <1>0, <1>1, <2>2, <3>1 DEF CreationIsSound
  <2> QED
    BY Zenon, <2>1, <2>2
<1> QED
  BY Zenon, <1>2, <1>3 DEF CInv

LEMMA AgentCInv ==
    ASSUME IInv, CInv, NEW n \in Machines, HostStep(n)
    PROVE  CInv'
<1>0. /\ UNCHANGED <<scenario, spec, issued, status, cache, life>> /\ node'[n].plan = node[n].plan
      /\ \A m \in Machines \ {n} : node'[m] = node[m]
      /\ \A m \in Machines : snapped'[m] = snapped[m] \/ (m = n /\ snapped'[m] = status.create)
      /\ node[n].plan.kind = "create" /\ node'[n].state = "applied" => snapped'[n] = status.create
  BY ZenonT(60) DEF HostStep, AgentStep
<1>1. CreationIsSound /\ PlansTaken /\ SnapshotOnEveryMachine
  BY Zenon DEF CInv
<1>2. \A m \in Machines : node'[m].plan = node[m].plan
  BY Zenon, <1>0
<1>3. NoCreatePlan => NoCreatePlan'
  BY Zenon, <1>2 DEF NoCreatePlan
<1>4. CreationIsSound'
  BY ZenonT(60), <1>0, <1>1, <1>3 DEF CreationIsSound
<1>5. PlansTaken'
  <2> SUFFICES ASSUME status.create # 0, NEW m \in Machines, node[m].plan.kind = "create",
                      node'[m].state = "applied"
               PROVE  snapped'[m] = status.create
    BY Zenon, <1>0, <1>2 DEF PlansTaken
  <2>1. CASE m = n
    BY Zenon, <1>0, <2>1
  <2>2. CASE m # n
    <3>1. node'[m] = node[m] /\ snapped'[m] = snapped[m]
      BY Zenon, <1>0, <2>2
    <3> QED
      BY Zenon, <1>1, <3>1 DEF PlansTaken
  <2> QED
    BY Zenon, <2>1, <2>2
<1>6. SnapshotOnEveryMachine'
  <2>1. canBeInitNode' = canBeInitNode /\ canBeInitNode \subseteq Machines
    BY Zenon, <1>0, SameScenario DEF canBeInitNode, NotDeleting
  <2> QED
    BY Zenon, <1>0, <1>1, <2>1 DEF SnapshotOnEveryMachine
<1> QED
  BY Zenon, <1>4, <1>5, <1>6 DEF CInv

(* Machines that come are late ones.                                       *)
LEMMA MachineCInv ==
    ASSUME CInv, NEW n \in Machines, UNCHANGED <<scenario, spec, issued, status, cache, snapped>>,
           \A m \in Machines \ {n} : life'[m] = life[m] /\ node'[m] = node[m],
           node'[n] = node[n] \/ node'[n].plan.kind = "none",
           life'[n] # "absent", life'[n] = "alive" => life[n] = "absent"
    PROVE  CInv'
<1>1. CreationIsSound /\ PlansTaken /\ SnapshotOnEveryMachine
  BY Zenon DEF CInv
<1>2. NoCreatePlan => NoCreatePlan'
  BY Zenon DEF NoCreatePlan
<1>3. CreationIsSound'
  BY ZenonT(60), <1>1, <1>2 DEF CreationIsSound
<1>4. PlansTaken'
  BY Zenon, <1>1 DEF PlansTaken
<1>5. SnapshotOnEveryMachine'
  <2>1. \A m \in canBeInitNode' \ scenario.late : m \in canBeInitNode
    <3>1. Etcd' = Etcd
      BY Zenon, SameScenario
    <3> QED
      BY Zenon, <1>1, <3>1 DEF canBeInitNode, NotDeleting, CreationIsSound
  <2> QED
    BY Zenon, <1>1, <2>1 DEF SnapshotOnEveryMachine
<1> QED
  BY Zenon, <1>3, <1>4, <1>5 DEF CInv

LEMMA NextCInv ==
    ASSUME OneCreation, IInv, IInv', CInv, [Next]_vars
    PROVE  CInv'
<1>0. life \in [Machines -> {"absent", "alive", "deleting", "lost", "gone"}]
  BY Zenon DEF IInv, TypeOK
<1>1. CASE UNCHANGED vars
  BY Zenon, <1>1, RequestCInv DEF vars
<1>2. CASE Process
  BY Zenon, <1>1, <1>2, ProcessStep, PassCInv
<1>3. CASE CapiSync \/ Quieten
  BY Zenon, <1>3, RequestCInv DEF CapiSync, Quieten, hosts
<1>4. CASE CacheSync
  BY Zenon, <1>4, RequestCInv DEF CacheSync, hosts
<1>5. CASE User
  <2>1. UNCHANGED <<scenario, status, cache, life, node, snapped>>
    BY Zenon, <1>5, RequestsOfUser
  <2> QED
    BY Zenon, <1>5, <2>1, UserCreates, RequestCInv
<1>6. ASSUME NEW m \in Machines, Arrive(m)
      PROVE  CInv'
  <2>1. /\ life[m] = "absent" /\ life'[m] = "alive" /\ \A n \in Machines \ {m} : life'[n] = life[n]
        /\ UNCHANGED <<scenario, spec, issued, status, cache, node, snapped>>
    BY Zenon, <1>0, <1>6 DEF Arrive, hosts
  <2> QED
    BY Zenon, <2>1, MachineCInv
<1>7. ASSUME NEW m \in Machines, Delete(m) \/ Lose(m)
      PROVE  CInv'
  <2>1. /\ life'[m] \in {"deleting", "lost"} /\ \A n \in Machines \ {m} : life'[n] = life[n]
        /\ UNCHANGED <<scenario, spec, issued, status, cache, node, snapped>>
    BY Zenon, <1>0, <1>7 DEF Delete, Lose, hosts
  <2> QED
    BY Zenon, <2>1, MachineCInv
<1>8. ASSUME NEW m \in Machines, Remove(m)
      PROVE  CInv'
  <2>1. /\ \A n \in Machines \ {m} : life'[n] = life[n] /\ node'[n] = node[n]
        /\ node'[m].plan.kind = "none" /\ life'[m] = "gone"
        /\ UNCHANGED <<scenario, spec, issued, status, cache, snapped>>
    BY Zenon, <1>8, RemoveEffect
  <2> QED
    BY Zenon, <2>1, MachineCInv
<1> QED
  BY Zenon, <1>1, <1>2, <1>3, <1>4, <1>5, <1>6, <1>7, <1>8, RunHost, FailHost, AgentCInv DEF Next

(* A creation whose plans have all been applied has taken a snapshot on    *)
(* every etcd machine the cluster began with, provided that it is the only *)
(* one: runEtcdSnapshotCreate leaves the Started phase when every etcd     *)
(* machine has applied its plan, and the plans are written after the       *)
(* creation is recorded.                                                   *)
THEOREM SnapshotsAreTaken ==
    ASSUME OneCreation
    PROVE  Spec => []SnapshotOnEveryMachine
<1>1. Init => IInv /\ CInv
  BY Zenon, InitIInv, InitCInv
<1>2. IInv /\ CInv /\ [Next]_vars => IInv' /\ CInv'
  BY Zenon, NextIInv, NextCInv
<1>3. CInv => SnapshotOnEveryMachine
  BY Zenon DEF CInv
<1> QED
  BY <1>1, <1>2, <1>3, PTL DEF Spec

-----------------------------------------------------------------------------
(* The data of a restored cluster.                                         *)

Later == AfterPods \cup {"PostRestorePodCleanup"}

(* What a plan that is applied says about the host.                        *)
DataIsSound ==
    /\ up \subseteq joinURL
    /\ \A m \in Machines : node[m].plan.kind \in Starting /\ node[m].state = "applied" => m \in joinURL
    /\ \A m \in Etcd :
         /\ node[m].plan.kind = "none" => db[m] = Wiped
         /\ node[m].plan.kind = "stop" /\ node[m].state = "applied" => db[m] = Wiped
         /\ node[m].plan.kind = "restore" /\ node[m].state = "applied" => db[m] = node[m].plan.for

(* The cached phase is at most one behind, as far as the restoration goes. *)
PhasesFollow ==
    /\ status.phase \in Later => cache.status.phase \in Later \cup {"Restore"}
    /\ status.phase \in AfterPods => cache.status.phase \in Later
    /\ status.phase \in Later /\ cache.status.phase \in AfterPods => status.phase \in AfterPods
    /\ status.phase = "none" => cache.status.phase = "none"
    /\ status.phase = "InitialRestartCluster" =>
          cache.status.phase \in {"PostRestorePodCleanup", "InitialRestartCluster"}

(* In the Restore phase etcd has the data of the snapshot, or none.        *)
RestoreData ==
    status.phase = "Restore" => \A m \in Machines :
        /\ node[m].plan.kind = "restore" => node[m].plan.for = status.restore
        /\ m \in Etcd => db[m] \in {Wiped, status.restore}

(* A machine that elections leave the label to.                            *)
Keeper(c) == c \in Etcd /\ labels = {c} /\ Fixed \in {None, c}
Held(s) == s.phase \in AfterPods \cup {"none"} \/ (s.phase = "Started" /\ s.initialized)
LabelHeld == \A s \in {status, cache.status} : Held(s) => \E c \in joinURL : Keeper(c)

(* The machine that was restored is the one that the others join.          *)
Served(c) ==
    /\ Keeper(c) /\ db[c] = status.restore /\ node[c].plan.kind # "stop"
    /\ \A m \in Etcd : db[m] \in {Wiped, status.restore} /\ (m \in up => db[m] = status.restore)
    /\ \A m \in Machines :
         node[m].plan.kind \in Starting => node[m].plan.join = IF m = c THEN Self ELSE c
DataServed == status.phase \in Later => \E c \in Machines : Served(c)

DInv == DataIsSound /\ PhasesFollow /\ RestoreData /\ LabelHeld /\ DataServed

LEMMA NotWiped ==
    ASSUME IInv
    PROVE  status.restore # Wiped
<1> DEFINE n == Len(Snapshots)
<1>1. status.restore \in Restores \cup {0}
  BY Zenon DEF IInv, TypeOK, Statuses
<1>2. Snapshots \in Seq(Snapshot)
  BY ZenonT(60), ScenariosAssumption DEF IInv, TypeOK, IsScenario, Snapshots
<1>3. Restores = 1 .. n /\ n \in Nat
  BY <1>2 DEF Restores
<1>4. Wiped = n + 1 + 1
  BY Zenon DEF Wiped, Fresh
<1> HIDE DEF n
<1> QED
  BY <1>1, <1>3, <1>4

(* A keeper that has a join URL is what every election finds.              *)
LEMMA KeeperStays ==
    ASSUME IInv, EnvironmentStays, NEW c \in joinURL, Keeper(c)
    PROVE  findInitNode.labels = labels /\ electInitNode.labels = labels
<1> DEFINE f == findInitNode
<1>0. c \in Etcd /\ labels = {c} /\ Fixed \in {None, c} /\ c \in Machines
  BY Zenon DEF Keeper, IInv, TypeOK
<1>1. c \in Present /\ life[c] = "alive" /\ c # None
  <2>1. c \in Present /\ c # None
    BY Zenon, <1>0, IInvFacts
  <2> QED
    BY Zenon, <1>0, <2>1 DEF EnvironmentStays, Present
<1>2. c \in canBeInitNode
  BY Zenon, <1>0, <1>1 DEF canBeInitNode, NotDeleting
<1>3. f.labels = labels /\ ~f.err
  <2>1. CASE Fixed # None
    <3>1. f = [found |-> Fixed, err |-> FALSE, labels |-> labels]
      BY Zenon, <1>0, <1>1, <2>1 DEF findInitNode, findAndDesignateFixedInitNode
    <3> HIDE DEF f
    <3> QED
      BY Zenon, <3>1
  <2>2. CASE Fixed = None
    <3> DEFINE suitable == labels \cap canBeInitNode
               init == CHOOSE n \in suitable : TRUE
               late == init \notin joinURL /\ canBeInitNode \cap joinURL # {}
    <3>1. Single(labels) /\ suitable = {c} /\ suitable # {}
      BY Zenon, <1>0, <1>2 DEF Single
    <3>2. init = c
      BY Zenon, <3>1
    <3>3. f = [found |-> init, labels |-> labels, err |-> late]
      BY Zenon, <2>2, <3>1 DEF findInitNode
    <3>4. late = FALSE
      BY Zenon, <3>2
    <3> HIDE DEF f, init, late
    <3> QED
      BY Zenon, <3>3, <3>4
  <2> QED
    BY Zenon, <2>1, <2>2
<1>4. electInitNode.labels = f.labels
  <2> DEFINE other == IF labels # {} THEN {}
                      ELSE IF canBeInitNode \cap joinURL # {} THEN {Min(canBeInitNode \cap joinURL)}
                      ELSE IF canBeInitNode # {} THEN {Min(canBeInitNode)}
                      ELSE {}
  <2>1. electInitNode = IF ~f.err \/ Fixed # None
                        THEN [init |-> IF f.err THEN None ELSE f.found, labels |-> f.labels]
                        ELSE [init |-> None, labels |-> other]
    BY Zenon DEF electInitNode
  <2> HIDE DEF f, other
  <2> QED
    BY Zenon, <1>3, <2>1
<1> QED
  BY Zenon, <1>3, <1>4

LEMMA InitDInv ==
    ASSUME Init
    PROVE  DInv
<1>0. /\ status.phase = "none" /\ cache.status = status
      /\ labels = {FirstInitNode} /\ joinURL = Early /\ up = Early
      /\ FirstInitNode \in Etcd \cap Early /\ Etcd \subseteq Machines
  BY ZenonT(60), ScenarioFacts DEF Init
<1>1. DataIsSound
  <2>1. ASSUME NEW m \in Machines
        PROVE  /\ node[m].plan = StartPlan(m)
               /\ m \in Etcd => db[m] = IF m \in Early THEN Original ELSE Wiped
    BY Zenon DEF Init
  <2>2. ASSUME NEW m \in Machines
        PROVE  IF m \in Early THEN node[m].plan.kind = "desired" ELSE node[m].plan.kind = "none"
    <3>1. CASE m \notin Early
      <4>1. StartPlan(m) = NoPlan
        BY Zenon, <3>1 DEF StartPlan
      <4>2. NoPlan.kind = "none"
        BY Zenon DEF NoPlan
      <4> QED
        BY Zenon, <2>1, <3>1, <4>1, <4>2
    <3>2. CASE m \in Early
      <4>1. StartPlan(m).kind = "desired"
        BY <3>2 DEF StartPlan, NoPlan
      <4> QED
        BY Zenon, <2>1, <3>2, <4>1
    <3> QED
      BY Zenon, <3>1, <3>2
  <2>3. \A m \in Etcd : node[m].plan.kind = "none" => db[m] = Wiped
    BY Zenon, <1>0, <2>1, <2>2
  <2>4. \A m \in Machines : node[m].plan.kind \in Starting => m \in joinURL
    BY Zenon, <1>0, <2>2 DEF Starting
  <2> QED
    BY Zenon, <1>0, <2>2, <2>3, <2>4 DEF DataIsSound
<1>2. Keeper(FirstInitNode)
  BY Zenon, <1>0 DEF Keeper, FirstInitNode
<1>3. LabelHeld
  BY Zenon, <1>0, <1>2 DEF LabelHeld
<1> QED
  BY Zenon, <1>0, <1>1, <1>3 DEF DInv, PhasesFollow, RestoreData, DataServed, Later, AfterPods

(* A pass.                                                                 *)
LEMMA PassPhases ==
    ASSUME IInv, EnvironmentStays, PhasesFollow, PassStep
    PROVE  PhasesFollow'
<1>0. UNCHANGED cache
  BY Zenon, PassFacts
<1>1. CASE status' = status
  BY Zenon, <1>0, <1>1 DEF PhasesFollow
<1>2. CASE status'.phase = cache.status.phase
  BY Zenon, <1>0, <1>2 DEF PhasesFollow, Later, AfterPods
<1>3. CASE Progresses(status')
  <2>1. ~(cache.spec.restore = 0 /\ cache.status.restore # 0)
    BY Zenon DEF EnvironmentStays
  <2>2. CASE status'.phase \in {"Started", "Shutdown", "Restore"}
    BY Zenon, <1>0, <2>2 DEF PhasesFollow, Later, AfterPods
  <2>3. CASE status'.phase = "PostRestorePodCleanup" /\ cache.status.phase = "Restore"
    BY Zenon, <1>0, <2>3 DEF PhasesFollow, Later, AfterPods
  <2>4. CASE status'.phase = "InitialRestartCluster" /\ cache.status.phase = "PostRestorePodCleanup"
    BY Zenon, <1>0, <2>4 DEF PhasesFollow, Later, AfterPods
  <2>5. CASE status'.phase \in AfterPods \ {"InitialRestartCluster"} /\ cache.status.phase \in AfterPods
    BY Zenon, <1>0, <2>5 DEF PhasesFollow, Later, AfterPods
  <2> QED
    BY ZenonT(60), <1>3, <2>1, <2>2, <2>3, <2>4, <2>5 DEF Progresses, restoring
<1> QED
  BY Zenon, <1>1, <1>2, <1>3, PassFacts DEF Keeps, Initializes

LEMMA PassData ==
    ASSUME IInv, DataIsSound, PassStep
    PROVE  DataIsSound'
<1>0. UNCHANGED <<joinURL, up, db>> /\ Etcd' = Etcd /\ Wiped' = Wiped /\ Etcd \subseteq Machines
  <2>1. UNCHANGED <<scenario, joinURL, up, db>> /\ Etcd' = Etcd
    BY Zenon, PassFacts
  <2> QED
    BY Zenon, <2>1, SameScenario, ScenarioFacts DEF Wiped, Fresh, IInv, TypeOK
<1>1. ASSUME NEW m \in Machines
      PROVE  node'[m] = node[m] \/ (node'[m].state = "pending" /\ node'[m].plan.kind # "none")
  <2>1. node'[m] = node[m] \/ (node'[m].state = "pending" /\ Permitted(m, node'[m].plan))
    BY Zenon, PassFacts DEF Writes
  <2>2. RestorePlan.kind = "restore"
    BY Zenon DEF RestorePlan
  <2> QED
    BY Zenon, <2>1, <2>2 DEF Permitted, Starting
<1> QED
  BY ZenonT(60), <1>0, <1>1 DEF DataIsSound

LEMMA PassRestoreData ==
    ASSUME IInv, RInv, DataIsSound, RestoreData, PassStep
    PROVE  RestoreData'
<1>0. UNCHANGED <<cache, db>> /\ Etcd' = Etcd /\ Wiped' = Wiped /\ Writes
  <2>1. UNCHANGED <<scenario, cache, db>> /\ Etcd' = Etcd /\ Writes
    BY Zenon, PassFacts
  <2> QED
    BY Zenon, <2>1, SameScenario DEF Wiped, Fresh
<1>1. SUFFICES ASSUME status'.phase = "Restore", NEW m \in Machines
               PROVE  /\ node'[m].plan.kind = "restore" => node'[m].plan.for = status'.restore
                      /\ m \in Etcd => db[m] \in {Wiped, status'.restore}
  BY Zenon, <1>0 DEF RestoreData
<1>2. CASE status.phase = "Restore" /\ status'.restore = status.restore
  <2>1. ASSUME node'[m].plan.kind = "restore", node'[m] # node[m]
        PROVE  node'[m].plan.for = status.restore
    <3>1. Permitted(m, node'[m].plan)
      BY Zenon, <1>0, <2>1 DEF Writes
    <3>2. restoring("Restore") /\ node'[m].plan = RestorePlan
      BY Zenon, <2>1, <3>1 DEF Permitted, Starting
    <3>3. cache.status.restore = status.restore
      BY Zenon, <1>2, <3>2 DEF RInv, RestoreIsHalted, restoring
    <3>4. RestorePlan.for = cache.status.restore
      BY Zenon DEF RestorePlan
    <3> QED
      BY Zenon, <3>2, <3>3, <3>4
  <2> QED
    BY Zenon, <1>2, <2>1 DEF RestoreData
<1>3. CASE cache.status.phase = "Shutdown" /\ UNCHANGED node /\ Progresses(status')
  <2>1. \A n \in Present :
          node[n].plan = NoPlan \/ (node[n].plan.kind = "stop" /\ node[n].state = "applied")
    BY Zenon, <1>1, <1>3 DEF Progresses, AfterPods, restoring
  <2>2. m \notin Present => node[m].plan = NoPlan
    BY Zenon DEF IInv, HostsAreSound
  <2>3. NoPlan.kind = "none"
    BY Zenon DEF NoPlan
  <2> QED
    BY Zenon, <1>3, <2>1, <2>2, <2>3 DEF DataIsSound
<1>4. CASE cache.status = status /\ UNCHANGED node /\ Progresses(status')
  <2>1. cache.status.phase = "Shutdown"
    BY Zenon, <1>1, <1>4 DEF Progresses, AfterPods, restoring
  <2> QED
    BY Zenon, <1>3, <1>4, <2>1
<1>5. CASE cache.status = status /\ (Keeps(status') \/ Initializes(status'))
  BY Zenon, <1>1, <1>2, <1>5 DEF Keeps, Initializes
<1> QED
  BY ZenonT(60), <1>1, <1>2, <1>4, <1>5, PassFacts

(* A label comes to be held when the pods have been cleaned up.            *)
LEMMA PassHeld ==
    ASSUME IInv, EnvironmentStays, PassStep, Held(status'), ~Held(status), ~Held(cache.status)
    PROVE  /\ cache.status = status /\ labels' = labels
           /\ cache.status.phase = "PostRestorePodCleanup" /\ LabelStarted
<1>0. cache.status.phase \in Phases
  BY Zenon, CacheType DEF IInv, Statuses
<1>1. /\ cache.status = status /\ labels' = labels
      /\ Keeps(status') \/ Initializes(status') \/ (UNCHANGED node /\ Progresses(status'))
  BY Zenon, PassFacts
<1>2. CASE Keeps(status')
  BY Zenon, <1>2 DEF Keeps, Held
<1>3. CASE Initializes(status')
  BY Zenon, <1>3 DEF Initializes, Held, Stopping
<1>4. CASE Progresses(status')
  <2>1. ~(cache.spec.restore = 0 /\ cache.status.restore # 0)
    BY Zenon DEF EnvironmentStays
  <2>2. CASE status'.phase = "Started" /\ status'.initialized = cache.status.initialized
    <3>1. cache.status.initialized
      BY Zenon, <2>2 DEF Held, AfterPods
    <3>2. cache.status.phase \notin Uninitialized
      BY Zenon, <3>1 DEF IInv, Undisturbed, StatusIsSound
    <3> QED
      BY Zenon, <1>0, <3>1, <3>2 DEF Held, Phases, Uninitialized, AfterPods
  <2>3. CASE status'.phase \in Uninitialized
    BY Zenon, <2>3 DEF Held, AfterPods, Uninitialized
  <2>4. CASE cache.status.phase = "PostRestorePodCleanup" /\ LabelStarted
    BY Zenon, <1>1, <2>4
  <2>5. CASE cache.status.phase \in AfterPods
    BY Zenon, <2>5 DEF Held
  <2> QED
    BY ZenonT(60), <1>4, <2>1, <2>2, <2>3, <2>4, <2>5 DEF Progresses, restoring, Uninitialized
<1> QED
  BY Zenon, <1>1, <1>2, <1>3, <1>4

(* A label that is held stays.                                             *)
LEMMA PassLabels ==
    ASSUME IInv, EnvironmentStays, DataIsSound, PhasesFollow, LabelHeld, DataServed, PassStep
    PROVE  LabelHeld' /\ (Held(status) \/ Held(cache.status) => labels' = labels)
<1>0. UNCHANGED <<scenario, cache, joinURL>> /\ Etcd' = Etcd /\ Fixed' = Fixed
  BY Zenon, PassFacts
<1>1. \A c : labels' = labels => Keeper(c)' = Keeper(c)
  BY Zenon, <1>0 DEF Keeper
<1>2. ASSUME Held(status) \/ Held(cache.status)
      PROVE  labels' = labels /\ \E c \in joinURL : Keeper(c)
  <2>1. PICK c \in joinURL : Keeper(c)
    BY Zenon, <1>2 DEF LabelHeld
  <2>2. cache.status.phase \notin {"Shutdown", "Restore"}
    <3>1. status.initialized => cache.status.phase \notin Uninitialized
      BY Zenon DEF IInv, Undisturbed
    <3> QED
      BY ZenonT(60), <1>2, <3>1 DEF Held, PhasesFollow, Later, AfterPods, Uninitialized
  <2>3. labels' = labels \/ labels' = findInitNode.labels \/ labels' = electInitNode.labels
    BY Zenon, <2>2, PassFacts DEF Elected
  <2> QED
    BY Zenon, <2>1, <2>3, KeeperStays
<1>3. ASSUME Held(status'), ~Held(status), ~Held(cache.status)
      PROVE  \E c \in joinURL : Keeper(c)'
  <2>1. /\ cache.status = status /\ labels' = labels
        /\ cache.status.phase = "PostRestorePodCleanup" /\ LabelStarted
    BY Zenon, <1>3, PassHeld
  <2>2. PICK c \in Machines : Served(c)
    BY Zenon, <2>1 DEF DataServed, Later
  <2>3. Keeper(c) /\ c \in labels
    BY Zenon, <2>2 DEF Served, Keeper
  <2>4. c \in joinURL
    BY Zenon, <2>1, <2>3 DEF LabelStarted, DataIsSound
  <2> QED
    BY Zenon, <1>1, <2>1, <2>3, <2>4
<1>4. LabelHeld'
  <2>1. ASSUME Held(status) \/ Held(cache.status)
        PROVE  \E c \in joinURL : Keeper(c)'
    BY Zenon, <1>1, <1>2, <2>1
  <2> SUFFICES ASSUME Held(status') \/ Held(cache.status)
               PROVE  \E c \in joinURL : Keeper(c)'
    BY Zenon, <1>0 DEF LabelHeld
  <2> QED
    BY Zenon, <1>3, <2>1
<1> QED
  BY Zenon, <1>2, <1>4

LEMMA PassServed ==
    ASSUME FixedHasSnapshots, IInv, RInv, DInv, PassStep
    PROVE  DataServed'
<1>0. /\ UNCHANGED <<scenario, cache, joinURL, up, db>> /\ Etcd' = Etcd /\ Fixed' = Fixed /\ Writes
      /\ Wiped' = Wiped /\ Etcd \subseteq Machines
  <2>1. UNCHANGED <<scenario, cache, joinURL, up, db>> /\ Etcd' = Etcd /\ Fixed' = Fixed /\ Writes
    BY Zenon, PassFacts
  <2> QED
    BY Zenon, <2>1, SameScenario, ScenarioFacts DEF Wiped, Fresh, IInv, TypeOK
<1>1. /\ EnvironmentStays /\ RestoreIsHalted /\ RestoredOnce
      /\ DataIsSound /\ PhasesFollow /\ RestoreData /\ LabelHeld /\ DataServed
  BY Zenon DEF RInv, DInv
<1>2. SUFFICES ASSUME status'.phase \in Later
               PROVE  \E c \in Machines : Served(c)'
  BY Zenon DEF DataServed
<1>3. ~(cache.spec.restore = 0 /\ cache.status.restore # 0)
  BY Zenon, <1>1 DEF EnvironmentStays
<1>4. CASE status.phase \in Later
  <2>1. PICK c \in Machines : Served(c)
    BY Zenon, <1>1, <1>4 DEF DataServed
  <2>2. labels = {c} /\ Keeper(c)
    BY Zenon, <2>1 DEF Served, Keeper
  <2>3. cache.status.phase \in Later \cup {"Restore"}
    BY Zenon, <1>1, <1>4 DEF PhasesFollow
  <2>4. labels' = labels
    <3>1. CASE Held(cache.status)
      BY Zenon, <1>1, <3>1, PassLabels
    <3>2. CASE cache.status.phase = "PostRestorePodCleanup" /\ labels' # labels
      <4>1. Elected(labels') /\ LabelStarted
        BY Zenon, <3>2, PassFacts DEF Elected
      <4>2. c \in joinURL
        BY Zenon, <1>1, <2>2, <4>1 DEF LabelStarted, DataIsSound
      <4>3. labels' = findInitNode.labels \/ labels' = electInitNode.labels
        BY Zenon, <3>2, <4>1 DEF Elected
      <4> QED
        BY Zenon, <1>1, <2>2, <4>2, <4>3, KeeperStays
    <3>3. CASE cache.status.phase = "Restore" /\ labels' # labels
      <4>1. /\ restoring("Restore") /\ labels' = runEtcdRestoreInitNodeElection.labels
            /\ runEtcdRestoreInitNodeElection.init = None
        BY Zenon, <3>3, PassFacts DEF Elected
      <4>2. status.phase \notin Stopping
        BY Zenon, <1>4 DEF Later, AfterPods, Stopping
      <4>3. \E m \in Machines : Chosen(m)
        BY Zenon, <1>1, <3>3, <4>2 DEF RestoredOnce
      <4> QED
        BY Zenon, <4>1, <4>3, ChosenKeepsLabel
    <3> QED
      BY Zenon, <2>3, <3>1, <3>2, <3>3 DEF Later, Held
  <2>5. status'.restore = status.restore
    <3>1. CASE cache.status = status /\ (Keeps(status') \/ Initializes(status'))
      BY Zenon, <3>1 DEF Keeps, Initializes
    <3>2. CASE cache.status = status /\ Progresses(status')
      BY ZenonT(60), <1>2, <1>3, <3>2 DEF Progresses, Later, AfterPods
    <3> QED
      BY ZenonT(60), <3>1, <3>2, PassFacts
  <2>6. ASSUME NEW m \in Machines, node'[m] # node[m]
        PROVE  /\ node'[m].plan.kind # "stop"
               /\ node'[m].plan.kind \in Starting => node'[m].plan.join = IF m = c THEN Self ELSE c
    <3>1. Permitted(m, node'[m].plan)
      BY Zenon, <1>0, <2>6 DEF Writes
    <3>2. cache.status.phase # "Shutdown"
      BY Zenon, <2>3 DEF Later, AfterPods
    <3>3. RestorePlan.kind = "restore"
      BY Zenon DEF RestorePlan
    <3>4. node'[m].plan.kind # "stop"
      BY Zenon, <3>1, <3>2, <3>3 DEF Permitted, Starting
    <3>5. ASSUME node'[m].plan.kind \in Starting
          PROVE  Joins(m, node'[m].plan)
      BY Zenon, <3>1, <3>3, <3>5 DEF Permitted, Starting
    <3> QED
      BY Zenon, <2>2, <3>4, <3>5 DEF Joins
  <2>7. Keeper(c)'
    BY Zenon, <1>0, <2>2, <2>4 DEF Keeper
  <2>8. node'[c].plan.kind # "stop"
    BY Zenon, <2>1, <2>6 DEF Served
  <2>9. \A m \in Machines :
          node'[m].plan.kind \in Starting => node'[m].plan.join = IF m = c THEN Self ELSE c
    BY Zenon, <2>1, <2>6 DEF Served
  <2> QED
    BY ZenonT(60), <1>0, <2>1, <2>5, <2>7, <2>8, <2>9 DEF Served
<1>5. CASE status.phase \notin Later
  <2>1. cache.status = status /\ labels' = labels /\ UNCHANGED node /\ Progresses(status')
    <3>1. /\ cache.status = status /\ labels' = labels
          /\ Keeps(status') \/ Initializes(status') \/ (UNCHANGED node /\ Progresses(status'))
      BY ZenonT(60), <1>2, <1>5, PassFacts
    <3> QED
      BY Zenon, <1>2, <1>5, <3>1 DEF Keeps, Initializes
  <2>2. PICK c \in Present :
          /\ restoring("Restore") /\ labels = {c} /\ runEtcdRestoreInitNodeElection.init = c
          /\ Settled(c, RestorePlan) /\ status'.restore = cache.status.restore
    BY ZenonT(60), <1>2, <1>3, <1>5, <2>1 DEF Progresses, Later, AfterPods, restoring
  <2>3. status.phase = "Restore" /\ cache.status.phase = "Restore" /\ c \in Machines
    BY Zenon, <2>1, <2>2 DEF restoring, Present
  <2>4. Chosen(c) /\ c \in Etcd
    BY Zenon, <2>2, <2>3, ElectedIsChosen, ChosenIsEtcd
  <2>5. Fixed \in {None, c}
    <3>1. cache.status.restore \in DOMAIN scenario.snapshots /\ scenario \in Scenarios
      BY Zenon, <2>3, InRestores DEF Restores, Snapshots, IInv, TypeOK
    <3>2. CASE Snapshots[cache.status.restore].kind = "local"
      <4>1. Snapshots[cache.status.restore].on = c
        BY Zenon, <2>4, <3>2 DEF Chosen
      <4> QED
        BY Zenon, <3>1, <3>2, <4>1 DEF FixedHasSnapshots, Snapshots, Fixed
    <3>3. CASE Snapshots[cache.status.restore].kind # "local"
      BY Zenon, <2>4, <3>3 DEF Chosen
    <3> QED
      BY Zenon, <3>2, <3>3
  <2>6. Keeper(c)'
    BY Zenon, <1>0, <2>1, <2>2, <2>4, <2>5 DEF Keeper
  <2>7. node[c].plan.kind = "restore" /\ db[c] = status'.restore
    <3>1. RestorePlan.kind = "restore" /\ RestorePlan.for = cache.status.restore
      BY Zenon DEF RestorePlan
    <3> QED
      BY Zenon, <1>1, <2>2, <2>4, <3>1 DEF Settled, DataIsSound
  <2>8. Halted
    BY Zenon, <1>1, <2>3 DEF RestoreIsHalted
  <2>9. \A m \in Etcd : db[m] \in {Wiped, status'.restore} /\ m \notin up
    BY Zenon, <1>0, <1>1, <2>1, <2>2, <2>3, <2>8 DEF RestoreData, Halted
  <2>10. \A m \in Machines : node[m].plan.kind \notin Starting
    BY Zenon, <2>8 DEF Halted, Starting
  <2> QED
    BY ZenonT(60), <1>0, <2>1, <2>3, <2>6, <2>7, <2>9, <2>10 DEF Served
<1> QED
  BY Zenon, <1>4, <1>5

LEMMA PassDInv ==
    ASSUME FixedHasSnapshots, IInv, RInv, DInv, PassStep
    PROVE  DInv'
<1>1. DataIsSound' /\ PhasesFollow' /\ RestoreData' /\ LabelHeld'
  BY Zenon, PassData, PassPhases, PassRestoreData, PassLabels DEF RInv, DInv
<1> QED
  BY Zenon, <1>1, PassServed DEF DInv

LEMMA CacheSyncDInv ==
    ASSUME IInv, DInv, CacheSync
    PROVE  DInv'
<1>0. /\ UNCHANGED <<scenario, status, labels, node, joinURL, up, db>>
      /\ cache'.status = status
  BY Zenon DEF CacheSync, hosts
<1>1. Etcd' = Etcd /\ Fixed' = Fixed /\ Wiped' = Wiped
  BY Zenon, <1>0, SameScenario DEF Wiped, Fresh
<1>2. \A c : Keeper(c)' = Keeper(c)
  BY Zenon, <1>0, <1>1 DEF Keeper
<1>3. DataIsSound' /\ RestoreData'
  BY Zenon, <1>0, <1>1 DEF DInv, DataIsSound, RestoreData
<1>4. PhasesFollow'
  BY Zenon, <1>0 DEF PhasesFollow, Later, AfterPods
<1>5. LabelHeld'
  BY Zenon, <1>0, <1>2 DEF DInv, LabelHeld
<1>6. DataServed'
  BY Zenon, <1>0, <1>1, <1>2 DEF DInv, DataServed, Served
<1> QED
  BY Zenon, <1>3, <1>4, <1>5, <1>6 DEF DInv

(* A step of the environment that starts nothing.                          *)
LEMMA FrameDInv ==
    ASSUME DInv, UNCHANGED <<scenario, status, cache, labels, node, joinURL, db>>, up' \subseteq up
    PROVE  DInv'
<1>1. Etcd' = Etcd /\ Fixed' = Fixed /\ Wiped' = Wiped
  BY Zenon, SameScenario DEF Wiped, Fresh
<1>2. \A c : Keeper(c)' = Keeper(c)
  BY Zenon, <1>1 DEF Keeper
<1>3. DataIsSound' /\ RestoreData'
  BY Zenon, <1>1 DEF DInv, DataIsSound, RestoreData
<1>4. PhasesFollow' /\ LabelHeld'
  BY Zenon, <1>2 DEF DInv, PhasesFollow, LabelHeld
<1>5. DataServed'
  BY Zenon, <1>1, <1>2 DEF DInv, DataServed, Served
<1> QED
  BY Zenon, <1>3, <1>4, <1>5 DEF DInv

LEMMA RemoveDInv ==
    ASSUME IInv, DInv, NEW n \in Machines, n \notin Etcd, UNCHANGED <<scenario, status, cache, db>>,
           labels' = labels \ {n}, up' = up \ {n}, joinURL' = joinURL \ {n},
           \A m \in Machines \ {n} : node'[m] = node[m], node'[n].plan.kind = "none"
    PROVE  DInv'
<1>1. Etcd' = Etcd /\ Fixed' = Fixed /\ Wiped' = Wiped /\ Etcd \subseteq Machines
  BY Zenon, SameScenario, ScenarioFacts DEF Wiped, Fresh, IInv, TypeOK
<1>2. \A c : Keeper(c) => Keeper(c)' /\ c # n
  BY Zenon, <1>1 DEF Keeper
<1>3. \A m \in Machines : node'[m] = node[m] \/ node'[m].plan.kind = "none"
  BY Zenon
<1>4. \A m \in Etcd : node'[m] = node[m]
  BY Zenon, <1>1
<1>5. DataIsSound'
  BY ZenonT(60), <1>1, <1>4 DEF DInv, DataIsSound, Starting
<1>6. RestoreData'
  BY Zenon, <1>1, <1>3 DEF DInv, RestoreData
<1>7. PhasesFollow' /\ LabelHeld'
  BY Zenon, <1>2 DEF DInv, PhasesFollow, LabelHeld
<1>8. DataServed'
  <2> SUFFICES ASSUME status.phase \in Later
               PROVE  \E c \in Machines : Served(c)'
    BY Zenon DEF DataServed
  <2>1. PICK c \in Machines : Served(c)
    BY Zenon DEF DInv, DataServed
  <2>2. Keeper(c)' /\ c # n
    BY Zenon, <1>2, <2>1 DEF Served
  <2>3. \A m \in Machines :
          node'[m].plan.kind \in Starting => node'[m].plan.join = IF m = c THEN Self ELSE c
    BY Zenon, <1>3, <2>1 DEF Served, Starting
  <2> QED
    BY ZenonT(60), <1>1, <2>1, <2>2, <2>3 DEF Served
<1> QED
  BY Zenon, <1>5, <1>6, <1>7, <1>8 DEF DInv

(* Machines that start join the one that was restored, and get its data.   *)
LEMMA AgentDInv ==
    ASSUME IInv, RInv, DInv, NEW n \in Machines, HostStep(n)
    PROVE  DInv'
<1> DEFINE kind == node[n].plan.kind
<1>0. /\ UNCHANGED <<scenario, status, cache, labels>>
      /\ node[n].state = "pending" /\ kind # "none" /\ node'[n].plan = node[n].plan
      /\ \A m \in Machines \ {n} : node'[m] = node[m] /\ db'[m] = db[m]
  BY ZenonT(60) DEF HostStep, AgentStep
<1>1. /\ Etcd' = Etcd /\ Fixed' = Fixed /\ Wiped' = Wiped /\ Etcd \subseteq Machines
      /\ up \subseteq Machines /\ joinURL \subseteq Machines /\ Self \notin Machines
  BY Zenon, <1>0, SameScenario, ScenarioFacts DEF Wiped, Fresh, IInv, TypeOK
<1>2. \A m \in Machines : node'[m].plan = node[m].plan
  BY Zenon, <1>0
<1>3. DataIsSound /\ PhasesFollow /\ RestoreData /\ LabelHeld /\ DataServed
  BY Zenon DEF DInv
<1>4. \A c : Keeper(c)' = Keeper(c)
  BY Zenon, <1>0, <1>1 DEF Keeper
<1>5. /\ up' = up \/ (up' = up \cup {n} /\ joinURL' = joinURL \cup {n}) \/ up' = up \ {n}
      /\ joinURL \subseteq joinURL'
      /\ kind \in Starting /\ node'[n].state = "applied" => n \in up'
  BY ZenonT(60) DEF HostStep, HostStarts, HostStops, Starting
<1>6. DataIsSound'
  <2>1. up' \subseteq joinURL'
    BY Zenon, <1>3, <1>5 DEF DataIsSound
  <2>2. ASSUME NEW m \in Machines, node'[m].plan.kind \in Starting, node'[m].state = "applied"
        PROVE  m \in joinURL'
    <3>1. CASE m = n
      BY Zenon, <1>0, <1>5, <2>1, <2>2, <3>1
    <3>2. CASE m # n
      BY Zenon, <1>0, <1>3, <1>5, <2>2, <3>2 DEF DataIsSound
    <3> QED
      BY Zenon, <3>1, <3>2
  <2>3. ASSUME n \in Etcd, kind \in {"stop", "restore"}, node'[n].state = "applied"
        PROVE  db'[n] = IF kind = "stop" THEN Wiped ELSE node[n].plan.for
    BY ZenonT(60), <2>3 DEF HostStep, HostStops, Starting
  <2>4. ASSUME NEW m \in Etcd
        PROVE  /\ node'[m].plan.kind = "none" => db'[m] = Wiped
               /\ node'[m].plan.kind = "stop" /\ node'[m].state = "applied" => db'[m] = Wiped
               /\ node'[m].plan.kind = "restore" /\ node'[m].state = "applied" => db'[m] = node'[m].plan.for
    <3>1. CASE m = n
      BY Zenon, <1>0, <2>3, <3>1
    <3>2. CASE m # n
      BY Zenon, <1>0, <1>1, <1>3, <3>2 DEF DataIsSound
    <3> QED
      BY Zenon, <3>1, <3>2
  <2> QED
    BY Zenon, <1>1, <2>1, <2>2, <2>4 DEF DataIsSound
<1>7. PhasesFollow' /\ LabelHeld'
  BY Zenon, <1>0, <1>3, <1>4, <1>5 DEF PhasesFollow, LabelHeld
<1>8. RestoreData'
  <2> SUFFICES ASSUME status.phase = "Restore", NEW m \in Machines
               PROVE  /\ node[m].plan.kind = "restore" => node[m].plan.for = status.restore
                      /\ m \in Etcd => db'[m] \in {Wiped, status.restore}
    BY Zenon, <1>0, <1>1, <1>2 DEF RestoreData
  <2>1. /\ node[m].plan.kind = "restore" => node[m].plan.for = status.restore
        /\ m \in Etcd => db[m] \in {Wiped, status.restore}
    BY Zenon, <1>3 DEF RestoreData
  <2>2. kind \in {"stop", "restore"}
    BY Zenon, <1>0 DEF RInv, RestoreIsHalted, Halted
  <2>3. n \in Etcd => db'[n] = Wiped \/ (kind = "restore" /\ db'[n] = node[n].plan.for)
    BY ZenonT(60), <2>2 DEF HostStep, HostStops, Starting
  <2> QED
    BY Zenon, <1>0, <2>1, <2>3
<1>9. DataServed'
  <2> SUFFICES ASSUME status.phase \in Later
               PROVE  \E c \in Machines : Served(c)'
    BY Zenon, <1>0 DEF DataServed
  <2>1. PICK c \in Machines : Served(c)
    BY Zenon, <1>3 DEF DataServed
  <2>2. /\ c \in Etcd /\ db[c] = status.restore /\ node[c].plan.kind # "stop"
        /\ \A m \in Etcd : db[m] \in {Wiped, status.restore} /\ (m \in up => db[m] = status.restore)
        /\ kind \in Starting => node[n].plan.join = IF n = c THEN Self ELSE c
    BY Zenon, <2>1 DEF Served, Keeper
  <2>3. kind # "restore"
    <3>1. status.phase \notin Stopping
      BY Zenon DEF Later, AfterPods, Stopping
    <3> QED
      BY Zenon, <1>0, <3>1 DEF RInv, RestoringIsHalted, Restoring
  <2>4. n \in Etcd =>
          /\ db'[n] \in {Wiped, status.restore} /\ (n \in up' => db'[n] = status.restore)
          /\ n = c => db'[n] = status.restore
    <3>1. CASE kind \in Starting /\ HostStarts(n)
      <4>1. /\ node[n].plan.join \in up \cup {Self}
            /\ db'[n] = IF n \in Etcd /\ db[n] = Wiped
                        THEN IF node[n].plan.join = Self THEN Fresh ELSE db[node[n].plan.join]
                        ELSE db[n]
        BY Zenon, <3>1 DEF HostStarts
      <4>2. CASE n = c
        BY Zenon, <2>2, <4>1, <4>2, NotWiped
      <4>3. CASE n # c
        <5>1. node[n].plan.join = c /\ c # Self
          BY Zenon, <1>1, <2>2, <3>1, <4>3
        <5> QED
          BY Zenon, <2>2, <4>1, <4>3, <5>1
      <4> QED
        BY Zenon, <4>2, <4>3
    <3>2. CASE kind = "stop" /\ HostStops(n)
      <4>1. n # c /\ up' = up \ {n} /\ (n \in Etcd => db'[n] = Wiped)
        BY Zenon, <2>2, <3>2 DEF HostStops
      <4> QED
        BY Zenon, <4>1
    <3>3. CASE UNCHANGED <<joinURL, up, db>>
      BY Zenon, <2>2, <3>3
    <3> QED
      BY ZenonT(60), <2>3, <3>1, <3>2, <3>3 DEF HostStep
  <2>5. \A m \in Etcd : db'[m] \in {Wiped, status.restore} /\ (m \in up' => db'[m] = status.restore)
    <3>1. ASSUME NEW m \in Etcd, m # n
          PROVE  db'[m] = db[m] /\ (m \in up' => m \in up)
      BY Zenon, <1>0, <1>1, <1>5, <3>1
    <3> QED
      BY Zenon, <2>2, <2>4, <3>1
  <2>6. db'[c] = status.restore
    BY Zenon, <1>0, <2>2, <2>4
  <2>7. /\ Keeper(c)' /\ node'[c].plan.kind # "stop"
        /\ \A m \in Machines :
             node'[m].plan.kind \in Starting => node'[m].plan.join = IF m = c THEN Self ELSE c
    <3>1. /\ Keeper(c) /\ node[c].plan.kind # "stop"
          /\ \A m \in Machines :
               node[m].plan.kind \in Starting => node[m].plan.join = IF m = c THEN Self ELSE c
      BY Zenon, <2>1 DEF Served
    <3>2. Keeper(c)'
      BY Zenon, <1>4, <3>1
    <3>3. node'[c].plan.kind # "stop"
      BY Zenon, <1>2, <3>1
    <3>4. \A m \in Machines :
            node'[m].plan.kind \in Starting => node'[m].plan.join = IF m = c THEN Self ELSE c
      BY Zenon, <1>2, <3>1
    <3> QED
      BY Zenon, <3>2, <3>3, <3>4
  <2>8. /\ db'[c] = status'.restore
        /\ \A m \in Etcd' : db'[m] \in {Wiped', status'.restore} /\ (m \in up' => db'[m] = status'.restore)
    BY Zenon, <1>0, <1>1, <2>5, <2>6
  <2>9. Served(c)'
    BY Zenon, <2>7, <2>8 DEF Served
  <2> QED
    BY Zenon, <2>9
<1> QED
  BY Zenon, <1>6, <1>7, <1>8, <1>9 DEF DInv

LEMMA NextDInv ==
    ASSUME RestorationsStay, FixedHasSnapshots, IInv, RInv, DInv, [Next]_vars
    PROVE  DInv'
<1>0. \A m \in Etcd : life[m] \in {"absent", "alive"}
  BY Zenon DEF RInv, EnvironmentStays
<1>1. CASE UNCHANGED vars
  BY Zenon, <1>1, FrameDInv DEF vars
<1>2. CASE Process
  BY Zenon, <1>1, <1>2, ProcessStep, PassDInv
<1>3. CASE CapiSync \/ Quieten
  BY Zenon, <1>3, FrameDInv DEF CapiSync, Quieten, hosts
<1>4. CASE User
  <2>1. UNCHANGED <<scenario, status, cache, labels, node, hosts>>
    BY Zenon, <1>4 DEF User, RequestRestore, RequestCreate, RequestRotate, Withdraw, Ask
  <2> QED
    BY Zenon, <2>1, FrameDInv DEF hosts
<1>5. ASSUME NEW m \in Machines, Arrive(m) \/ Delete(m) \/ Lose(m)
      PROVE  DInv'
  BY Zenon, <1>5, FrameDInv DEF Arrive, Delete, Lose, hosts
<1>6. ASSUME NEW m \in Machines, Remove(m)
      PROVE  DInv'
  <2>1. m \notin Etcd
    BY Zenon, <1>0, <1>6 DEF Remove, isDeleting
  <2>2. /\ \A n \in Machines \ {m} : life'[n] = life[n] /\ node'[n] = node[n]
        /\ node'[m].plan.kind = "none"
        /\ up' = up \ {m} /\ joinURL' = joinURL \ {m} /\ labels' = labels \ {m}
        /\ UNCHANGED <<scenario, status, cache>>
    BY Zenon, <1>6, RemoveEffect
  <2>3. UNCHANGED db
    BY Zenon, <1>6 DEF Remove
  <2> QED
    BY Zenon, <2>1, <2>2, <2>3, RemoveDInv
<1> QED
  BY Zenon, <1>1, <1>2, <1>3, <1>4, <1>5, <1>6, CacheSyncDInv, RunHost, FailHost, AgentDInv DEF Next

(* Once a restoration has left the Restore phase, every etcd member that   *)
(* runs serves the data of the snapshot, provided that restorations are    *)
(* carried out and that a prescribed init node has the local snapshots:    *)
(* the machine that restored it keeps the init-node label, so that it      *)
(* starts on its own data and every other machine joins it.                *)
THEOREM RestoredClustersServe ==
    ASSUME RestorationsStay, FixedHasSnapshots
    PROVE  Spec => []RestoredDataServed
<1> DEFINE Inv == IInv /\ RInv /\ DInv
<1>1. Init => Inv
  BY Zenon, InitIInv, InitRInv, InitDInv
<1>2. Inv /\ [Next]_vars => Inv'
  BY Zenon, NextIInv, NextRInv, NextDInv
<1>3. Inv => RestoredDataServed
  <2> SUFFICES ASSUME Inv, status.phase \in Phases \ {"none", "Started", "Shutdown", "Restore"}
               PROVE  \A m \in up \cap Etcd : db[m] = status.restore
    BY Zenon DEF RestoredDataServed
  <2>1. status.phase \in Later
    BY Zenon DEF Phases, Later, AfterPods
  <2> QED
    BY Zenon, <2>1 DEF DInv, DataServed, Served
<1> HIDE DEF Inv
<1> QED
  BY <1>1, <1>2, <1>3, PTL DEF Spec

-----------------------------------------------------------------------------
(* The node cleanup of a restoration.                                      *)

NoCleanup(s) ==
    s.phase \in {"none", "Restore", "PostRestorePodCleanup", "InitialRestartCluster"} =>
        \A m \in Machines : node[m].plan.kind # "nodeCleanup"

Cleaning(m) == node[m].plan.kind = "nodeCleanup" /\ node[m].state = "pending"

(* While a cleanup is in place the machines that it does not keep, which   *)
(* came after it, wait for the machine that is to carry it out.            *)
CleanupIsSound(m) ==
    /\ \A s \in {status, cache.status} : Held(s) => labels = {m}
    /\ \A n \in NotDeleting \ node[m].plan.keep : n \notin up /\ node[n].plan.kind \notin Starting

NInv ==
    /\ NoCleanup(status) /\ NoCleanup(cache.status)
    /\ \A m \in Machines : Cleaning(m) => CleanupIsSound(m)

LEMMA InitNInv ==
    ASSUME Init
    PROVE  NInv
<1>1. \A m \in Machines : node[m].plan = StartPlan(m)
  BY Zenon DEF Init
<1>2. \A m \in Machines : StartPlan(m).kind \in {"none", "desired"}
  BY DEF StartPlan, NoPlan
<1>3. \A m \in Machines : node[m].plan.kind # "nodeCleanup"
  BY Zenon, <1>1, <1>2
<1> QED
  BY Zenon, <1>3 DEF NInv, NoCleanup, Cleaning

LEMMA PassNInv ==
    ASSUME IInv, RInv, RInv', DInv, NInv, PassStep
    PROVE  NInv'
<1>0. /\ UNCHANGED <<cache, up>> /\ NotDeleting' = NotDeleting /\ Writes
      /\ cache.status.phase \in Phases
  BY Zenon, PassFacts, CacheType DEF IInv, Statuses
<1>1. /\ EnvironmentStays /\ RestoreIsHalted /\ DataIsSound /\ PhasesFollow /\ LabelHeld /\ DataServed
      /\ NoCleanup(status) /\ NoCleanup(cache.status)
  BY Zenon DEF RInv, DInv, NInv
<1>2. /\ LabelHeld' /\ (Held(status) \/ Held(cache.status) => labels' = labels)
  BY Zenon, <1>1, PassLabels
<1>3. ASSUME NEW m \in Machines, node'[m].plan.kind = "nodeCleanup", node'[m] # node[m]
      PROVE  /\ cache.status.phase = "PostRestoreNodeCleanup" /\ m \in labels
             /\ node'[m].plan.keep = NotDeleting
  <2>1. Permitted(m, node'[m].plan)
    BY Zenon, <1>0, <1>3 DEF Writes
  <2>2. RestorePlan.kind = "restore"
    BY Zenon DEF RestorePlan
  <2> QED
    BY Zenon, <1>3, <2>1, <2>2 DEF Permitted, restoring
<1>4. NoCleanup(cache.status)'
  BY Zenon, <1>0, <1>1, <1>3 DEF NoCleanup
<1>5. NoCleanup(status)'
  <2> SUFFICES ASSUME status'.phase \in {"none", "Restore", "PostRestorePodCleanup", "InitialRestartCluster"},
                      NEW m \in Machines, node'[m].plan.kind = "nodeCleanup"
               PROVE  FALSE
    BY Zenon DEF NoCleanup
  <2>1. status'.phase # "Restore"
    BY Zenon DEF RInv, RestoreIsHalted, Halted
  <2>2. CASE status'.phase = status.phase
    <3>1. node'[m] # node[m]
      BY Zenon, <1>1, <2>2 DEF NoCleanup
    <3>2. cache.status.phase = "PostRestoreNodeCleanup"
      BY Zenon, <1>3, <3>1
    <3> QED
      BY Zenon, <1>1, <2>1, <2>2, <3>2 DEF PhasesFollow, Later, AfterPods
  <2>3. CASE status'.phase # status.phase
    <3>1. UNCHANGED node /\ Progresses(status')
      BY ZenonT(60), <2>3, PassFacts DEF Keeps, Initializes
    <3>2. ~(cache.spec.restore = 0 /\ cache.status.restore # 0)
      BY Zenon, <1>1 DEF EnvironmentStays
    <3>3. cache.status.phase \in {"Restore", "PostRestorePodCleanup"}
      BY ZenonT(60), <2>1, <3>1, <3>2 DEF Progresses, restoring, AfterPods
    <3> QED
      BY Zenon, <1>1, <3>1, <3>3 DEF NoCleanup
  <2> QED
    BY Zenon, <2>2, <2>3
<1>6. ASSUME NEW m \in Machines, Cleaning(m)'
      PROVE  CleanupIsSound(m)'
  <2>1. CASE node'[m] = node[m]
    <3>1. Cleaning(m) /\ CleanupIsSound(m) /\ node[m].state = "pending"
      BY Zenon, <2>1, <1>6 DEF Cleaning, NInv
    <3>2. cache.status.phase # "PostRestorePodCleanup"
      BY Zenon, <1>1, <3>1 DEF NoCleanup, Cleaning
    <3>3. ASSUME Held(status') \/ Held(cache.status)
          PROVE  labels' = {m}
      <4>1. Held(status) \/ Held(cache.status)
        BY Zenon, <1>1, <3>2, <3>3, PassHeld
      <4> QED
        BY Zenon, <1>2, <3>1, <4>1 DEF CleanupIsSound
    <3>4. ASSUME NEW n \in NotDeleting \ node[m].plan.keep, node'[n].plan.kind \in Starting
          PROVE  FALSE
      <4>1. node[n].plan.kind \notin Starting /\ n \in Machines
        BY Zenon, <3>1, <3>4 DEF CleanupIsSound, NotDeleting
      <4>2. Permitted(n, node'[n].plan) /\ n # m
        BY Zenon, <1>0, <2>1, <3>4, <4>1 DEF Writes
      <4>3. Joins(n, node'[n].plan) /\ (cache.status.initialized \/ cache.status.phase \notin Stopping)
        <5>1. RestorePlan.kind = "restore"
          BY Zenon DEF RestorePlan
        <5> QED
          BY Zenon, <3>4, <4>2, <5>1 DEF Permitted, Starting
      <4>4. Held(cache.status)
        <5>1. cache.status.initialized => cache.status.phase \notin Uninitialized
          BY Zenon DEF IInv, Undisturbed, StatusIsSound
        <5> QED
          BY ZenonT(60), <1>0, <3>2, <4>3, <5>1 DEF Held, Phases, Uninitialized, Stopping, AfterPods
      <4>5. labels = {m}
        BY Zenon, <3>1, <4>4 DEF CleanupIsSound
      <4>6. m \in NotDeleting
        <5>1. m \in Etcd
          BY Zenon, <1>1, <4>4, <4>5 DEF LabelHeld, Keeper
        <5>2. m \in Present
          BY Zenon, <4>5, IInvFacts
        <5> QED
          BY Zenon, <1>1, <5>1, <5>2 DEF EnvironmentStays, Present, NotDeleting
      <4> QED
        BY Zenon, <3>1, <4>2, <4>3, <4>5, <4>6 DEF Joins
    <3> QED
      BY Zenon, <1>0, <2>1, <3>1, <3>3, <3>4 DEF CleanupIsSound
  <2>2. CASE node'[m] # node[m]
    <3>1. /\ cache.status.phase = "PostRestoreNodeCleanup" /\ m \in labels
          /\ node'[m].plan.keep = NotDeleting
      BY Zenon, <1>3, <1>6, <2>2 DEF Cleaning
    <3>2. Held(cache.status)
      BY Zenon, <3>1 DEF Held, AfterPods
    <3>3. labels = {m}
      <4>1. PICK c \in joinURL : Keeper(c)
        BY Zenon, <1>1, <3>2 DEF LabelHeld
      <4> QED
        BY Zenon, <3>1, <4>1 DEF Keeper
    <3> QED
      BY Zenon, <1>0, <1>2, <3>1, <3>2, <3>3 DEF CleanupIsSound
  <2> QED
    BY Zenon, <2>1, <2>2
<1> QED
  BY Zenon, <1>4, <1>5, <1>6 DEF NInv

LEMMA CacheSyncNInv ==
    ASSUME NInv, UNCHANGED <<status, labels, life, node, up>>, cache' = cache \/ cache'.status = status
    PROVE  NInv'
<1>1. NotDeleting' = NotDeleting
  BY Zenon DEF NotDeleting
<1>2. NoCleanup(status)' /\ NoCleanup(cache.status)'
  BY Zenon DEF NInv, NoCleanup
<1>3. \A m \in Machines : Cleaning(m)' => CleanupIsSound(m)'
  BY ZenonT(60), <1>1 DEF NInv, Cleaning, CleanupIsSound
<1> QED
  BY Zenon, <1>2, <1>3 DEF NInv

LEMMA AgentNInv ==
    ASSUME IInv, NInv, NEW n \in Machines, HostStep(n)
    PROVE  NInv'
<1>0. /\ UNCHANGED <<status, cache, labels, life>>
      /\ node'[n].plan = node[n].plan /\ node'[n].state \in {"applied", "failed"}
      /\ \A m \in Machines \ {n} : node'[m] = node[m]
  BY ZenonT(60) DEF HostStep, AgentStep
<1>1. \A m \in Machines : node'[m].plan = node[m].plan
  BY Zenon, <1>0
<1>2. \A m \in up' : m \in up \/ (m = n /\ node[n].plan.kind \in Starting)
  <2>1. \/ up' = up \/ up' = up \ {n}
        \/ node[n].plan.kind \in Starting /\ up' = up \cup {n}
    BY ZenonT(60) DEF HostStep, HostStarts, HostStops
  <2> QED
    BY Zenon, <2>1
<1>3. NotDeleting' = NotDeleting /\ NotDeleting \subseteq Machines
  BY Zenon, <1>0 DEF NotDeleting
<1>4. \A m \in Machines : Cleaning(m)' => Cleaning(m)
  BY Zenon, <1>0 DEF Cleaning
<1>5. NoCleanup(status)' /\ NoCleanup(cache.status)'
  BY Zenon, <1>0, <1>1 DEF NInv, NoCleanup
<1>6. ASSUME NEW m \in Machines, CleanupIsSound(m)
      PROVE  CleanupIsSound(m)'
  BY Zenon, <1>0, <1>1, <1>2, <1>3, <1>6 DEF CleanupIsSound
<1> QED
  BY Zenon, <1>4, <1>5, <1>6 DEF NInv

(* A machine that comes has no plan and no server.                         *)
LEMMA MachineNInv ==
    ASSUME NInv, NEW n \in Machines, UNCHANGED <<status, cache>>, up' \subseteq up,
           \A m \in Machines \ {n} : life'[m] = life[m] /\ node'[m] = node[m],
           \/ labels' = labels /\ node'[n] = node[n]
           \/ labels' = labels \ {n} /\ node'[n].plan.kind = "none",
           life'[n] = "alive" => n \notin up /\ node[n].plan.kind \notin Starting
    PROVE  NInv'
<1>1. NoCleanup(status)' /\ NoCleanup(cache.status)'
  BY Zenon DEF NInv, NoCleanup
<1>2. ASSUME NEW m \in Machines, Cleaning(m)'
      PROVE  CleanupIsSound(m)'
  <2>1. node'[m] = node[m] /\ (labels = {m} => labels' = {m})
    BY Zenon, <1>2 DEF Cleaning
  <2>2. CleanupIsSound(m)
    BY Zenon, <1>2, <2>1 DEF NInv, Cleaning
  <2>3. ASSUME NEW l \in NotDeleting' \ node[m].plan.keep
        PROVE  l \notin up' /\ node'[l].plan.kind \notin Starting
    <3>1. l \in Machines /\ (l \in NotDeleting \/ (l = n /\ life'[n] = "alive"))
      BY Zenon, <2>3 DEF NotDeleting
    <3>2. l \notin up /\ node[l].plan.kind \notin Starting
      BY Zenon, <2>2, <2>3, <3>1 DEF CleanupIsSound
    <3>3. node'[l] = node[l] \/ node'[l].plan.kind = "none"
      BY Zenon, <3>1
    <3> QED
      BY Zenon, <3>2, <3>3 DEF Starting
  <2> QED
    BY Zenon, <2>1, <2>2, <2>3 DEF CleanupIsSound
<1> QED
  BY Zenon, <1>1, <1>2 DEF NInv

LEMMA NextNInv ==
    ASSUME IInv, RInv, RInv', DInv, NInv, [Next]_vars
    PROVE  NInv'
<1>0. life \in [Machines -> {"absent", "alive", "deleting", "lost", "gone"}]
  BY Zenon DEF IInv, TypeOK
<1>1. CASE UNCHANGED vars
  BY Zenon, <1>1, CacheSyncNInv DEF vars
<1>2. CASE Process
  BY Zenon, <1>1, <1>2, ProcessStep, PassNInv
<1>3. CASE CapiSync \/ Quieten \/ CacheSync
  <2>1. UNCHANGED <<status, labels, life, node, up>>
    BY Zenon, <1>3 DEF CapiSync, Quieten, CacheSync, hosts
  <2>2. cache' = cache \/ cache'.status = status
    <3>1. CASE CacheSync
      BY Zenon, <3>1 DEF CacheSync
    <3> QED
      BY Zenon, <1>3, <3>1 DEF CapiSync, Quieten
  <2> QED
    BY Zenon, <2>1, <2>2, CacheSyncNInv
<1>4. CASE User
  <2>1. UNCHANGED <<status, cache, labels, life, node, hosts>>
    BY Zenon, <1>4 DEF User, RequestRestore, RequestCreate, RequestRotate, Withdraw, Ask
  <2> QED
    BY Zenon, <2>1, CacheSyncNInv DEF hosts
<1>5. ASSUME NEW m \in Machines, Arrive(m)
      PROVE  NInv'
  <2>1. /\ life[m] = "absent" /\ \A n \in Machines \ {m} : life'[n] = life[n]
        /\ UNCHANGED <<status, cache, labels, node, up>>
    BY Zenon, <1>0, <1>5 DEF Arrive, hosts
  <2>2. m \notin up /\ node[m].plan.kind = "none"
    <3>1. m \notin Present
      BY Zenon, <2>1 DEF Present
    <3>2. NoPlan.kind = "none"
      BY Zenon DEF NoPlan
    <3> QED
      BY Zenon, <3>1, <3>2 DEF IInv, HostsAreSound
  <2> QED
    BY Zenon, <2>1, <2>2, MachineNInv DEF Starting
<1>6. ASSUME NEW m \in Machines, Delete(m) \/ Lose(m)
      PROVE  NInv'
  <2>1. /\ life'[m] \in {"deleting", "lost"} /\ \A n \in Machines \ {m} : life'[n] = life[n]
        /\ UNCHANGED <<status, cache, labels, node>> /\ up' \subseteq up
    BY Zenon, <1>0, <1>6 DEF Delete, Lose, hosts
  <2> QED
    BY Zenon, <2>1, MachineNInv
<1>7. ASSUME NEW m \in Machines, Remove(m)
      PROVE  NInv'
  <2>1. /\ \A n \in Machines \ {m} : life'[n] = life[n] /\ node'[n] = node[n]
        /\ node'[m].plan.kind = "none" /\ life'[m] = "gone"
        /\ up' = up \ {m} /\ labels' = labels \ {m} /\ UNCHANGED <<status, cache>>
    BY Zenon, <1>7, RemoveEffect
  <2> QED
    BY Zenon, <2>1, MachineNInv
<1> QED
  BY Zenon, <1>1, <1>2, <1>3, <1>4, <1>5, <1>6, <1>7, RunHost, FailHost, AgentNInv DEF Next

(* The node cleanup of a restoration deletes the nodes of no machine that  *)
(* runs and is not being deleted, under the same hypotheses: the plan is   *)
(* written for the labelled machine with all machines that are there, and  *)
(* a machine that comes after that is not started until it is applied.     *)
THEOREM CleanupsSpareMachines ==
    ASSUME RestorationsStay, FixedHasSnapshots
    PROVE  Spec => NodeCleanupSparesMachines
<1> DEFINE Inv == IInv /\ RInv /\ DInv /\ NInv
           Spares == \A m \in Machines : Finishes(m) /\ node[m].plan.kind = "nodeCleanup" =>
                        up \cap NotDeleting \subseteq node[m].plan.keep
<1>1. Init => Inv
  BY Zenon, InitIInv, InitRInv, InitDInv, InitNInv
<1>2. Inv /\ [Next]_vars => Inv'
  BY Zenon, NextIInv, NextRInv, NextDInv, NextNInv
<1>3. Inv /\ [Next]_vars => [Spares]_vars
  BY Zenon DEF NInv, CleanupIsSound, Cleaning, Finishes
<1>4. Spec => [][Spares]_vars
  <2> HIDE DEF Inv, Spares
  <2> QED
    BY <1>1, <1>2, <1>3, PTL DEF Spec
<1> QED
  BY Zenon, <1>4 DEF NodeCleanupSparesMachines
=============================================================================
