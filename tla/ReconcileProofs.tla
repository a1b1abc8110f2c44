--------------------------- MODULE ReconcileProofs ---------------------------
(***************************************************************************)
(* Proofs, for clusters of any machines and roles and for any upgrade      *)
(* strategy, that the roll-out goes from tier to tier and that it takes    *)
(* down no more machines at a time than it may.                            *)
(***************************************************************************)
EXTENDS Reconcile, FiniteSetTheorems, WellFoundedInduction, TLAPS

Loaded == pc # "idle"

(* A plan secret: what has been applied was the plan before, a plan under way has neither
   failed nor shown itself healthy since it was applied, and there is nothing without a plan. *)
Sound(x) ==
    /\ x.applied <= x.plan
    /\ x.plan # x.applied => ~x.healthy /\ ~x.probesUsable
    /\ x.plan = x.applied => ~x.failed
    /\ x.plan = 0 => ~x.healthy /\ ~x.probesUsable /\ x.drain = "none"

NodesAreSound ==
    \A m \in Machines : /\ Sound(node[m]) /\ node[m].plan <= want
                        /\ life[m] = "absent" => node[m].plan = 0

(* Since the pass loaded the plans only the agents and the drain controller have acted, and
   only users on the machines: a pass that writes anything ends with the tier. *)
PassIsAlone ==
    Loaded =>
        /\ seen.want <= want
        /\ \A m \in Machines :
              LET x == seen.node[m] IN
              /\ Sound(x) /\ x.plan <= seen.want
              /\ node[m].plan = x.plan /\ node[m].applied \in {x.applied, x.plan}
              /\ x.drain = "none" => node[m].drain = "none"
              /\ x.drain \in {"draining", "drained"} => node[m].drain \in {"draining", "drained"}
              /\ seen.life[m] = "absent" => x.plan = 0
              /\ seen.life[m] = "present" => life[m] # "absent"
              /\ seen.life[m] \in {"deleting", "gone"} => life[m] \in {"deleting", "gone"}

Before == [bootstrap |-> {}, etcd |-> {"bootstrap"}, controlplane |-> {"bootstrap", "etcd"},
           initialize |-> {"bootstrap", "etcd", "controlplane"},
           worker |-> {"bootstrap", "etcd", "controlplane"}]

(* The tiers that the pass has left behind have the version, as far as the pass has seen. *)
TiersLeftBehind ==
    Loaded => \A tier \in Before[pc] : \A m \in Reconcilables(tier) :
                 seen.node[m].plan = seen.want /\ seen.node[m].applied = seen.want

(* The plans come in the order of the tiers as well. *)
PlansInOrder ==
    \A m, n \in Machines :
        life[m] = "present" /\ node[m].plan # 0 /\ Rank(m) < Rank(n) => node[n].plan <= node[m].plan

IInv ==
    /\ TypeOK /\ NodesAreSound /\ PassIsAlone /\ TiersLeftBehind
    /\ PlansInOrder /\ TiersInOrder

-----------------------------------------------------------------------------
(* Machines are numbers, as collect sorts them, and the pass goes through them in order. *)

(* There is a first machine in a set of them. *)
LEMMA FiniteMin ==
    ASSUME NEW S, S \subseteq Int, IsFiniteSet(S), S # {}
    PROVE  \E x \in S : \A y \in S : x <= y
<1> DEFINE Below(x) == {y \in S : y < x}
<1>0. \A x, y \in S : y < x => Below(y) \subseteq Below(x) /\ y \in Below(x) /\ y \notin Below(y)
  <2> SUFFICES ASSUME NEW x \in S, NEW y \in S, y < x
               PROVE  Below(y) \subseteq Below(x) /\ y \in Below(x) /\ y \notin Below(y)
    BY Zenon
  <2>1. \A z \in S : z < y => z < x
    OBVIOUS
  <2>2. y \in Below(x) /\ y \notin Below(y)
    OBVIOUS
  <2> QED
    BY Zenon, <2>1, <2>2
<1> DEFINE T == {Below(x) : x \in S}
<1>1. T \subseteq FiniteSubsetsOf(S) /\ T # {}
  <2>1. FiniteSubsetsOf(S) = SUBSET S
    BY Zenon, FS_FiniteSubsetsOfFinite
  <2>2. T \subseteq SUBSET S /\ T # {}
    BY Zenon
  <2> QED
    BY Zenon, <2>1, <2>2
<1>2. PICK B \in T : \A C \in T : <<C, B>> \notin StrictSubsetOrdering(S)
  BY Zenon, <1>1, FS_StrictSubsetOrderingWellFounded, WFMin
<1>3. PICK x \in S : B = Below(x)
  BY Zenon
<1>4. ASSUME NEW y \in S, y < x
      PROVE  FALSE
  <2>1. Below(y) \in T
    BY Zenon
  <2>2. Below(y) \subseteq Below(x) /\ y \in Below(x) /\ y \notin Below(y)
    BY Zenon, <1>0, <1>4
  <2>3. <<Below(y), B>> \in StrictSubsetOrdering(S)
    BY Zenon, <1>3, <2>2 DEF StrictSubsetOrdering
  <2> QED
    BY Zenon, <1>2, <2>1, <2>3
<1> QED
  BY <1>4

(* And a last one. *)
LEMMA FiniteMax ==
    ASSUME NEW S, S \subseteq Int, IsFiniteSet(S), S # {}
    PROVE  \E x \in S : \A y \in S : y <= x
<1> DEFINE Above(x) == {y \in S : x < y}
<1>0. \A x, y \in S : x < y => Above(y) \subseteq Above(x) /\ y \in Above(x) /\ y \notin Above(y)
  <2> SUFFICES ASSUME NEW x \in S, NEW y \in S, x < y
               PROVE  Above(y) \subseteq Above(x) /\ y \in Above(x) /\ y \notin Above(y)
    BY Zenon
  <2>1. \A z \in S : y < z => x < z
    OBVIOUS
  <2>2. y \in Above(x) /\ y \notin Above(y)
    OBVIOUS
  <2> QED
    BY Zenon, <2>1, <2>2
<1> DEFINE T == {Above(x) : x \in S}
<1>1. T \subseteq FiniteSubsetsOf(S) /\ T # {}
  <2>1. FiniteSubsetsOf(S) = SUBSET S
    BY Zenon, FS_FiniteSubsetsOfFinite
  <2>2. T \subseteq SUBSET S /\ T # {}
    BY Zenon
  <2> QED
    BY Zenon, <2>1, <2>2
<1>2. PICK B \in T : \A C \in T : <<C, B>> \notin StrictSubsetOrdering(S)
  BY Zenon, <1>1, FS_StrictSubsetOrderingWellFounded, WFMin
<1>3. PICK x \in S : B = Above(x)
  BY Zenon
<1>4. ASSUME NEW y \in S, x < y
      PROVE  FALSE
  <2>1. Above(y) \in T
    BY Zenon
  <2>2. Above(y) \subseteq Above(x) /\ y \in Above(x) /\ y \notin Above(y)
    BY Zenon, <1>0, <1>4
  <2>3. <<Above(y), B>> \in StrictSubsetOrdering(S)
    BY Zenon, <1>3, <2>2 DEF StrictSubsetOrdering
  <2> QED
    BY Zenon, <1>2, <2>1, <2>3
<1> QED
  BY <1>4

-----------------------------------------------------------------------------
(* What a pass makes of what it loaded. *)

LEMMA SeenType ==
    ASSUME TypeOK, Loaded
    PROVE  /\ seen \in [want : Versions, life : [Machines -> Lives], node : [Machines -> Nodes]]
           /\ seen # NotLoaded
  BY Zenon DEF TypeOK, Loaded

(* The write to a plan secret: a new plan, or a request to the drain controller. *)
LEMMA ReconciledType ==
    ASSUME IInv, Loaded, NEW tier, NEW m \in Machines
    PROVE  LET x == Reconciled(tier, m) IN
           /\ x \in Nodes /\ Sound(x)
           /\ x.applied = node[m].applied
           /\ x.plan \in {node[m].plan, seen.want}
<1>1. /\ node[m] \in Nodes /\ seen.node[m] \in Nodes /\ seen.want \in Versions /\ Versions \subseteq Nat
      /\ Sound(node[m]) /\ Sound(seen.node[m]) /\ node[m].plan = seen.node[m].plan
      /\ node[m].plan <= seen.want
  BY SeenType DEF IInv, TypeOK, PassIsAlone, NodesAreSound, Versions
<1>2. \A d, e : Later(d, e) \in {d, e}
  BY Zenon DEF Later
<1>3. /\ UpdatePlan(m) \in Nodes /\ Sound(UpdatePlan(m))
      /\ UpdatePlan(m).applied = node[m].applied /\ UpdatePlan(m).plan = seen.want
  <2> DEFINE d == Later(node[m].drain, seen.node[m].drain)
             v == seen.want
             x == node[m]
  <2>1. /\ d \in {"none", "draining", "drained", "uncordoning"}
        /\ v \in 0 .. MaxVersion /\ v # 0 /\ x.applied <= v /\ x \in Nodes
    BY <1>1, <1>2 DEF Nodes, Versions, Sound
  <2>2. UpdatePlan(m) = [x EXCEPT !.plan = v, !.failed = FALSE, !.healthy = FALSE,
                                  !.probesUsable = FALSE, !.drain = d]
    BY Zenon DEF UpdatePlan
  <2> HIDE DEF d, v, x
  <2>3. /\ UpdatePlan(m) \in Nodes /\ UpdatePlan(m).applied = x.applied
        /\ UpdatePlan(m).plan = v /\ UpdatePlan(m).failed = FALSE
        /\ UpdatePlan(m).healthy = FALSE /\ UpdatePlan(m).probesUsable = FALSE
    BY Zenon, <2>1, <2>2 DEF Nodes
  <2>4. Sound(UpdatePlan(m))
    BY Zenon, <2>1, <2>3 DEF Sound
  <2> QED
    BY Zenon, <2>3, <2>4 DEF v, x
<1>4. ASSUME NEW d \in {"draining", "uncordoning"}, seen.node[m].plan # 0
      PROVE  /\ RequestDrain(m, d) \in Nodes /\ Sound(RequestDrain(m, d))
             /\ RequestDrain(m, d).applied = node[m].applied
             /\ RequestDrain(m, d).plan = node[m].plan
  BY <1>1, <1>2, <1>4 DEF RequestDrain, Nodes, Sound
<1>5. \/ Reconciled(tier, m) = UpdatePlan(m) \/ Reconciled(tier, m) = node[m]
      \/ /\ seen.node[m].plan # 0
         /\ \E d \in {"draining", "uncordoning"} : Reconciled(tier, m) = RequestDrain(m, d)
  <2>1. m \in Admitted(tier) => seen.node[m].plan # 0
    BY Zenon DEF Admitted, change
  <2>2. seen.node[m].drain \in {"draining", "drained"} => seen.node[m].plan # 0
    BY Zenon, <1>1 DEF Sound
  <2> QED
    BY <2>1, <2>2 DEF Reconciled
<1> QED
  BY Zenon, <1>1, <1>3, <1>4, <1>5

LEMMA ConcurrencyType ==
    ASSUME TypeOK, NEW tier \in Tiers
    PROVE  calculateConcurrency(tier) \in Nat
<1>1. IsFiniteSet(Reconcilables(tier))
  BY Zenon, ClustersAssumption, FS_Subset DEF Reconcilables
<1>2. Cardinality(Reconcilables(tier)) \in Nat
  BY Zenon, <1>1, FS_CardinalityType
<1>3. MaxUnavailable \in [unit : {"number", "percent"}, value : Nat]
  BY Zenon, ClustersAssumption DEF TypeOK, MaxUnavailable, IsCluster
<1>4. \A j, k \in Nat : (j * k + 99) \div 100 \in Nat
  OBVIOUS
<1> QED
  BY Zenon, <1>2, <1>3, <1>4 DEF calculateConcurrency

(* A tier that the pass does not wait for has the version, and nothing is written to it: were
   there a change, the first machine with one would be admitted. *)
LEMMA TierIsDone ==
    ASSUME IInv, Loaded, NEW tier \in Tiers,
           \A m \in Reconcilables(tier) : ~Waiting(tier, m)
    PROVE  \A m \in Reconcilables(tier) :
              /\ seen.node[m].plan = seen.want /\ seen.node[m].applied = seen.want
              /\ Reconciled(tier, m) = node[m]
<1> DEFINE R == Reconcilables(tier)
           changed == {m \in R : change(m)}
           down == {m \in R : seen.node[m].plan # 0 /\ isUnavailable(m)}
           Counted(m) == {n \in R : n < m /\ change(n) /\ ~isUnavailable(n)}
<1>1. R \subseteq Machines /\ IsFiniteSet(R) /\ R \subseteq Int
  BY Zenon, ClustersAssumption, FS_Subset DEF Reconcilables
<1>2. down = {}
  BY Zenon DEF isUnavailable, Waiting, planApplied
<1>3. changed = {}
  <2> SUFFICES ASSUME changed # {} PROVE FALSE
    BY Zenon
  <2>1. changed \subseteq Int /\ IsFiniteSet(changed)
    BY Zenon, <1>1, FS_Subset
  <2>2. PICK m \in changed : \A n \in changed : m <= n
    BY Zenon, <2>1, FiniteMin
  <2>3. Counted(m) = {}
    BY <1>1, <2>2
  <2>4. Cardinality(down) + Cardinality(Counted(m)) = 0
    <3>1. Cardinality(down) = 0
      BY <1>2, FS_EmptySet, Zenon
    <3>2. Cardinality(Counted(m)) = 0
      BY <2>3, FS_EmptySet, Zenon
    <3> QED
      BY <3>1, <3>2
  <2>5. calculateConcurrency(tier) \in Nat
    BY Zenon, ConcurrencyType DEF IInv
  <2>6. m \in Admitted(tier)
    BY <2>4, <2>5 DEF Admitted
  <2> QED
    BY Zenon, <2>6 DEF Waiting
<1>4. SUFFICES ASSUME NEW m \in R
               PROVE  /\ seen.node[m].plan = seen.want /\ seen.node[m].applied = seen.want
                      /\ Reconciled(tier, m) = node[m]
  BY Zenon
<1>5. /\ seen.node[m].plan # 0 /\ seen.node[m].plan = seen.node[m].applied
      /\ m \notin Admitted(tier) /\ seen.node[m].drain = "none"
  BY Zenon DEF Waiting, planApplied, InSync, isInDrain
<1>6. seen.node[m].plan = seen.want
  BY Zenon, <1>3, <1>5 DEF change
<1> QED
  BY Zenon, <1>5, <1>6 DEF Reconciled

(* The machines of an earlier rank belong to the tiers that the pass has left behind. *)
LEMMA EarlierTier ==
    ASSUME IInv, NEW tier \in Tiers, NEW n \in Reconcilables(tier), NEW m \in Machines,
           Rank(m) < Rank(n), seen.life[m] = "present"
    PROVE  \E t \in Before[tier] : m \in Reconcilables(t)
<1>1. CASE tier = "bootstrap"
  BY <1>1 DEF Rank, Reconcilables
<1>2. CASE tier = "etcd"
  BY <1>2 DEF Rank, Reconcilables, Before
<1>3. CASE tier = "controlplane"
  BY <1>3 DEF Rank, Reconcilables, Before
<1>4. CASE tier = "worker"
  BY <1>4 DEF Rank, Reconcilables, Before, isOnlyWorker
<1> QED
  BY Zenon, <1>1, <1>2, <1>3, <1>4 DEF Tiers

-----------------------------------------------------------------------------
LEMMA InitIInv == Init => IInv
<1> SUFFICES ASSUME Init PROVE IInv
  BY Zenon
<1>1. cluster \in Clusters /\ IsCluster(cluster) /\ MaxVersion \in Nat \ {0}
  BY Zenon, ClustersAssumption DEF Init
<1>2. \A m \in Machines :
         /\ node[m] \in Nodes /\ Sound(node[m]) /\ node[m].plan <= 1
         /\ life[m] = "absent" => node[m].plan = 0
         /\ life[m] = "present" /\ node[m].plan # 0 => node[m].plan = 1 /\ node[m].applied = 1
         /\ node[m].applied # 0 => node[m].plan # 0
  <2> SUFFICES ASSUME NEW m \in Machines
               PROVE  /\ node[m] \in Nodes /\ Sound(node[m]) /\ node[m].plan <= 1
                      /\ life[m] = "absent" => node[m].plan = 0
                      /\ life[m] = "present" /\ node[m].plan # 0 => node[m].plan = 1 /\ node[m].applied = 1
                      /\ node[m].applied # 0 => node[m].plan # 0
    BY Zenon
  <2>1. CASE node[m] = NoPlan
    BY <1>1, <2>1 DEF NoPlan, Nodes, Sound
  <2>2. CASE /\ node[m] = [NoPlan EXCEPT !.plan = 1, !.applied = 1, !.healthy = TRUE,
                                         !.probesUsable = TRUE, !.joined = TRUE]
             /\ life[m] = "present"
    <3>1. node[m] = [plan |-> 1, applied |-> 1, failed |-> FALSE, healthy |-> TRUE,
                     probesUsable |-> TRUE, joined |-> TRUE, drain |-> "none"]
      BY Zenon, <2>2 DEF NoPlan
    <3>2. node[m] \in Nodes
      BY <1>1, <3>1 DEF Nodes
    <3>3. Sound(node[m])
      BY <3>1 DEF Sound
    <3> QED
      BY <2>2, <3>1, <3>2, <3>3
  <2> QED
    BY Zenon, <2>1, <2>2 DEF Init
<1>3. node \in [Machines -> Nodes] /\ life \in [Machines -> Lives]
  BY Zenon, <1>2 DEF Init, Lives
<1>4. TypeOK
  <2>1. cluster.settled \in BOOLEAN
    BY Zenon, <1>1 DEF IsCluster
  <2>2. initialized \in BOOLEAN /\ quiet \in BOOLEAN
    BY Zenon, <2>1 DEF Init
  <2>3. want \in Versions
    BY <1>1 DEF Init, Versions
  <2> QED
    BY Zenon, <1>1, <1>3, <2>2, <2>3 DEF Init, TypeOK
<1>5. NodesAreSound /\ PassIsAlone /\ TiersLeftBehind
  BY Zenon, <1>2 DEF Init, NodesAreSound, PassIsAlone, TiersLeftBehind, Loaded
<1>6. PlansInOrder /\ TiersInOrder
  BY Zenon, <1>2 DEF PlansInOrder, TiersInOrder
<1> QED
  BY Zenon, <1>4, <1>5, <1>6 DEF IInv

(* The writes of a tier, as far as they get, end the pass. *)
LEMMA WritesIInv ==
    ASSUME IInv, NEW tier \in Tiers, pc = tier, NEW W, W \subseteq Reconcilables(tier),
           node' = [m \in Machines |-> IF m \in W THEN Reconciled(tier, m) ELSE node[m]],
           EndPass, UNCHANGED <<cluster, want, life, initialized, quiet>>
    PROVE  IInv'
<1>1. Loaded /\ pc' = "idle" /\ seen' = NotLoaded
  BY Zenon DEF Loaded, EndPass, Tiers
<1>2. /\ seen.want \in Versions /\ seen.want <= want /\ Versions \subseteq Nat /\ want \in Versions
      /\ \A m \in Machines : seen.life[m] \in Lives /\ life[m] \in Lives
      /\ \A m \in Machines : node[m] \in Nodes /\ node[m].plan \in Nat /\ node[m].applied \in Nat
  BY <1>1, SeenType DEF IInv, TypeOK, PassIsAlone, Versions, Nodes
<1>3. \A m \in Machines :
         /\ node'[m] \in Nodes /\ Sound(node'[m]) /\ node'[m].applied = node[m].applied
         /\ \/ node'[m].plan = node[m].plan
            \/ node'[m].plan = seen.want /\ m \in W
  BY Zenon, <1>1, ReconciledType DEF IInv, NodesAreSound, TypeOK
<1>4. \A m \in W : m \in Machines /\ seen.life[m] = "present"
  BY Zenon DEF Reconcilables
<1>5. \A m \in Machines :
         /\ node[m].plan <= seen.want /\ node[m].applied <= node[m].plan
         /\ seen.life[m] = "absent" => node[m].plan = 0
         /\ life[m] \in {"absent", "present"} => seen.life[m] \in {"absent", "present"}
         /\ life[m] = "absent" => node[m].plan = 0
  BY Zenon, <1>1, <1>2 DEF IInv, PassIsAlone, NodesAreSound, Sound, Lives
<1>6. \A n \in W : \A m \in Machines :
         Rank(m) < Rank(n) /\ seen.life[m] = "present" =>
            node[m].plan = seen.want /\ node[m].applied = seen.want
  <2> SUFFICES ASSUME NEW n \in W, NEW m \in Machines, Rank(m) < Rank(n), seen.life[m] = "present"
               PROVE  node[m].plan = seen.want /\ node[m].applied = seen.want
    BY Zenon
  <2>1. PICK t \in Before[tier] : m \in Reconcilables(t)
    BY Zenon, EarlierTier
  <2>2. seen.node[m].plan = seen.want /\ seen.node[m].applied = seen.want
    BY Zenon, <1>1, <2>1 DEF IInv, TiersLeftBehind
  <2> QED
    BY Zenon, <1>1, <2>2 DEF IInv, PassIsAlone
<1>7. \A m : Rank(m)' = Rank(m)
  BY Zenon DEF Rank, InitNode, Etcd, ControlPlane
<1>8. TypeOK'
  <2>1. node' \in [Machines -> Nodes]
    BY Zenon, <1>3
  <2> QED
    BY Zenon, <1>1, <2>1 DEF IInv, TypeOK
<1>9. NodesAreSound' /\ PassIsAlone' /\ TiersLeftBehind'
  <2>1. \A m \in Machines : node'[m].plan <= want /\ (life[m] = "absent" => node'[m].plan = 0)
    <3> SUFFICES ASSUME NEW m \in Machines
                 PROVE  node'[m].plan <= want /\ (life[m] = "absent" => node'[m].plan = 0)
      BY Zenon
    <3>1. CASE node'[m].plan = node[m].plan
      BY Zenon, <1>5, <3>1 DEF IInv, NodesAreSound
    <3>2. CASE node'[m].plan = seen.want /\ m \in W
      <4>1. life[m] # "absent"
        BY Zenon, <1>1, <1>4, <3>2 DEF IInv, PassIsAlone
      <4> QED
        BY Zenon, <1>2, <3>2, <4>1
    <3> QED
      BY Zenon, <1>3, <3>1, <3>2
  <2> QED
    BY Zenon, <1>1, <1>3, <2>1 DEF NodesAreSound, PassIsAlone, TiersLeftBehind, Loaded
<1>10. PlansInOrder' /\ TiersInOrder'
  <2> SUFFICES ASSUME NEW m \in Machines, NEW n \in Machines,
                      life[m] = "present", Rank(m) < Rank(n)
               PROVE  /\ node'[m].plan # 0 => node'[n].plan <= node'[m].plan
                      /\ node'[m].applied # 0 => node'[n].plan <= node'[m].applied
    BY Zenon, <1>7 DEF PlansInOrder, TiersInOrder
  <2>1. CASE node'[n].plan = node[n].plan
    BY Zenon, <1>2, <1>3, <1>5, <2>1 DEF IInv, PlansInOrder, TiersInOrder
  <2>2. CASE node'[n].plan = seen.want /\ n \in W
    BY <1>2, <1>3, <1>4, <1>5, <1>6, <2>2
  <2> QED
    BY Zenon, <1>3, <2>1, <2>2
<1> QED
  BY Zenon, <1>8, <1>9, <1>10 DEF IInv

(* A tier of the pass. *)
LEMMA ReconcileIInv ==
    ASSUME IInv, NEW tier \in Tiers, reconcile(tier) \/ reconcileFails(tier)
    PROVE  IInv'
<1>1. Loaded /\ pc = tier
  BY Zenon DEF reconcile, reconcileFails, Loaded, Tiers
<1>2. CASE EndPass
  <2>1. PICK W \in SUBSET Reconcilables(tier) :
           node' = [m \in Machines |-> IF m \in W THEN Reconciled(tier, m) ELSE node[m]]
    <3>1. CASE reconcile(tier)
      BY Zenon, <3>1 DEF reconcile
    <3>2. CASE reconcileFails(tier)
      <4>1. PICK failing \in Reconcilables(tier) :
               node' = [m \in Machines |-> IF m \in Reconcilables(tier) /\ m < failing
                                           THEN Reconciled(tier, m) ELSE node[m]]
        BY Zenon, <3>2 DEF reconcileFails
      <4> DEFINE V == {m \in Reconcilables(tier) : m < failing}
      <4>2. node' = [m \in Machines |-> IF m \in V THEN Reconciled(tier, m) ELSE node[m]]
        BY Zenon, <4>1
      <4> QED
        BY Zenon, <4>2
    <3> QED
      BY Zenon, <3>1, <3>2
  <2> QED
    BY Zenon, <1>1, <1>2, <2>1, WritesIInv DEF reconcile, reconcileFails
<1>3. CASE reconcile(tier) /\ tier # "worker" /\ Continue(NextTier[tier])
           /\ \A m \in Reconcilables(tier) : ~Waiting(tier, m)
  <2>1. /\ pc' = NextTier[tier] /\ pc' # "idle" /\ pc' \in Tiers \cup {"initialize"}
        /\ Before[pc'] = Before[tier] \cup {tier}
        /\ UNCHANGED <<cluster, want, life, seen, initialized, quiet>>
    BY <1>3 DEF reconcile, Continue, NextTier, Tiers, Before
  <2>2. \A m \in Reconcilables(tier) :
           /\ seen.node[m].plan = seen.want /\ seen.node[m].applied = seen.want
           /\ Reconciled(tier, m) = node[m]
    BY Zenon, <1>1, <1>3, TierIsDone
  <2>3. node' = node
    BY Zenon, <1>3, <2>2 DEF reconcile, IInv, TypeOK
  <2>4. \A t : Reconcilables(t)' = Reconcilables(t)
    BY Zenon, <2>1 DEF Reconcilables, InitNode, Etcd, ControlPlane, isOnlyWorker, Worker
  <2>5. \A m : Rank(m)' = Rank(m)
    BY Zenon, <2>1 DEF Rank, InitNode, Etcd, ControlPlane
  <2>6. TypeOK' /\ NodesAreSound' /\ PassIsAlone'
    BY Zenon, <1>1, <2>1, <2>3 DEF IInv, TypeOK, NodesAreSound, PassIsAlone, Loaded
  <2>7. TiersLeftBehind'
    BY Zenon, <1>1, <2>1, <2>2, <2>4 DEF IInv, TiersLeftBehind, Loaded
  <2>8. PlansInOrder' /\ TiersInOrder'
    BY Zenon, <2>1, <2>3, <2>5 DEF IInv, PlansInOrder, TiersInOrder
  <2> QED
    BY Zenon, <2>6, <2>7, <2>8 DEF IInv
<1> QED
  BY Zenon, <1>2, <1>3 DEF reconcile, reconcileFails

(* The other steps of the planner. *)
LEMMA PlannerIInv ==
    ASSUME IInv, Load \/ Uninitialize \/ initialize
    PROVE  IInv'
<1>1. UNCHANGED <<cluster, want, life, node, quiet>>
  BY Zenon DEF Load, Uninitialize, initialize
<1>2. \A m : Rank(m)' = Rank(m)
  BY Zenon, <1>1 DEF Rank, InitNode, Etcd, ControlPlane
<1>3. NodesAreSound' /\ PlansInOrder' /\ TiersInOrder'
  BY Zenon, <1>1, <1>2 DEF IInv, NodesAreSound, PlansInOrder, TiersInOrder
<1>4. initialized' \in BOOLEAN
  BY Zenon DEF IInv, TypeOK, Load, Uninitialize, initialize
<1>5. CASE Load
  <2>1. /\ pc' = "bootstrap" /\ seen' = [want |-> want, life |-> life, node |-> node]
    BY Zenon, <1>5 DEF Load
  <2>2. seen' \in [want : Versions, life : [Machines -> Lives], node : [Machines -> Nodes]]
    BY Zenon, <2>1 DEF IInv, TypeOK
  <2>3. seen' # NotLoaded
    <3>1. seen'.want # 0
      BY <2>2 DEF Versions
    <3> QED
      BY <3>1 DEF NotLoaded
  <2>4. TypeOK'
    BY Zenon, <1>1, <1>4, <2>1, <2>2, <2>3 DEF IInv, TypeOK, Tiers
  <2>5. PassIsAlone'
    <3>1. want \in Nat /\ \A m \in Machines : node[m] \in Nodes /\ life[m] \in Lives
      BY DEF IInv, TypeOK, Versions
    <3> QED
      BY <1>1, <2>1, <3>1 DEF IInv, NodesAreSound, PassIsAlone, Nodes, Lives
  <2>6. TiersLeftBehind'
    BY Zenon, <2>1 DEF TiersLeftBehind, Before
  <2> QED
    BY Zenon, <1>3, <2>4, <2>5, <2>6 DEF IInv
<1>6. CASE UNCHANGED <<pc, seen>>
  <2>1. TypeOK' /\ PassIsAlone'
    BY Zenon, <1>1, <1>4, <1>6 DEF IInv, TypeOK, PassIsAlone, Loaded
  <2>2. TiersLeftBehind'
    BY <1>1, <1>6 DEF IInv, TiersLeftBehind, Loaded, Reconcilables, InitNode, Etcd, ControlPlane,
                      isOnlyWorker, Worker
  <2> QED
    BY Zenon, <1>3, <2>1, <2>2 DEF IInv
<1>7. CASE pc = "initialize" /\ Continue("worker")
  <2>1. pc' = "worker" /\ UNCHANGED seen /\ Before["worker"] = Before["initialize"]
    BY Zenon, <1>7 DEF Continue, Before
  <2>2. TypeOK' /\ PassIsAlone'
    BY Zenon, <1>1, <1>4, <1>7, <2>1 DEF IInv, TypeOK, PassIsAlone, Loaded, Tiers
  <2>3. TiersLeftBehind'
    BY <1>1, <1>7, <2>1 DEF IInv, TiersLeftBehind, Loaded, Reconcilables, InitNode, Etcd, ControlPlane,
                            isOnlyWorker, Worker
  <2> QED
    BY Zenon, <1>3, <2>2, <2>3 DEF IInv
<1>8. CASE EndPass
  <2>1. TypeOK' /\ PassIsAlone' /\ TiersLeftBehind'
    BY Zenon, <1>1, <1>4, <1>8 DEF IInv, TypeOK, PassIsAlone, TiersLeftBehind, Loaded, EndPass
  <2> QED
    BY Zenon, <1>3, <2>1 DEF IInv
<1> QED
  BY Zenon, <1>5, <1>6, <1>7, <1>8 DEF Uninitialize, initialize

(* A step of the agent, or of the drain controller, on one machine. *)
LEMMA SetIInv ==
    ASSUME IInv, NEW m \in Machines, NEW x \in Nodes, Set(m, x), Sound(x),
           x.plan = node[m].plan, x.applied \in {node[m].applied, node[m].plan},
           node[m].drain = "none" => x.drain = "none",
           node[m].drain \in {"draining", "drained"} => x.drain \in {"draining", "drained"}
    PROVE  IInv'
<1>1. /\ UNCHANGED <<cluster, want, life, pc, seen, initialized, quiet>>
      /\ node' \in [Machines -> Nodes]
      /\ node'[m] = x /\ \A n \in Machines \ {m} : node'[n] = node[n]
  BY Zenon DEF Set, IInv, TypeOK
<1>2. TypeOK' /\ NodesAreSound'
  BY Zenon, <1>1 DEF IInv, TypeOK, NodesAreSound
<1>3. PassIsAlone'
  BY <1>1 DEF IInv, PassIsAlone, Loaded
<1>4. TiersLeftBehind'
  BY <1>1 DEF IInv, TiersLeftBehind, Loaded, Reconcilables, InitNode, Etcd, ControlPlane,
              isOnlyWorker, Worker
<1>5. \A n : Rank(n)' = Rank(n)
  BY Zenon, <1>1 DEF Rank, InitNode, Etcd, ControlPlane
<1>6. \A n \in Machines : node'[n].plan = node[n].plan
  BY Zenon, <1>1
<1>7. PlansInOrder'
  BY Zenon, <1>1, <1>5, <1>6 DEF IInv, PlansInOrder
<1>8. TiersInOrder'
  BY Zenon, <1>1, <1>5, <1>6 DEF IInv, TiersInOrder, PlansInOrder
<1> QED
  BY Zenon, <1>2, <1>3, <1>4, <1>7, <1>8 DEF IInv

LEMMA MachineIInv ==
    ASSUME IInv, NEW m \in Machines, Agent(m) \/ Trouble(m)
    PROVE  IInv'
<1> DEFINE x == node[m]
<1>1. x \in Nodes /\ Sound(x)
  BY Zenon DEF IInv, TypeOK, NodesAreSound
<1> HIDE DEF x
<1>2. CASE AgentApplies(m)
  <2> DEFINE y == [x EXCEPT !.applied = x.plan, !.failed = FALSE]
  <2>1. /\ y \in Nodes /\ y.plan = x.plan /\ y.applied = x.plan /\ y.drain = x.drain
        /\ y.failed = FALSE /\ y.healthy = x.healthy /\ y.probesUsable = x.probesUsable
    BY Zenon, <1>1 DEF Nodes
  <2>2. Set(m, y)
    BY Zenon, <1>2 DEF AgentApplies, x
  <2> HIDE DEF y
  <2>3. Sound(y)
    BY <1>1, <2>1 DEF Sound, Nodes
  <2> QED
    BY Zenon, <2>1, <2>2, <2>3, SetIInv DEF x
<1>3. CASE AgentFails(m)
  <2> DEFINE y == [x EXCEPT !.failed = TRUE]
  <2>1. /\ y \in Nodes /\ y.plan = x.plan /\ y.applied = x.applied /\ y.drain = x.drain
        /\ y.healthy = x.healthy /\ y.probesUsable = x.probesUsable
    BY Zenon, <1>1 DEF Nodes
  <2>2. Set(m, y) /\ x.plan # x.applied
    BY Zenon, <1>3 DEF AgentFails, x
  <2> HIDE DEF y
  <2>3. Sound(y)
    BY Zenon, <1>1, <2>1, <2>2 DEF Sound
  <2> QED
    BY Zenon, <2>1, <2>2, <2>3, SetIInv DEF x
<1>4. ASSUME NEW result \in BOOLEAN, AgentProbes(m, result)
      PROVE  IInv'
  <2> DEFINE y == [x EXCEPT !.healthy = result, !.probesUsable = @ \/ result,
                            !.joined = @ \/ result]
  <2>1. /\ y \in Nodes /\ y.plan = x.plan /\ y.applied = x.applied /\ y.drain = x.drain
        /\ y.failed = x.failed
    BY ZenonT(60), <1>1 DEF Nodes
  <2>2. Set(m, y) /\ x.plan = x.applied /\ x.plan # 0
    BY Zenon, <1>4 DEF AgentProbes, x
  <2> HIDE DEF y
  <2>3. Sound(y)
    BY Zenon, <1>1, <2>1, <2>2 DEF Sound
  <2> QED
    BY Zenon, <2>1, <2>2, <2>3, SetIInv DEF x
<1>5. CASE machineDrain(m)
  <2>1. PICK d \in {"drained", "none"} :
           /\ Set(m, [x EXCEPT !.drain = d])
           /\ x.drain = (IF d = "drained" THEN "draining" ELSE "uncordoning")
    BY Zenon, <1>5 DEF machineDrain, x
  <2> DEFINE y == [x EXCEPT !.drain = d]
  <2>2. /\ y \in Nodes /\ y.plan = x.plan /\ y.applied = x.applied /\ y.drain = d
        /\ y.failed = x.failed /\ y.healthy = x.healthy /\ y.probesUsable = x.probesUsable
    BY Zenon, <1>1, <2>1 DEF Nodes
  <2>3. Set(m, y)
    BY Zenon, <2>1
  <2> HIDE DEF y
  <2>4. Sound(y)
    BY Zenon, <1>1, <2>1, <2>2 DEF Sound
  <2> QED
    BY Zenon, <2>1, <2>2, <2>3, <2>4, SetIInv DEF x
<1> QED
  BY Zenon, <1>2, <1>3, <1>4, <1>5 DEF Agent, Trouble

(* The user. *)
LEMMA UserIInv ==
    ASSUME IInv, Upgrade \/ Quieten \/ UNCHANGED vars \/ \E m \in Machines : MachineChanges(m)
    PROVE  IInv'
<1>1. /\ UNCHANGED <<cluster, node, pc, seen, initialized>>
      /\ \A n : Rank(n)' = Rank(n)
      /\ TiersLeftBehind'
  <2>1. UNCHANGED <<cluster, node, pc, seen, initialized>>
    BY Zenon DEF Upgrade, Quieten, vars, MachineChanges, MachineBecomes
  <2> QED
    BY <2>1 DEF IInv, TiersLeftBehind, Loaded, Reconcilables, InitNode, Etcd, ControlPlane,
                isOnlyWorker, Worker, Rank
<1>2. CASE UNCHANGED <<life, want>> /\ quiet' \in BOOLEAN
  BY Zenon, <1>1, <1>2 DEF IInv, TypeOK, NodesAreSound, PassIsAlone, Loaded, PlansInOrder, TiersInOrder
<1>3. CASE Upgrade
  <2>1. want' = want + 1 /\ want' \in Versions /\ want \in Versions /\ UNCHANGED <<life, quiet>>
    BY <1>3, ClustersAssumption DEF Upgrade, IInv, TypeOK, Versions
  <2>2. TypeOK' /\ PlansInOrder' /\ TiersInOrder'
    BY Zenon, <1>1, <2>1 DEF IInv, TypeOK, PlansInOrder, TiersInOrder
  <2>3. want \in Nat /\ \A m \in Machines : node[m].plan \in Nat
    BY <2>1 DEF IInv, TypeOK, Nodes, Versions
  <2>4. NodesAreSound'
    BY <1>1, <2>1, <2>3 DEF IInv, NodesAreSound
  <2>5. Loaded => seen.want \in Nat
    BY SeenType DEF IInv, Versions
  <2>6. PassIsAlone'
    BY <1>1, <2>1, <2>3, <2>5 DEF IInv, PassIsAlone, Loaded
  <2> QED
    BY Zenon, <1>1, <2>2, <2>4, <2>6 DEF IInv
<1>4. ASSUME NEW m \in Machines, MachineChanges(m)
      PROVE  IInv'
  <2>1. PICK old \in Lives, new \in Lives :
           /\ <<old, new>> \in {<<"absent", "present">>, <<"present", "deleting">>, <<"deleting", "gone">>}
           /\ MachineBecomes(m, old, new)
    BY Zenon, <1>4 DEF MachineChanges, Lives
  <2>2. /\ life[m] = old /\ UNCHANGED <<want, quiet>>
        /\ life' \in [Machines -> Lives]
        /\ life'[m] = new /\ \A n \in Machines \ {m} : life'[n] = life[n]
    BY Zenon, <2>1 DEF MachineBecomes, IInv, TypeOK
  <2>3. TypeOK' /\ NodesAreSound'
    BY Zenon, <1>1, <2>1, <2>2 DEF IInv, TypeOK, NodesAreSound
  <2>4. PassIsAlone'
    BY Zenon, <1>1, <2>1, <2>2 DEF IInv, PassIsAlone, Loaded
  <2>5. new = "present" => node[m].plan = 0 /\ node[m].applied = 0
    BY <2>1, <2>2 DEF IInv, TypeOK, NodesAreSound, Sound, Nodes
  <2>6. PlansInOrder' /\ TiersInOrder'
    BY Zenon, <1>1, <2>1, <2>2, <2>5 DEF IInv, PlansInOrder, TiersInOrder
  <2> QED
    BY Zenon, <1>1, <2>3, <2>4, <2>6 DEF IInv
<1> QED
  BY Zenon, <1>2, <1>3, <1>4 DEF Quieten, vars, IInv, TypeOK

LEMMA NextIInv == IInv /\ [Next]_vars => IInv'
  BY Zenon, ReconcileIInv, PlannerIInv, MachineIInv, UserIInv DEF Next, PlannerStep

(* Every variable of the roll-out, and what the pass loaded, stays in its domain. *)
THEOREM TypeCorrect == Spec => []TypeOK
<1>1. IInv => TypeOK
  BY Zenon DEF IInv
<1> QED
  BY InitIInv, NextIInv, <1>1, PTL DEF Spec

(* fullReconcile and reconcile: whatever joins, leaves or changes during the pass, no machine
   is given a version that a machine of an earlier tier has not applied. *)
THEOREM TiersGoInOrder == Spec => []TiersInOrder
<1>1. IInv => TiersInOrder
  BY Zenon DEF IInv
<1> QED
  BY InitIInv, NextIInv, <1>1, PTL DEF Spec

-----------------------------------------------------------------------------
(* What the loop of reconcile admits: no more than the concurrency, together with the
   machines that were unavailable before. *)

Unavailable(tier) == {n \in Reconcilables(tier) : seen.node[n].plan # 0 /\ isUnavailable(n)}
TakenDown(tier) == {n \in Admitted(tier) : ~isUnavailable(n) /\ ~NeverSeenHealthy(n)}

LEMMA AdmittedWithinConcurrency ==
    ASSUME IInv, Loaded, NEW tier \in Tiers, calculateConcurrency(tier) # 0,
           TakenDown(tier) # {}
    PROVE  LET both == Unavailable(tier) \cup TakenDown(tier) IN
           IsFiniteSet(both) /\ Cardinality(both) <= calculateConcurrency(tier)
<1> DEFINE U == Unavailable(tier)
           A == TakenDown(tier)
           C(x) == {n \in Reconcilables(tier) : n < x /\ change(n) /\ ~isUnavailable(n)}
<1>1. /\ IsFiniteSet(U) /\ IsFiniteSet(A) /\ A \subseteq Int /\ \A x : IsFiniteSet(C(x))
      /\ A \subseteq Machines
  <2>1. U \subseteq Machines /\ A \subseteq Machines /\ \A x : C(x) \subseteq Machines
    BY Zenon DEF Unavailable, TakenDown, Admitted, Reconcilables
  <2> HIDE DEF U, A, C
  <2> QED
    BY ZenonT(60), <2>1, ClustersAssumption, FS_Subset
<1>2. PICK x \in A : \A y \in A : y <= x
  BY Zenon, <1>1, FiniteMax
<1>3. ASSUME NEW n \in A
      PROVE  /\ Cardinality(U) + Cardinality(C(n)) < calculateConcurrency(tier)
             /\ n \in Reconcilables(tier) /\ change(n) /\ ~isUnavailable(n)
  <2>1. /\ n \in Admitted(tier) /\ ~isUnavailable(n) /\ ~NeverSeenHealthy(n)
        /\ n \in Reconcilables(tier) /\ change(n)
    BY Zenon DEF TakenDown, Admitted
  <2>2. Sound(seen.node[n])
    BY Zenon, <1>1 DEF IInv, PassIsAlone
  <2>3. ~isInDrain(n) /\ ~seen.node[n].failed /\ ~planAppliedButProbesNeverHealthy(n)
    BY Zenon, <2>1, <2>2 DEF isUnavailable, InSync, Sound, NeverSeenHealthy, planAppliedButProbesNeverHealthy
  <2> QED
    BY Zenon, <2>1, <2>3 DEF Admitted, Unavailable
<1>4. A \ {x} \subseteq C(x)
  <2> SUFFICES ASSUME NEW n \in A, n # x
               PROVE  n \in C(x)
    BY Zenon
  <2>1. n < x
    BY <1>1, <1>2
  <2> QED
    BY Zenon, <1>3, <2>1
<1> HIDE DEF U, A, C
<1>5. /\ IsFiniteSet(A \ {x}) /\ Cardinality(A \ {x}) = Cardinality(A) - 1
      /\ Cardinality(A) \in Nat /\ Cardinality(U) \in Nat
  BY Zenon, <1>1, FS_RemoveElement, FS_CardinalityType
<1>6. Cardinality(A \ {x}) <= Cardinality(C(x)) /\ Cardinality(C(x)) \in Nat
  BY Zenon, <1>1, <1>4, FS_Subset, FS_CardinalityType
<1>7. /\ IsFiniteSet(U \cup A) /\ Cardinality(U \cup A) <= Cardinality(U) + Cardinality(A)
      /\ Cardinality(U \cup A) \in Nat
  <2>1. /\ IsFiniteSet(U \cup A) /\ IsFiniteSet(U \cap A)
        /\ Cardinality(U \cup A) = Cardinality(U) + Cardinality(A) - Cardinality(U \cap A)
    BY Zenon, <1>1, FS_Union, FS_Intersection
  <2>2. Cardinality(U \cap A) \in Nat /\ Cardinality(U \cup A) \in Nat
    BY Zenon, <2>1, FS_CardinalityType
  <2> QED
    BY <1>5, <2>1, <2>2
<1>8. calculateConcurrency(tier) \in Nat
  BY Zenon, ConcurrencyType DEF IInv
<1>9. Cardinality(U) + Cardinality(C(x)) < calculateConcurrency(tier)
  BY Zenon, <1>3
<1>10. Cardinality(U \cup A) <= calculateConcurrency(tier)
  BY <1>5, <1>6, <1>7, <1>8, <1>9
<1> QED
  BY Zenon, <1>7, <1>10 DEF U, A

(* calculateConcurrency rounds a percentage up. *)
LEMMA ConcurrencyIsAllowed ==
    ASSUME IInv, NEW tier \in {"controlplane", "worker"}
    PROVE  calculateConcurrency(tier) \in Allowed(Cardinality(Reconcilables(tier)))
<1> DEFINE count == Cardinality(Reconcilables(tier))
           v == MaxUnavailable.value
<1>1. count \in Nat
  <2>1. Reconcilables(tier) \subseteq Machines
    BY Zenon DEF Reconcilables
  <2> QED
    BY Zenon, <2>1, ClustersAssumption, FS_Subset, FS_CardinalityType
<1>2. MaxUnavailable \in [unit : {"number", "percent"}, value : Nat]
  BY Zenon, ClustersAssumption DEF IInv, TypeOK, IsCluster, MaxUnavailable
<1>3. CASE MaxUnavailable.unit = "number"
  BY Zenon, <1>3 DEF calculateConcurrency, Allowed
<1>4. CASE MaxUnavailable.unit = "percent"
  <2> HIDE DEF count, v
  <2> DEFINE p == count * v
             k == (p + 99) \div 100
  <2>1. p \in Nat /\ p = v * count
    BY <1>1, <1>2 DEF v
  <2> HIDE DEF p
  <2>2. k \in 0 .. p /\ 100 * k >= p /\ 100 * (k - 1) < p
    BY <2>1
  <2>3. calculateConcurrency(tier) = k
    BY Zenon, <1>4 DEF calculateConcurrency, count, v, p
  <2> HIDE DEF k
  <2>4. k \in {j \in 0 .. p : 100 * j >= p /\ 100 * (j - 1) < p}
    BY Zenon, <2>2
  <2>5. Allowed(count) = {j \in 0 .. p : 100 * j >= p /\ 100 * (j - 1) < p}
    BY Zenon, <1>4, <2>1 DEF Allowed, v
  <2> QED
    BY Zenon, <2>3, <2>4, <2>5 DEF count
<1> QED
  BY Zenon, <1>2, <1>3, <1>4

(* Of the machines of the tier that were seen healthy, one that is busy after a write was
   seen unavailable or is taken down now. *)
LEMMA BusyMachines ==
    ASSUME IInv, Loaded, NEW tier, NEW n \in Reconcilables(tier),
           node[n].plan # 0, ~NeverSeenHealthy(n),
           node'[n] \in {node[n], Reconciled(tier, n)}, Busy(node'[n])
    PROVE  /\ n \in Unavailable(tier) \cup TakenDown(tier)
           /\ ~isInDrain(n) => n \in TakenDown(tier) /\ change(n)
<1>1. /\ n \in Machines /\ seen.node[n] \in Nodes /\ Sound(seen.node[n]) /\ seen.node[n].plan # 0
      /\ node[n].plan = seen.node[n].plan
      /\ node[n].applied \in {seen.node[n].applied, seen.node[n].plan}
      /\ seen.node[n].drain = "none" => node[n].drain = "none"
  BY Zenon, SeenType DEF IInv, PassIsAlone, Reconcilables
<1>2. InSync(n)
  BY Zenon, <1>1 DEF InSync, Sound, NeverSeenHealthy
<1>3. CASE isInDrain(n)
  BY Zenon, <1>1, <1>3 DEF Unavailable, isUnavailable
<1>4. CASE ~isInDrain(n)
  <2>1. ~Busy(node[n])
    BY Zenon, <1>1, <1>2, <1>4 DEF Busy, isInDrain, InSync
  <2>2. Reconciled(tier, n) # node[n]
    BY Zenon, <2>1
  <2>3. n \in Admitted(tier)
    BY Zenon, <1>1, <1>4, <2>2 DEF Reconciled, isInDrain
  <2>4. change(n)
    BY Zenon, <2>3 DEF Admitted
  <2>5. ~isUnavailable(n)
    BY Zenon, <1>2, <1>4, <2>4 DEF isUnavailable
  <2> QED
    BY Zenon, <2>3, <2>4, <2>5 DEF TakenDown
<1> QED
  BY Zenon, <1>3, <1>4

(* A machine with a change belongs to the tier the pass is at: one of an earlier tier
   that is in this one as well has the version by now. *)
LEMMA ChangedInItsTier ==
    ASSUME IInv, pc \in Tiers, NEW m \in Reconcilables(pc), change(m)
    PROVE  pc = TierOf(m)
<1>1. m \in Machines /\ seen.life[m] = "present" /\ InitNode \in Etcd
  BY Zenon, ClustersAssumption DEF Reconcilables, IInv, TypeOK, IsCluster, InitNode, Etcd
<1>2. CASE pc = "bootstrap"
  BY <1>2 DEF Reconcilables, TierOf, Rank
<1>3. CASE pc = "etcd"
  BY <1>3 DEF Reconcilables, TierOf, Rank
<1>4. CASE pc = "controlplane"
  <2>1. "etcd" \in Before[pc] /\ Loaded
    BY Zenon, <1>4 DEF Before, Loaded
  <2>2. m \in ControlPlane \ {InitNode}
    BY Zenon, <1>4 DEF Reconcilables
  <2>3. m \notin Reconcilables("etcd")
    BY Zenon, <2>1 DEF IInv, TiersLeftBehind, change
  <2>4. m \notin Etcd
    BY Zenon, <1>1, <2>2, <2>3 DEF Reconcilables
  <2> QED
    BY <1>4, <2>2, <2>4 DEF TierOf, Rank
<1>5. CASE pc = "worker"
  BY <1>1, <1>5 DEF Reconcilables, TierOf, Rank, isOnlyWorker
<1> QED
  BY Zenon, <1>2, <1>3, <1>4, <1>5 DEF Tiers

(* calculateConcurrency and reconcile: a machine that has joined, was seen healthy and
   not in drain is taken down only as far as the upgrade strategy allows. *)
THEOREM ConcurrencyIsRespected == Spec => ConcurrencyRespected
<1> DEFINE down(m) == {n \in Reconcilables(TierOf(m)) :
                          node[n].plan # 0 /\ Busy(node'[n]) /\ ~NeverSeenHealthy(n)}
           Goal(m) == IF m \in Etcd THEN Cardinality(down(m)) <= 1
                      ELSE \E k \in Allowed(Cardinality(Reconcilables(TierOf(m)))) :
                              k # 0 => Cardinality(down(m)) <= k
           A == \A m \in Machines :
                   /\ node[m].joined /\ ~Busy(node[m]) /\ Busy(node'[m])
                   /\ ~NeverSeenHealthy(m) /\ ~isInDrain(m)
                   => Goal(m)
<1>1. IInv /\ [Next]_vars => A
  <2> SUFFICES ASSUME IInv, [Next]_vars, NEW m \in Machines,
                      ~Busy(node[m]), Busy(node'[m]), ~NeverSeenHealthy(m), ~isInDrain(m)
               PROVE  Goal(m)
    BY Zenon
  <2>1. PICK tier \in Tiers : reconcile(tier) \/ reconcileFails(tier)
    <3>1. CASE UNCHANGED node
      BY Zenon, <3>1
    <3>2. CASE \E n \in Machines : Agent(n) \/ Trouble(n)
      <4>1. PICK n \in Machines : Agent(n) \/ Trouble(n)
        BY Zenon, <3>2
      <4>2. PICK x : /\ node' = [node EXCEPT ![n] = x]
                     /\ \/ x = [node[n] EXCEPT !.applied = node[n].plan, !.failed = FALSE]
                        \/ x = [node[n] EXCEPT !.failed = TRUE] /\ node[n].plan # node[n].applied
                        \/ \E r \in BOOLEAN :
                              x = [node[n] EXCEPT !.healthy = r, !.probesUsable = @ \/ r,
                                                  !.joined = @ \/ r]
                        \/ \E d : x = [node[n] EXCEPT !.drain = d] /\ node[n].drain # "none"
        BY Zenon, <4>1 DEF Agent, Trouble, AgentApplies, AgentFails, AgentProbes, machineDrain, Set
      <4>3. node \in [Machines -> Nodes]
        BY Zenon DEF IInv, TypeOK
      <4>4. n = m
        BY ZenonT(60), <4>2, <4>3
      <4>5. node'[m] = x /\ node[m] \in Nodes
        BY ZenonT(60), <4>2, <4>3, <4>4
      <4>6. x.plan = node[m].plan /\ x.applied \in {node[m].plan, node[m].applied}
        BY ZenonT(60), <4>2, <4>4, <4>5 DEF Nodes
      <4>7. x.drain = node[m].drain \/ node[m].drain # "none"
        BY Zenon, <4>2, <4>4, <4>5 DEF Nodes
      <4> QED
        BY Zenon, <4>5, <4>6, <4>7 DEF Busy
    <3> QED
      BY Zenon, <3>1, <3>2 DEF Next, PlannerStep, Load, Uninitialize, initialize, Upgrade, Quieten,
                        MachineChanges, MachineBecomes, vars
  <2>2. /\ pc = tier /\ Loaded
        /\ \A n \in Machines :
              \/ node'[n] = node[n]
              \/ n \in Reconcilables(tier) /\ node'[n] = Reconciled(tier, n)
    BY Zenon, <2>1 DEF reconcile, reconcileFails, Loaded, Tiers
  <2>3. m \in Reconcilables(tier) /\ node'[m] = Reconciled(tier, m)
    BY Zenon, <2>2
  <2>4. node[m].plan # 0
    <3>1. Sound(seen.node[m]) /\ node[m].plan = seen.node[m].plan
      BY Zenon, <2>2 DEF IInv, PassIsAlone
    <3> QED
      BY Zenon, <3>1 DEF Sound, NeverSeenHealthy
  <2>5. m \in TakenDown(tier) /\ change(m)
    BY Zenon, <2>2, <2>3, <2>4, BusyMachines
  <2>6. tier = TierOf(m)
    BY Zenon, <2>2, <2>3, <2>5, ChangedInItsTier
  <2>7. down(m) \subseteq Unavailable(tier) \cup TakenDown(tier)
    <3> SUFFICES ASSUME NEW n \in down(m)
                 PROVE  n \in Unavailable(tier) \cup TakenDown(tier)
      BY Zenon
    <3>1. n \in Reconcilables(tier) /\ node[n].plan # 0 /\ Busy(node'[n]) /\ ~NeverSeenHealthy(n)
      BY Zenon, <2>6
    <3>2. n \in Machines
      BY Zenon, <3>1 DEF Reconcilables
    <3> QED
      BY Zenon, <2>2, <3>1, <3>2, BusyMachines
  <2> DEFINE c == calculateConcurrency(tier)
  <2>8. c # 0 => Cardinality(down(m)) <= c
    <3> SUFFICES ASSUME c # 0
                 PROVE  Cardinality(down(m)) <= c
      BY Zenon
    <3> DEFINE both == Unavailable(tier) \cup TakenDown(tier)
    <3>1. IsFiniteSet(both) /\ Cardinality(both) <= c
      BY Zenon, <2>2, <2>5, AdmittedWithinConcurrency
    <3>2. c \in Nat
      BY Zenon, ConcurrencyType DEF IInv
    <3>3. down(m) \subseteq both
      BY Zenon, <2>7
    <3> HIDE DEF down, both, c
    <3>4. Cardinality(down(m)) <= Cardinality(both) /\ Cardinality(down(m)) \in Nat
          /\ Cardinality(both) \in Nat
      BY Zenon, <3>1, <3>3, FS_Subset, FS_CardinalityType
    <3> QED
      BY <3>1, <3>2, <3>4
  <2> HIDE DEF down
  <2>9. CASE m \in Etcd
    <3>1. tier \in {"bootstrap", "etcd"}
      BY <2>6, <2>9 DEF TierOf, Rank
    <3>2. c = 1
      BY Zenon, <3>1 DEF calculateConcurrency
    <3> QED
      BY <2>8, <2>9, <3>2
  <2>10. CASE m \notin Etcd
    <3>1. tier \in {"controlplane", "worker"}
      <4>1. InitNode \in Etcd
        BY Zenon, ClustersAssumption DEF IInv, TypeOK, IsCluster, InitNode, Etcd
      <4> QED
        BY <2>6, <2>10, <4>1 DEF TierOf, Rank
    <3>2. c \in Allowed(Cardinality(Reconcilables(TierOf(m))))
      BY Zenon, <3>1, <2>6, ConcurrencyIsAllowed
    <3> HIDE DEF c
    <3> QED
      BY Zenon, <2>8, <2>10, <3>2
  <2> QED
    BY Zenon, <2>9, <2>10
<1>2. IInv /\ [Next]_vars => [A]_vars
  BY Zenon, <1>1
<1>3. [][A]_vars => ConcurrencyRespected
  BY PTL DEF ConcurrencyRespected
<1> QED
  BY InitIInv, NextIInv, <1>2, <1>3, PTL DEF Spec
=============================================================================
