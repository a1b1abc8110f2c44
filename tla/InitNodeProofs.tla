--------------------------- MODULE InitNodeProofs ---------------------------
(***************************************************************************)
(* Proofs, for any set of machines, that elections leave at most one init  *)
(* node and that only a designation puts a label beside another.           *)
(***************************************************************************)
EXTENDS InitNode, TLAPS

(* Labels are only given to etcd machines and to the fixed one. *)
LabelsOnEtcd == marked \cup {target} \subseteq EtcdMachines \cup {FixedInitNode, NoMachine}

(* The label is given by a pass that loaded no label, and no label appears
   during that pass: what AtMostOneInitNode needs to be inductive. *)
SetsAlone ==
    /\ pc = "set" => marked = {} /\ \E m \in Machines : todo = {m} /\ target = m
    /\ pc = "clear" => target = NoMachine

IInv == TypeOK /\ LabelsOnEtcd /\ SetsAlone

ElectIInv == IInv /\ AtMostOneInitNode /\ pc # "designate"

(* Removing a machine from a set of machines, or from the sets that record labels
   and join URLs, keeps them among the machines that remain present. *)
LEMMA MachineStepTypes ==
    ASSUME TypeOK, NEW m \in Machines,
           MachineChanges(m) \/ MachineRemoved(m) \/ setMachineJoinURL(m)
    PROVE  TypeOK'
<1>1. CASE MachineChanges(m)
  <2>1. life' \in [Machines -> Lives]
    BY <1>1 DEF TypeOK, MachineChanges, MachineBecomes, Lives
  <2>2. Present \subseteq Present'
    BY <1>1 DEF TypeOK, MachineChanges, MachineBecomes, Present, Lives
  <2> QED
    BY <1>1, <2>1, <2>2 DEF TypeOK, MachineChanges, MachineBecomes, passVars
<1>2. CASE MachineRemoved(m)
  <2>1. life' \in [Machines -> Lives]
    BY <1>2 DEF TypeOK, MachineRemoved, MachineBecomes, Lives
  <2>2. Present' = Present \ {m}
    BY <1>2 DEF TypeOK, MachineRemoved, MachineBecomes, Present, Lives
  <2> QED
    BY <1>2, <2>1, <2>2 DEF TypeOK, MachineRemoved, MachineBecomes, passVars
<1>3. CASE setMachineJoinURL(m)
  BY <1>3 DEF TypeOK, setMachineJoinURL, passVars, Present
<1> QED
  BY <1>1, <1>2, <1>3

(* A pass begins with something to do, on the machines it was given. *)
LEMMA BeginTypes ==
    ASSUME TypeOK, NEW where \in {"clear", "set", "designate"},
           NEW left \in SUBSET Machines, NEW to \in Machines \cup {NoMachine},
           Begin(where, left, to)
    PROVE  TypeOK'
BY DEF TypeOK, Begin, machineVars, Present

(* The steps that end or continue a pass keep the types. *)
LEMMA PassStepTypes ==
    ASSUME TypeOK, WriteLabel \/ WriteRefused \/ PassInterrupted
    PROVE  TypeOK'
<1>1. CASE WriteLabel
  <2>1. PICK m \in First(todo) :
          /\ m \in Present
          /\ IF m = target THEN setInitNodeMark(m) ELSE clearInitNodeMark(m)
          /\ IF todo = {m} THEN EndPass
                           ELSE todo' = todo \ {m} /\ UNCHANGED <<pc, target>>
    BY <1>1 DEF WriteLabel
  <2>2. m \in todo
    BY <2>1 DEF First
  <2>3. marked' \subseteq Present'
    BY <1>1, <2>1 DEF TypeOK, WriteLabel, setInitNodeMark, clearInitNodeMark, machineVars, Present
  <2>4. /\ joinURL' \subseteq Present' /\ life' \in [Machines -> Lives] /\ quiet' \in BOOLEAN
        /\ FixedInitNode' \in FixedInitNodes
    BY <1>1 DEF TypeOK, WriteLabel, machineVars, Present
  <2>5. pc # "idle"
    BY <1>1 DEF WriteLabel
  <2>6. CASE todo = {m}
    BY <2>1, <2>3, <2>4, <2>6 DEF TypeOK, EndPass
  <2>7. CASE todo # {m}
    <3>1. todo' # {}
      BY <2>1, <2>2, <2>7
    <3> QED
      BY <2>1, <2>3, <2>4, <2>5, <2>7, <3>1 DEF TypeOK
  <2> QED
    BY <2>6, <2>7
<1>2. CASE WriteRefused
  BY <1>2 DEF TypeOK, WriteRefused, EndPass, machineVars, Present
<1>3. CASE PassInterrupted
  BY <1>3 DEF TypeOK, PassInterrupted, EndPass, machineVars, Present
<1> QED
  BY <1>1, <1>2, <1>3

(* Every step keeps the types, designations included. *)
LEMMA NextTypes ==
    ASSUME TypeOK, [Next]_vars
    PROVE  TypeOK'
<1>1. CASE electInitNode
  <2>1. marked \subseteq Machines
    BY DEF TypeOK, Present
  <2>2. CASE Begin("clear", marked, NoMachine)
    BY <2>1, <2>2, BeginTypes
  <2>3. CASE \E m \in First(IF Populated # {} THEN Populated ELSE Viable) : Begin("set", {m}, m)
    <3>1. PICK m \in Machines : Begin("set", {m}, m)
      BY Zenon, <2>3 DEF First, Populated, Viable
    <3> QED
      BY <3>1, BeginTypes
  <2> QED
    BY <1>1, <2>2, <2>3 DEF electInitNode
<1>2. CASE findAndDesignateFixedInitNode
  <2> DEFINE others == (marked \cap EtcdMachines) \ {FixedInitNode}
  <2>1. others \subseteq Machines /\ FixedInitNode \in Machines
    BY Zenon, <1>2, MachinesAssumption DEF findAndDesignateFixedInitNode, Present
  <2>2. Begin("clear", others, NoMachine) \/ Begin("set", {FixedInitNode}, FixedInitNode)
    BY <1>2 DEF findAndDesignateFixedInitNode
  <2> HIDE DEF others
  <2> QED
    BY <2>1, <2>2, BeginTypes
<1>3. CASE WriteLabel \/ WriteRefused \/ PassInterrupted
  BY <1>3, PassStepTypes
<1>4. ASSUME NEW m \in Machines, MachineChanges(m) \/ MachineRemoved(m) \/ setMachineJoinURL(m)
      PROVE  TypeOK'
  BY <1>4, MachineStepTypes
<1>5. CASE Quieten
  BY <1>5 DEF TypeOK, Quieten, machineVars, passVars, Present
<1>6. ASSUME NEW m \in EtcdMachines, designateInitNodeByMachineID(m)
      PROVE  TypeOK'
  <2> DEFINE wrong == {n \in PresentEtcd : (n = m) # (n \in marked)}
  <2>1. wrong \subseteq Machines /\ m \in Machines
    BY MachinesAssumption DEF PresentEtcd, Present
  <2>2. Begin("designate", wrong, m)
    BY <1>6 DEF designateInitNodeByMachineID
  <2> HIDE DEF wrong
  <2> QED
    BY <2>1, <2>2, BeginTypes
<1>7. CASE UNCHANGED vars
  BY <1>7 DEF TypeOK, vars, Present
<1> QED
  BY <1>1, <1>2, <1>3, <1>4, <1>5, <1>6, <1>7 DEF Next, ElectNext, PlannerStep, Environment

(* The label of the control plane that fixes the init node never changes. *)
LEMMA FixedForGood ==
    ASSUME [Next]_vars
    PROVE  FixedInitNode' = FixedInitNode
BY DEF Next, ElectNext, PlannerStep, Environment, electInitNode, findAndDesignateFixedInitNode,
    designateInitNodeByMachineID, Begin, WriteLabel, WriteRefused, PassInterrupted, MachineChanges,
    MachineRemoved, MachineBecomes, setMachineJoinURL, Quieten, machineVars, vars

(* No step gives the label to another machine than these. *)
LEMMA NextLabelsOnEtcd ==
    ASSUME IInv, [Next]_vars
    PROVE  LabelsOnEtcd'
<1> USE FixedForGood DEF IInv, LabelsOnEtcd
<1>1. CASE electInitNode
  BY <1>1 DEF electInitNode, Begin, First, Populated, Viable, canBeInitNode
<1>2. CASE findAndDesignateFixedInitNode
  BY <1>2 DEF findAndDesignateFixedInitNode, Begin
<1>3. CASE WriteLabel
  BY <1>3 DEF WriteLabel, setInitNodeMark, clearInitNodeMark, EndPass
<1>4. CASE WriteRefused \/ PassInterrupted
  BY <1>4 DEF WriteRefused, PassInterrupted, EndPass
<1>5. ASSUME NEW m \in Machines, MachineChanges(m) \/ MachineRemoved(m) \/ setMachineJoinURL(m)
      PROVE  LabelsOnEtcd'
  BY <1>5 DEF MachineChanges, MachineRemoved, setMachineJoinURL, MachineBecomes, passVars
<1>6. CASE Quieten
  BY <1>6 DEF Quieten, passVars
<1>7. ASSUME NEW m \in EtcdMachines, designateInitNodeByMachineID(m)
      PROVE  LabelsOnEtcd'
  BY <1>7 DEF designateInitNodeByMachineID, Begin
<1>8. CASE UNCHANGED vars
  BY <1>8 DEF vars
<1> QED
  BY <1>1, <1>2, <1>3, <1>4, <1>5, <1>6, <1>7, <1>8 DEF Next, ElectNext, PlannerStep, Environment

(* A pass that will give the label keeps the one machine it chose, and no label
   appears before it does. *)
LEMMA NextSetsAlone ==
    ASSUME IInv, [Next]_vars
    PROVE  SetsAlone'
<1> USE DEF IInv, SetsAlone
<1>1. CASE electInitNode
  BY <1>1 DEF electInitNode, Begin, First, Populated, Viable
<1>2. CASE findAndDesignateFixedInitNode
  <2> DEFINE others == (marked \cap EtcdMachines) \ {FixedInitNode}
  <2>1. FixedInitNode \in Machines /\ FixedInitNode \notin marked
    BY <1>2 DEF findAndDesignateFixedInitNode, Present
  <2>2. others = {} => marked = {}
    BY <2>1, FixedAssumption DEF TypeOK, Present, LabelsOnEtcd
  <2>3. \/ Begin("clear", others, NoMachine)
        \/ others = {} /\ Begin("set", {FixedInitNode}, FixedInitNode)
    BY <1>2 DEF findAndDesignateFixedInitNode
  <2> QED
    BY <2>1, <2>2, <2>3 DEF Begin
<1>3. CASE WriteLabel
  BY <1>3, FixedAssumption DEF WriteLabel, setInitNodeMark, clearInitNodeMark, EndPass, First, TypeOK
<1>4. CASE WriteRefused \/ PassInterrupted
  BY <1>4 DEF WriteRefused, PassInterrupted, EndPass
<1>5. ASSUME NEW m \in Machines, MachineChanges(m) \/ MachineRemoved(m) \/ setMachineJoinURL(m)
      PROVE  SetsAlone'
  BY <1>5 DEF MachineChanges, MachineRemoved, setMachineJoinURL, MachineBecomes, passVars
<1>6. CASE Quieten
  BY <1>6 DEF Quieten, passVars
<1>7. ASSUME NEW m \in EtcdMachines, designateInitNodeByMachineID(m)
      PROVE  SetsAlone'
  BY <1>7 DEF designateInitNodeByMachineID, Begin
<1>8. CASE UNCHANGED vars
  BY <1>8 DEF vars
<1> QED
  BY <1>1, <1>2, <1>3, <1>4, <1>5, <1>6, <1>7, <1>8 DEF Next, ElectNext, PlannerStep, Environment

(* The inductive invariant holds at the start and every step keeps it. *)
LEMMA InitIInv == Init => IInv
BY Zenon DEF Init, IInv, TypeOK, LabelsOnEtcd, SetsAlone, Lives, Present

LEMMA NextIInv == IInv /\ [Next]_vars => IInv'
BY NextTypes, NextLabelsOnEtcd, NextSetsAlone DEF IInv

(* Type correctness, for any set of machines, elections and designations alike. *)
THEOREM TypeCorrect == Spec => []TypeOK
<1>1. IInv => TypeOK
  BY DEF IInv
<1> QED
  BY InitIInv, NextIInv, <1>1, PTL DEF Spec

(* Only a designation puts a label beside another one (initnode.go:156-170): the
   pass of an election that sets a label has seen none, and none has appeared. *)
THEOREM LabelsAreAddedAlone == Spec => LabelAddedAlone
<1> DEFINE A == marked' \ marked # {} /\ marked # {} => pc = "designate"
<1>1. ASSUME IInv, [Next]_vars PROVE [A]_vars
  <2> SUFFICES ASSUME marked' \ marked # {}, marked # {} PROVE pc = "designate"
    OBVIOUS
  <2>1. CASE WriteLabel
    BY <1>1, <2>1, FixedAssumption
    DEF IInv, TypeOK, SetsAlone, WriteLabel, setInitNodeMark, clearInitNodeMark, First
  <2>2. CASE ~WriteLabel
    <3>1. marked' \subseteq marked
      BY <1>1, <2>2
      DEF Next, ElectNext, PlannerStep, Environment, electInitNode,
          findAndDesignateFixedInitNode, designateInitNodeByMachineID, Begin, WriteRefused,
          PassInterrupted, MachineChanges, MachineRemoved, setMachineJoinURL, Quieten, vars
    <3> QED
      BY <3>1
  <2> QED
    BY <2>1, <2>2
<1> QED
  BY InitIInv, NextIInv, <1>1, PTL DEF Spec, LabelAddedAlone

(* No step of a cluster that is never restored from a local snapshot leaves two
   init nodes. *)
LEMMA ElectNextIInv == ElectIInv /\ [ElectNext]_vars => ElectIInv'
<1> SUFFICES ASSUME ElectIInv, [ElectNext]_vars PROVE ElectIInv'
  OBVIOUS
<1>1. IInv'
  BY NextIInv DEF ElectIInv, Next
<1>2. CASE WriteLabel
  BY <1>1, <1>2, FixedAssumption
  DEF ElectIInv, IInv, TypeOK, SetsAlone, AtMostOneInitNode, WriteLabel, setInitNodeMark,
      clearInitNodeMark, First, EndPass
<1>3. CASE ~WriteLabel
  <2>1. marked' \subseteq marked /\ pc' # "designate"
    BY <1>3
    DEF ElectIInv, ElectNext, PlannerStep, Environment, electInitNode,
        findAndDesignateFixedInitNode, Begin, WriteRefused, PassInterrupted, EndPass,
        MachineChanges, MachineRemoved, MachineBecomes, setMachineJoinURL, Quieten, passVars, vars
  <2> QED
    BY <1>1, <2>1 DEF ElectIInv, AtMostOneInitNode
<1> QED
  BY <1>2, <1>3

(* Elections never leave two init nodes, for any set of machines and however
   passes are interrupted: electInitNode and findAndDesignateFixedInitNode clear
   every label and end the pass before a later pass sets one. *)
THEOREM ElectionsLeaveOneInitNode == ElectSpec => []AtMostOneInitNode
<1>1. Init => ElectIInv
  BY InitIInv DEF ElectIInv, Init, AtMostOneInitNode
<1>2. ElectIInv => AtMostOneInitNode
  BY DEF ElectIInv
<1> QED
  BY <1>1, ElectNextIInv, <1>2, PTL DEF ElectSpec

=============================================================================
