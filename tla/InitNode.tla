------------------------------ MODULE InitNode ------------------------------
(***************************************************************************)
(* Election and designation of the init node of an RKE2/K3s cluster, from  *)
(* pkg/capr/planner/initnode.go.                                           *)
(*                                                                         *)
(* The init node is the etcd machine whose plan secret carries the init    *)
(* label; it alone is told to found the cluster, every other machine is    *)
(* told to join.  The label lives on one secret per machine, so moving it  *)
(* takes one API write per secret, and the planner may be interrupted      *)
(* between two of them.  A pass decides on what it loaded at its start,    *)
(* while machines keep changing underneath.                                *)
(***************************************************************************)
EXTENDS Integers, FiniteSets

CONSTANTS Machines,       \* machine names; their order is the order of the names
          EtcdMachines,   \* the machines whose plan secret has the etcd role label
          FixedInitNodes, \* what the control plane's label may fix: machines, or NoMachine
          NoMachine

ASSUME MachinesAssumption == Machines \subseteq Int /\ EtcdMachines \subseteq Machines
ASSUME FixedAssumption == NoMachine \notin Machines /\ FixedInitNodes \subseteq Machines \cup {NoMachine}

VARIABLES
    FixedInitNode,  \* the machine the control plane's label fixes for good, or NoMachine
    life,     \* life[m]: what the Machine object says of m
    joinURL,  \* the machines whose plan secret has a join URL annotation
    marked,   \* the machines whose plan secret has the init node label
    pc,       \* where the planner's pass is
    todo,     \* the machines whose label the pass still has to set or clear
    target,   \* the machine the pass gives the label to
    quiet     \* machines have stopped changing and API calls have stopped failing

vars == <<FixedInitNode, life, joinURL, marked, pc, todo, target, quiet>>
machineVars == <<FixedInitNode, life, joinURL>>
passVars == <<pc, todo, target>>

Lives == {"absent", "pending", "ready", "failed", "deleting"}
Present == {m \in Machines : life[m] # "absent"}
PresentEtcd == Present \cap EtcdMachines

(* A machine the planner may pick: an etcd machine that is neither deleting
   nor failed and whose infrastructure is ready. *)
canBeInitNode(m) == m \in EtcdMachines /\ life[m] = "ready"

Viable == {m \in Machines : canBeInitNode(m)}
Populated == Viable \cap joinURL

(* collect sorts by machine name: the first of a set of machines. *)
First(S) == {m \in S : \A n \in S : m <= n}

-----------------------------------------------------------------------------
(* Faulty: an init node that is deleting, or failed, stays the init node. *)
findInitNodeNotViable ==
    \E m \in Machines : marked = {m} /\ (m \in joinURL \/ Populated = {})

(* findInitNode without a fixed init node: a single machine is marked, it is
   viable, and it has a join URL unless no viable machine has one. *)
findInitNode ==
    \E m \in Viable : marked = {m} /\ (m \in joinURL \/ Populated = {})

Begin(where, left, to) ==
    /\ pc = "idle"
    /\ left # {}
    /\ pc' = where
    /\ todo' = left
    /\ target' = to
    /\ UNCHANGED <<machineVars, marked, quiet>>

(* Faulty: what the interrupted pass had left to do outlives it. *)
EndPassKeepsTodo ==
    /\ pc' = "idle"
    /\ target' = NoMachine
    /\ UNCHANGED todo

EndPass ==
    /\ pc' = "idle"
    /\ todo' = {}
    /\ target' = NoMachine

(* Faulty: the replacement is marked by the pass that found the old mark unfit. *)
electInitNodeBesideOldMark ==
    /\ FixedInitNode = NoMachine
    /\ ~findInitNode
    /\ \E m \in First(IF Populated # {} THEN Populated ELSE Viable) : Begin("set", {m}, m)

(* electInitNode when findInitNode does not settle it: all labels go first, and
   a machine is marked only by a pass that loaded none, the first viable one
   with a join URL before the first viable one. *)
electInitNode ==
    /\ FixedInitNode = NoMachine
    /\ ~findInitNode
    /\ \/ Begin("clear", marked, NoMachine)
       \/ /\ marked = {}
          /\ \E m \in First(IF Populated # {} THEN Populated ELSE Viable) :
                Begin("set", {m}, m)

(* Faulty: the fixed machine is waited for until it is viable and populated. *)
findAndDesignateFixedInitNodeViable ==
    /\ FixedInitNode \in Populated \ marked
    /\ LET others == (marked \cap EtcdMachines) \ {FixedInitNode} IN
        \/ Begin("clear", others, NoMachine)
        \/ others = {} /\ Begin("set", {FixedInitNode}, FixedInitNode)

(* findAndDesignateFixedInitNode: the same discipline for the one fixed machine,
   viable or not; once it has the label nothing more is done. *)
findAndDesignateFixedInitNode ==
    /\ FixedInitNode \in Present \ marked
    /\ LET others == (marked \cap EtcdMachines) \ {FixedInitNode} IN
        \/ Begin("clear", others, NoMachine)
        \/ others = {} /\ Begin("set", {FixedInitNode}, FixedInitNode)

(* designateInitNodeByMachineID: one walk over the etcd machines sets the label
   of the requested one and clears the others.  The requested machine, the one
   a local snapshot was taken on, may have gone. *)
designateInitNodeByMachineID(m) ==
    /\ ~quiet
    /\ Begin("designate", {n \in PresentEtcd : (n = m) # (n \in marked)}, m)

-----------------------------------------------------------------------------
setInitNodeMark(m) == marked' = marked \cup {m}

clearInitNodeMark(m) == marked' = marked \ {m}

(* The next label write of the pass, in name order.  The secret is read live, so
   the machine must still have one; the last write ends the pass (ErrSkip). *)
WriteLabel ==
    /\ pc # "idle"
    /\ \E m \in First(todo) :
        /\ m \in Present
        /\ IF m = target THEN setInitNodeMark(m) ELSE clearInitNodeMark(m)
        /\ IF todo = {m} THEN EndPass
                         ELSE todo' = todo \ {m} /\ UNCHANGED <<pc, target>>
    /\ UNCHANGED <<machineVars, quiet>>

(* The plan secret of the next machine is gone: the pass ends with that error. *)
WriteRefused ==
    /\ pc # "idle"
    /\ \E m \in First(todo) : m \notin Present
    /\ EndPass
    /\ UNCHANGED <<machineVars, marked, quiet>>

(* A conflict, an unreachable API or a restart of the server ends the pass. *)
PassInterrupted ==
    /\ pc # "idle"
    /\ ~quiet
    /\ EndPass
    /\ UNCHANGED <<machineVars, marked, quiet>>

-----------------------------------------------------------------------------
(* Machines change at any time, also in the middle of a pass. *)
MachineBecomes(m, old, new) ==
    /\ ~quiet
    /\ life[m] \in old
    /\ life' = [life EXCEPT ![m] = new]
    /\ UNCHANGED <<FixedInitNode, passVars, quiet>>

MachineChanges(m) ==
    /\ \/ MachineBecomes(m, {"absent", "ready"}, "pending")
       \/ MachineBecomes(m, {"pending"}, "ready")
       \/ MachineBecomes(m, {"pending", "ready"}, "failed")
       \/ MachineBecomes(m, {"pending", "ready", "failed"}, "deleting")
    /\ UNCHANGED <<joinURL, marked>>

(* The machine and its plan secret, with the labels on it, are gone. *)
MachineRemoved(m) ==
    /\ MachineBecomes(m, {"deleting"}, "absent")
    /\ joinURL' = joinURL \ {m}
    /\ marked' = marked \ {m}

(* setMachineJoinURL: a pass finds the address of a node and only records it. *)
setMachineJoinURL(m) ==
    /\ ~quiet
    /\ pc = "idle"
    /\ m \in Present \ joinURL
    /\ joinURL' = joinURL \cup {m}
    /\ UNCHANGED <<FixedInitNode, life, marked, passVars, quiet>>

Quieten == quiet' = TRUE /\ UNCHANGED <<machineVars, marked, passVars>>

-----------------------------------------------------------------------------
Init ==
    /\ FixedInitNode \in FixedInitNodes
    /\ life = [m \in Machines |-> "absent"]
    /\ joinURL = {}
    /\ marked = {}
    /\ pc = "idle"
    /\ todo = {}
    /\ target = NoMachine
    /\ quiet = FALSE

PlannerStep ==
    \/ electInitNode
    \/ findAndDesignateFixedInitNode
    \/ WriteLabel
    \/ WriteRefused

Environment ==
    \/ PassInterrupted
    \/ \E m \in Machines : MachineChanges(m) \/ MachineRemoved(m) \/ setMachineJoinURL(m)
    \/ Quieten

(* The life of a cluster whose etcd is never restored from a local snapshot ... *)
ElectNext == PlannerStep \/ Environment
ElectSpec == Init /\ [][ElectNext]_vars /\ WF_vars(PlannerStep)

(* ... and of one that is. *)
Next == ElectNext \/ \E m \in EtcdMachines : designateInitNodeByMachineID(m)
Spec == Init /\ [][Next]_vars /\ WF_vars(PlannerStep)

-----------------------------------------------------------------------------
(* Every variable stays in its domain. *)
TypeOK ==
    /\ FixedInitNode \in FixedInitNodes
    /\ life \in [Machines -> Lives]
    /\ joinURL \subseteq Present
    /\ marked \subseteq Present
    /\ pc \in {"idle", "clear", "set", "designate"}
    /\ todo \subseteq Machines
    /\ (pc = "idle") <=> (todo = {})
    /\ target \in Machines \cup {NoMachine}
    /\ quiet \in BOOLEAN

(* However passes are interrupted and machines come and go, elections never leave
   two machines with the init label: two would each be told to found a cluster. *)
AtMostOneInitNode == \A m, n \in marked : m = n

(* Only the designation that a local snapshot restore asks for ever puts a label
   beside another one; an election, also one that repairs an interrupted
   designation, takes all labels away first. *)
LabelAddedAlone == [][marked' \ marked # {} /\ marked # {} => pc = "designate"]_vars

(* One viable init node, one with a join URL if any viable machine has one. *)
Settled ==
    /\ Cardinality(marked) = (IF Viable = {} THEN 0 ELSE 1)
    /\ marked \subseteq (IF Populated = {} THEN Viable ELSE Populated)

(* Once machines stay as they are, the passes reach a single best init node and
   leave it alone, whatever interrupted elections and designations left behind,
   unless the control plane fixes the init node. *)
ElectionSettles == (<>quiet) => <>[](FixedInitNode = NoMachine => Settled)

(* A fixed init node that exists ends up with the label for good. *)
FixedInitNodeSettles == (<>quiet) => <>[](FixedInitNode \in Present => FixedInitNode \in marked)

=============================================================================
