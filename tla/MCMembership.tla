---------------------------- MODULE MCMembership ----------------------------
(* Instances of Membership for model checking.                             *)
EXTENDS Membership

(* Machines 1 and 2 with etcd and control plane, worker 4.                 *)
Plain == [etcd |-> {1, 2}, controlPlane |-> {1, 2}, early |-> {1, 2, 4}, late |-> {},
          removable |-> {}, nodes |-> {}, deletable |-> FALSE,
          unconnected |-> FALSE]

(* The init node and an etcd machine that arrives meanwhile are deleted.   *)
Replaced == [Plain EXCEPT !.etcd = {1, 2, 3}, !.late = {3}, !.removable = {1, 3}]
(* An init node without the control plane role is deleted.                 *)
Split == [Plain EXCEPT !.etcd = {2, 3}, !.controlPlane = {1}, !.early = {1, 2, 3, 4},
                       !.removable = {2}]
(* Two machines other than the init node are deleted.                      *)
Shrinks == [Plain EXCEPT !.etcd = {1, 2, 3}, !.controlPlane = {1}, !.early = {1, 2, 3, 4},
                         !.removable = {2, 3}]
(* The init node and the only worker are deleted.                          *)
Insane == [Plain EXCEPT !.removable = {1, 4}]
(* The init node is deleted, and its node, or the cluster.                 *)
NodeGone == [Plain EXCEPT !.removable = {1}, !.nodes = {1}]
ClusterGone == [Plain EXCEPT !.removable = {1}, !.deletable = TRUE]
(* The kubeconfig secret is deleted, and the init node or an etcd machine  *)
(* that has just arrived.                                                  *)
Unconnected == [Split EXCEPT !.unconnected = TRUE]
Newcomer == [Plain EXCEPT !.etcd = {1, 2, 3}, !.late = {3}, !.removable = {3},
                          !.unconnected = TRUE]

MembershipScenarios == {Replaced, Split, Shrinks, Insane, NodeGone, ClusterGone, Unconnected,
                        Newcomer}

(* One etcd cluster is to be expected of them.                             *)
ASSUME ScenariosKeepEtcd == EtcdStays
=============================================================================
