---------------------------- MODULE MCReconcile ----------------------------
(* The clusters to check Reconcile with. *)
EXTENDS Reconcile

(* An init node, another control plane machine and a worker. *)
Small == [etcd |-> {1}, controlPlane |-> {1, 2}, worker |-> {3}, initNode |-> 1,
          early |-> {1, 2, 3}, late |-> {}, transient |-> {},
          maxUnavailable |-> [unit |-> "number", value |-> 1], drains |-> FALSE, settled |-> FALSE]

(* The second machine joins a new cluster and the worker leaves; the second machine leaves
   during an upgrade; *)
Joined == [Small EXCEPT !.early = {1, 3}, !.late = {2}, !.transient = {3}]
Left == [Small EXCEPT !.transient = {2}, !.drains = TRUE, !.settled = TRUE]
(* two etcd machines beside the init node, or two workers, are upgraded. *)
EtcdUpgraded == [Small EXCEPT !.etcd = {1, 2, 3}, !.controlPlane = {1}, !.worker = {1},
                              !.drains = TRUE, !.settled = TRUE]
WorkersUpgraded == [Small EXCEPT !.controlPlane = {1}, !.worker = {2, 3}, !.drains = TRUE,
                                 !.settled = TRUE,
                                 !.maxUnavailable = [unit |-> "percent", value |-> 40]]

RolloutClusters == {Joined, Left, EtcdUpgraded, WorkersUpgraded}
=============================================================================
