---------------------------- MODULE MCRotation -----------------------------
(* The clusters to check EncryptionKeyRotation with: control plane machines 2 and 3, and an
   etcd machine. *)
EXTENDS EncryptionKeyRotation

(* The etcd machine is the init node; plans fail and requests change. *)
Troubled == [initNode |-> 1, flaky |-> {2}, initStates |-> {"ready"},
             interrupts |-> TRUE, lasting |-> TRUE,
             troubled |-> (ControlPlane \X Commands) \cup {<<3, "PostRotateRestart">>}]

(* A control plane machine is the init node, and goes and comes; restarts are tried again. *)
Calm == [initNode |-> 2, flaky |-> {2, 3}, initStates |-> {"ready", "unserving", "missing"},
         interrupts |-> FALSE, lasting |-> FALSE, troubled |-> ControlPlane \X {"PostReencryptRestart"}]

BothClusters == {Troubled, Calm}
FailingClusters == {[Troubled EXCEPT !.interrupts = FALSE]}
=============================================================================
