----------------------------- MODULE MCProcess -----------------------------
(* Instances of Process for model checking.                                *)
EXTENDS Process

S3 == [kind |-> "s3", on |-> 1]
Local(m) == [kind |-> "local", on |-> m]
Unlisted == [kind |-> "unknown", on |-> 1]

(* Machine 1 has the etcd role, 2 both roles, 3 the controlplane role.     *)
Plain == [etcd |-> {1, 2}, controlPlane |-> {2, 3}, late |-> {}, removable |-> {},
          fixed |-> None, snapshots |-> <<>>, creates |-> 0, rotates |-> 0,
          withdrawals |-> {}, crashes |-> TRUE, failures |-> FALSE, lag |-> FALSE]

(* Restorations that are superseded, withdrawn or fail, of an S3 snapshot  *)
(* and of a local one on a machine that is not the init node, while a      *)
(* control plane machine is replaced or an etcd machine is removed.        *)
RestoreScenarios == {
    [Plain EXCEPT !.controlPlane = {3, 4}, !.late = {4}, !.removable = {3}, !.failures = TRUE,
                  !.lag = TRUE, !.snapshots = <<Local(2)>>, !.withdrawals = {"restore"}],
    [Plain EXCEPT !.removable = {3}, !.failures = TRUE, !.lag = TRUE,
                  !.snapshots = <<S3, Local(2)>>, !.creates = 0],
    [Plain EXCEPT !.removable = {2}, !.failures = TRUE, !.snapshots = <<S3, S3>>, !.creates = 1,
                  !.withdrawals = {"create"}]}

(* Operations that overlap, each of which can end.                         *)
OperationScenarios == {
    [Plain EXCEPT !.controlPlane = {1, 3}, !.fixed = 1, !.snapshots = <<Local(1)>>,
                  !.creates = 1, !.rotates = 1],
    [Plain EXCEPT !.late = {3}, !.snapshots = <<S3, Local(2)>>, !.creates = 1],
    [Plain EXCEPT !.removable = {2}, !.snapshots = <<S3>>, !.creates = 1],
    [Plain EXCEPT !.removable = {3}, !.snapshots = <<Local(2)>>, !.creates = 1],
    [Plain EXCEPT !.etcd = {1}, !.snapshots = <<Unlisted>>, !.rotates = 1]}

(* Certificates are rotated while a machine is added.                      *)
ScaleUpScenarios == {[Plain EXCEPT !.late = {3}, !.rotates = 1]}

(* Snapshots are to be expected on every machine, and the data of one that *)
(* was restored.                                                           *)
ASSUME ScenariosHaveSnapshots == FixedHasSnapshots /\ OneCreation
=============================================================================
