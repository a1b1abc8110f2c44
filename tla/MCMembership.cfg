SPECIFICATION Spec
CONSTANTS
  Machines = {1, 2, 3, 4}
  Idle = Idle
  None = None
  Scenarios <- MembershipScenarios
INVARIANT TypeOK
PROPERTIES
  MemberRemovedFirst
  NobodyLeftBehind
  OneEtcdCluster
  DeletedMachinesGo
