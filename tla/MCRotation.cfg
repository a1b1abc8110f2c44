SPECIFICATION Spec
CONSTANTS
  Machines = {1, 2, 3}
  ControlPlane = {2, 3}
  MaxGeneration = 2
  MaxAttempts = 2
  Clusters <- BothClusters
  None = None
INVARIANTS
  TypeOK
  DoneMeansReencrypted
  OneLeaderPerRotation
  RotationHoldsPause
PROPERTY RotationConcludes
