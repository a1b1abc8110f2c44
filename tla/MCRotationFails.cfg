SPECIFICATION Spec
CONSTANTS
  Machines = {1, 2, 3}
  ControlPlane = {2, 3}
  MaxGeneration = 1
  MaxAttempts = 2
  Clusters <- FailingClusters
  None = None
PROPERTY FailureEndsRotation
