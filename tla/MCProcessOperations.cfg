SPECIFICATION Spec
CONSTANTS
    Machines = {1, 2, 3}
    Self = Self
    None = None
    Scenarios <- OperationScenarios
INVARIANT SnapshotOnEveryMachine
PROPERTIES CreationSparesRestoration OperationsConclude
