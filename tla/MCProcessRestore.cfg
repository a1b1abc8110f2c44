SPECIFICATION Spec
CONSTANTS
    Machines = {1, 2, 3, 4}
    Self = Self
    None = None
    Scenarios <- RestoreScenarios
INVARIANTS TypeOK RestoredDataServed
PROPERTIES RestoredWhileStopped NodeCleanupSparesMachines
