SPECIFICATION Spec
CONSTANTS
    Machines = {1, 2, 3}
    Clusters <- RolloutClusters
    MaxVersion = 2
INVARIANTS TypeOK TiersInOrder
PROPERTIES ConcurrencyRespected RolloutConcludes
