\* One death, of a worker between the rename that publishes its sidecar and the
\* prune of the emptied attempt.
SPECIFICATION FairSpec
CONSTANTS
    Coordinators = {c1}
    NoCoordinator = NoCoordinator
    EpisodeCount = 2
    AttemptLimit = 3
    MaxFaults = 1
    FaultPoints <- PrunePoint
PROPERTIES
    ResumeCompletes
CHECK_DEADLOCK FALSE
