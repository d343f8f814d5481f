\* Liveness: one coordinator identity, restarted until it completes, three
\* episodes, so that one worker has two, and two faults at the points resume is
\* written to survive.
SPECIFICATION FairSpec
CONSTANTS
    Coordinators = {c1}
    NoCoordinator = NoCoordinator
    EpisodeCount = 3
    AttemptLimit = 3
    MaxFaults = 2
    FaultPoints <- ResumablePoints
PROPERTIES
    ResumeCompletes
CHECK_DEADLOCK FALSE
