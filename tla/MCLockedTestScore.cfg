\* A finalizing process and a second walker over two episodes, two faults.
SPECIFICATION FairSpec
CONSTANTS
    Processes = {p1, p2}
    Finalizers = {p1}
    None = None
    ValidCount = 2
    MaxFaults = 2
INVARIANTS
    TypeOK
    StagesBindScores
PROPERTIES
    PublishedOnce
    CollisionsSurvived
    OrphansFromFaults
    FinalizationCompletes
CHECK_DEADLOCK FALSE
