\* Two episodes, one per worker, and two faults anywhere.
SPECIFICATION Spec
CONSTANTS
    Coordinators = {c1, c2}
    NoCoordinator = NoCoordinator
    EpisodeCount = 2
    AttemptLimit = 2
    MaxFaults = 2
    FaultPoints <- AnyPoint
SYMMETRY CoordinatorSymmetry
INVARIANTS
    TypeOK
    OneRunAtATime
    AuthorityReceipted
    AtMostOneFinishedAttempt
    OnlyCrashFaults
    ClosureBindsAuthority
PROPERTIES
    NoScoreLost
    ImplementsLedger
CHECK_DEADLOCK FALSE
