\* Two coordinators in any modes and three deaths of them or of the scorer: at once
\* while nothing has died, one at a time afterwards.
SPECIFICATION Spec
CONSTANTS
    Coordinators = {c1, c2}
    Nobody = Nobody
    EpisodeCount = 5
    Scored = 1
    MaxTries = 2
    MaxFaults = 3
CONSTRAINT OneAtATimeAfterDeaths
SYMMETRY CoordinatorSymmetry
INVARIANTS
    TypeOK
    SignalsOnce
    ReceiptsTruthful
    LockExcludesScorer
    BoundaryBeforeSignal
    PlanFreezesScores
    PlanBindsBoundary
CHECK_DEADLOCK FALSE
