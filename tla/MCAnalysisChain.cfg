SPECIFICATION Spec
CONSTANTS
    Top = 2
    Cadence = 5
    Consecutive = 2
    PrimarySteps = {0}
    MaxFpr = 10
    CellSize = 20
    CellCap = 2
    OofPredictions <- MCOof
    Manifest <- MCManifest
    Outcomes <- MCOutcomes
    Scored <- MCScored
INVARIANT GuardedFreezeIsReportable
CHECK_DEADLOCK FALSE
