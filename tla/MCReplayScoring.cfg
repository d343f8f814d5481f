SPECIFICATION Spec
CONSTANTS
    MaxSteps = 3
    Stride = 2
    SettleSteps = 2
    Period = 4
    Reasons = {"initial_task_success", "penetration"}
    OriginalDraws = 3
    CommonDraws = 2
    Transforms <- MCTransforms
    Faults = {"rng", "queue", "drift", "restore", "exception"}
INVARIANTS
    TypeOK
    CapturesAligned
    ScoresMeasureWhatTheySay
    OnlyCleanReplaysPublish
    NoSelfInflictedFailure
    NothingLeaks
CHECK_DEADLOCK FALSE
