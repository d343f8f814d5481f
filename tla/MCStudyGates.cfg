SPECIFICATION Spec
CONSTANTS
    Inits <- MCInits
    SeedBase <- MCSeedBase
    YawMagnitudes = {15, 30}
    Conditions <- MCConditions
    HashOrder <- MCHashOrder
    Tasks = 2
    SymmetryOrder <- MCSymmetryOrder
    MinSuccesses = 1
    MinValidPercent = 90
    MinFailurePercent = 20
    MaxFailurePercent = 80
    MaxResultant <- MCMaxResultant
    Rounding <- MCRounding
    MissedGraspWindow = 2
    NetIncrease = 1
    LandingFrames = 1
    SupportTolerance = 0
    WorkspaceMargin = 1
    TerminalHorizon = 2
    Models <- MCModels
    FirstModel <- MCFirstModel
    Worlds <- MCWorlds
    Outcome <- MCOutcome
    Host = "prep"
    GuardHosts = {"prep", "gpu"}
    MaxCommits = 4
    MaxAnalyses = 2
    Nothing = Nothing
CONSTRAINT Explored
INVARIANTS
    CalibrationStandsOnOneStudy
    LockedTestIsReproducible
