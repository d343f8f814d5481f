SPECIFICATION Spec
CONSTANTS
    Procs = {p1, p2}
    Roots = {"r1", "r2"}
    Predictions = {q1, q2}
    Seeds <- MCSeeds
    PairLimit = 1
    Tolerance = 1
    HashOrder <- MCHashOrder
    MinValidPairs = 1
    IntervalExcludesHalf <- MCInterval
    States <- MCStates
    Controls = 1
    CoreResults <- MCCores
    EffectResults = {0, 1}
    RawWorlds <- MCRaw
    MaxDeaths = 1
    Unavailable = Unavailable
    Missing = Missing
CONSTRAINT Bound
SYMMETRY Symmetry
INVARIANTS
    CausalReceiptsMeasured
    OutcomesOpenedLast
    OneCausalReceiptPerRoot
PROPERTIES
    RefusedOnlyForCause
CHECK_DEADLOCK FALSE
