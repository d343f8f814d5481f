\* One coordinator and one death, between the boundary receipt and the signal.
SPECIFICATION Spec
CONSTANTS
    Coordinators = {c1}
    Nobody = Nobody
    EpisodeCount = 5
    Scored = 1
    MaxTries = 2
    MaxFaults = 1
INVARIANTS
    FreshBoundaryOnResume
CHECK_DEADLOCK FALSE
