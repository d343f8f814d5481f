\* Two finalizing processes, no deaths.
SPECIFICATION Spec
CONSTANTS
    Processes = {p1, p2}
    Finalizers = {p1, p2}
    None = None
    ValidCount = 1
    MaxFaults = 0
PROPERTIES
    CollisionsSurvived
CHECK_DEADLOCK FALSE
