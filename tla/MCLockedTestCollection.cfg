\* Two supervisors over two episodes, one launch by hand, two faults anywhere.
SPECIFICATION FairSpec
CONSTANTS
    Supervisors = {s1, s2}
    NoSupervisor = NoSupervisor
    SlotCount = 3
    EpisodeCount = 2
    MaxManual = 1
    MaxFaults = 2
INVARIANTS
    TypeOK
    ReceiptBindsArtifacts
    ResidueOnlyFromDeath
    NoSpuriousRefusal
PROPERTIES
    ArtifactsImmutable
    CollectionResumes
CHECK_DEADLOCK FALSE
