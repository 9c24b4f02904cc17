SPECIFICATION FairSpec
CONSTANTS
    Runner = {r1, r2}
    Port = {p1, p2, p3}
    Nobody = Nobody
    Script <- TwoFixtures
    Matching <- Families
    Deadline = 1
    ProbeTimeout = 1
INVARIANTS
    TypeOK
    RegistryOutlivesDaemon
    OnlyFailedFixturesLeak
    SuccessMeansEveryStepMet
PROPERTIES
    RunEnds
CHECK_DEADLOCK FALSE
