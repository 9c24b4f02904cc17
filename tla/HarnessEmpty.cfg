SPECIFICATION Spec
CONSTANTS
    Runner = {r1}
    Port = {p1, p2, p3}
    Nobody = Nobody
    Script <- TwoFixtures
    Matching <- Families
    Deadline = 2
    ProbeTimeout = 1
INVARIANTS SuccessMeansSomethingRan
CHECK_DEADLOCK FALSE
