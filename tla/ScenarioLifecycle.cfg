SPECIFICATION Spec
CONSTANTS
    Audience = {a1}
    PeerIssuer = {p1}
    NoIssuer = NoIssuer
    MaxSequence = 6
    MaxAgentEpoch = 3
    MaxIdentityEpoch = 2
    MaxGeneration = 2
INVARIANTS
    TypeOK
    StoppedNeverActive
    ScenarioOwnsItsState
    ReadsShowScenario
CHECK_DEADLOCK FALSE
