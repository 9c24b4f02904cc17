SPECIFICATION FairSpec
CONSTANTS
    Gateway = {g1}
    Key = {k1, k2}
    Audience = {a1, a2}
    Holder = {k1}
    Served = {a1}
    NoKey = NoKey
    NoAudience = NoAudience
    ClientTimeouts = {0}
    Cap = 1
    ProofAge = 2
    Lifetime = 2
    MaxToken = 1
    MaxProof = 2
    MaxTime = 2
INVARIANTS
    TypeOK
    StaysWithDeployment
PROPERTIES
    AcceptsOnlyBound
    StaleAtMostCap
    NewProofSuffices
    EveryCallReturns
