SPECIFICATION FairSpec
CONSTANTS
    d1 = d1
    d2 = d2
    Verifier = {v1}
    SDK = {"v2", "v3"}
    Deployment = {d1, d2}
    Audience = {a1, a2}
    Presenter = {k1, k2}
    NoKey = NoKey
    ClientTimeout = TRUE
    Profile = {"zero", "brokered"}
    Lifetime = 1
    MaxKey <- OneRotates
    MaxToken = 1
    MaxTime = 1
INVARIANTS
    TypeOK
PROPERTIES
    AcceptsOnlyValid
    AcceptsEveryValid
    ImplementsPromise
    EveryCallReturns
