SPECIFICATION FairSpec
CONSTANTS
    c1 = c1
    c2 = c2
    Call = {c1, c2}
    Challenge = {ch1}
    Sdk <- OneOfEach
    Used = {"CompleteEnrollment", "Token", "CreateFederationTrust", "ListFederationTrusts", "OutboxStatus"}
    Bounded = {c1, c2}
    Redirects = {"302", "307"}
    MaxRedirects = 2
INVARIANTS
    TypeOK
    AtMostOnce
    OneEnrollmentPerChallenge
    SpentByAnother
    SuccessMeansDone
PROPERTIES
    ImplementsRemoteCall
    BoundedCallsReturn
CHECK_DEADLOCK FALSE
