SPECIFICATION Spec
CONSTANTS
    PedCalls = {p1}
    SinkCalls = {s1}
    p1 = p1
    s1 = s1
    Nil = Nil
    Sinks <- OneSink
    Candidates <- TwoStates
    Effects <- OneEffect
    Advancing <- SomeEpochs
    Persistence = "memory"
    Signing = "hmac"
    MaxClock = 0
    MaxEpoch = 1
    MaxBoot = 1
    MaxCandidateAge = 3
    MaxEffectDuration = 3
    AuthorityTTL = 2
    RequireAttestation = FALSE
    AllowedActTypes <- AnyType
    AllowedSinkIds <- SinkIds
    AllowedJurisdictions <- Jurisdictions
    AllowedPurposes <- Purposes
INVARIANTS
    EpochsWereCurrent
    BoundBetween
PROPERTIES
    RevocationSticks
    ContractHolds
