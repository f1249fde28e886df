SPECIFICATION FairSpec
CONSTANTS
    PedCalls = {p1}
    SinkCalls = {s1}
    p1 = p1
    s1 = s1
    Nil = Nil
    Sinks <- OneSink
    Candidates <- OneCandidate
    Effects <- OneEffect
    Advancing <- Revocation
    Persistence = "sqlite"
    Signing = "hmac"
    MaxClock = 0
    MaxEpoch = 1
    MaxBoot = 1
    MaxCandidateAge = 3
    MaxEffectDuration = 3
    AuthorityTTL = 2
    RequireAttestation = FALSE
    AllowedActTypes <- AnyType
    AllowedSinkIds <- SinkIds
    AllowedJurisdictions <- Jurisdictions
    AllowedPurposes <- Purposes
PROPERTIES
    RevocationSticks
