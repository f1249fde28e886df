SPECIFICATION Spec
CONSTANTS
    PedCalls = {p1, p2}
    SinkCalls = {s1, s2}
    p1 = p1
    p2 = p2
    s1 = s1
    s2 = s2
    Nil = Nil
    Sinks <- OneSink
    Candidates <- OneCandidate
    Effects <- OneEffect
    Advancing <- NoEpochs
    Persistence = "sqlite"
    Signing = "ed25519"
    MaxClock = 0
    MaxEpoch = 0
    MaxBoot = 1
    MaxCandidateAge = 3
    MaxEffectDuration = 3
    AuthorityTTL = 2
    RequireAttestation = FALSE
    AllowedActTypes <- AnyType
    AllowedSinkIds <- SinkIds
    AllowedJurisdictions <- Jurisdictions
    AllowedPurposes <- Purposes
INVARIANTS
    ReplayStateIsDurable
