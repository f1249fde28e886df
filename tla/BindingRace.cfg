SPECIFICATION Spec
CONSTANTS
    PedCalls = {p1}
    SinkCalls = {s1}
    p1 = p1
    s1 = s1
    Nil = Nil
    Sinks <- OneSink
    Candidates <- OneCandidate
    Effects <- OneEffect
    Advancing <- Revocation
    Persistence = "memory"
    Signing = "ed25519"
    MaxClock = 0
    MaxEpoch = 1
    MaxBoot = 0
    MaxCandidateAge = 3
    MaxEffectDuration = 3
    AuthorityTTL = 2
    RequireAttestation = FALSE
    AllowedActTypes <- AnyType
    AllowedSinkIds <- SinkIds
    AllowedJurisdictions <- Jurisdictions
    AllowedPurposes <- Purposes
INVARIANTS
    BoundAsValidated
