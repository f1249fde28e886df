SPECIFICATION Spec
CONSTANTS
    PedCalls = {p1, p2}
    SinkCalls = {s1, s2, s3}
    p1 = p1
    p2 = p2
    s1 = s1
    s2 = s2
    s3 = s3
    Nil = Nil
    Sinks <- TwoSinks
    Candidates <- PerSink
    Effects <- OneEffect
    Advancing <- NoEpochs
    Persistence = "memory"
    Signing = "hmac"
    MaxClock = 0
    MaxEpoch = 0
    MaxBoot = 0
    MaxCandidateAge = 3
    MaxEffectDuration = 3
    AuthorityTTL = 2
    RequireAttestation = FALSE
    AllowedActTypes <- AnyType
    AllowedSinkIds <- SinkIds
    AllowedJurisdictions <- Jurisdictions
    AllowedPurposes <- Purposes
SYMMETRY Symmetry
INVARIANTS
    TypeOK
    SingleUse
    LocksAreReleased
    NoAuthorityWasted
    UsedMeansRival
    NoDeadlock
