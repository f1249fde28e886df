SPECIFICATION Spec
CONSTANTS
    PedCalls = {p1, p2}
    SinkCalls = {s1, s2}
    p1 = p1
    p2 = p2
    s1 = s1
    s2 = s2
    Nil = Nil
    Sinks <- OneSink
    Candidates <- SharedNonce
    Effects <- OneEffect
    Advancing <- Revocation
    Persistence = "sqlite"
    Signing = "hmac"
    MaxClock = 0
    MaxEpoch = 1
    MaxBoot = 1
    MaxCandidateAge = 3
    MaxEffectDuration = 3
    AuthorityTTL = 2
    RequireAttestation = FALSE
    AllowedActTypes <- AnyType
    AllowedSinkIds <- SinkIds
    AllowedJurisdictions <- Jurisdictions
    AllowedPurposes <- Purposes
SYMMETRY Symmetry
INVARIANTS
    SingleUse
    ReleasedIsBacked
    NoNonceWasted
    OneGrantPerNonce
    OneEffectPerNonce
    CountersAreDistinct
    ChainIsLinear
PROPERTIES
    ContractHolds
    MissedOnlyInFlight
