SPECIFICATION Spec
CONSTANTS
    PedCalls = {p1}
    SinkCalls = {s1}
    p1 = p1
    s1 = s1
    Nil = Nil
    Sinks <- ThreeSinks
    Candidates <- Admission
    Effects <- Substitutions
    Advancing <- NoEpochs
    Persistence = "memory"
    Signing = "ed25519"
    MaxClock = 3
    MaxEpoch = 0
    MaxBoot = 0
    MaxCandidateAge = 2
    MaxEffectDuration = 3
    AuthorityTTL = 2
    RequireAttestation = FALSE
    AllowedActTypes <- AnyType
    AllowedSinkIds <- SinkIds
    AllowedJurisdictions <- Jurisdictions
    AllowedPurposes <- Purposes
INVARIANTS
    EffectIsTheValidatedAct
    DecidedInWindow
