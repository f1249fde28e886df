SPECIFICATION ClientSpec
CONSTANTS
    PedCalls = {p1, p2}
    SinkCalls = {s1, s2}
    p1 = p1
    p2 = p2
    s1 = s1
    s2 = s2
    Nil = Nil
    Sinks <- RanSink
    Candidates <- Made
    Effects <- MadeEffects
    Advancing <- Simulated
    Persistence = "sqlite"
    Signing = "ed25519"
    MaxClock = 5
    MaxEpoch = 1
    MaxBoot = 0
    MaxCandidateAge = 3
    MaxEffectDuration = 3
    AuthorityTTL = 2
    RequireAttestation = FALSE
    AllowedActTypes <- AnyType
    AllowedSinkIds <- RanId
    AllowedJurisdictions <- Jurisdictions
    AllowedPurposes <- Purposes
    Template <- defaults
    Window = 3
    PedOrder <- TwoPedCalls
    SinkOrder <- TwoSinkCalls
    Iterations = 2
INVARIANTS
    ExitCodeIsTruthful
    SimulatedFaultIsRefused
    ReplayIsRefused
