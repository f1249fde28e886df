SPECIFICATION Spec
CONSTANTS
    Values <- AllValues
    Iso <- IsoHours
    KeyRank <- Ranks
    None = None
INVARIANTS
    SubstitutionIsSeen
    OrderIsIrrelevant
