SPECIFICATION ConfiguredSpec
CONSTANTS
    Paths = {p1, p2}
    NoPath = NoPath
    SetIds = {s1}
    MaxTopology = 1
    MaxPathAuthority = 1
    MaxPolicy = 1
    MaxObligations = 1
    MaxSetGeneration = 3
    MaxBudget = 1
    MaxObservation = 1
    MaxAttempt = 3
    MaxDecision = 3
    MaxEpoch = 3
    MaxRetained = 3
    MaxAttempts = 3
    MaxFences = 2
    MaxLineage = 2
    Compaction = FALSE
    Refusals = FALSE
SYMMETRY PathSymmetry
CHECK_DEADLOCK FALSE
INVARIANT AttemptIdentityUnique
