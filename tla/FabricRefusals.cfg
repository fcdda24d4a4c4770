SPECIFICATION ConfiguredSpec
CONSTANTS
    Paths = {p1, p2}
    NoPath = NoPath
    SetIds = {s1}
    MaxTopology = 2
    MaxPathAuthority = 1
    MaxPolicy = 1
    MaxObligations = 1
    MaxSetGeneration = 2
    MaxBudget = 1
    MaxObservation = 1
    MaxAttempt = 3
    MaxDecision = 2
    MaxEpoch = 2
    MaxRetained = 1
    MaxAttempts = 2
    MaxFences = 2
    MaxLineage = 1
    Compaction = TRUE
    Refusals = TRUE
SYMMETRY PathSymmetry
CHECK_DEADLOCK FALSE
INVARIANTS SnapshotFaithful LineageBacked
PROPERTIES FencesAreForever TerminalIsFinal
