SPECIFICATION RestartedSpec
CONSTANTS
    Paths = {p1, p2}
    NoPath = NoPath
    SetIds = {s1}
    MaxTopology = 2
    MaxPathAuthority = 1
    MaxPolicy = 2
    MaxObligations = 2
    MaxSetGeneration = 3
    MaxBudget = 1
    MaxObservation = 1
    MaxAttempt = 5
    MaxDecision = 2
    MaxEpoch = 3
    MaxRetained = 2
    MaxAttempts = 2
    MaxFences = 2
    MaxLineage = 1
    Compaction = FALSE
    Refusals = FALSE
SYMMETRY PathSymmetry
CHECK_DEADLOCK FALSE
INVARIANTS TypeOK RecoveryAgrees SingleOwner BasisCurrent OwnerNotFenced OwnerReleased Reopens LineageBacked
PROPERTIES FencesAreForever AuthorityNeverRegresses TerminalIsFinal
