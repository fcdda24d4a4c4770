SPECIFICATION Spec

CONSTANTS
    capability = capability
    Capabilities <- CapabilityBits
    Surface <- AnyGate
    Requests <- AllRequests
    MaxCandidates = 2
    MaxWeight = 2
    HealthScale = 2
    CostScale = 2
    RankScale = 1
    MaxSearch = 8
    MaxInt = 12

\* A full request is simply evaluated.
CHECK_DEADLOCK FALSE

INVARIANTS
    FailClosed
    ProofOfAbsence
    SelectionIsBest
    NoOverflow
    OrderIndependent
    SortIsCanonical
