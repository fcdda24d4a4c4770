SPECIFICATION Spec
CONSTANTS
    MaxConns = 2
    RawConns = {9}
    Budgets <- MCBudgets
    MaxFrame = 3
    MaxEpoch = 2
    MaxRequests = 2
    Chunk = 2
    Sizes = {1, 2}
CHECK_DEADLOCK FALSE
INVARIANTS
    TypeOK
    AnswerMatches
    RequestNamedOnce
    NoResynchronisation
    StopAndWaitIsUnderstood
PROPERTIES
    CallReturns
    RpcSpec
