SPECIFICATION Spec
CONSTANTS
    Wake = Wake
    Owner = Owner
    Conns = {c1, c2}
    Setups <- MCSetups
CHECK_DEADLOCK FALSE
INVARIANTS
    Drained
PROPERTIES
    StopTerminates
