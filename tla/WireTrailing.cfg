SPECIFICATION Spec
CONSTANTS
    Base = 14
    limits <- SmallLimits
    Documents <- MCDocuments
CHECK_DEADLOCK FALSE
INVARIANT TrailingBytesRefused
