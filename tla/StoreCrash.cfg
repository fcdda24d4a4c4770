SPECIFICATION Spec
CONSTANTS
    Nobody = Nobody
    short = short
    long = long
    Payload <- Payloads
    Body <- BodyUnits
    Header = 2
    Runtimes = {r1, r2}
    Inspectors = {i1}
    MaxJournal = 12
    Threshold = 6
    MaxPieces = 6
    MaxSequence = 6
    AppendFaults = FALSE
    SnapshotFaults = TRUE
INVARIANTS
    InspectionIsPast
    AlwaysOpens
    CountersMatchFiles
    LockExcludes
PROPERTIES
    DurableLogSpec
