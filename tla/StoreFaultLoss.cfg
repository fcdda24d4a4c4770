SPECIFICATION Spec
CONSTANTS
    Nobody = Nobody
    short = short
    long = long
    Payload <- Payloads
    Body <- BodyUnits
    Header = 2
    Runtimes = {r1}
    Inspectors = {}
    MaxJournal = 12
    Threshold = 6
    MaxPieces = 6
    MaxSequence = 3
    AppendFaults = TRUE
    SnapshotFaults = FALSE
INVARIANTS
    AcknowledgedSurvives
