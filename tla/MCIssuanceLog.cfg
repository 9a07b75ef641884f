SPECIFICATION ExportSpec
CONSTANTS
    Processes = {p1, p2, p3}
    MaxLines = 4
CHECK_DEADLOCK FALSE
INVARIANTS
    NothingAcknowledgedIsOverlooked
    ChainWitnessesOrder
    ExportedBundleChecks
    ProofsPinOneLog
    AcceptedBundleIsWhole
PROPERTIES
    BreakIsForever
    ImplementsAppendOnlyLog
