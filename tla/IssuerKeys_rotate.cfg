SPECIFICATION KeysSpec
CONSTANTS
    KillDelays = {1}
    Thresholds = {}
    CrashSteps = {"issuer"}
    MaxKeys = 2
    MaxRecords = 1
    MaxLines = 2
    MaxTime = 1
CHECK_DEADLOCK FALSE
INVARIANTS
    OldCapabilitiesVerify
