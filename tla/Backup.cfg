SPECIFICATION BackupSpec
CONSTANTS
    KillDelays = {1}
    Thresholds = {2}
    CrashSteps = {"resign", "line"}
    MaxKeys = 3
    MaxRecords = 2
    MaxLines = 5
    MaxTime = 2
    CopyFrom = {2}
    MaxBeside = 1
CHECK_DEADLOCK FALSE
INVARIANTS
    LogStaysVerifiable
    PlantedNeverTrusted
    RotatedRecordsNeedNoOldKey
    NormalRestoreKeepsRecords
    QuietBackupRestores
