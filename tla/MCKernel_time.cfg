SPECIFICATION Spec
CONSTANTS
    Autonomous = Autonomous
    NoSeal = NoSeal
    Users = {}
    Intents <- OneIntent
    Audiences <- OneAudience
    TypeChoices <- Workers
    Continues <- PayContinues
    SealDelays = {0, 1, 2}
    ChallengeWindow = 1
    WalkLimit = 64
    MaxTypes = 1
    MaxInstances = 2
    MaxCapabilities = 2
    MaxLog = 5
    MaxChallenges = 2
    MaxKills = 1
    MaxTime = 2
CHECK_DEADLOCK FALSE
INVARIANTS
    SealIsDeath
    ActsWithinLifetime
    OneProofOneAct
PROPERTIES
    NothingIsUndone
