SPECIFICATION Spec
CONSTANTS
    Autonomous = Autonomous
    NoSeal = NoSeal
    Users = {}
    Intents <- OneIntent
    Audiences <- OneAudience
    TypeChoices <- Workers
    Continues <- PayContinues
    SealDelays = {}
    ChallengeWindow = 1
    WalkLimit = 64
    MaxTypes = 1
    MaxInstances = 2
    MaxCapabilities = 2
    MaxLog = 4
    MaxChallenges = 1
    MaxKills = 0
    MaxTime = 1
CHECK_DEADLOCK FALSE
INVARIANTS
    ChildWithinParentLifetime
