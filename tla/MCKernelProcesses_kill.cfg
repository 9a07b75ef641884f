SPECIFICATION PSpec
CONSTANTS
    Autonomous = Autonomous
    NoSeal = NoSeal
    Users = {}
    Intents <- OneIntent
    Audiences <- OneAudience
    TypeChoices <- Workers
    SealDelays = {}
    ChallengeWindow = 1
    WalkLimit = 64
    MaxTypes = 1
    Processes = {p1, p2}
    CanCrash = FALSE
    MaxInstances = 2
    MaxCapabilities = 2
    MaxLog = 7
    MaxChallenges = 1
    MaxKills = 1
    MaxTime = 0
SYMMETRY ProcessSymmetry
CHECK_DEADLOCK FALSE
INVARIANTS
    ParentKillStopsChildren
