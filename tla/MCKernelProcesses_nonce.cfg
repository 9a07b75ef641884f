SPECIFICATION PSpec
CONSTANTS
    Autonomous = Autonomous
    NoSeal = NoSeal
    Users = {}
    Intents <- OneIntent
    Audiences <- OneAudience
    TypeChoices <- Workers
    SealDelays = {}
    ChallengeWindow = 1
    WalkLimit = 64
    MaxTypes = 1
    Processes = {p1, p2}
    CanCrash = FALSE
    MaxInstances = 1
    MaxCapabilities = 1
    MaxLog = 4
    MaxChallenges = 1
    MaxKills = 0
    MaxTime = 0
SYMMETRY ProcessSymmetry
CHECK_DEADLOCK FALSE
INVARIANTS
    NonceSpentOnce
