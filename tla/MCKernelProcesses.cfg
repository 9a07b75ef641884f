SPECIFICATION PSpec
CONSTANTS
    Autonomous = Autonomous
    NoSeal = NoSeal
    Users = {}
    Intents <- OneIntent
    Audiences <- OneAudience
    TypeChoices <- Workers
    SealDelays = {}
    ChallengeWindow = 1
    WalkLimit = 64
    MaxTypes = 1
    Processes = {p1, p2}
    CanCrash = TRUE
    MaxInstances = 2
    MaxCapabilities = 3
    MaxLog = 8
    MaxChallenges = 2
    MaxKills = 1
    MaxTime = 0
SYMMETRY ProcessSymmetry
CONSTRAINT ShortOrPreludeFirst
CHECK_DEADLOCK FALSE
INVARIANTS
    CrashedKillReachesDescendants
    CrashedProofServesOnce
    OnlyLoggedCapabilitiesAct
    ActsRespectDeath
