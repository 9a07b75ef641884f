SPECIFICATION Spec
CONSTANTS
    Autonomous = Autonomous
    NoSeal = NoSeal
    Users = {u1}
    Intents <- OneIntent
    Audiences <- TwoAudiences
    TypeChoices <- Managers
    Continues <- PayContinues
    SealDelays = {}
    ChallengeWindow = 1
    WalkLimit = 64
    MaxTypes = 1
    MaxInstances = 2
    MaxCapabilities = 3
    MaxLog = 5
    MaxChallenges = 1
    MaxKills = 1
    MaxTime = 0
CHECK_DEADLOCK FALSE
INVARIANTS
    TypeOK
    AuthorityNeverWidens
    ActsWithinEveryAncestor
    DeathReachesDescendants
    DeathIsFinal
    TokenServesItsRecord
    WiderTokenRefused
