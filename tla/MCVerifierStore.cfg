SPECIFICATION VSSpec
CONSTANTS
    Agents = {1, 2}
    Parent <- RootAndChild
    Keys = 2
    Host = Host
    Command = Command
    Delays = {1, 2}
    VerifyThresholds = {2}
    PresentWindow = 1
    ChallengeWindow = 0
    MaxEvents = 2
    MaxBegun = 2
    MaxTime = 1
    Envelopes = {e1}
    OtherKey = OtherKey
    Forms = {Pretty, Rewritten}
    Pretty = Pretty
    WrapLife = 2
CHECK_DEADLOCK FALSE
INVARIANTS
    AcceptedKeyDeathStays
    AcceptedKillStays
    AcceptedDeathStopsActs
    VerifierChallengeAllowsOnce
    UnheardDeathIsShort
    AcceptedWrapIsWhole
    WrapLivesAsPresented
    RaisedThresholdHolds
