SPECIFICATION FairSpec
CONSTANTS
    TurnsPerDay = 4
    NightAfter = 1
    FirstRain = 5
    RainLength = 3
    RainWait = 4
    BurnLength = 5
    MaxHealth = 3
    LowHealth = 1
    Offsets <- HealOrHurt
    WorkTurns = 2
    BuildTurns = 3
    MaxTurn = 11
    MaxDialogs = 4
INVARIANTS
    TypeOK
    TheDeadAreAsked
    SkyFollowsTurns
PROPERTIES
    RecoveryEnds
    DueFiresGoOut
CHECK_DEADLOCK FALSE
