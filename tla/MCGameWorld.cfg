SPECIFICATION FairSpec
CONSTANTS
    MaxWorlds = 3
    MaxErrors = 2
    MaxInputs = 2
    WorldSystem <- Systems
    Roots <- RootOrder
    Requirements <- Graphs
    Handles <- EventHandlers
INVARIANTS
    TypeOK
    AssertionsHold
    EventsReachLiveWorlds
    DependenciesFirst
PROPERTIES
    ErrorsStayLocal
    GameEnds
    StoppedWorldIsReplaced
    ImplementsLife
CHECK_DEADLOCK FALSE
