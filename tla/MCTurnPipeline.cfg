SPECIFICATION Spec
CONSTANTS
    MaxDays = 4
    MaxTalks = 2
INVARIANTS
    TurnsAlternate
    NoJobIsLost
    WorldExclusive
    OnlyKnownHangs
PROPERTIES
    EveryDayIsShownOnce
    FilmsSwapAtRest
    EventWaitsEnd
    ExitCloses
CHECK_DEADLOCK FALSE
