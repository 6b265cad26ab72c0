SPECIFICATION Spec
CONSTANTS
    QuickSaveExtraSlots = 2
    MaxSaves = 4
    MaxFaults = 1
    MaxCrashes = 1
INVARIANTS
    IInv
    SavesAreWhole
    SlotsHoldTheNewest
PROPERTIES
    OnlyReplacedSavesAreRemoved
    LoadFindsTheSave
    EveryRequestEnds
CHECK_DEADLOCK FALSE
