SPECIFICATION Spec
CONSTANTS
    ui = ui
    loader = loader
    c1 = c1
    c2 = c2
    c3 = c3
    small = small
    large = large
    Thread = {ui, loader}
    Control = {c1, c2, c3}
    Key = {small, large}
    NoKey = NoKey
    Owner <- MCOwner
    Size <- MCSize
    ResidentByteLimit = 2
    MaxRetains = 2
INVARIANTS
    EntriesOutliveTheirUsers
    OneLoadPerResource
    DataAreWhole
    CountIsExact
PROPERTIES
    AcquiresEnd
CHECK_DEADLOCK FALSE
