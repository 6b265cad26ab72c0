SPECIFICATION Spec
CONSTANTS
    m = m
    a = a
    Event <- MCEvent
    Manual <- MCManual
    Requests <- MCRequests
    Thread = {t1, t2}
    NoRequest = NoRequest
    NoHandle = NoHandle
    MaxSets = 2
INVARIANTS
    ReferencesExact
    NoLostWakeup
    OneReleasePerSignal
PROPERTIES
    ImplementsEventWaits
CHECK_DEADLOCK FALSE
