SPECIFICATION Spec
CONSTANTS
    Client = {ui, other}
    Owner = ui
    WorkerThread = worker
    Nobody = nobody
    MaxStarts = 2
INVARIANTS
    IInv
    IdleMeansDone
    WaitReportsTheJob
    StopReachesTheJob
PROPERTIES
    DestroyReturns
    ImplementsJobService
