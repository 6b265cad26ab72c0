SPECIFICATION Spec
CONSTANTS
    Client = {ui, other}
    Owner = ui
    WorkerThread = worker
    Nobody = nobody
    MaxStarts = 1
INVARIANT
    PollReportsTheJob
