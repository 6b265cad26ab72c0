SPECIFICATION SyncSpec
CONSTANTS
    Files <- MCFiles
    Pinned <- MCFiles
    HandEdits = FALSE
    MaxVersion = 3
    MaxEdits = 4
    MaxFailures = 0
INVARIANT
    ConflictsAreLocalEdits
