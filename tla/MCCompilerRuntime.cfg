SPECIFICATION Spec
CONSTANTS
    Files <- MCFiles
    Pinned <- MCPinned
    CompilerFiles <- MCCompilerFiles
    SwitchFiles <- MCSwitchFiles
    HandEdits = FALSE
    MaxVersion = 2
    MaxEdits = 2
    MaxFailures = 1
    FailingSteps = {"next bootstrap"}
INVARIANT
    HostRuntimeAgrees
