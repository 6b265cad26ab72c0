SPECIFICATION Spec
CONSTANTS
    Files <- MCFiles
    Pinned <- MCPinned
    CompilerFiles <- MCCompilerFiles
    SwitchFiles <- MCSwitchFiles
    HandEdits = TRUE
    MaxVersion = 1
    MaxEdits = 3
    MaxFailures = 1
    FailingSteps = {"mirror", "compile", "first bootstrap", "runtime"}
INVARIANTS
    HostRuntimeAgrees
PROPERTIES
    CompilerIsCurrent
    HandEditsSurvive
