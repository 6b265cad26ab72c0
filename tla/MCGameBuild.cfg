SPECIFICATION Spec
CONSTANTS
    Units <- MCUnits
    Targets <- MCTargets
    FailingSteps = {"copy", "package", "game", "symbols", "librarySymbols", "seal", "sign", "nro",
                    "assemble", "key", "signed", "archive"}
    MaxEdits = 2
    MaxFailures = 2
INVARIANTS
    GameIsCurrent
    AppIsSealed
    PublishedApkIsGood
PROPERTIES
    LibrariesOnlyRelink
