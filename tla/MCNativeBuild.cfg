SPECIFICATION Spec
CONSTANTS
    Drivers <- MCDrivers
    Recipes <- MCRecipes
    FailingSteps = {"fetch", "extract", "configure", "build", "install", "compile", "link"}
    MaxEdits = 3
    MaxFailures = 2
INVARIANTS
    ObjectsAreCurrent
    SourcesAreWhole
    NativeIsCurrent
PROPERTIES
    NothingIsMadeTwice
