SPECIFICATION Spec
CONSTANTS
    Drivers <- MCDrivers
    Recipes <- MCRecipes
    FailingSteps = {"cleanbuild"}
    MaxEdits = 2
    MaxFailures = 1
INVARIANT
    ObjectsAreCurrent
