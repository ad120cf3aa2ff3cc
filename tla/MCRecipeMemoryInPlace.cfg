\* A review of tools that merges into the name one of them has, with a crash.
SPECIFICATION Spec
CONSTANTS
    n1 = n1
    n2 = n2
    n3 = n3
    r = r
    s = s
    e = e
    None = None
    Names <- MCNames
    Recipes <- MCRecipes
    Scenarios = {"tools"}
    Templates <- MCTemplates
    Threshold = 2
    AttemptLimit = 1
    InPlace = TRUE
    MaxCrashes = 1
    MaxCalls = 0
    MaxEdits = 0
    MaxResets = 0
CHECK_DEADLOCK FALSE
INVARIANT NothingLost
