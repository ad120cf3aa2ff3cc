\* Both reviews, with a crash, and an edit or launches.
SPECIFICATION Spec
CONSTANTS
    n1 = n1
    n2 = n2
    n3 = n3
    r = r
    s = s
    e = e
    None = None
    Names <- MCNames
    Recipes <- MCRecipes
    Scenarios = {"tools", "drafts"}
    Templates <- MCTemplates
    Threshold = 2
    AttemptLimit = 1
    InPlace = FALSE
    MaxCrashes = 1
    MaxCalls = 1
    MaxEdits = 1
    MaxResets = 1
\* The bounds let everything come to rest.
CHECK_DEADLOCK FALSE
INVARIANTS
    NothingLost
    OverIsWhole
    
    ReviewedOnce
    LineageFollows
    LaunchesBounded
PROPERTY
    TransactionsEnd
