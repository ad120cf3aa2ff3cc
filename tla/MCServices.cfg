CONSTANTS
    Calls = {c1, c2, c3}
    LocalCalls = {c3}
    NoCall = NoCall
    Services = {s1, s2}
    Polls = TRUE
    PendingLimit = 2
    TerminalLimit = 1
    MaxGeneration = 2
    t1 = t1
    t2 = t2
    r1 = r1
    r2 = r2
    Tasks = {t1, t2}
    Resources = {r1, r2}
    Owners = {o1, o2}
    Needs <- MCNeeds
    LeaseTicks = 1
    Unleased = Unleased
    MaxTime = 2
    MaxControls = 3
    MaxDeaths = 1
    MaxSnapshots = 1
SPECIFICATION ServicesSpec
SYMMETRY Symmetric
INVARIANT ExecutedOnce
INVARIANT NoStaleExecution
INVARIANT RefusedNeverRuns
INVARIANT CapacityHeld
 
 
 
CHECK_DEADLOCK FALSE
