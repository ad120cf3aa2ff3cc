CONSTANTS
    Launchers = {l1, l2}
    Singleton = TRUE
    Commands = {1}
    Retries = 2
    MaxGeneration = 2
    MaxFaults = 1
    Interruptions = {"cancelled"}
SPECIFICATION PartSpec

CONSTRAINT OneLive
INVARIANT AttemptsAreOwn
