CONSTANTS
    Launchers = {l1, l2}
    Singleton = TRUE
    Commands = {1}
    Retries = 1
    MaxGeneration = 2
    MaxFaults = 1
    Interruptions = {"cancelled"}
SPECIFICATION PartSpec
INVARIANT EvidenceIsOwn
INVARIANT AnnouncedIsRecorded
INVARIANT RunnersAreFound
CONSTRAINT OneLive
