CONSTANTS
    p = p
    c = c
    NoRun = NoRun
    Runs = {p, c}
    Parent <- Nested
    Silent = {}
    Codes = {"done", "failed"}
    Interruptions = {"killed"}
    Events = {}
    MaxGeneration = 2
    TraceMax = 2
    BatchMax = 2
    SteerMax = 1
    ReceiptLimit = 1
    UnknownEvidence = TRUE
    SyncReads = FALSE
    Animation = FALSE
    MaxCrashes = 1
    MaxReloads = 1
    MaxFailures = 1
SPECIFICATION ScenarioSpec
INVARIANT AckedWasAccepted
INVARIANT NoDuplicateBatch
INVARIANT TreesTogether
INVARIANT OneGenerationOnce
INVARIANT RecordsOnce
INVARIANT HandledIsAccounted
CHECK_DEADLOCK FALSE
