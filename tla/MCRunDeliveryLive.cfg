CONSTANTS
    p = p
    c = c
    NoRun = NoRun
    Runs = {p, c}
    Parent <- Nested
    Silent = {}
    Codes = {"done"}
    Interruptions = {}
    Events = {}
    MaxGeneration = 1
    TraceMax = 2
    BatchMax = 1
    SteerMax = 1
    ReceiptLimit = 1
    UnknownEvidence = FALSE
    SyncReads = TRUE
    Animation = FALSE
    MaxCrashes = 1
    MaxReloads = 0
    MaxFailures = 0
SPECIFICATION FairSpec
PROPERTY CompletionsArrive
CHECK_DEADLOCK FALSE
