CONSTANTS
    p = p
    c = c
    NoRun = NoRun
    Runs = {p}
    Parent <- Flat
    Silent = {}
    Codes = {"done"}
    Interruptions = {"killed"}
    Events = {e1, e2}
    MaxGeneration = 1
    TraceMax = 2
    BatchMax = 2
    SteerMax = 1
    ReceiptLimit = 1
    UnknownEvidence = TRUE
    SyncReads = TRUE
    Animation = TRUE
    MaxCrashes = 1
    MaxReloads = 1
    MaxFailures = 1
SPECIFICATION Spec
PROPERTY ShownNeverResent
PROPERTY JournalImplemented
CHECK_DEADLOCK FALSE
