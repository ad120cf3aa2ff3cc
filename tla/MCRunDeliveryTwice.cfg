CONSTANTS
    p = p
    c = c
    NoRun = NoRun
    Runs = {p}
    Parent <- Flat
    Silent = {}
    Codes = {"done"}
    Interruptions = {}
    Events = {}
    MaxGeneration = 1
    TraceMax = 2
    BatchMax = 1
    SteerMax = 1
    ReceiptLimit = 1
    UnknownEvidence = FALSE
    SyncReads = FALSE
    Animation = FALSE
    MaxCrashes = 0
    MaxReloads = 0
    MaxFailures = 0
SPECIFICATION Spec
INVARIANT GenerationsOnce
CHECK_DEADLOCK FALSE
