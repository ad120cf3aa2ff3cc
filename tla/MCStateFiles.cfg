CONSTANTS
    Members <- MCMembers
    Steers = {s1, s2, s3}
    BatchMax = 2
    SteerMax = 2
    ReceiptLimit = 2
    MaxBatches = 3
    p1 = p1
    p2 = p2
    p3 = p3
    Processes <- Three
    Nobody = Nobody
SPECIFICATION PartSpec
INVARIANT JournalStaysValid
INVARIANT OwedOrAcknowledged
INVARIANT HolderOwns
PROPERTY PresentedOnlyAcknowledged
PROPERTY DeadLockGoes
CHECK_DEADLOCK FALSE
