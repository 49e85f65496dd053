CONSTANTS
    a = a
    b = b
    Listed <- MCListed
    Configured = own
    MaxRetries = 3
SPECIFICATION FairSpec
INVARIANT SkipsNeverEverything
PROPERTIES ClientCallsFailOver
CHECK_DEADLOCK TRUE
