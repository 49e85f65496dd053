CONSTANTS
    a = a
    b = b
    Listed <- MCListed
    Configured = own
    MaxRetries = 3
SPECIFICATION FairSpec
PROPERTIES PoolReadsFailOver
CHECK_DEADLOCK TRUE
