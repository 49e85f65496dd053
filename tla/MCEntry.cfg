CONSTANTS
    MaxAttempts = 3
    MaxCalls = 2
    Wallet = 10
    Budget = 8
    Alloc = 4
SPECIFICATION FairSpec
INVARIANTS TypeOK BooksNeverAhead EnteredIsOnChain AtMostTwoReverts DoublesComeFromDoubt
PROPERTIES CallReturns
\* A call that has returned, with nothing pending, is the end of the story.
CHECK_DEADLOCK FALSE
