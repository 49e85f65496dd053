CONSTANTS
    Bot = bot
    Procs = {bot}
    Bins <- MCBins
    Minted <- MCMinted
    MaxAdds = 3
SPECIFICATION Spec
INVARIANTS TypeOK OneActivePerType RangesCoverAmounts FileFollowsMemory
PROPERTIES MemoryIsHistory ExitedStaysExited ImplementsBook
CHECK_DEADLOCK TRUE
