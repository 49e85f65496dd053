CONSTANTS
    Widths <- MCWidths
    SearchChunk = 2
    ProbeRange = 3
    Asks <- MCAsks
    ActiveBins = {4, 5, 6}
    MaxShifts = 2
    IdSlippage = 1
    MaxValue = 500
    MinFill = 100
    MinWorth = 5
    One = 1000
    Scale = 2520
    Price <- MCPrice
    SkewBps = 9000
    TopBin = 10
    Half = 4
    Chunk = 2
    MaxAdds = 2
SPECIFICATION AddSpec
INVARIANTS RouterAccepts SharesFollowPlan
PROPERTIES ImplementsLife
\* An entry ends with the answer of the router.
CHECK_DEADLOCK FALSE
