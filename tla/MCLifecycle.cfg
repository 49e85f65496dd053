CONSTANTS
    narrow = narrow
    wide = wide
    Types <- MCTypes
    TopBin = 2
    Half = 1
    IdSlippage = 1
    Chunk = 2
    MaxAdds = 2
    MaxLate = 1
    Widths <- MCWindow
    SearchChunk = 1
    ProbeRange = 1
SYMMETRY Symmetry
SPECIFICATION Spec
INVARIANTS TypeOK PlanMatchesChain EntriesHaveLiquidity FindsWhole WidensToTheEnd
PROPERTIES ForgetsOnlyTheUnseen RemovalTakesAll
CHECK_DEADLOCK TRUE
