CONSTANTS
    narrow = narrow
    wide = wide
    Types <- MCTypes
    TopBin = 3
    Half = 1
    IdSlippage = 1
    Chunk = 2
    MaxAdds = 2
    MaxLate = 1
    Widths <- MCWidths
    SearchChunk = 1
    ProbeRange = 2
SYMMETRY Symmetry
SPECIFICATION Spec
PROPERTIES StartRemovesUnregistered
CHECK_DEADLOCK TRUE
