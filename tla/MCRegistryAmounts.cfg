CONSTANTS
    Bot = bot
    Procs = {bot}
    Bins <- MCBins
    Minted <- MCMinted
    MaxAdds = 3
SPECIFICATION Spec
PROPERTIES LoadKeepsAmounts
CHECK_DEADLOCK TRUE
