CONSTANTS
    Procs = {bot, cli}
    Bins <- MCBins
    Minted <- MCMinted
    MaxAdds = 2
SPECIFICATION Spec
PROPERTIES ExitedStaysExited
CHECK_DEADLOCK TRUE
