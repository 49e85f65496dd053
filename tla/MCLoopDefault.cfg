CONSTANTS
    WideConfidence = 50
    OorTolerance = 15
    OorCap = 40
    Override = "none"
    ActiveBins <- MCActiveBins
    Weathers <- MCWeathers
    Upside = 55
    OwnersRange <- MCOwnersRange
    ResidueBins = 13
    MaxMissed = 1
    Poll = 2
    Window = 2
SPECIFICATION Spec

PROPERTIES EntriesStayTheBots
