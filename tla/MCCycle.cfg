CONSTANTS
    DayHold = 2
    NightHold = 4
    Cooldown = 1
    MaxFailures = 3
    MaxLayers = 2
SPECIFICATION FairSpec
INVARIANTS TypeOK FailuresAreCounted EnteredEventsAreTrue
PROPERTIES RemovalsAreSpaced StacksOnlyUnknowingly StuckTripsBreaker
CHECK_DEADLOCK TRUE
