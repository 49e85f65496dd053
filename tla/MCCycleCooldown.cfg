CONSTANTS
    DayHold = 2
    NightHold = 4
    Cooldown = 1
    MaxFailures = 3
    MaxLayers = 2
SPECIFICATION Spec
PROPERTIES CooldownBeforeReentry
CHECK_DEADLOCK TRUE
