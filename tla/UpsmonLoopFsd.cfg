SPECIFICATION LoopFairSpec
CONSTANTS
    LingerForEver = FALSE
    ParentMayDie = FALSE
    OsSleeps = TRUE
CHECK_DEADLOCK TRUE
PROPERTIES FsdSignalIsObeyed
