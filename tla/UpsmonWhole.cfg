SPECIFICATION WholeFairSpec
CONSTANTS
    u1 = u1
    Ups = {u1}
    NoUps = NoUps
    Confs <- MCConfs
    Answers <- MCAnswers
    DeadTime = 1  HostSync = 1  OblbDuration = 0  OffDuration = 0  OverDuration = 0
    AlarmCritical = TRUE
    LingerForEver = TRUE
    ParentMayDie = TRUE
    OsSleeps = TRUE
CHECK_DEADLOCK TRUE
INVARIANTS CommandJustified
PROPERTIES DecisionIsCarriedOut TermIsHonoured
