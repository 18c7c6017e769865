SPECIFICATION Spec
CONSTANTS
    u1 = u1  u2 = u2
    Ups = {u1, u2}
    NoUps = NoUps
    Confs <- MCTwoConfs
    Answers <- MCFewAnswers
    DeadTime = 0  HostSync = 0  OblbDuration = 0  OffDuration = 0  OverDuration = 0
    AlarmCritical = TRUE
CHECK_DEADLOCK TRUE
INVARIANTS ShutdownJustified
PROPERTIES NoSleepInPeril
