SPECIFICATION Spec
CONSTANTS
    u1 = u1  u2 = u2
    Ups = {u1}
    NoUps = NoUps
    Confs <- MCPrimaryConfs
    Answers <- MCAlarmAnswers
    DeadTime = 0  HostSync = 0  OblbDuration = 0  OffDuration = 0  OverDuration = 0
    AlarmCritical = TRUE
CHECK_DEADLOCK TRUE
INVARIANTS RelaxedOnlyWhenSafe
