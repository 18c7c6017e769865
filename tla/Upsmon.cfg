SPECIFICATION FairSpec
CONSTANTS
    u1 = u1  u2 = u2
    Ups = {u1}
    NoUps = NoUps
    Confs <- MCOneConfs
    Answers <- MCAnswers
    DeadTime = 2  HostSync = 1  OblbDuration = 1  OffDuration = 1  OverDuration = 1
    AlarmCritical = TRUE
CHECK_DEADLOCK TRUE
INVARIANTS ShutdownJustified
PROPERTIES CritTimerAges PerilEndsInShutdown
