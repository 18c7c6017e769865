SPECIFICATION FairSpec
CONSTANTS
    c1 = c1  c2 = c2  c3 = c3  u1 = u1  u2 = u2
    Client = {c1, c2, c3}
    Ups = {u1}
    NoUps = NoUps
    Listener = Listener
    Account <- MCAccount
    UserFiles <- MCUserFiles
    MaxConns = {1, 2}
    IdleLimit = 0
CHECK_DEADLOCK TRUE
INVARIANTS LoginsMatch NoGhostLogin
PROPERTIES FsdLatched ImplementsLoginService SilentClientsLeave
