SPECIFICATION Spec
CONSTANTS
    Addresses = {admin, b, c}
    Admin = admin
    MaxTracked = 2
    MaxFailures = 2
    LockoutStart = 1
    LockoutMax = 1
    Half = 2
    Passwords = {p, q}
    Jobs = {"testAll"}
    Agendas = {{"guess"}, {"job", "login"}, {"firmware", "login"}, {"job", "firmware"}}
INVARIANTS
    LockoutHolds
    LoginPairWhole
    RollbacksTold
PROPERTIES
    OnlyFailuresLockOut
    JobsEnd
CHECK_DEADLOCK FALSE
