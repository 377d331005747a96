CONSTANTS
    a = a
    b = b
    u = u
    Thread = {t1, t2}
    Sio = {a, b}
    ModeOf <- MCModeOf
    Unlink = {u}
    Workloads <- MCWorkloads
    FD = {f1}
    RIDICULOUS_LENGTH = 1
    maxWrites = 1
SPECIFICATION Spec
INVARIANTS DescriptorsOwned WakeupNotLost
PROPERTY IoEnds
