\* Three sends and two receives of three tasks on one channel, of either capacity.
CONSTANTS
    Capacities = {0, 1}
    s1 = s1  s2 = s2  s3 = s3  r1 = r1  r2 = r2  r3 = r3
    SendOp = {s1, s2, s3}
    RecvOp = {r1, r2}
    NoValue = NoValue
    OwnWake = TRUE
    MaxHandles = 4
    MaxTask = 3
    by <- Pipeline
    Features = {"cancel", "panic", "close", "yield", "timeout"}
SPECIFICATION LiveTSpec
INVARIANTS
    NobodyWaitsInVain
    EndsLast
    Fifo
    RegistrationsAgree
    DeadlockIsReal
    ValuesAreOwned
PROPERTIES
    OneLine
    BlockIsLeft
