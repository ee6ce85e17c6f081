\* A root frame and two tasks, each with a native call of any kind.
CONSTANTS
    N = 2
    MaxWorkers = 2
    Kinds = {"plain", "use", "destroy", "callback", "threaded"}
    RootKinds = {"callback"}
    RootOps = {"wait", "timeout", "cancel"}
    MaxOps = 2
SPECIFICATION LiveSpec
INVARIANTS
    NothingMissed
    OnlyOwnResult
    PinnedWhileLeased
PROPERTY
    ProgramEnds
CHECK_DEADLOCK FALSE
