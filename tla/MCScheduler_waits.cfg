\* Everything a program does with tasks, in the scheduler's loop.
CONSTANTS
    MaxTask = 2
    MaxScope = 2
    Features = {"scope", "group", "wait", "yield", "cancel", "panic", "catch", "rootCatch"}
SPECIFICATION FairSpec
PROPERTIES
    RootWaitReturns
    CancelEventuallyEnds
