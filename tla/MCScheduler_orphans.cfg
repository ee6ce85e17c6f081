\* A panic of a task, caught around a block it opened.
CONSTANTS
    MaxTask = 2
    MaxScope = 1
    Features = {"scope", "panic", "catch"}
SPECIFICATION Spec
INVARIANT ReturnJoins
