\* Two structured blocks and vectorised waits, with faults and cancellation.
CONSTANTS
    MaxTask = 3
    MaxScope = 2
    Features = {"scope", "group", "cancel", "panic", "catch"}
SPECIFICATION Spec
INVARIANTS
    NobodyIsStranded
    ClosedScopeJoined
    CompletedOwnerJoined
    FailFast
PROPERTY
    StructuredSpec
