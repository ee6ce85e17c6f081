\* Runs, commands, edits, stops and a quit around a session that may die.
CONSTANTS
    CommandLimit = 2
    OutputLimit = 1
    BatchLimit = 1
    MaxRequest = 2
    MaxChunks = 1
    Faults = {"crash"}
    MaxText = 1
    Nothing = Nothing
SPECIFICATION EditorSpec
INVARIANTS
    ProtocolHolds
    PendingIsKnown
    ShownIsLoaded
    OutputBeforeEnd
CHECK_DEADLOCK FALSE
