\* Any client of the service, with branches, transfers, loads, faults and resets.
CONSTANTS
    Values = {v1, v2}
    Nothing = Nothing
    ResetOnFault = TRUE
    MaxVersion = 6
    MaxPreparation = 4
    MaxDepth = 2
    MaxEdits = 1
SPECIFICATION Spec
INVARIANTS
    NothingIsStale
    FramesAreSound
SYMMETRY Symmetry
CHECK_DEADLOCK FALSE
