\* What the editor does about dead, stopped and faulted sessions comes to an end.
CONSTANTS
    CommandLimit = 2
    OutputLimit = 1
    BatchLimit = 1
    MaxRequest = 1
    MaxChunks = 2
    Faults = {"kill"}
    MaxText = 0
    Nothing = Nothing
SPECIFICATION FairEditorSpec
PROPERTIES
    SubmissionAnswered
    SessionIsReplaced
    QuitEnds
CHECK_DEADLOCK FALSE
