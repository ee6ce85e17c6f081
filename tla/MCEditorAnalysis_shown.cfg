\* Edits, saves, switches of the document and changes on disk at any time.
CONSTANTS
    Documents = {d1, d2}
    Unset = Unset
    MaxRevision = 4
    MaxDisk = 2
SPECIFICATION FairSpec
INVARIANT
    ShownIsRight
PROPERTIES
    NothingAfterClose
    ResultsFollow
CHECK_DEADLOCK FALSE
