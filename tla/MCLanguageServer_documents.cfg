\* Documents opened, changed and closed while files change on disk.
CONSTANTS
    Files = {main, lib, base}
    Texts = {1, 2}
    TextsOf <- AnyText
    Unsaved = {main}
    ImportsOf <- Graph
    Edited = {base}
    Unparsable <- BaseDoesNotParse
    Broken <- MainHasErrors
    Incomplete <- BaseFailsInCircles
    Missing = Missing
    None = None
    main = main
    lib = lib
    base = base
SPECIFICATION ServerSpec
INVARIANT
    AnswersAgree
PROPERTY
    OnlyAffectedDropped
