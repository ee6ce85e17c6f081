\* Five projects, each with its own hardships.
CONSTANTS
    Processes = {p1, p2}
    Units = {main, tool, lib}
    Versions = {1, 2}
    Projects <- AllProjects
    None = None
    main = main
    tool = tool
    lib = lib
SPECIFICATION Spec
INVARIANTS
    RecordsStand
    NoLostUpdate
    OutputsAreRight
SYMMETRY Symmetry
