\* Changes that fail anywhere, over two commands; circles; and a live package
\* beneath a managed one.
CONSTANTS
    Order <- MCOrder
    Worlds <- MCWorlds
SPECIFICATION LiveSpec
INVARIANT
    InstalledAsLocked
PROPERTIES
    ChangesAreUndone
    LockedOnlyRestores
    CommandsEnd
CHECK_DEADLOCK FALSE
