\* One Delete is enough.
SPECIFICATION Spec
CONSTANTS
    Bases <- MCBases
    RawPaths <- MCRawPaths
    Start <- MCStart
    Hidden <- MCHidden
    MaxChanges = 1
PROPERTIES
    DeleteIsRecoverable
CHECK_DEADLOCK FALSE
