\* Three notes, twenty ways to write a path, up to three changes.
SPECIFICATION Spec
CONSTANTS
    Bases <- MCBases
    RawPaths <- MCRawPaths
    Start <- MCStart
    Hidden <- MCHidden
    MaxChanges = 3
INVARIANTS
    TypeOK
    ReceiptsHold
PROPERTIES
    NothingLost
    RestoreTakesFromTrash
CHECK_DEADLOCK FALSE
