\* All small notes and some longer ones, one change, pages of three tokens.
SPECIFICATION Spec
CONSTANTS
    Tokens <- MCTokens
    StartNotes <- MCStartNotes
    Contents <- MCContents
    PageSize = 3
    MaxChanges = 1
INVARIANTS
    TypeOK
    SectionsNest
    StructureKept
    ReplacedIsRead
    PagesAreTheText
CHECK_DEADLOCK FALSE
