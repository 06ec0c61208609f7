SPECIFICATION FairSpec
CONSTANTS
  Clients = {c1, c2}
  Folders = {"root"}
  Root = "root"
  Trash = "trash"
  Names = {"a", "b"}
  LongNames = {}
  Text <- MCText
  Contents <- MCContents
  StartNotes <- MCStart
  MaxEvents = 3
  MaxNumber = 3
INVARIANT TypeOK
INVARIANT ViewIsCurrent
INVARIANT HoldersApart
PROPERTY LeavesOnlyByRemoval
PROPERTY StoreSpec
PROPERTY RewritesStartFromTheNote
PROPERTY CallsReturn
CHECK_DEADLOCK FALSE
