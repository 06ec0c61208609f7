SPECIFICATION FairSpec
CONSTANTS
  Clients = {c1, c2}
  Folders = {"root"}
  Root = "root"
  Trash = "trash"
  Names = {"a", "b"}
  LongNames = {"a"}
  Text <- MCText
  Contents <- MCContents
  StartNotes <- MCStart
  MaxEvents = 2
  MaxNumber = 3
PROPERTY UniquePathReturns
CHECK_DEADLOCK FALSE
