SPECIFICATION Spec
CONSTANTS
  Clients = {c1, c2}
  r1 = r1
  r2 = r2
  Ids = {r1, r2, r3, r4, r5}
  NoId = NoId
  Titles = {"t", "u"}
  Sections = {"Reminders", "Inbox", "Log"}
  Template = "template"
  Inbox = "Inbox"
  StartNotes <- MCStart
  HandIndents = {2}
  MaxEvents = 2
INVARIANT SeenIdsStayValid
CHECK_DEADLOCK FALSE
SYMMETRY MCSymmetry
