---------------------------- MODULE MCTaskStore -----------------------------
(* A note that is missing, or one of two.  The first holds a reminder with *)
(* a subtask written by hand, which has no ID, is indented by one column   *)
(* and has a subtask that has one; the section's last subsection is the    *)
(* template, with a section below it.  In the second a line of prose       *)
(* parts a reminder from an indented one.                                  *)
EXTENDS TaskStore, TLC

CONSTANTS r1, r2  \* the IDs in the note at the start

MCStart == {<<Heading("Reminders", 1),
              Task("t", r1, 0), Task("t", NoId, 1), Task("t", r2, 4),
              Heading("template", 2), Task("u", NoId, 0), Heading("Log", 3)>>,
            <<Task("t", r1, 0), Prose("t"), Task("u", r2, 2)>>}

(* IDs not in the note are drawn at random: any of them will do.           *)
MCSymmetry == Permutations(Clients) \cup Permutations(Ids \ {r1, r2})
=============================================================================
