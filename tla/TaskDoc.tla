------------------------------- MODULE TaskDoc -------------------------------
(***************************************************************************)
(* The reminders note as internal/tasks/tasks.go parses and rewrites it: a *)
(* sequence of headings, task blocks, each with the record of its own      *)
(* (context, links, due date, other lines) folded into its title, and      *)
(* prose.  A task's place in the sequence and its indentation are all that *)
(* nest it; no operator here keeps a tree.                                 *)
(***************************************************************************)
EXTENDS Integers, Sequences, FiniteSets, FiniteSetsExt

CONSTANTS Ids,       \* block references, rem-xxxx
          NoId,      \* a task that has none
          Titles,    \* titles of tasks
          Sections,  \* titles of headings
          Template,  \* the heading whose checkboxes are documentation
          Inbox      \* the heading new reminders go to

ASSUME IdsAssumption == NoId \notin Ids

ASSUME SectionsAssumption == Inbox \in Sections

ASSUME TitlesAssumption == Titles # {}

TaskItem == [kind : {"task"}, title : Titles, level : {0}, id : Ids \cup {NoId},
             ind : Nat, done : BOOLEAN, closed : BOOLEAN]

HeadingItem == [kind : {"heading"}, title : Sections \cup {Template},
                level : Nat, id : {NoId}, ind : {0}, done : {FALSE},
                closed : {FALSE}]

(* A line at column 0 that is neither, or a block of fenced code.  A line   *)
(* indented deeper than a task before it is of that task's record.         *)
ProseItem == [kind : {"prose"}, title : Titles, level : {0}, id : {NoId},
              ind : {0}, done : {FALSE}, closed : {FALSE}]

Item == TaskItem \cup HeadingItem \cup ProseItem

Doc == Seq(Item)

Task(t, i, n) == [kind |-> "task", title |-> t, level |-> 0, id |-> i,
                  ind |-> n, done |-> FALSE, closed |-> FALSE]

Heading(t, l) == [kind |-> "heading", title |-> t, level |-> l, id |-> NoId,
                  ind |-> 0, done |-> FALSE, closed |-> FALSE]

Prose(t) == [kind |-> "prose", title |-> t, level |-> 0, id |-> NoId,
             ind |-> 0, done |-> FALSE, closed |-> FALSE]

IndentUnit == 2

-----------------------------------------------------------------------------
Headings(s) == {h \in DOMAIN s : s[h].kind = "heading"}

(* The heading at h is open at position i: no later heading of the same or *)
(* a higher rank has closed it.                                            *)
Open(s, h, i) ==
    /\ s[h].kind = "heading"
    /\ \A k \in (h + 1)..i : s[k].kind = "heading" => s[k].level > s[h].level

InTemplate(s, i) == \E h \in 1..i : s[h].title = Template /\ Open(s, h, i)

Tasks(s) == {i \in DOMAIN s : s[i].kind = "task" /\ ~InTemplate(s, i)}

(* Task j is still on the parser's stack at i: no heading, no prose and no *)
(* task indented no deeper has come since.                                 *)
Above(s, j, i) ==
    /\ j < i
    /\ \A k \in (j + 1)..i : s[k].kind = "task" /\ s[k].ind > s[j].ind

(* Only tasks lie between a task and those above it on the stack, so they  *)
(* are outside the template if it is.                                      *)
Ancestors(s, i) == {j \in 1..(i - 1) : s[j].kind = "task" /\ Above(s, j, i)}

Parent(s, i) == Max(Ancestors(s, i) \cup {0})

Children(s, i) == {k \in Tasks(s) : Parent(s, k) = i}

OpenSubtasks(s, i) == {k \in Children(s, i) : ~s[k].done}

(* The position after a task's last descendant.                            *)
End(s, i) == Min({k \in (i + 1)..(Len(s) + 1) :
                     k = Len(s) + 1 \/ ~Above(s, i, k)})

Named(s) == {i \in Tasks(s) : s[i].id # NoId}

IdsIn(s) == {s[i].id : i \in Named(s)}

(* An ID addresses one task of a note.                                     *)
Unique(s) == \A i, j \in Named(s) : s[i].id = s[j].id => i = j

(* byID: of two tasks with one reference, the later.                       *)
Find(s, id) == Max({i \in Named(s) : s[i].id = id})

-----------------------------------------------------------------------------
Splice(s, a, b, t) == SubSeq(s, 1, a - 1) \o t \o SubSeq(s, b, Len(s))

(* render: a task and its descendants, each nested one unit deeper than    *)
(* its parent whatever its indentation was.                                *)
Depth(s, i) == Cardinality(Ancestors(s, i))

Outdented(s, i) ==    \* Broken: the two depths are swapped.
    [k \in 1..(End(s, i) - i) |->
        LET j == i + k - 1
        IN  [s[j] EXCEPT !.ind = s[i].ind
                           + IndentUnit * (Depth(s, i) - Depth(s, j))]]

Render(s, i) ==
    [k \in 1..(End(s, i) - i) |->
        LET j == i + k - 1
        IN  [s[j] EXCEPT !.ind = s[i].ind
                           + IndentUnit * (Depth(s, j) - Depth(s, i))]]

ReplaceBlock(s, i) == Splice(s, i, End(s, i), Render(s, i))

RemoveTask(s, i) ==    \* Broken: the subtasks stay.
    Splice(s, i, i + 1, <<>>)

RemoveBlock(s, i) == Splice(s, i, End(s, i), <<>>)

InsertOneUnit(s, i, t) ==    \* Broken: the parent's own indent is left out.
    Splice(s, End(s, i), End(s, i), <<[t EXCEPT !.ind = IndentUnit]>>)

InsertUnder(s, i, t) ==
    Splice(s, End(s, i), End(s, i), <<[t EXCEPT !.ind = s[i].ind + IndentUnit]>>)

InsertInSection(s, title, t) ==
    LET found == {h \in Headings(s) : s[h].title = title}
        h == Min(found)
        later == {k \in Headings(s) : k > h /\ s[k].level <= s[h].level}
        end == IF later = {} THEN Len(s) + 1 ELSE Min(later)
    IN  IF found = {} THEN s \o <<Heading(title, 2), t>>
                      ELSE Splice(s, end, end, <<t>>)

-----------------------------------------------------------------------------
(* The heading a task is listed under: the last one before it.             *)
SectionOf(s, i) == Max({h \in Headings(s) : h < i} \cup {0})

(* The tree a note describes.                                              *)
Node(s, i) == [parent |-> LET p == Parent(s, i)
                          IN  IF p = 0 THEN NoId ELSE s[p].id,
               title |-> s[i].title, done |-> s[i].done, closed |-> s[i].closed]

Tree(s) == [id \in IdsIn(s) |-> Node(s, Find(s, id))]
=============================================================================
