------------------------------ MODULE TaskStore ------------------------------
(***************************************************************************)
(* The task tools of internal/tasks/store.go.  Every call reads the whole  *)
(* reminders note, gives an ID to each reminder that has none and saves    *)
(* that at once, then changes the parsed copy and saves the note again.    *)
(* Calls run on goroutines of their own and nothing locks the note; `ob    *)
(* sync` and the note tools write it too.  A save is os.WriteFile: a       *)
(* truncating open, then a write at offset 0.                              *)
(***************************************************************************)
EXTENDS TaskDoc

CONSTANTS Clients,      \* calls in flight, one goroutine each
          StartNotes,   \* what the note may hold at the start
          HandIndents,  \* how much deeper a person indents a subtask
          MaxEvents     \* bound: calls begun, hand edits, faults

ASSUME StartAssumption == StartNotes \subseteq Doc

ASSUME BoundsAssumption == MaxEvents \in Nat /\ HandIndents \subseteq Nat

Outside == "outside"    \* a person, and the device the edit was made on

ASSUME ClientsAssumption == Outside \notin Clients

VARIABLES present,  \* whether the note exists
          note,     \* what it holds
          call,     \* call[c] is where call c stands
          events    \* how many calls, hand edits and faults there have been

(* History, of which the code keeps nothing.                               *)
VARIABLES told,      \* IDs clients were given, off the note as it was then,
                     \* of tasks outside the template, and nobody has deleted
          shown,     \* the note but for a save that is under way: what it
                     \* held before the save truncated it
          disturbed, \* calls under which another actor has changed the note,
                     \* or that have read it while another call was saving it
          raced      \* a call saved over a note it had not read, or was cut short

file == <<present, note>>
vars == <<present, note, call, events, told, shown, disturbed, raced>>

-----------------------------------------------------------------------------
Steps == {"idle", "idTrunc", "idWrite", "loaded", "trunc", "write"}

Idle == [pc |-> "idle", base |-> <<>>, mem |-> <<>>]

Call == [pc : Steps,
         base : Doc,   \* the note as the call last knew it to be on disk
         mem : Doc]    \* the parsed copy

TypeOK == /\ present \in BOOLEAN
          /\ note \in Doc
          /\ call \in [Clients -> Call]
          /\ events \in 0..MaxEvents
          /\ told \subseteq Ids
          /\ shown \in Doc
          /\ disturbed \subseteq Clients
          /\ raced \in BOOLEAN

(* newFileHeader                                                           *)
Header == <<Heading("Reminders", 1)>>

ASSUME HeaderAssumption == "Reminders" \in Sections

ASSUME UniqueAssumption == \A s \in StartNotes : Unique(s)

Init == /\ \/ present = TRUE /\ note \in StartNotes
           \/ present = FALSE /\ note = <<>>
        /\ call = [c \in Clients |-> Idle]
        /\ events = 0
        /\ told = {}
        /\ shown = note
        /\ disturbed = {}
        /\ raced = FALSE

-----------------------------------------------------------------------------
Saving(d) == call[d].pc \in {"idWrite", "write"}

(* History of a step of actor c; told is the step's own.                   *)
Notice(c, clobbers) ==
    LET hit == IF file' = file THEN {}
               ELSE {d \in Clients \ {c} : call[d].pc # "idle"}
    IN  /\ disturbed' = (IF clobbers THEN disturbed
                                     ELSE disturbed \ {c}) \cup hit
        /\ raced' = (raced \/ clobbers \/ \E d \in hit : Saving(d))
        /\ shown' = IF \E d \in Clients : Saving(d)' THEN shown ELSE note'

Count == events < MaxEvents /\ events' = events + 1

Goto(c, rec) == call' = [call EXCEPT ![c] = rec] /\ UNCHANGED events

-----------------------------------------------------------------------------
(* load: read the note, or take the header for a note that is missing, and *)
(* give every reminder an ID.                                              *)
Unnamed(s) == {i \in Tasks(s) : s[i].id = NoId}

FreshIds(s) == {f \in [Unnamed(s) -> Ids \ IdsIn(s)] :
                   \A i, j \in Unnamed(s) : f[i] = f[j] => i = j}

WithIds(s, f) == [i \in DOMAIN s |->
                    IF i \in DOMAIN f THEN [s[i] EXCEPT !.id = f[i]] ELSE s[i]]

Unsaved(s) == "loaded"    \* Broken: the new IDs are not saved at once.

AfterLoad(s) == IF Unnamed(s) = {} THEN "loaded" ELSE "idTrunc"

Load(c) ==
    LET s == IF present THEN note ELSE Header
    IN  /\ call[c].pc = "idle"
        /\ Count
        /\ \E f \in FreshIds(s) :
              call' = [call EXCEPT ![c] =
                         [pc |-> AfterLoad(s), base |-> s, mem |-> WithIds(s, f)]]
        /\ disturbed' = IF \E d \in Clients : Saving(d) THEN disturbed \cup {c}
                                                      ELSE disturbed \ {c}
        /\ UNCHANGED <<file, told, shown, raced>>

(* save: os.WriteFile opens with O_TRUNC and O_CREATE, then writes what it *)
(* has at offset 0, which leaves the tail of a longer text that another    *)
(* writer put there in between.                                            *)
NotTruncated(s) == s    \* Broken: O_TRUNC is missing.

Truncated(s) == <<>>

Trunc(c) ==
    /\ call[c].pc \in {"idTrunc", "trunc"}
    /\ present' = TRUE
    /\ note' = Truncated(note)
    /\ Goto(c, [call[c] EXCEPT
                  !.pc = IF @ = "idTrunc" THEN "idWrite" ELSE "write"])
    /\ UNCHANGED told
    /\ Notice(c, c \in disturbed \/ \E d \in Clients \ {c} : Saving(d))

Overlays(new, old) ==
    {new \o SubSeq(old, k, Len(old)) : k \in 1..(Len(old) + 1)}

WriteIds(c) ==
    /\ call[c].pc = "idWrite"
    /\ note' \in Overlays(call[c].mem, note)
    /\ Goto(c, [call[c] EXCEPT !.pc = "loaded", !.base = call[c].mem])
    /\ UNCHANGED <<present, told>>
    /\ Notice(c, c \in disturbed)

(* The call returns once its save has: a new reminder's ID is told then.   *)
Write(c) ==
    LET before == IdsIn(call[c].base)
        after == IdsIn(call[c].mem)
    IN  /\ call[c].pc = "write"
        /\ note' \in Overlays(call[c].mem, note)
        /\ Goto(c, Idle)
        /\ told' = (told \ (before \ after)) \cup (after \ before)
        /\ UNCHANGED present
        /\ Notice(c, c \in disturbed)

-----------------------------------------------------------------------------
(* What a call does to the parsed copy, between load and save.             *)
Save(c, new) == /\ call[c].pc = "loaded"
                /\ Goto(c, [call[c] EXCEPT !.pc = "trunc", !.mem = new])
                /\ UNCHANGED <<file, told, shown, disturbed, raced>>

Answer(c, ids) == /\ call[c].pc = "loaded"
                  /\ Goto(c, Idle)
                  /\ told' = told \cup (IF c \in disturbed THEN {} ELSE ids)
                  /\ UNCHANGED <<file, shown, disturbed, raced>>

List(c) == Answer(c, IdsIn(call[c].mem))

Get(c) == LET s == call[c].mem
          IN  \E id \in IdsIn(s) :
                 Answer(c, {id} \cup {s[k].id : k \in
                              {j \in Tasks(s) : Find(s, id) \in Ancestors(s, j)}})

AnyId(s) == Ids    \* Broken: a drawn ID is not looked up.

NewIds(s) == Ids \ IdsIn(s)

Create(c) ==
    LET s == call[c].mem
    IN  \E id \in NewIds(s), title \in Titles :
           LET t == Task(title, id, 0)
           IN  \/ \E p \in IdsIn(s) : Save(c, InsertUnder(s, Find(s, p), t))
               \/ \E h \in Sections \cup {Template} :
                     Save(c, InsertInSection(s, h, t))

(* replaceBlock, after the fields of the task at i have become those of t. *)
Rewrite(s, i, t) == ReplaceBlock([s EXCEPT ![i] = t], i)

Update(c) ==
    LET s == call[c].mem
    IN  \E id \in IdsIn(s), title \in Titles :
           LET i == Find(s, id)
           IN  Save(c, Rewrite(s, i, [s[i] EXCEPT !.title = title]))

AnyReady(s, i) == TRUE    \* Broken: open subtasks are not looked at.

Ready(s, i) == OpenSubtasks(s, i) = {}

Complete(c) ==
    LET s == call[c].mem
    IN  \E id \in IdsIn(s) :
           LET i == Find(s, id)
           IN  /\ Ready(s, i)
               /\ Save(c, Rewrite(s, i, [s[i] EXCEPT !.done = TRUE,
                                                     !.closed = TRUE]))

Reopen(c) ==
    LET s == call[c].mem
    IN  \E id \in IdsIn(s) :
           LET i == Find(s, id)
           IN  Save(c, Rewrite(s, i, [s[i] EXCEPT !.done = FALSE]))

Delete(c) ==
    LET s == call[c].mem
    IN  \E id \in IdsIn(s) : Save(c, RemoveBlock(s, Find(s, id)))

(* Complete is refused over open subtasks, and the error names them.       *)
CompleteRefused(c) ==
    LET s == call[c].mem
    IN  \E id \in IdsIn(s) :
           LET i == Find(s, id)
           IN  /\ ~Ready(s, i)
               /\ Answer(c, {s[k].id : k \in OpenSubtasks(s, i)})

(* A call that names a task which is not there is refused.                 *)
NotFound(c) == /\ Ids \ IdsIn(call[c].mem) # {}
               /\ Answer(c, {})

-----------------------------------------------------------------------------
(* The write of a save fails part of the way; the call returns the error.  *)
WriteFails(c) ==
    /\ Saving(c)
    /\ Count
    /\ \E k \in 0..Len(call[c].mem) :
          note' \in Overlays(SubSeq(call[c].mem, 1, k), note)
    /\ call' = [call EXCEPT ![c] = Idle]
    /\ UNCHANGED <<present, told>>
    /\ Notice(c, TRUE)

(* The process is killed and started again.                                *)
Crash == /\ \E c \in Clients : call[c].pc # "idle"
         /\ Count
         /\ call' = [c \in Clients |-> Idle]
         /\ disturbed' = {}
         /\ raced' = (raced \/ \E c \in Clients : Saving(c))
         /\ shown' = note
         /\ UNCHANGED <<file, told>>

(* A person edits the note in Obsidian, and sync brings it: a reminder     *)
(* written below another or at the end, a box ticked, a block removed.     *)
HandEdit ==
    /\ present
    /\ Count
    /\ \/ /\ \E t \in Titles :
                \/ note' = note \o <<Task(t, NoId, 0)>>
                \/ \E i \in Tasks(note), w \in HandIndents :
                      note' = Splice(note, End(note, i), End(note, i),
                                     <<Task(t, NoId, note[i].ind + w)>>)
          /\ UNCHANGED told
       \/ /\ \E i \in Tasks(note) : note' = [note EXCEPT ![i].done = ~@]
          /\ UNCHANGED told
       \/ /\ \E i \in Tasks(note) : note' = RemoveBlock(note, i)
          /\ told' = told \ (IdsIn(note) \ IdsIn(note'))
    /\ UNCHANGED <<present, call>>
    /\ Notice(Outside, FALSE)

-----------------------------------------------------------------------------
Tool(c) == \/ Load(c) \/ Trunc(c) \/ WriteIds(c) \/ Write(c)
           \/ List(c) \/ Get(c) \/ CompleteRefused(c) \/ NotFound(c)
           \/ Create(c) \/ Update(c) \/ Complete(c) \/ Reopen(c) \/ Delete(c)

Next == \/ \E c \in Clients : Tool(c) \/ WriteFails(c)
        \/ Crash
        \/ HandEdit

Spec == Init /\ [][Next]_vars

-----------------------------------------------------------------------------
(* The parsed copy of a call that nobody has disturbed is of the note that *)
(* is on disk, or was before the call's own save truncated it.             *)
ViewIsCurrent ==
    \A c \in Clients \ disturbed :
       /\ call[c].pc \in {"idTrunc", "loaded", "trunc"}
             => call[c].base = IF present THEN note ELSE Header
       /\ Saving(c) => present /\ note = <<>>

(* An ID addresses one task: a drawn ID is never one already in the note.  *)
IdsAreUnique == ~raced => Unique(shown)

(* store.go: "an ID seen in one call stays valid even if that call then    *)
(* fails", until a client deletes the task or a person removes it: when no *)
(* save is under way the note has every ID that was told.                  *)
SeenIdsStayValid == (\A c \in Clients : ~Saving(c)) => told \subseteq IdsIn(note)

(* Until calls collide, every ID that a client was told, in an answer or   *)
(* in the error of a refused Complete, is in the note throughout, and a    *)
(* call finds it unless another actor has changed the note since the call  *)
(* read it, or was in the midst of saving it then.                         *)
SeenIdsStayValidUnlessRaced ==
    ~raced => /\ told \subseteq IdsIn(shown)
              /\ \A c \in Clients \ disturbed :
                    call[c].pc = "loaded" => told \subseteq IdsIn(call[c].mem)

Forest == INSTANCE Reminders WITH tasks <- Tree(shown), torn <- raced

(* Until calls collide, every tool is one atomic step on the forest that   *)
(* the note describes, and changes its own reminder only.                  *)
ForestSpec == Forest!Spec

(* Whatever else the note holds, each tool does to the forest of the copy  *)
(* it has read what Reminders says of its name, and to one reminder.  A    *)
(* reminder that Create puts below the template is in no forest.           *)
ToolsAreAtomic ==
    [][\A c \in Clients :
          call[c].pc = "loaded" /\ Unique(call[c].mem) =>
             LET f == Tree(call[c].mem)
                 g == Tree(call'[c].mem)
             IN  /\ Create(c) => f = g \/ Forest!Create(f, g)
                 /\ Update(c) => \E i \in DOMAIN f : Forest!Update(f, g, i)
                 /\ Complete(c) => \E i \in DOMAIN f : Forest!Complete(f, g, i)
                 /\ Reopen(c) => \E i \in DOMAIN f : Forest!Reopen(f, g, i)
                 /\ Delete(c) => \E i \in DOMAIN f : Forest!Delete(f, g, i)]_vars

(* store.go: Create "adds a reminder, nested under ParentID when set,      *)
(* otherwise at the end of Section", and Section, which it answers off its *)
(* own arguments, is "the innermost heading the task sits under": a later  *)
(* call finds the reminder below that parent, or under that heading.       *)
NestsUnderParent(s, i, new) ==
    LET n == InsertUnder(s, i, new)
    IN  Parent(n, Find(n, new.id)) = i

FiledInSection(s, title, new) ==
    LET n == InsertInSection(s, title, new)
    IN  /\ new.id \in IdsIn(n)
        /\ n[SectionOf(n, Find(n, new.id))].title = title

CreatedWhereAnswered ==
    \A c \in Clients : call[c].pc = "loaded" =>
       LET s == call[c].mem
       IN  \A id \in Ids \ IdsIn(s) :
              LET new == Task(CHOOSE t \in Titles : TRUE, id, 0)
              IN  /\ \A p \in IdsIn(s) : NestsUnderParent(s, Find(s, p), new)
                  /\ \A title \in Sections : FiledInSection(s, title, new)

(* That fails in three cases, and in no other.  The last subtask that a    *)
(* person has written below the parent is indented by less than a unit,    *)
(* and takes the new one for its own.  The section is below the template,  *)
(* or ends in it, and no call finds the reminder.  The section has         *)
(* subsections, and the last of them gets it.                              *)
Shallow(s, i) == /\ Children(s, i) # {}
                 /\ s[Max(Children(s, i))].ind < s[i].ind + IndentUnit

FoundUnderParent(s, i, new) ==
    NestsUnderParent(s, i, new) <=> ~Shallow(s, i)

Below(n, h) == {k \in Headings(n) : k > h /\ Open(n, h, k)}

EndsInTemplate(n, h) ==
    \/ InTemplate(n, h)
    \/ \E g \in Below(n, h) : /\ n[g].title = Template
                             /\ \A k \in Below(n, h) :
                                   k > g => n[k].level > n[g].level

FoundInSection(s, title, new) ==
    LET n == InsertInSection(s, title, new)
        h == Min({k \in Headings(n) : n[k].title = title})
    IN  IF EndsInTemplate(n, h) THEN new.id \notin IdsIn(n)
        ELSE LET i == Find(n, new.id)
             IN  /\ Parent(n, i) = 0
                 /\ Open(n, h, i)
                 /\ SectionOf(n, i) = h <=> Below(n, h) = {}

CreatedIsFound ==
    \A c \in Clients : call[c].pc = "loaded" =>
       LET s == call[c].mem
       IN  \A id \in Ids \ IdsIn(s) :
              LET new == Task(CHOOSE t \in Titles : TRUE, id, 0)
              IN  /\ \A p \in IdsIn(s) : FoundUnderParent(s, Find(s, p), new)
                  /\ \A title \in Sections \cup {Template} :
                        FoundInSection(s, title, new)
=============================================================================
