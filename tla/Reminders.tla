------------------------------ MODULE Reminders ------------------------------
(***************************************************************************)
(* What the task tools promise a client that is not raced by another       *)
(* writer: a forest of reminders, each addressed by an ID, on which every  *)
(* tool is one atomic step that changes its own reminder and no other.     *)
(* TaskStore, which keeps the forest as the indented lines of a note that  *)
(* it reads and rewrites whole, is shown to implement it.                  *)
(***************************************************************************)
EXTENDS FiniteSets

CONSTANTS Ids, NoId, Titles

VARIABLES tasks,  \* [ID -> parent, title, done, closed]
          torn    \* two writers have collided, or a write failed

vars == <<tasks, torn>>

Record == [parent : Ids \cup {NoId}, title : Titles,
           done : BOOLEAN, closed : BOOLEAN]

Init == /\ tasks \in [DOMAIN tasks -> Record]
        /\ DOMAIN tasks \subseteq Ids
        /\ torn = FALSE

-----------------------------------------------------------------------------
(* Each operation relates the forest f before it to the forest g after it. *)
Set(f, g, i, r) == g = [f EXCEPT ![i] = r]

(* Reminders written by hand are given IDs; those nested below one have a  *)
(* parent to name then.                                                    *)
Adopt(f, g) ==
    /\ DOMAIN f \subseteq DOMAIN g
    /\ \A i \in DOMAIN f :
          \/ g[i] = f[i]
          \/ /\ f[i].parent = NoId
             /\ g[i].parent \in DOMAIN g \ DOMAIN f
             /\ g[i] = [f[i] EXCEPT !.parent = g[i].parent]
    /\ \A i \in DOMAIN g : g[i].parent \in DOMAIN g \cup {NoId}

(* A reminder under a parent, or under none.                               *)
Create(f, g) == \E p \in DOMAIN f \cup {NoId}, t \in Titles :
                   \E i \in DOMAIN g \ DOMAIN f :
                      g = [j \in DOMAIN f \cup {i} |->
                             IF j = i THEN [parent |-> p, title |-> t,
                                            done |-> FALSE, closed |-> FALSE]
                             ELSE f[j]]

Update(f, g, i) == \E t \in Titles : Set(f, g, i, [f[i] EXCEPT !.title = t])

(* A reminder is closed only over closed subtasks.                         *)
Complete(f, g, i) ==
    /\ \A j \in DOMAIN f : f[j].parent = i => f[j].done
    /\ Set(f, g, i, [f[i] EXCEPT !.done = TRUE, !.closed = TRUE])

Reopen(f, g, i) == Set(f, g, i, [f[i] EXCEPT !.done = FALSE])

(* A reminder goes with everything below it, and nothing else goes.        *)
Delete(f, g, i) ==
    LET D == DOMAIN f \ DOMAIN g
    IN  /\ D = {i} \cup {j \in DOMAIN f : f[j].parent \in D}
        /\ g = [j \in DOMAIN f \ D |-> f[j]]

(* In Obsidian a person ticks, or clears, a checkbox, ...                  *)
Tick(f, g, i) == Set(f, g, i, [f[i] EXCEPT !.done = ~@])

(* ... or removes a block, whose task may have no ID: what goes, goes with *)
(* everything below it.                                                    *)
Prune(f, g) ==
    LET D == DOMAIN f \ DOMAIN g
    IN  /\ \A j \in DOMAIN f : f[j].parent \in D => j \in D
        /\ g = [j \in DOMAIN f \ D |-> f[j]]

Tear == torn' = TRUE

Tool(f, g) == \/ Create(f, g)
              \/ \E i \in DOMAIN f : \/ Update(f, g, i)
                                     \/ Complete(f, g, i)
                                     \/ Reopen(f, g, i)
                                     \/ Delete(f, g, i)

Hand(f, g) == \/ \E i \in DOMAIN f : Tick(f, g, i)
              \/ Prune(f, g)

Atomic(f, g) == Adopt(f, g) \/ Tool(f, g) \/ Hand(f, g)

Next == \/ Tear
        \/ /\ UNCHANGED torn
           /\ \E f \in {tasks}, g \in {tasks'} : f # g /\ Atomic(f, g)

Spec == Init /\ [][Next]_vars
=====
