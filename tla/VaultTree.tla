------------------------------ MODULE VaultTree ------------------------------
(***************************************************************************)
(* The paths of internal/vault/vault.go: how the path a client gives is    *)
(* cleaned, and what each operation does to the tree of folders and notes. *)
(* Every operation is one step here; VaultFiles takes them apart into      *)
(* system calls, over paths that are clean already.                        *)
(*                                                                         *)
(* A path is a sequence of components as it was written: "f/../a" is the   *)
(* sequence f, .., a; the components "." and ".." are still in it, and the *)
(* empty component that a leading or a double slash makes.  The tree maps  *)
(* clean paths to notes or folders; the vault itself is the path <<>>.     *)
(***************************************************************************)
EXTENDS Integers, Sequences, SequencesExt, FiniteSets

CONSTANTS Bases,      \* the base names there are
          RawPaths,   \* the paths clients give
          Start,      \* the tree at the start
          Hidden,     \* the base names that begin with a dot
          MaxChanges  \* bound: calls that change the tree

(* A component is a base name and the numbers uniquePath has put into it.  *)
Name(b) == [base |-> b, nums |-> <<>>]

Component == [base : Bases, nums : Seq(Nat)]

Path == Seq(Component)

Trash == Name(".trash")

Folder == 0   \* what the tree holds at a folder; notes are numbered from 1

VARIABLES tree,      \* [clean path -> Folder or a note]
          changes    \* how many calls have changed it

(* History: what a client was told of the notes it has deleted.            *)
VARIABLE receipts    \* [at, held] records: where Delete said it put what

vars == <<tree, changes, receipts>>

-----------------------------------------------------------------------------
(* filepath.Clean: drop "." and empty components, and let ".." take back   *)
(* the component before it, unless there is none.                          *)
CleanStep(done, c) ==
    IF c.base \in {"", "."} THEN done
    ELSE IF c.base = ".." /\ done # <<>> /\ Last(done).base # ".."
         THEN Front(done)
         ELSE Append(done, c)

Clean(raw) ==
    LET done[k \in 0..Len(raw)] ==
            IF k = 0 THEN <<>> ELSE CleanStep(done[k - 1], raw[k])
    IN  done[Len(raw)]

(* resolve: the empty path, absolute paths and paths that leave the vault  *)
(* are refused.                                                            *)
Resolves(raw) == /\ raw # <<>>
                 /\ raw[1].base # ""
                 /\ Clean(raw) # <<>> => Clean(raw)[1].base # ".."

(* The files of a tree below a path.                                       *)
Within(p, q) == IsPrefix(p, q)

Rest(p, q) == SubSeq(q, Len(p) + 1, Len(q))

Exists(p) == p \in DOMAIN tree

Held(t, p) == {<<Rest(p, q), t[q]>> : q \in {r \in DOMAIN t : Within(p, r)}}

Notes(t) == {t[q] : q \in DOMAIN t} \ {Folder}

-----------------------------------------------------------------------------
(* os.MkdirAll of the folder a path is in: it fails, before it makes any,  *)
(* if a note stands where a folder is needed.                              *)
Parents(p) == {SubSeq(p, 1, k) : k \in 0..(Len(p) - 1)}

CanMake(t, p) == \A q \in Parents(p) \cap DOMAIN t : t[q] = Folder

WithoutParents(t, p) == t    \* Broken: MkdirAll is missing.

WithParents(t, p) == [q \in DOMAIN t \cup Parents(p) |->
                         IF q \in DOMAIN t THEN t[q] ELSE Folder]

(* rename(2), of a note or of a folder with all that is in it; a folder    *)
(* cannot be moved into itself.                                            *)
CanRename(p, q) == ~Within(p, q)

Renamed(t, p, q) ==
    LET kept  == {r \in DOMAIN t : ~Within(p, r) /\ ~Within(q, r)}
        moved == {r \in DOMAIN t : Within(p, r)}
    IN  [r \in kept \cup {q \o Rest(p, m) : m \in moved} |->
            IF Within(q, r) THEN t[p \o Rest(q, r)] ELSE t[r]]

Removed(t, p) == [q \in {r \in DOMAIN t : ~Within(p, r)} |-> t[q]]

(* A new note is given a number that no note has.                          *)
Fresh == 1 + Cardinality({q \in DOMAIN Start : Start[q] # Folder}) + changes

-----------------------------------------------------------------------------
(* A step puts a tree in place of the tree.  A receipt lapses when a call  *)
(* addresses what it is about.                                             *)
About(r, p) == Within(p, r.at) \/ Within(r.at, p)

Becomes(t, addressed, new) ==
    /\ t # tree
    /\ changes' = changes + 1
    /\ tree' = t
    /\ receipts' = {r \in receipts : \A p \in addressed : ~About(r, p)} \cup new

(* Create: O_EXCL after MkdirAll.                                          *)
Create(raw) ==
    LET p == Clean(raw)
    IN  /\ Resolves(raw)
        /\ CanMake(tree, p)
        /\ ~Exists(p)
        /\ Becomes([q \in DOMAIN WithParents(tree, p) \cup {p} |->
                       IF q = p THEN Fresh ELSE WithParents(tree, p)[q]],
                   {p}, {})

(* Move: stat both, MkdirAll, rename.  The folders that were made stay     *)
(* when the rename then fails.                                             *)
OverTarget(q) == TRUE    \* Broken: the target is not looked at.

NotThere(q) == ~Exists(q)

Moved(p, q) ==
    LET t == WithParents(tree, q)
    IN  IF CanRename(p, q) THEN Renamed(t, p, q) ELSE t

Move(raw, to) ==
    LET p == Clean(raw)
        q == Clean(to)
    IN  /\ Resolves(raw) /\ Resolves(to)
        /\ Exists(p)
        /\ NotThere(q)
        /\ CanMake(tree, q)
        /\ Becomes(Moved(p, q), {p, q}, {})

(* Restore: a Move of a path written ".trash/...", by default to the same  *)
(* path without its ".trash/".                                             *)
InTrashAsWritten(raw) == raw # <<>> /\ raw[1] = Trash

ToBaseName(raw) == <<Last(raw)>>    \* Broken: the folders are dropped.

DefaultTarget(raw) == Tail(raw)

Restore(raw, to) ==
    /\ InTrashAsWritten(raw)
    /\ Len(raw) > 1
    /\ Move(raw, IF to = <<>> THEN DefaultTarget(raw) ELSE to)

(* Delete for good: what the client asked, and whatever is written         *)
(* ".trash" or ".trash/...".                                               *)
Erase(raw, permanent) ==
    LET p == Clean(raw)
    IN  /\ Resolves(raw)
        /\ Exists(p)
        /\ permanent \/ InTrashAsWritten(raw)
        /\ Becomes(Removed(tree, p), {p}, {})

(* uniquePath: the first of a, a (1), a (2), ... that is not in the trash. *)
Candidate(c, n) == [c EXCEPT !.nums = IF n = 0 THEN @ ELSE Append(@, n)]

FirstName(t, c) == c    \* Broken: the name is used although it is taken.

UniqueName(t, c) ==
    LET taken(n) == <<Trash, Candidate(c, n)>> \in DOMAIN t
    IN  Candidate(c, CHOOSE n \in 0..Cardinality(DOMAIN t) :
                        ~taken(n) /\ \A m \in 0..(n - 1) : taken(m))

(* Delete into the trash, and the path it answers with.                    *)
SaysOwnName(p, unique) == <<Trash, Last(p)>>    \* Broken: not the new name.

Answer(p, unique) == <<Trash, unique>>

SoftDelete(raw) ==
    LET p == Clean(raw)
        t == WithParents(tree, <<Trash, Trash>>)
        c == IF p = <<>> THEN Name("vault") ELSE Last(p)
        u == UniqueName(t, c)
        q == <<Trash, u>>
    IN  /\ Resolves(raw)
        /\ Exists(p)
        /\ ~InTrashAsWritten(raw)
        /\ CanMake(tree, q)
        /\ IF CanRename(p, q)
           THEN Becomes(Renamed(t, p, q), {p},
                        {[at |-> Answer(p, u), held |-> Held(tree, p)]})
           ELSE Becomes(t, {}, {})

Delete(raw, permanent) == \/ Erase(raw, permanent)
                          \/ ~permanent /\ SoftDelete(raw)

(* List: the entries of a folder, or all those below it, without those     *)
(* that are hidden or in a hidden folder.  uniquePath puts its number      *)
(* before the extension, and all of ".h" is one: " (1).h" is not hidden.   *)
IsHidden(c) == c.base \in Hidden /\ c.nums = <<>>

List(raw, recursive) ==
    LET p == Clean(raw)
    IN  {q \in DOMAIN tree : /\ Within(p, q)
                             /\ q # p
                             /\ recursive \/ Len(q) = Len(p) + 1
                             /\ \A i \in DOMAIN Rest(p, q) :
                                   ~IsHidden(Rest(p, q)[i])}

-----------------------------------------------------------------------------
(* The vault at the start is what a disk can hold: what has something      *)
(* below it is a folder.                                                   *)
ASSUME PathsAssumption ==
    /\ {".trash", "vault"} \subseteq Bases
    /\ RawPaths \subseteq Path
    /\ Start \in [DOMAIN Start -> Nat] /\ IsFiniteSet(DOMAIN Start)
    /\ DOMAIN Start \subseteq Path
    /\ \A q \in DOMAIN Start : \A d \in Parents(q) :
          d \in DOMAIN Start /\ Start[d] = Folder
    /\ MaxChanges \in Nat

Init == /\ tree = Start
        /\ changes = 0
        /\ receipts = {}

Next == /\ changes < MaxChanges
        /\ \E raw \in RawPaths :
              \/ Create(raw)
              \/ \E to \in RawPaths : Move(raw, to)
              \/ \E to \in RawPaths : Restore(raw, to)
              \/ \E permanent \in BOOLEAN : Delete(raw, permanent)

Spec == Init /\ [][Next]_vars

-----------------------------------------------------------------------------
(* The tree is one that a disk can hold: what has something below it is a  *)
(* folder.                                                                 *)
TypeOK == /\ \A q \in DOMAIN tree \ {<<>>} :
                /\ Front(q) \in DOMAIN tree
                /\ tree[Front(q)] = Folder
          /\ changes \in 0..MaxChanges

(* However its paths are written and whatever they name, whole folders     *)
(* included, no Create, Move, Restore or Delete into the trash loses a     *)
(* note: only Delete for good does, which is what a Delete becomes when    *)
(* its path is written ".trash...".                                        *)
NothingLost ==
    [][\/ Notes(tree) \subseteq Notes(tree')
       \/ \E raw \in RawPaths, permanent \in BOOLEAN : Erase(raw, permanent)
      ]_vars

(* What Delete answered stays true until a call addresses it: the note, or *)
(* the folder with all its notes, is at the path it said, whatever else is *)
(* deleted, restored, moved or created meanwhile; and that path is listed  *)
(* with the trash, unless it begins with a dot.                            *)
ReceiptsHold ==
    \A r \in receipts :
       /\ Held(tree, r.at) = r.held
       /\ r.held # {}
       /\ r.at \in List(<<Trash>>, FALSE) \/ IsHidden(Last(r.at))

(* Restore looks for ".trash/" before it cleans the path.  Yet when no     *)
(* target is given it takes nothing from outside the trash: a path that    *)
(* leaves the trash has a default target that leaves the vault.            *)
RestoreTakesFromTrash ==
    [][\A raw \in RawPaths :
          Restore(raw, <<>>) =>
             \A q \in DOMAIN tree : ~Within(<<Trash>>, q)
                => q \in DOMAIN tree' /\ tree'[q] = tree[q]]_vars

(* vault.go:308, Delete: "By default it is moved into the vault's .trash   *)
(* directory (recoverable, and the move syncs)".                           *)
DeleteIsRecoverable ==
    [][\A raw \in RawPaths :
          /\ Delete(raw, FALSE)
          /\ ~Within(<<Trash>>, Clean(raw))
          => Notes(tree) \subseteq Notes(tree')]_vars
=============================================================================
