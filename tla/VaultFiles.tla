----------------------------- MODULE VaultFiles -----------------------------
(***************************************************************************)
(* The note operations of internal/vault/vault.go and of ReplaceSection in *)
(* internal/vault/sections.go, one action per system call.  Requests run   *)
(* on goroutines of their own and nothing locks the vault, so the calls of *)
(* two requests interleave freely, with each other and with `ob sync`,     *)
(* which writes the same directory from another process.                   *)
(*                                                                         *)
(* The file system is a map from paths to inodes and the text of each      *)
(* inode: an open file keeps its inode when its path is renamed, unlinked  *)
(* or taken by another file.  Parent directories are always made (MkdirAll *)
(* precedes every use) and are left out; so are calls that return an error *)
(* before they change anything.                                            *)
(***************************************************************************)
EXTENDS Integers, Sequences, SequencesExt, FiniteSets

CONSTANTS Clients,     \* requests in flight, one goroutine each
          Folders,     \* the folders of the vault proper
          Root,        \* the one of them that is the vault's root
          Trash,       \* the folder .trash
          Names,       \* base names of notes
          LongNames,   \* the base names with no room left for " (1)"
          Text,        \* tokens of text
          Contents,    \* the texts clients send
          StartNotes,  \* the notes on disk at the start: [path, text] records
          MaxEvents,   \* bound: calls begun, changes pulled, writes failed, crashes
          MaxNumber    \* bound: largest n tried in " (n)"

(* A path is a folder and a file name; the name a note gets in the trash   *)
(* when its own is taken is numbered: nums = <<1, 2>> is "a (1) (2).md".    *)
Dirs == Folders \cup {Trash}

Path == [dir : Dirs, base : Names, nums : Seq(Nat)]

Plain(d, n) == [dir |-> d, base |-> n, nums |-> <<>>]

ASSUME NamesAssumption == /\ Trash \notin Folders
                          /\ Root \in Folders
                          /\ Names # {}
                          /\ LongNames \subseteq Names

ASSUME TextAssumption == /\ Contents \subseteq Seq(Text)
                         /\ StartNotes \in Seq([path : Path, text : Seq(Text)])
                         /\ \A i, j \in DOMAIN StartNotes :
                               StartNotes[i].path = StartNotes[j].path => i = j

ASSUME BoundsAssumption == MaxEvents \in Nat /\ MaxNumber \in Nat

VARIABLES fs,        \* [path -> inode] of the directory entries
          data,      \* data[i] is the text of inode i; inodes are never reused
          call,      \* call[c] is where request c stands
          events     \* how many calls, pulls and faults there have been

(* History, of which the code keeps nothing.                               *)
VARIABLES disturbed, \* clients whose view another actor has changed
          raced,     \* a client wrote on a disturbed view, or a write was torn
          unborn     \* the files an Append has made and nobody has written yet

disk == <<fs, data, unborn>>
vars == <<fs, data, call, events, disturbed, raced, unborn>>

-----------------------------------------------------------------------------
Steps == {"idle", "createWrite", "appendWrite", "truncate", "rewrite",
          "statDst", "rename", "probe", "trash", "remove"}

NoPath == Plain(Trash, CHOOSE n \in Names : TRUE)

Idle == [pc |-> "idle", path |-> NoPath, to |-> NoPath,
         old |-> <<>>, text |-> <<>>, fd |-> 0, n |-> 0]

Call == [pc : Steps, path : Path, to : Path,
         old : Seq(Text), text : Seq(Text), fd : Nat, n : Nat]

TypeOK == /\ fs \in [DOMAIN fs -> 1..Len(data)]
          /\ DOMAIN fs \subseteq Path
          /\ data \in Seq(Seq(Text))
          /\ call \in [Clients -> Call]
          /\ \A c \in Clients :
                call[c].pc \in {"createWrite", "appendWrite", "rewrite"}
                   => call[c].fd \in 1..Len(data)
          /\ events \in 0..MaxEvents
          /\ disturbed \subseteq Clients
          /\ raced \in BOOLEAN
          /\ unborn \subseteq 1..Len(data)

Init == /\ fs = [p \in {StartNotes[i].path : i \in DOMAIN StartNotes} |->
                    CHOOSE i \in DOMAIN StartNotes : StartNotes[i].path = p]
        /\ data = [i \in DOMAIN StartNotes |-> StartNotes[i].text]
        /\ call = [c \in Clients |-> Idle]
        /\ events = 0
        /\ disturbed = {}
        /\ raced = FALSE
        /\ unborn = {}

-----------------------------------------------------------------------------
(* The file system.                                                        *)
Exists(p) == p \in DOMAIN fs

Link(p, i) == [q \in DOMAIN fs \cup {p} |-> IF q = p THEN i ELSE fs[q]]

Unlink(p) == [q \in DOMAIN fs \ {p} |-> fs[q]]

(* open(2) with O_CREATE: the inode it opens, and the files after it.      *)
OpenAt(p) == IF Exists(p) THEN fs[p] ELSE Len(data) + 1

NotCreated(p) == data    \* Broken: O_CREATE is missing.

Created(p) == IF Exists(p) THEN data ELSE Append(data, <<>>)

(* rename(2): the target's old entry, if there is one, is replaced.        *)
Relink(p, q) == [r \in (DOMAIN fs \ {p}) \cup {q} |->
                    IF r = q THEN fs[p] ELSE fs[r]]

(* A write at offset 0 of a file that may hold text by now.                *)
Overlay(t, s) == t \o SubSeq(s, Len(t) + 1, Len(s))

(* strings.ReplaceAll, of a token by a text.                               *)
Substitute(s, f, r) ==
    FlattenSeq([i \in DOMAIN s |-> IF s[i] = f THEN r ELSE <<s[i]>>])

(* A write with O_APPEND.                                                  *)
AtStart(t, s) == Overlay(t, s)    \* Broken: O_APPEND is missing.

AtEnd(t, s) == s \o t

(* From now on inode i is a file somebody has written, or truncated.       *)
Born(i) == unborn' = unborn \ {i}

Entry(p) == IF Exists(p) THEN <<fs[p], data[fs[p]]>> ELSE <<>>

-----------------------------------------------------------------------------
(* What client d has seen and still relies on: before and during a rewrite *)
(* the file it read, before a rename that the target was absent.           *)
Holding(d) == call[d].pc \in {"createWrite", "rewrite"}

ViewChanges(d) ==
    LET p == call[d].path
        q == call[d].to
    IN  \/ /\ call[d].pc \in {"createWrite", "truncate", "rewrite"}
           /\ Entry(p)' # Entry(p)
        \/ /\ call[d].pc \in {"rename", "trash"}
           /\ (q \in DOMAIN fs') # Exists(q)

(* History of a step of actor c (a client, or Outside): whose view it      *)
(* changes, and whether it acts on a stale view of its own (clobbers).  A   *)
(* client relies on nothing it saw before its latest step.                 *)
Notice(c, clobbers) ==
    LET hit == {d \in Clients \ {c} : ViewChanges(d)}
    IN  /\ disturbed' = (disturbed \ {c}) \cup hit
        /\ raced' = (raced \/ clobbers \/ \E d \in hit : Holding(d))

Outside == "outside"

ASSUME ClientsAssumption == Outside \notin Clients

Count == events < MaxEvents /\ events' = events + 1

Begin(c, rec) == /\ call[c].pc = "idle"
                 /\ call' = [call EXCEPT ![c] = rec]
                 /\ Count

Goto(c, rec) == /\ call' = [call EXCEPT ![c] = rec]
                /\ UNCHANGED events

Return(c) == Goto(c, Idle)

-----------------------------------------------------------------------------
(* Create: open with O_EXCL, then write at offset 0.                       *)
NotExcl(p) == TRUE    \* Broken: O_EXCL is missing.

Excl(p) == ~Exists(p)

CreateOpen(c) ==
    \E d \in Dirs, n \in Names, t \in Contents :
       LET p == Plain(d, n)
       IN  /\ Excl(p)
           /\ Begin(c, [Idle EXCEPT !.pc = "createWrite", !.path = p,
                                    !.text = t, !.fd = OpenAt(p)])
           /\ fs' = Link(p, OpenAt(p))
           /\ data' = Created(p)
           /\ UNCHANGED unborn
           /\ Notice(c, FALSE)

(* Append: open with O_APPEND, creating the note if need be, then write at *)
(* what is the end of the file by then.                                    *)
AppendOpen(c) ==
    \E d \in Dirs, n \in Names, t \in Contents :
       LET p == Plain(d, n)
       IN  /\ Begin(c, [Idle EXCEPT !.pc = "appendWrite", !.path = p,
                                    !.text = t, !.fd = OpenAt(p)])
           /\ fs' = Link(p, OpenAt(p))
           /\ data' = Created(p)
           /\ unborn' = IF Exists(p) THEN unborn ELSE unborn \cup {OpenAt(p)}
           /\ Notice(c, FALSE)

AppendWrite(c) ==
    LET i == call[c].fd
    IN  /\ call[c].pc = "appendWrite"
        /\ data' = [data EXCEPT ![i] = AtEnd(call[c].text, @)]
        /\ UNCHANGED fs
        /\ Born(i)
        /\ Return(c)
        /\ Notice(c, FALSE)

(* Edit: read the note, find the text in it (a token of it), and replace   *)
(* it by another text, or by none.  Without replace_all it must occur once.*)
Occurrences(s, f) == {i \in DOMAIN s : s[i] = f}

NotLookedFor(s, f) == TRUE    \* Broken: "text not found" is no error.

Found(s, f) == Occurrences(s, f) # {}

EditRead(c) ==
    \E p \in DOMAIN fs, f \in Text, r \in Contents \cup {<<>>},
       replaceAll \in BOOLEAN :
       LET old == data[fs[p]]
       IN  /\ Found(old, f)
           /\ Cardinality(Occurrences(old, f)) > 1 => replaceAll
           /\ Begin(c, [Idle EXCEPT !.pc = "truncate", !.path = p, !.old = old,
                                    !.text = Substitute(old, f, r)])
           /\ UNCHANGED disk
           /\ Notice(c, FALSE)

(* ReplaceSection: read the note, find the section, and replace what is    *)
(* between its heading and its end; which tokens those are is up to        *)
(* markdownSections.                                                       *)
SectionRead(c) ==
    \E p \in DOMAIN fs, t \in Contents \cup {<<>>} :
       LET old == data[fs[p]]
       IN  \E b \in 1..Len(old) : \E e \in b..Len(old) :
              /\ Begin(c, [Idle EXCEPT
                             !.pc = "truncate", !.path = p, !.old = old,
                             !.text = SubSeq(old, 1, b) \o t
                                        \o SubSeq(old, e + 1, Len(old))])
              /\ UNCHANGED disk
              /\ Notice(c, FALSE)

(* os.WriteFile, for both: open with O_TRUNC, and O_CREATE, ...            *)
OpenTrunc(c) ==
    LET p == call[c].path
    IN  /\ call[c].pc = "truncate"
        /\ fs' = Link(p, OpenAt(p))
        /\ data' = [Created(p) EXCEPT ![OpenAt(p)] = <<>>]
        /\ Born(OpenAt(p))
        /\ Goto(c, [call[c] EXCEPT !.pc = "rewrite", !.fd = OpenAt(p)])
        /\ Notice(c, c \in disturbed)

(* ... then write at offset 0; the write of Create is the same.            *)
Write(c) ==
    LET i == call[c].fd
    IN  /\ Holding(c)
        /\ data' = [data EXCEPT ![i] = Overlay(call[c].text, @)]
        /\ UNCHANGED fs
        /\ Born(i)
        /\ Return(c)
        /\ Notice(c, c \in disturbed)

(* Move, and Restore which calls it: stat the source, stat the target,     *)
(* rename.                                                                 *)
MoveStatSrc(c) ==
    \E p \in DOMAIN fs, d \in Dirs, n \in Names :
       /\ Begin(c, [Idle EXCEPT !.pc = "statDst", !.path = p,
                                !.to = Plain(d, n)])
       /\ UNCHANGED disk
       /\ Notice(c, FALSE)

(* With no target given, the note goes back to the vault's root, under the *)
(* name it has in the trash.                                               *)
RestoreStatSrc(c) ==
    \E p \in DOMAIN fs :
       /\ p.dir = Trash
       /\ Begin(c, [Idle EXCEPT !.pc = "statDst", !.path = p,
                                !.to = [p EXCEPT !.dir = Root]])
       /\ UNCHANGED disk
       /\ Notice(c, FALSE)

StatIgnored(q) == FALSE    \* Broken: the target is not looked at.

StatFinds(q) == Exists(q)

MoveStatDst(c) ==
    /\ call[c].pc = "statDst"
    /\ IF StatFinds(call[c].to)
       THEN Return(c)
       ELSE Goto(c, [call[c] EXCEPT !.pc = "rename"])
    /\ UNCHANGED disk
    /\ Notice(c, FALSE)

(* Delete: stat the note; what is in the trash already, or deleted for     *)
(* good, is removed; anything else is renamed into the trash under the     *)
(* first of its names that a stat says is free.                            *)
DeleteStat(c) ==
    \E p \in DOMAIN fs, permanent \in BOOLEAN :
       /\ Begin(c, [Idle EXCEPT
                      !.pc = IF permanent \/ p.dir = Trash
                             THEN "remove" ELSE "probe",
                      !.path = p])
       /\ UNCHANGED disk
       /\ Notice(c, FALSE)

RemoveAll(c) ==
    /\ call[c].pc = "remove"
    /\ fs' = Unlink(call[c].path)
    /\ UNCHANGED <<data, unborn>>
    /\ Return(c)
    /\ Notice(c, FALSE)

Candidate(p, n) == [p EXCEPT !.dir = Trash,
                             !.nums = IF n = 0 THEN @ ELSE Append(@, n)]

(* stat fails with ENAMETOOLONG, which is not ErrNotExist.                 *)
TooLong(p) == p.base \in LongNames /\ p.nums # <<>>

TakenIgnored(q) == FALSE    \* Broken: the first name is used as it is.

Taken(q) == Exists(q) \/ TooLong(q)

SameNumber(n) == n    \* Broken: i++ is missing.

NextNumber(n) == IF n < MaxNumber THEN n + 1 ELSE n

Probe(c) ==
    LET q == Candidate(call[c].path, call[c].n)
    IN  /\ call[c].pc = "probe"
        /\ Goto(c, IF Taken(q)
                   THEN [call[c] EXCEPT !.n = NextNumber(@)]
                   ELSE [call[c] EXCEPT !.pc = "trash", !.to = q])
        /\ UNCHANGED disk
        /\ Notice(c, FALSE)

(* The rename that ends Move, Restore and Delete; it fails if the source   *)
(* has gone.                                                               *)
Rename(c) ==
    LET p == call[c].path
        q == call[c].to
    IN  /\ call[c].pc \in {"rename", "trash"}
        /\ fs' = IF Exists(p) THEN Relink(p, q) ELSE fs
        /\ UNCHANGED <<data, unborn>>
        /\ Return(c)
        /\ Notice(c, Exists(p) /\ c \in disturbed)

-----------------------------------------------------------------------------
(* A write that fails after part of the text (a full disk): the call       *)
(* returns the error and leaves what it wrote.                             *)
WriteFails(c) ==
    LET i == call[c].fd
        t == call[c].text
    IN  /\ call[c].pc \in {"createWrite", "rewrite", "appendWrite"}
        /\ \E k \in 0..(Len(t) - 1) :
              LET part == SubSeq(t, 1, k)
              IN  data' = [data EXCEPT ![i] =
                             IF call[c].pc = "appendWrite"
                             THEN AtEnd(part, @) ELSE Overlay(part, @)]
        /\ UNCHANGED fs
        /\ Born(i)
        /\ call' = [call EXCEPT ![c] = Idle]
        /\ Count
        /\ Notice(c, TRUE)

(* The process is killed and started again on the same directory.  A note  *)
(* that was being written is left as it is.                                *)
Crash == /\ \E c \in Clients : call[c].pc # "idle"
         /\ call' = [c \in Clients |-> Idle]
         /\ UNCHANGED <<fs, data>>
         /\ Count
         /\ disturbed' = {}
         /\ raced' = \/ raced
                     \/ \E c \in Clients : Holding(c)
                     \/ \E p \in DOMAIN fs : fs[p] \in unborn
         /\ unborn' = {}

(* `ob sync` brings a note, a new text of one, or a deletion from another  *)
(* device.                                                                 *)
Pull == /\ Count
        /\ UNCHANGED call
        /\ \/ \E d \in Dirs, n \in Names, t \in Contents :
                 LET p == Plain(d, n)
                 IN  /\ fs' = Link(p, OpenAt(p))
                     /\ data' = [Created(p) EXCEPT ![OpenAt(p)] = t]
                     /\ Born(OpenAt(p))
           \/ \E p \in DOMAIN fs : fs' = Unlink(p) /\ UNCHANGED <<data, unborn>>
        /\ Notice(Outside, FALSE)

-----------------------------------------------------------------------------
Continue(c) == \/ AppendWrite(c)
               \/ OpenTrunc(c)
               \/ Write(c)
               \/ MoveStatDst(c)
               \/ RemoveAll(c)
               \/ Probe(c)
               \/ Rename(c)

Request(c) == \/ CreateOpen(c)
              \/ AppendOpen(c)
              \/ EditRead(c)
              \/ SectionRead(c)
              \/ MoveStatSrc(c)
              \/ RestoreStatSrc(c)
              \/ DeleteStat(c)

Next == \/ \E c \in Clients : Request(c) \/ Continue(c) \/ WriteFails(c)
        \/ Crash
        \/ Pull

Spec == Init /\ [][Next]_vars

(* A goroutine that can make its next system call does: every call it      *)
(* makes returns.  Nothing obliges a client to call, a device to sync or a *)
(* write to fail.                                                          *)
FairSpec == Spec /\ \A c \in Clients : WF_vars(Continue(c))

-----------------------------------------------------------------------------
(* What a client relies on is still so unless another actor changed it: a  *)
(* rewrite that nobody disturbed starts from the text the note has, its    *)
(* open file is the empty file at its path, and the target of a rename     *)
(* that nobody disturbed is free.                                          *)
ViewIsCurrent ==
    \A c \in Clients \ disturbed :
       LET p == call[c].path
           q == call[c].to
       IN  /\ call[c].pc = "truncate" => Exists(p) /\ data[fs[p]] = call[c].old
           /\ Holding(c) => Exists(p) /\ fs[p] = call[c].fd /\ data[fs[p]] = <<>>
           /\ call[c].pc \in {"rename", "trash"} => ~Exists(q)

(* Until writers collide, no two of them hold the same file open, and none *)
(* of those that do is disturbed.                                          *)
HoldersApart ==
    ~raced => /\ \A c \in Clients : Holding(c) => c \notin disturbed
              /\ \A c, d \in Clients :
                    Holding(c) /\ Holding(d) /\ call[c].path = call[d].path
                       => c = d

(* A file leaves the vault only when a client or a device removes it: no   *)
(* Create, Append, Edit, Move, Restore or soft Delete loses one, another   *)
(* client's included, unless writers collide.                              *)
LeavesOnlyByRemoval ==
    [][\A i \in {fs[p] : p \in DOMAIN fs} :
          \/ i \in {fs'[p] : p \in DOMAIN fs'}
          \/ \E c \in Clients : RemoveAll(c)
          \/ Pull
          \/ raced']_vars

(* What other requests are to see of the disk: a note being created, by a  *)
(* Create or an Append, is not there yet, and a note being rewritten has   *)
(* its old text.                                                           *)
Hidden == {call[c].path : c \in {d \in Clients : call[d].pc = "createWrite"}}
             \cup {p \in DOMAIN fs : fs[p] \in unborn}

Rewriting(p) == {c \in Clients : call[c].pc = "rewrite" /\ call[c].path = p}

Visible == [p \in DOMAIN fs \ Hidden |->
               IF Rewriting(p) # {}
               THEN call[CHOOSE c \in Rewriting(p) : TRUE].old
               ELSE data[fs[p]]]

(* An Edit or a ReplaceSection never starts from what is not the note: one *)
(* that falls between another's open with O_TRUNC and its write finds the  *)
(* file empty, and is refused.                                             *)
RewritesStartFromTheNote ==
    [][\A c \in Clients :
          ~raced /\ call[c].pc = "idle" /\ call'[c].pc = "truncate"
             => /\ call'[c].path \in DOMAIN Visible
                /\ call'[c].old = Visible[call'[c].path]]_vars

Store == INSTANCE NoteStore WITH notes <- Visible, torn <- raced

(* Until writers collide, every call that changes the vault does so in one *)
(* step: Create and Append at their write, Edit and ReplaceSection at      *)
(* theirs, Move, Restore and Delete at the rename or the removal.          *)
StoreSpec == Store!Spec

(* Every call returns.                                                     *)
CallsReturn == \A c \in Clients : call[c].pc # "idle" ~> call[c].pc = "idle"

(* vault.go, uniquePath: "returns p, or p with " (n)" inserted": the search *)
(* for a free name in the trash ends.                                      *)
UniquePathReturns ==
    \A c \in Clients : call[c].pc = "probe" ~> call[c].pc # "probe"

(* vault.go: Move "fails if the destination already exists".               *)
MoveFailsIfDestinationExists ==
    [][\A c \in Clients :
          call[c].pc = "rename" /\ Rename(c) /\ Exists(call[c].to)
             => UNCHANGED fs]_vars
=============================================================================
