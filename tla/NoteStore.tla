------------------------------ MODULE NoteStore ------------------------------
(***************************************************************************)
(* What a vault promises a client that is not raced by another writer: a   *)
(* map from paths to note texts, which every call of vault.go that changes *)
(* it changes in one step.  VaultFiles, where each call is a sequence of   *)
(* system calls, is shown to implement it.                                 *)
(*                                                                         *)
(* The promise ends when two writers collide, or a write is cut short:     *)
(* torn becomes TRUE and the texts are then anything.                      *)
(***************************************************************************)
EXTENDS Integers, Sequences, SequencesExt

CONSTANTS Text,     \* the tokens a note is made of
          Contents  \* the texts clients write

VARIABLES notes,    \* [path -> text] of the notes that exist
          torn      \* two writers have collided, or a write failed

vars == <<notes, torn>>

(* The service starts on whatever notes the vault holds.                   *)
Init == /\ notes \in [DOMAIN notes -> Seq(Text)]
        /\ torn = FALSE

-----------------------------------------------------------------------------
(* The paths a step adds are read off the next state, so that the set of *)
(* all paths never has to be enumerated.                                   *)
NewPaths == DOMAIN notes' \ DOMAIN notes

Put(p, t) == notes' = [q \in DOMAIN notes \cup {p} |->
                          IF q = p THEN t ELSE notes[q]]

Without(p) == [q \in DOMAIN notes \ {p} |-> notes[q]]

(* Create, and Append on a note that is not there.                         *)
Create == \E p \in NewPaths, t \in Contents : Put(p, t)

Extend(p) == \E t \in Contents : Put(p, notes[p] \o t)

Replaced(s, f, r) ==
    FlattenSeq([i \in DOMAIN s |-> IF s[i] = f THEN r ELSE <<s[i]>>])

Edit(p) == \E f \in ToSet(notes[p]), r \in Contents \cup {<<>>} :
              Put(p, Replaced(notes[p], f, r))

ReplaceSection(p) ==
    \E b \in 1..Len(notes[p]) : \E e \in b..Len(notes[p]) :
       \E t \in Contents \cup {<<>>} :
          Put(p, SubSeq(notes[p], 1, b) \o t
                   \o SubSeq(notes[p], e + 1, Len(notes[p])))

Rename(p) == \E q \in NewPaths :
                notes' = [r \in (DOMAIN notes \ {p}) \cup {q} |->
                            IF r = q THEN notes[p] ELSE notes[r]]

Drop(p) == notes' = Without(p)

(* Another device changed the note, and `ob sync` wrote it here.           *)
Pull == \E p \in DOMAIN notes', t \in Contents : Put(p, t)

Atomic == \/ Create
          \/ Pull
          \/ \E p \in DOMAIN notes : \/ Extend(p)
                                     \/ Edit(p)
                                     \/ ReplaceSection(p)
                                     \/ Rename(p)
                                     \/ Drop(p)

Tear == torn' = TRUE

Next == \/ Atomic /\ UNCHANGED torn
        \/ Tear

Spec == Init /\ [][Next]_vars
=============================================================================
