-------------------------- MODULE VaultTree_proofs --------------------------
(***************************************************************************)
(* Proofs about VaultTree, for any vault at the start and any paths that   *)
(* clients write.                                                          *)
(***************************************************************************)
EXTENDS VaultTree, SequenceTheorems, FiniteSetTheorems, WellFoundedInduction, TLAPS

-----------------------------------------------------------------------------
(* Paths: what is within what.                                             *)
LEMMA Starts ==
  ASSUME NEW q \in Path, NEW k \in 0..Len(q)
  PROVE  /\ SubSeq(q, 1, k) \in Path
         /\ Len(SubSeq(q, 1, k)) = k
         /\ \A i \in 1..k : SubSeq(q, 1, k)[i] = q[i]
<1>1. Len(q) \in Nat
  BY LenProperties DEF Path
<1>2. \A i \in 1..k : q[i] \in Component
  BY <1>1, ElementOfSeq DEF Path
<1> QED
  BY <1>1, <1>2, SubSeqProperties DEF Path

LEMMA WithinIs ==
  ASSUME NEW p \in Path, NEW q \in Path
  PROVE  Within(p, q) <=> Len(p) <= Len(q) /\ \A i \in 1..Len(p) : p[i] = q[i]
<1>1. Len(p) \in Nat /\ Len(q) \in Nat
  BY LenProperties DEF Path
<1>2. SubSeq(p, 1, Len(p)) = p
  BY SubSeqFull DEF Path
<1>3. CASE Len(p) <= Len(q)
  <2> DEFINE s == SubSeq(q, 1, Len(p))
  <2>1. s \in Path /\ Len(s) = Len(p) /\ \A i \in 1..Len(p) : s[i] = q[i]
    BY <1>1, <1>3, Starts
  <2> HIDE DEF s
  <2>2. (\A i \in 1..Len(p) : p[i] = q[i]) => p = s
    BY <2>1, SeqEqual DEF Path
  <2>3. p = s <=> \A i \in 1..Len(p) : p[i] = q[i]
    BY <2>1, <2>2
  <2> QED
    BY <1>2, <1>3, <2>3 DEF Within, IsPrefix, s
<1> QED
  BY <1>3 DEF Within, IsPrefix

LEMMA WithinItself == ASSUME NEW p \in Path PROVE Within(p, p)
  BY WithinIs, LenProperties DEF Path

LEMMA WithinWithin ==
  ASSUME NEW p \in Path, NEW q \in Path, NEW r \in Path, Within(p, q), Within(q, r)
  PROVE  Within(p, r)
<1>1. Len(p) \in Nat /\ Len(q) \in Nat /\ Len(r) \in Nat
  BY LenProperties DEF Path
<1> QED
  BY <1>1, WithinIs

LEMMA WithinEachOther ==
  ASSUME NEW p \in Path, NEW q \in Path, Within(p, q), Len(p) = Len(q) \/ Within(q, p)
  PROVE  p = q
<1>1. Len(p) \in Nat /\ Len(q) \in Nat
  BY LenProperties DEF Path
<1>2. Len(p) = Len(q) /\ \A i \in 1..Len(p) : p[i] = q[i]
  BY <1>1, WithinIs
<1> QED
  BY <1>2, SeqEqual DEF Path

(* What holds the same file is one within the other.                       *)
LEMMA OneLine ==
  ASSUME NEW p \in Path, NEW q \in Path, NEW r \in Path, Within(p, r), Within(q, r)
  PROVE  Within(p, q) \/ Within(q, p)
<1>1. Len(p) \in Nat /\ Len(q) \in Nat /\ Len(r) \in Nat
  BY LenProperties DEF Path
<1> QED
  BY <1>1, WithinIs

LEMMA Joined ==
  ASSUME NEW p \in Path, NEW x \in Path
  PROVE  /\ p \o x \in Path /\ Within(p, p \o x) /\ Rest(p, p \o x) = x
         /\ Len(p \o x) = Len(p) + Len(x)
<1>1. /\ Len(p) \in Nat /\ Len(x) \in Nat
      /\ p \o x \in Path /\ Len(p \o x) = Len(p) + Len(x)
      /\ \A i \in 1..(Len(p) + Len(x)) :
            (p \o x)[i] = IF i <= Len(p) THEN p[i] ELSE x[i - Len(p)]
  BY LenProperties, ConcatProperties DEF Path
<1> DEFINE s == p \o x
           y == SubSeq(s, Len(p) + 1, Len(s))
<1>2. Within(p, s)
  <2>1. s \in Path /\ Len(p) <= Len(s) /\ \A i \in 1..Len(p) : p[i] = s[i]
    BY <1>1
  <2> HIDE DEF s
  <2> QED
    BY <2>1, WithinIs
<1>3. Rest(p, s) = x
  <2> HIDE DEF s
  <2>1. \A i \in (Len(p) + 1)..Len(s) : s[i] \in Component
    BY <1>1, ElementOfSeq DEF s, Path
  <2>2. Len(p) + 1 \in Int /\ Len(s) \in Int
    BY <1>1 DEF s
  <2>3. /\ y \in Path
        /\ Len(y) = IF Len(p) + 1 <= Len(s) THEN Len(s) - (Len(p) + 1) + 1 ELSE 0
        /\ \A i \in 1..(Len(s) - (Len(p) + 1) + 1) : y[i] = s[Len(p) + 1 + i - 1]
    BY <2>1, <2>2, SubSeqProperties DEF Path
  <2> HIDE DEF y
  <2>4. Len(y) = Len(x)
    BY <1>1, <2>3 DEF s
  <2>5. ASSUME NEW i \in 1..Len(y) PROVE y[i] = x[i]
    <3>1. i \in 1..(Len(s) - (Len(p) + 1) + 1) /\ Len(p) + 1 + i - 1 = Len(p) + i
      BY <1>1, <2>4 DEF s
    <3>2. y[i] = s[Len(p) + i]
      BY <2>3, <3>1
    <3>3. s[Len(p) + i] = x[i]
      BY <1>1, <2>4 DEF s
    <3> QED
      BY <3>2, <3>3
  <2>6. y = x
    BY <2>3, <2>4, <2>5, SeqEqual DEF Path
  <2> QED
    BY <2>6 DEF y, Rest
<1> QED
  BY <1>1, <1>2, <1>3

LEMMA RestJoins ==
  ASSUME NEW p \in Path, NEW q \in Path, Within(p, q)
  PROVE  Rest(p, q) \in Path /\ p \o Rest(p, q) = q
<1>1. /\ Len(p) \in Nat /\ Len(q) \in Nat /\ Len(p) <= Len(q)
      /\ \A i \in 1..Len(p) : p[i] = q[i]
  BY LenProperties, WithinIs DEF Path
<1>2. \A i \in (Len(p) + 1)..Len(q) : q[i] \in Component
  BY <1>1, ElementOfSeq DEF Path
<1> DEFINE y == Rest(p, q)
<1>3. /\ y \in Path
      /\ Len(y) = IF Len(p) + 1 <= Len(q) THEN Len(q) - (Len(p) + 1) + 1 ELSE 0
      /\ \A i \in 1..(Len(q) - (Len(p) + 1) + 1) : y[i] = q[Len(p) + 1 + i - 1]
  <2>1. Len(p) + 1 \in Int /\ Len(q) \in Int
    BY <1>1
  <2> QED
    BY <1>2, <2>1, SubSeqProperties DEF Path, Rest
<1> HIDE DEF y
<1>4. /\ p \o y \in Path /\ Len(p \o y) = Len(p) + Len(y)
      /\ \A i \in 1..(Len(p) + Len(y)) :
            (p \o y)[i] = IF i <= Len(p) THEN p[i] ELSE y[i - Len(p)]
  BY <1>3, ConcatProperties DEF Path
<1>5. Len(p \o y) = Len(q)
  BY <1>1, <1>3, <1>4
<1>6. ASSUME NEW i \in 1..Len(q) PROVE (p \o y)[i] = q[i]
  <2>1. CASE i <= Len(p)
    BY <1>1, <1>3, <1>4, <2>1
  <2>2. CASE i > Len(p)
    <3>1. /\ i - Len(p) \in 1..(Len(q) - (Len(p) + 1) + 1)
          /\ Len(p) + 1 + (i - Len(p)) - 1 = i
          /\ i \in 1..(Len(p) + Len(y)) /\ ~(i <= Len(p))
      BY <1>1, <1>3, <2>2
    <3>2. (p \o y)[i] = y[i - Len(p)]
      BY <1>4, <3>1
    <3>3. y[i - Len(p)] = q[Len(p) + 1 + (i - Len(p)) - 1]
      BY <1>3, <3>1
    <3> QED
      BY <3>1, <3>2, <3>3
  <2>3. i <= Len(p) \/ i > Len(p)
    BY <1>1
  <2> QED
    BY <2>1, <2>2, <2>3
<1>7. p \o y = q
  BY <1>4, <1>5, <1>6, SeqEqual DEF Path
<1> QED
  BY <1>3, <1>7 DEF y

LEMMA ConcatBefore ==
  ASSUME NEW p \in Path, NEW x \in Path, NEW i \in 1..Len(p)
  PROVE  (p \o x)[i] = p[i]
  BY LenProperties, ConcatProperties DEF Path

LEMMA ConcatAt ==
  ASSUME NEW p \in Path, NEW x \in Path, NEW i \in 1..Len(x)
  PROVE  (p \o x)[Len(p) + i] = x[i]
<1>1. Len(p) \in Nat /\ Len(x) \in Nat
  BY LenProperties DEF Path
<1>2. /\ Len(p) + i \in 1..(Len(p) + Len(x))
      /\ ~(Len(p) + i <= Len(p)) /\ Len(p) + i - Len(p) = i
  BY <1>1
<1>3. \A j \in 1..(Len(p) + Len(x)) :
         (p \o x)[j] = IF j <= Len(p) THEN p[j] ELSE x[j - Len(p)]
  BY ConcatProperties DEF Path
<1> QED
  BY <1>2, <1>3

(* What is within what stays so when the folder above both is another one. *)
LEMMA WithinJoined ==
  ASSUME NEW p \in Path, NEW q \in Path, NEW x \in Path, NEW y \in Path,
         Within(q \o y, q \o x), q \o y # q \o x
  PROVE  Within(p \o y, p \o x) /\ p \o y # p \o x /\ p \o y \in Path
<1>1. /\ Len(p) \in Nat /\ Len(q) \in Nat /\ Len(x) \in Nat /\ Len(y) \in Nat
      /\ p \o x \in Path /\ p \o y \in Path /\ q \o x \in Path /\ q \o y \in Path
      /\ Len(p \o x) = Len(p) + Len(x) /\ Len(p \o y) = Len(p) + Len(y)
      /\ Len(q \o x) = Len(q) + Len(x) /\ Len(q \o y) = Len(q) + Len(y)
  BY LenProperties, Joined DEF Path
<1>2. Len(y) <= Len(x)
  <2>1. Len(q \o y) <= Len(q \o x)
    BY <1>1, WithinIs
  <2> QED
    BY <1>1, <2>1
<1>3. ASSUME NEW i \in 1..Len(y) PROVE y[i] = x[i]
  <2>1. (q \o y)[Len(q) + i] = (q \o x)[Len(q) + i]
    <3>1. Len(q) + i \in 1..Len(q \o y)
      BY <1>1
    <3> QED
      BY <1>1, <3>1, WithinIs
  <2>2. (q \o y)[Len(q) + i] = y[i]
    BY <1>1, ConcatAt
  <2>3. (q \o x)[Len(q) + i] = x[i]
    BY <1>1, <1>2, ConcatAt
  <2> QED
    BY <2>1, <2>2, <2>3
<1>4. ASSUME NEW j \in 1..Len(p \o y) PROVE (p \o y)[j] = (p \o x)[j]
  <2>1. CASE j <= Len(p)
    <3>1. j \in 1..Len(p)
      BY <1>1, <2>1
    <3> QED
      BY <1>1, <3>1, ConcatBefore
  <2>2. CASE j > Len(p)
    <3>1. PICK i \in 1..Len(y) : j = Len(p) + i
      <4>1. j - Len(p) \in 1..Len(y) /\ j = Len(p) + (j - Len(p))
        BY <1>1, <2>2
      <4> QED
        BY <4>1
    <3>2. (p \o y)[Len(p) + i] = y[i] /\ (p \o x)[Len(p) + i] = x[i]
      BY <1>1, <1>2, ConcatAt
    <3> QED
      BY <1>3, <3>1, <3>2
  <2>3. j <= Len(p) \/ j > Len(p)
    BY <1>1
  <2> QED
    BY <2>1, <2>2, <2>3
<1>5. Within(p \o y, p \o x)
  <2>1. Len(p \o y) <= Len(p \o x)
    BY <1>1, <1>2
  <2> QED
    BY <1>1, <1>4, <2>1, WithinIs
<1>6. p \o y # p \o x
  <2>1. Rest(p, p \o y) = y /\ Rest(p, p \o x) = x
    BY Joined
  <2> QED
    BY <2>1
<1> QED
  BY <1>1, <1>5, <1>6

(* The folders a path is in.                                               *)
LEMMA ParentsAre ==
  ASSUME NEW q \in Path
  PROVE  /\ Parents(q) = {s \in Path : Within(s, q) /\ s # q}
         /\ IsFiniteSet(Parents(q))
<1>1. Len(q) \in Nat
  BY LenProperties DEF Path
<1>2. ASSUME NEW s \in Parents(q) PROVE s \in Path /\ Within(s, q) /\ s # q
  <2>1. PICK k \in 0..(Len(q) - 1) : s = SubSeq(q, 1, k)
    BY DEF Parents
  <2>2. k \in 0..Len(q) /\ k < Len(q)
    BY <1>1
  <2>3. s \in Path /\ Len(s) = k /\ \A i \in 1..k : s[i] = q[i]
    BY <2>1, <2>2, Starts
  <2> QED
    BY <1>1, <2>2, <2>3, WithinIs
<1>3. ASSUME NEW s \in Path, Within(s, q), s # q PROVE s \in Parents(q)
  <2>1. Len(s) \in Nat /\ Len(s) <= Len(q) /\ \A i \in 1..Len(s) : s[i] = q[i]
    BY <1>3, LenProperties, WithinIs DEF Path
  <2>2. Len(s) # Len(q)
    BY <1>3, WithinEachOther
  <2>3. Len(s) \in 0..(Len(q) - 1) /\ Len(s) \in 0..Len(q)
    BY <1>1, <2>1, <2>2
  <2> DEFINE u == SubSeq(q, 1, Len(s))
  <2>4. u \in Path /\ Len(u) = Len(s) /\ \A i \in 1..Len(s) : u[i] = q[i]
    BY <2>3, Starts
  <2> HIDE DEF u
  <2>5. u = s
    BY <2>1, <2>4, SeqEqual DEF Path
  <2> QED
    BY <2>3, <2>5 DEF Parents, u
<1>4. IsFiniteSet(Parents(q))
  <2> DEFINE D == 0..(Len(q) - 1)
             f == [k \in D |-> SubSeq(q, 1, k)]
  <2>1. IsFiniteSet(D)
    BY <1>1, FS_Interval
  <2>2. f \in Surjection(D, Parents(q))
    BY DEF Surjection, Parents
  <2> HIDE DEF D, f
  <2> QED
    BY <2>1, <2>2, FS_Surjection
<1> QED
  BY <1>2, <1>3, <1>4

-----------------------------------------------------------------------------
(* Trees that a disk can hold, and what the operations on the disk make of *)
(* them.                                                                   *)
TreeOK(t) ==
  /\ DOMAIN t \subseteq Path /\ IsFiniteSet(DOMAIN t)
  /\ \A q \in DOMAIN t : \A d \in Parents(q) : d \in DOMAIN t /\ t[d] = Folder

LEMMA FolderAbove ==
  ASSUME NEW t, TreeOK(t), NEW q \in DOMAIN t,
         NEW d \in Path, Within(d, q), d # q
  PROVE  d \in DOMAIN t /\ t[d] = Folder
<1>1. q \in Path
  BY DEF TreeOK
<1>2. d \in Parents(q)
  BY <1>1, ParentsAre
<1> QED
  BY <1>2 DEF TreeOK

LEMMA TreeFromFolders ==
  ASSUME NEW t, DOMAIN t \subseteq Path, IsFiniteSet(DOMAIN t),
         \A q \in DOMAIN t : \A d \in Path :
            Within(d, q) /\ d # q => d \in DOMAIN t /\ t[d] = Folder
  PROVE  TreeOK(t)
<1>1. ASSUME NEW q \in DOMAIN t, NEW d \in Parents(q)
      PROVE  d \in DOMAIN t /\ t[d] = Folder
  <2>1. q \in Path
    OBVIOUS
  <2>2. d \in Path /\ Within(d, q) /\ d # q
    BY <2>1, ParentsAre
  <2> QED
    BY <2>2
<1> QED
  BY <1>1 DEF TreeOK

(* The folders of the path of a note or folder that can be made.           *)
LEMMA ParentsMade ==
  ASSUME NEW t, TreeOK(t), NEW p \in Path, CanMake(t, p)
  PROVE  /\ TreeOK(WithParents(t, p))
         /\ DOMAIN WithParents(t, p) = DOMAIN t \cup Parents(p)
         /\ \A q \in DOMAIN t : WithParents(t, p)[q] = t[q]
         /\ \A q \in Parents(p) : WithParents(t, p)[q] = Folder
         /\ p \notin Parents(p)
<1> DEFINE u == WithParents(t, p)
<1>1. DOMAIN u = DOMAIN t \cup Parents(p)
  BY DEF WithParents
<1>2. \A q \in DOMAIN t : u[q] = t[q]
  BY DEF WithParents
<1>3. \A q \in Parents(p) : u[q] = Folder
  BY DEF WithParents, CanMake
<1> HIDE DEF u
<1>4. /\ Parents(p) = {s \in Path : Within(s, p) /\ s # p}
      /\ IsFiniteSet(Parents(p))
  BY ParentsAre
<1>5. DOMAIN u \subseteq Path /\ IsFiniteSet(DOMAIN u)
  <2>1. DOMAIN t \subseteq Path /\ IsFiniteSet(DOMAIN t)
    BY DEF TreeOK
  <2>2. Parents(p) \subseteq Path
    BY <1>4
  <2>3. IsFiniteSet(DOMAIN t \cup Parents(p))
    BY <1>4, <2>1, FS_Union
  <2> QED
    BY <1>1, <2>1, <2>2, <2>3
<1>6. ASSUME NEW q \in DOMAIN u, NEW d \in Path, Within(d, q), d # q
      PROVE  d \in DOMAIN u /\ u[d] = Folder
  <2>1. CASE q \in DOMAIN t
    <3>1. d \in DOMAIN t /\ t[d] = Folder
      BY <1>6, <2>1, FolderAbove
    <3> QED
      BY <1>1, <1>2, <3>1
  <2>2. CASE q \in Parents(p)
    <3>1. q \in Path /\ Within(q, p)
      BY <1>4, <2>2
    <3>2. Within(d, p)
      BY <1>6, <3>1, WithinWithin
    <3>3. d # p
      BY <1>6, <3>1, WithinEachOther
    <3>4. d \in Parents(p)
      BY <1>4, <3>2, <3>3
    <3> QED
      BY <1>1, <1>3, <3>4
  <2> QED
    BY <1>1, <2>1, <2>2
<1>7. TreeOK(u)
  BY <1>5, <1>6, TreeFromFolders
<1> QED
  BY <1>1, <1>2, <1>3, <1>4, <1>7 DEF u

(* A tree whose folders for p are there: it can hold something at p.       *)
Ready(t, p) ==
  /\ TreeOK(t)
  /\ \A d \in Parents(p) : d \in DOMAIN t /\ t[d] = Folder
  /\ p \notin DOMAIN t

LEMMA ReadyWithParents ==
  ASSUME NEW t, TreeOK(t), NEW p \in Path, CanMake(t, p), p \notin DOMAIN t
  PROVE  Ready(WithParents(t, p), p)
  BY ParentsMade DEF Ready

LEMMA NoteMade ==
  ASSUME NEW t, NEW p \in Path, Ready(t, p), NEW note
  PROVE  TreeOK([q \in DOMAIN t \cup {p} |-> IF q = p THEN note ELSE t[q]])
<1> DEFINE u == [q \in DOMAIN t \cup {p} |-> IF q = p THEN note ELSE t[q]]
<1>1. /\ DOMAIN u = DOMAIN t \cup {p}
      /\ \A q \in DOMAIN t : q # p => u[q] = t[q]
  OBVIOUS
<1> HIDE DEF u
<1>2. DOMAIN u \subseteq Path /\ IsFiniteSet(DOMAIN u)
  BY <1>1, FS_AddElement DEF Ready, TreeOK
<1>3. ASSUME NEW q \in DOMAIN u, NEW d \in Path, Within(d, q), d # q
      PROVE  d \in DOMAIN u /\ u[d] = Folder
  <2>1. d \in DOMAIN t /\ t[d] = Folder
    <3>1. CASE q = p
      BY <1>3, <3>1, ParentsAre DEF Ready
    <3>2. CASE q \in DOMAIN t
      BY <1>3, <3>2, FolderAbove DEF Ready
    <3> QED
      BY <1>1, <3>1, <3>2
  <2> QED
    BY <1>1, <2>1 DEF Ready
<1>4. TreeOK(u)
  BY <1>2, <1>3, TreeFromFolders
<1> QED
  BY <1>4 DEF u

LEMMA RemovedTree ==
  ASSUME NEW t, TreeOK(t), NEW p \in Path PROVE TreeOK(Removed(t, p))
<1> DEFINE u == Removed(t, p)
<1>1. /\ DOMAIN u = {r \in DOMAIN t : ~Within(p, r)}
      /\ \A q \in DOMAIN u : u[q] = t[q]
  BY DEF Removed
<1> HIDE DEF u
<1>2. DOMAIN u \subseteq Path /\ IsFiniteSet(DOMAIN u)
  BY <1>1, FS_Subset DEF TreeOK
<1>3. ASSUME NEW q \in DOMAIN u, NEW d \in Path, Within(d, q), d # q
      PROVE  d \in DOMAIN u /\ u[d] = Folder
  <2>1. q \in DOMAIN t /\ q \in Path /\ ~Within(p, q)
    BY <1>1, <1>2
  <2>2. d \in DOMAIN t /\ t[d] = Folder
    BY <1>3, <2>1, FolderAbove
  <2>3. ~Within(p, d)
    BY <1>3, <2>1, WithinWithin
  <2> QED
    BY <1>1, <2>2, <2>3
<1>4. TreeOK(u)
  BY <1>2, <1>3, TreeFromFolders
<1> QED
  BY <1>4 DEF u

(* A rename to a place that is ready, and not within what is renamed: what *)
(* is within p is then within q, and all else is where it was.             *)
LEMMA RenamedIs ==
  ASSUME NEW t, NEW p \in DOMAIN t, NEW q \in Path, Ready(t, q), ~Within(p, q)
  PROVE  LET u == Renamed(t, p, q)
         IN  /\ DOMAIN u \subseteq Path /\ IsFiniteSet(DOMAIN u)
             /\ \A r \in Path : ~Within(q, r) =>
                   /\ r \in DOMAIN u <=> r \in DOMAIN t /\ ~Within(p, r)
                   /\ r \in DOMAIN u => u[r] = t[r]
             /\ \A x \in Path :
                   /\ q \o x \in DOMAIN u <=> p \o x \in DOMAIN t
                   /\ q \o x \in DOMAIN u => u[q \o x] = t[p \o x]
<1> DEFINE u == Renamed(t, p, q)
           kept  == {r \in DOMAIN t : ~Within(p, r) /\ ~Within(q, r)}
           moved == {r \in DOMAIN t : Within(p, r)}
           anew  == {q \o Rest(p, m) : m \in moved}
<1>1. /\ DOMAIN u = kept \cup anew
      /\ \A r \in DOMAIN u : u[r] = IF Within(q, r) THEN t[p \o Rest(q, r)] ELSE t[r]
  BY DEF Renamed
<1>2. p \in Path /\ DOMAIN t \subseteq Path /\ IsFiniteSet(DOMAIN t)
  BY DEF Ready, TreeOK
<1>3. \A m \in moved : Rest(p, m) \in Path /\ p \o Rest(p, m) = m
  BY <1>2, RestJoins
<1>4. \A r \in anew : r \in Path /\ Within(q, r)
  BY <1>3, Joined
<1>5. IsFiniteSet(kept) /\ IsFiniteSet(moved)
  BY <1>2, FS_Subset
<1>6. IsFiniteSet(anew)
  <2> DEFINE f == [m \in moved |-> q \o Rest(p, m)]
  <2>1. f \in Surjection(moved, anew)
    BY DEF Surjection
  <2> HIDE DEF f, moved, anew
  <2> QED
    BY <1>5, <2>1, FS_Surjection
<1>7. DOMAIN u \subseteq Path /\ IsFiniteSet(DOMAIN u)
  <2>1. kept \subseteq Path
    BY <1>2
  <2> HIDE DEF u, kept, anew
  <2> QED
    BY <1>1, <1>4, <1>5, <1>6, <2>1, FS_Union
<1>8. ASSUME NEW r \in Path, ~Within(q, r)
      PROVE  /\ r \in DOMAIN u <=> r \in DOMAIN t /\ ~Within(p, r)
             /\ r \in DOMAIN u => u[r] = t[r]
  <2>1. r \notin anew
    BY <1>4, <1>8
  <2> QED
    BY <1>1, <1>8, <2>1
<1>9. ASSUME NEW x \in Path
      PROVE  /\ q \o x \in DOMAIN u <=> p \o x \in DOMAIN t
             /\ q \o x \in DOMAIN u => u[q \o x] = t[p \o x]
  <2>1. /\ q \o x \in Path /\ Within(q, q \o x) /\ Rest(q, q \o x) = x
        /\ p \o x \in Path /\ Within(p, p \o x) /\ Rest(p, p \o x) = x
    BY <1>2, Joined
  <2>2. q \o x \in anew <=> p \o x \in DOMAIN t
    <3>1. ASSUME q \o x \in anew PROVE p \o x \in DOMAIN t
      <4>1. PICK m \in moved : q \o x = q \o Rest(p, m)
        BY <3>1
      <4>2. Rest(p, m) \in Path /\ p \o Rest(p, m) = m
        BY <1>3
      <4>3. Rest(q, q \o Rest(p, m)) = Rest(p, m)
        BY <4>2, Joined
      <4>4. x = Rest(p, m)
        BY <2>1, <4>1, <4>3
      <4> QED
        BY <4>2, <4>4
    <3>2. ASSUME p \o x \in DOMAIN t PROVE q \o x \in anew
      <4>1. p \o x \in moved
        BY <2>1, <3>2
      <4> QED
        BY <2>1, <4>1
    <3> QED
      BY <3>1, <3>2
  <2>3. q \o x \notin kept
    BY <2>1
  <2> HIDE DEF u, kept, anew
  <2> QED
    BY <1>1, <2>1, <2>2, <2>3
<1> HIDE DEF u
<1>10. /\ DOMAIN u \subseteq Path /\ IsFiniteSet(DOMAIN u)
       /\ \A r \in Path : ~Within(q, r) =>
             /\ r \in DOMAIN u <=> r \in DOMAIN t /\ ~Within(p, r)
             /\ r \in DOMAIN u => u[r] = t[r]
       /\ \A x \in Path :
             /\ q \o x \in DOMAIN u <=> p \o x \in DOMAIN t
             /\ q \o x \in DOMAIN u => u[q \o x] = t[p \o x]
  BY <1>7, <1>8, <1>9
<1> QED
  BY <1>10 DEF u

LEMMA RenamedTree ==
  ASSUME NEW t, NEW p \in DOMAIN t, NEW q \in Path, Ready(t, q), ~Within(p, q)
  PROVE  TreeOK(Renamed(t, p, q))
<1> DEFINE u == Renamed(t, p, q)
<1>1. /\ DOMAIN u \subseteq Path /\ IsFiniteSet(DOMAIN u)
      /\ \A r \in Path : ~Within(q, r) =>
            /\ r \in DOMAIN u <=> r \in DOMAIN t /\ ~Within(p, r)
            /\ r \in DOMAIN u => u[r] = t[r]
      /\ \A x \in Path :
            /\ q \o x \in DOMAIN u <=> p \o x \in DOMAIN t
            /\ q \o x \in DOMAIN u => u[q \o x] = t[p \o x]
  BY RenamedIs
<1> HIDE DEF u
<1>2. p \in Path /\ TreeOK(t)
  BY DEF Ready, TreeOK
<1>3. ASSUME NEW r \in DOMAIN u, NEW d \in Path, Within(d, r), d # r
      PROVE  d \in DOMAIN u /\ u[d] = Folder
  <2>1. r \in Path
    BY <1>1
  <2>2. CASE ~Within(q, r)
    <3>1. r \in DOMAIN t /\ ~Within(p, r)
      BY <1>1, <2>1, <2>2
    <3>2. d \in DOMAIN t /\ t[d] = Folder
      BY <1>2, <1>3, <3>1, FolderAbove
    <3>3. ~Within(p, d) /\ ~Within(q, d)
      BY <1>2, <1>3, <2>1, <2>2, <3>1, WithinWithin
    <3> QED
      BY <1>1, <3>2, <3>3
  <2>3. CASE Within(q, r) /\ ~Within(q, d)
    <3>1. Within(d, q)
      BY <1>3, <2>1, <2>3, OneLine
    <3>2. d # q
      BY <2>3, WithinItself
    <3>3. d \in Parents(q)
      BY <3>1, <3>2, ParentsAre
    <3>4. d \in DOMAIN t /\ t[d] = Folder
      BY <3>3 DEF Ready
    <3>5. ~Within(p, d)
      BY <1>2, <3>1, WithinWithin
    <3> QED
      BY <1>1, <2>3, <3>4, <3>5
  <2>4. CASE Within(q, r) /\ Within(q, d)
    <3> DEFINE x == Rest(q, r)
               y == Rest(q, d)
    <3>1. x \in Path /\ q \o x = r /\ y \in Path /\ q \o y = d
      BY <2>1, <2>4, RestJoins
    <3> HIDE DEF x, y
    <3>2. p \o x \in DOMAIN t
      BY <1>1, <3>1
    <3>3. Within(p \o y, p \o x) /\ p \o y # p \o x /\ p \o y \in Path
      BY <1>2, <1>3, <3>1, WithinJoined
    <3>4. p \o y \in DOMAIN t /\ t[p \o y] = Folder
      BY <1>2, <3>2, <3>3, FolderAbove
    <3> QED
      BY <1>1, <3>1, <3>4
  <2> QED
    BY <2>2, <2>3, <2>4
<1>4. TreeOK(u)
  BY <1>1, <1>3, TreeFromFolders
<1> QED
  BY <1>4 DEF u

-----------------------------------------------------------------------------
(* filepath.Clean.                                                         *)
Less == {p \in Nat \X Nat : p[1] < p[2]}

LEMMA LessIsWellFounded == IsWellFoundedOn(Less, Nat)
  BY NatLessThanWellFounded, Zenon DEF OpToRel, Less

LEMMA Least ==
  ASSUME NEW T, T \subseteq Nat, T # {}
  PROVE  \E x \in T : \A y \in T : x <= y
<1>1. PICK x \in T : \A y \in T : <<y, x>> \notin Less
  BY LessIsWellFounded, WFMin
<1>2. ASSUME NEW y \in T PROVE x <= y
  <2>1. x \in Nat /\ y \in Nat
    OBVIOUS
  <2>2. ~(y < x)
    BY <1>1, <2>1 DEF Less
  <2> QED
    BY <2>1, <2>2
<1> QED
  BY <1>2

(* A set with 0 and every successor in it, up to n.                        *)
LEMMA UpTo ==
  ASSUME NEW n \in Nat, NEW T, 0 \in T,
         \A k \in 1..n : k - 1 \in T => k \in T
  PROVE  \A k \in 0..n : k \in T
<1> DEFINE U == (0..n) \ T
<1>1. SUFFICES ASSUME U # {} PROVE FALSE
  OBVIOUS
<1>2. PICK x \in U : \A y \in U : x <= y
  <2>1. U \subseteq Nat
    OBVIOUS
  <2> HIDE DEF U
  <2> QED
    BY <1>1, <2>1, Least
<1>3. x \in 1..n /\ x - 1 \in 0..n /\ ~(x <= x - 1)
  BY <1>2
<1> QED
  BY <1>2, <1>3

Cleaned(raw, f) ==
  f = [k \in 0..Len(raw) |->
         IF k = 0 THEN <<>> ELSE CleanStep(f[k - 1], raw[k])]

(* Clean works: what is done after each component is there.                *)
LEMMA CleanedExists == ASSUME NEW raw \in Path PROVE \E f : Cleaned(raw, f)
<1> DEFINE To(m, f) == f = [k \in 0..m |->
                              IF k = 0 THEN <<>> ELSE CleanStep(f[k - 1], raw[k])]
           T == {m \in Nat : \E f : To(m, f)}
<1>1. Len(raw) \in Nat
  BY LenProperties DEF Path
<1>2. 0 \in T
  <2> DEFINE f == [k \in 0..0 |-> <<>>]
  <2>1. To(0, f)
    OBVIOUS
  <2> QED
    BY <2>1
<1>3. ASSUME NEW k \in 1..Len(raw), k - 1 \in T PROVE k \in T
  <2>1. PICK f : To(k - 1, f)
    BY <1>3
  <2> DEFINE g == [j \in 0..k |-> IF j = k THEN CleanStep(f[k - 1], raw[k]) ELSE f[j]]
  <2>2. ASSUME NEW j \in 0..k
        PROVE  g[j] = IF j = 0 THEN <<>> ELSE CleanStep(g[j - 1], raw[j])
    <3>1. CASE j = k
      <4>1. k - 1 \in 0..k /\ k - 1 # k
        BY <1>1
      <4>2. g[k - 1] = f[k - 1]
        BY <4>1
      <4> QED
        BY <1>1, <3>1, <4>2
    <3>2. CASE j # k
      <4>1. j \in 0..(k - 1) /\ (j # 0 => j - 1 \in 0..k /\ j - 1 # k)
        BY <1>1, <3>2
      <4>2. f[j] = IF j = 0 THEN <<>> ELSE CleanStep(f[j - 1], raw[j])
        BY <2>1, <4>1
      <4>3. g[j] = f[j] /\ (j # 0 => g[j - 1] = f[j - 1])
        BY <3>2, <4>1
      <4> QED
        BY <4>2, <4>3
    <3> QED
      BY <3>1, <3>2
  <2>3. g = [j \in 0..k |-> g[j]]
    OBVIOUS
  <2> HIDE DEF g
  <2>4. To(k, g)
    BY <2>2, <2>3
  <2>5. k \in Nat
    BY <1>1
  <2> QED
    BY <2>4, <2>5
<1>4. Len(raw) \in T
  <2> HIDE DEF T
  <2>1. \A k \in 0..Len(raw) : k \in T
    BY <1>1, <1>2, <1>3, UpTo
  <2> QED
    BY <1>1, <2>1
<1> QED
  BY <1>4 DEF Cleaned

LEMMA CleanStepIs ==
  ASSUME NEW d \in Path, NEW c \in Component
  PROVE  CleanStep(d, c) \in Path
<1>1. Append(d, c) \in Path
  BY AppendProperties DEF Path
<1>2. d # <<>> => Front(d) \in Path
  <2>1. CASE d # <<>>
    <3>1. Len(d) - 1 \in 0..Len(d)
      BY <2>1, EmptySeq DEF Path
    <3> QED
      BY <3>1, Starts DEF Front
  <2> QED
    BY <2>1
<1> QED
  BY <1>1, <1>2 DEF CleanStep

LEMMA CleanIs ==
  ASSUME NEW raw \in Path
  PROVE  \E f : /\ f[0] = <<>>
                /\ \A k \in 1..Len(raw) : f[k] = CleanStep(f[k - 1], raw[k])
                /\ \A k \in 0..Len(raw) : f[k] \in Path
                /\ Clean(raw) = f[Len(raw)]
<1> DEFINE f == CHOOSE g : Cleaned(raw, g)
<1>1. Cleaned(raw, f)
  BY CleanedExists
<1>2. Clean(raw) = f[Len(raw)]
  BY DEF Clean, Cleaned
<1>3. Len(raw) \in Nat
  BY LenProperties DEF Path
<1> HIDE DEF f
<1>4. f[0] = <<>> /\ \A k \in 1..Len(raw) : f[k] = CleanStep(f[k - 1], raw[k])
  <2>1. \A k \in 0..Len(raw) :
           f[k] = IF k = 0 THEN <<>> ELSE CleanStep(f[k - 1], raw[k])
    BY <1>1 DEF Cleaned
  <2> QED
    BY <1>3, <2>1
<1> DEFINE T == {k \in 0..Len(raw) : f[k] \in Path}
<1>5. 0 \in T
  <2>1. <<>> \in Path
    BY EmptySeq DEF Path
  <2> QED
    BY <1>3, <1>4, <2>1
<1>6. ASSUME NEW k \in 1..Len(raw), k - 1 \in T PROVE k \in T
  <2>1. raw[k] \in Component /\ k \in 0..Len(raw)
    BY <1>3, ElementOfSeq DEF Path
  <2>2. f[k] \in Path
    BY <1>4, <1>6, <2>1, CleanStepIs
  <2> QED
    BY <2>1, <2>2
<1>7. \A k \in 0..Len(raw) : k \in T
  <2> HIDE DEF T
  <2> QED
    BY <1>3, <1>5, <1>6, UpTo
<1> QED
  BY <1>2, <1>4, <1>7

LEMMA CleanIsPath == ASSUME NEW raw \in Path PROVE Clean(raw) \in Path
<1>1. Len(raw) \in 0..Len(raw)
  BY LenProperties DEF Path
<1> QED
  BY <1>1, CleanIs

(* A cleaned path that begins with ".." began with it at every step since  *)
(* it first did: what one step makes of it.                                *)
Leaves(d) == d # <<>> /\ d[1].base = ".."

LEMMA LeavingStays ==
  ASSUME NEW d \in Path, NEW c \in Component, Leaves(d)
  PROVE  Leaves(CleanStep(d, c))
<1>1. Len(d) \in Nat /\ Len(d) >= 1
  BY EmptySeq DEF Path, Leaves
<1>2. Append(d, c) # <<>> /\ Append(d, c)[1] = d[1]
  BY <1>1, AppendProperties DEF Path
<1>3. ASSUME Last(d).base # ".." PROVE Leaves(Front(d))
  <2>1. Len(d) # 1
    BY <1>3 DEF Last, Leaves
  <2>2. Len(d) - 1 \in 0..Len(d) /\ 1 \in 1..(Len(d) - 1)
    <3> DEFINE n == Len(d)
    <3>1. n \in Nat /\ n >= 1 /\ n # 1
      BY <1>1, <2>1
    <3> HIDE DEF n
    <3>2. n - 1 \in 0..n /\ 1 \in 1..(n - 1)
      BY <3>1
    <3> QED
      BY <3>2 DEF n
  <2> DEFINE e == SubSeq(d, 1, Len(d) - 1)
  <2>3. e \in Path /\ Len(e) = Len(d) - 1 /\ e[1] = d[1]
    BY <2>2, Starts
  <2> HIDE DEF e
  <2>4. e # <<>>
    BY <2>2, <2>3, EmptySeq DEF Path
  <2>5. Leaves(e)
    BY <2>3, <2>4 DEF Leaves
  <2> QED
    BY <2>5 DEF e, Front
<1> QED
  BY <1>2, <1>3 DEF CleanStep, Leaves

LEMMA TrashIs == Trash \in Component /\ Trash.base = ".trash"
<1>1. <<>> \in Seq(Nat)
  BY EmptySeq
<1>2. ".trash" \in Bases
  BY PathsAssumption DEF PathsAssumption
<1>3. ASSUME NEW nums \in Seq(Nat)
      PROVE  /\ [base |-> ".trash", nums |-> nums] \in [base : Bases, nums : Seq(Nat)]
             /\ [base |-> ".trash", nums |-> nums].base = ".trash"
  BY <1>2
<1> QED
  BY <1>1, <1>3, Zenon DEF Trash, Name, Component

(* Below the trash, a path that does not leave it is cleaned as if it      *)
(* were outside.                                                           *)
LEMMA StepInTrash ==
  ASSUME NEW d \in Path, NEW c \in Component, ~Leaves(CleanStep(d, c))
  PROVE  CleanStep(<<Trash>> \o d, c) = <<Trash>> \o CleanStep(d, c)
<1> DEFINE e == <<Trash>> \o d
<1>0. <<Trash>> \in Path /\ Len(<<Trash>>) = 1
  BY TrashIs DEF Path
<1>1. /\ e \in Path /\ Len(e) = 1 + Len(d) /\ Len(d) \in Nat
      /\ \A i \in 1..Len(d) : e[1 + i] = d[i]
  BY <1>0, Joined, ConcatAt, LenProperties DEF Path
<1>2. e # <<>>
  BY <1>1, EmptySeq DEF Path
<1>3. CASE c.base \in {"", "."}
  BY <1>3 DEF CleanStep
<1>4. CASE c.base = ".." /\ d = <<>>
  <2>1. CleanStep(d, c) = Append(d, c)
    BY <1>4 DEF CleanStep
  <2>2. Append(d, c) # <<>> /\ Append(d, c)[Len(d) + 1] = c /\ Len(d) = 0
    BY <1>4, AppendProperties, EmptySeq DEF Path
  <2>3. Append(d, c)[1] = c
    BY <2>2
  <2> QED
    BY <1>4, <2>1, <2>2, <2>3 DEF Leaves
<1>5. CASE c.base = ".." /\ d # <<>> /\ Last(d).base # ".."
  <2>1. Len(d) \in 1..Len(d)
    BY <1>1, <1>5, EmptySeq DEF Path
  <2>2. e[1 + Len(d)] = d[Len(d)]
    BY <1>1, <2>1
  <2>3. Last(e) = Last(d)
    BY <1>1, <2>2 DEF Last
  <2>4. CleanStep(e, c) = Front(e) /\ CleanStep(d, c) = Front(d)
    BY <1>2, <1>5, <2>3 DEF CleanStep
  <2>5. Front(e) = <<Trash>> \o Front(d)
    <3> DEFINE a == Front(e)
               b == Front(d)
    <3>1. Len(e) - 1 \in 0..Len(e) /\ Len(d) - 1 \in 0..Len(d)
      BY <1>1, <2>1
    <3>2. a \in Path /\ Len(a) = Len(e) - 1 /\ \A i \in 1..(Len(e) - 1) : a[i] = e[i]
      BY <1>1, <3>1, Starts DEF Front
    <3>3. b \in Path /\ Len(b) = Len(d) - 1 /\ \A i \in 1..(Len(d) - 1) : b[i] = d[i]
      BY <3>1, Starts DEF Front
    <3> HIDE DEF a, b
    <3> DEFINE g == <<Trash>> \o b
    <3>4. /\ g \in Path /\ Len(g) = 1 + Len(b)
          /\ \A i \in 1..(1 + Len(b)) : g[i] = IF i <= 1 THEN Trash ELSE b[i - 1]
      <4>1. /\ g \in Path /\ Len(g) = Len(<<Trash>>) + Len(b)
            /\ \A i \in 1..(Len(<<Trash>>) + Len(b)) :
                  g[i] = IF i <= Len(<<Trash>>) THEN <<Trash>>[i]
                         ELSE b[i - Len(<<Trash>>)]
        BY <1>0, <3>3, ConcatProperties DEF Path
      <4>2. <<Trash>>[1] = Trash
        OBVIOUS
      <4> QED
        BY <1>0, <1>1, <3>3, <4>1, <4>2
    <3>5. \A i \in 1..(1 + Len(d)) : e[i] = IF i <= 1 THEN Trash ELSE d[i - 1]
      <4>1. \A i \in 1..(Len(<<Trash>>) + Len(d)) :
                  e[i] = IF i <= Len(<<Trash>>) THEN <<Trash>>[i]
                         ELSE d[i - Len(<<Trash>>)]
        BY <1>0, ConcatProperties DEF Path
      <4>2. <<Trash>>[1] = Trash
        OBVIOUS
      <4> QED
        BY <1>0, <1>1, <4>1, <4>2
    <3> HIDE DEF g, e
    <3>6. Len(a) = Len(g) /\ Len(a) = Len(d)
      BY <1>1, <2>1, <3>2, <3>3, <3>4
    <3>7. ASSUME NEW i \in 1..Len(a) PROVE a[i] = g[i]
      <4>1. i \in 1..(Len(e) - 1) /\ i \in 1..(1 + Len(d)) /\ i \in 1..(1 + Len(b))
        BY <1>1, <3>2, <3>3, <3>4, <3>6
      <4>2. a[i] = e[i]
        BY <3>2, <4>1
      <4>3. CASE i <= 1
        BY <3>4, <3>5, <4>1, <4>2, <4>3
      <4>4. CASE ~(i <= 1)
        <5>1. i - 1 \in 1..(Len(d) - 1)
          BY <1>1, <3>6, <4>1, <4>4
        <5> QED
          BY <3>3, <3>4, <3>5, <4>1, <4>2, <4>4, <5>1
      <4> QED
        BY <4>3, <4>4
    <3>8. a = g
      BY <3>2, <3>4, <3>6, <3>7, SeqEqual DEF Path
    <3> QED
      BY <3>8 DEF a, b, g
  <2> QED
    BY <2>4, <2>5
<1>6. CASE /\ c.base \notin {"", "."}
           /\ ~(c.base = ".." /\ d = <<>>)
           /\ ~(c.base = ".." /\ d # <<>> /\ Last(d).base # "..")
  <2>1. CleanStep(d, c) = Append(d, c)
    BY <1>6 DEF CleanStep
  <2>2. CleanStep(e, c) = Append(e, c)
    <3>1. CASE c.base # ".."
      BY <1>6, <3>1 DEF CleanStep
    <3>2. CASE c.base = ".."
      <4>1. d # <<>> /\ Last(d).base = ".."
        BY <1>6, <3>2
      <4>2. Len(d) \in 1..Len(d)
        BY <1>1, <4>1, EmptySeq DEF Path
      <4>3. e[1 + Len(d)] = d[Len(d)]
        BY <1>1, <4>2
      <4>4. Last(e) = Last(d)
        BY <1>1, <4>3 DEF Last
      <4> HIDE DEF e
      <4> QED
        BY <1>6, <4>1, <4>4 DEF CleanStep
    <3> QED
      BY <3>1, <3>2
  <2>3. /\ Append(d, c) = d \o <<c>> /\ Append(e, c) = e \o <<c>>
        /\ <<c>> \in Path
    BY <1>1, AppendIsConcat DEF Path
  <2>4. e \o <<c>> = <<Trash>> \o (d \o <<c>>)
    BY <1>0, <2>3, ConcatAssociative DEF Path
  <2> QED
    BY <2>1, <2>2, <2>3, <2>4
<1> QED
  BY <1>3, <1>4, <1>5, <1>6

LEMMA CleanInTrash ==
  ASSUME NEW raw \in Path, raw # <<>>, raw[1] = Trash, ~Leaves(Clean(Tail(raw)))
  PROVE  Clean(raw) = <<Trash>> \o Clean(Tail(raw))
<1> DEFINE n == Len(Tail(raw))
<1>1. /\ Tail(raw) \in Path /\ n = Len(raw) - 1 /\ n \in Nat /\ Len(raw) \in Nat
      /\ \A i \in 1..n : Tail(raw)[i] = raw[i + 1]
  BY HeadTailProperties, LenProperties DEF Path
<1>2. PICK f : /\ f[0] = <<>>
               /\ \A k \in 1..Len(raw) : f[k] = CleanStep(f[k - 1], raw[k])
               /\ \A k \in 0..Len(raw) : f[k] \in Path
               /\ Clean(raw) = f[Len(raw)]
  BY CleanIs
<1>3. PICK g : /\ g[0] = <<>>
               /\ \A k \in 1..n : g[k] = CleanStep(g[k - 1], Tail(raw)[k])
               /\ \A k \in 0..n : g[k] \in Path
               /\ Clean(Tail(raw)) = g[n]
  BY <1>1, CleanIs
<1> HIDE DEF n
<1> DEFINE T == {k \in 0..n : Leaves(g[k]) \/ f[k + 1] = <<Trash>> \o g[k]}
<1>4. 0 \in T
  <2>1. f[1] = CleanStep(f[1 - 1], raw[1])
    BY <1>1, <1>2
  <2>2. f[1] = CleanStep(<<>>, Trash)
    BY <1>2, <2>1
  <2>3. CleanStep(<<>>, Trash) = Append(<<>>, Trash)
    BY TrashIs DEF CleanStep
  <2>4. Append(<<>>, Trash) = <<>> \o <<Trash>> /\ <<Trash>> \in Path
    BY TrashIs, AppendIsConcat, EmptySeq DEF Path
  <2>5. <<>> \o <<Trash>> = <<Trash>> /\ <<Trash>> \o <<>> = <<Trash>>
    BY <2>4, ConcatEmptySeq DEF Path
  <2>6. f[0 + 1] = <<Trash>> \o g[0]
    BY <1>3, <2>2, <2>3, <2>4, <2>5
  <2> QED
    BY <1>1, <2>6
<1>5. ASSUME NEW k \in 1..n, k - 1 \in T PROVE k \in T
  <2>1. /\ k \in 0..n /\ k - 1 \in 0..n /\ k + 1 \in 1..Len(raw)
        /\ (k + 1) - 1 = k /\ (k - 1) + 1 = k
    BY <1>1
  <2>2. /\ g[k - 1] \in Path /\ g[k] = CleanStep(g[k - 1], raw[k + 1])
        /\ f[k + 1] = CleanStep(f[k], raw[k + 1])
    BY <1>1, <1>2, <1>3, <2>1
  <2>3. raw[k + 1] \in Component
    BY <2>1, ElementOfSeq DEF Path
  <2>4. CASE Leaves(g[k - 1])
    <3>1. Leaves(g[k])
      BY <2>2, <2>3, <2>4, LeavingStays
    <3> QED
      BY <2>1, <3>1
  <2>5. CASE f[(k - 1) + 1] = <<Trash>> \o g[k - 1]
    <3>1. f[k] = <<Trash>> \o g[k - 1]
      BY <2>1, <2>5
    <3>2. ~Leaves(g[k]) => f[k + 1] = <<Trash>> \o g[k]
      BY <2>2, <2>3, <3>1, StepInTrash
    <3> QED
      BY <2>1, <3>2
  <2> QED
    BY <1>5, <2>4, <2>5
<1>6. n \in T
  <2> HIDE DEF T
  <2>1. \A k \in 0..n : k \in T
    BY <1>1, <1>4, <1>5, UpTo
  <2> QED
    BY <1>1, <2>1
<1>7. f[n + 1] = <<Trash>> \o g[n] /\ n + 1 = Len(raw)
  BY <1>1, <1>3, <1>6
<1> QED
  BY <1>2, <1>3, <1>7

-----------------------------------------------------------------------------
(* uniquePath: one of the first candidates is free, for there are more of  *)
(* them than there is in the tree.                                         *)
LEMMA CandidateIs ==
  ASSUME NEW c \in Component, NEW n \in Nat
  PROVE  /\ Candidate(c, n) \in Component
         /\ Candidate(c, n).nums = IF n = 0 THEN c.nums ELSE Append(c.nums, n)
<1> DEFINE nums == IF n = 0 THEN c.nums ELSE Append(c.nums, n)
<1>1. c = [base |-> c.base, nums |-> c.nums] /\ c.base \in Bases /\ c.nums \in Seq(Nat)
  BY DEF Component
<1>2. nums \in Seq(Nat)
  BY <1>1, AppendProperties
<1>3. Candidate(c, n) = [c EXCEPT !.nums = nums]
  BY DEF Candidate
<1> HIDE DEF nums
<1>4. [c EXCEPT !.nums = nums] \in Component /\ [c EXCEPT !.nums = nums].nums = nums
  BY <1>1, <1>2 DEF Component
<1> QED
  BY <1>3, <1>4 DEF nums

LEMMA CandidatesDiffer ==
  ASSUME NEW c \in Component, NEW m \in Nat, NEW n \in Nat, m # n
  PROVE  Candidate(c, m) # Candidate(c, n)
<1>1. c.nums \in Seq(Nat)
  BY DEF Component
<1>2. \A k \in Nat : /\ Append(c.nums, k) # c.nums
                     /\ \A j \in Nat : Append(c.nums, j) = Append(c.nums, k) => j = k
  <2>1. Len(c.nums) \in Nat /\ \A k \in Nat : Len(Append(c.nums, k)) = Len(c.nums) + 1
    BY <1>1, AppendProperties, LenProperties
  <2>2. \A k \in Nat : Append(c.nums, k) # c.nums
    BY <2>1
  <2> QED
    BY <1>1, <2>2, AppendInjective
<1>3. /\ Candidate(c, m).nums = IF m = 0 THEN c.nums ELSE Append(c.nums, m)
      /\ Candidate(c, n).nums = IF n = 0 THEN c.nums ELSE Append(c.nums, n)
  BY CandidateIs
<1> QED
  BY <1>2, <1>3

LEMMA UniqueNameIsFree ==
  ASSUME NEW t, IsFiniteSet(DOMAIN t), NEW c \in Component
  PROVE  UniqueName(t, c) \in Component /\ <<Trash, UniqueName(t, c)>> \notin DOMAIN t
<1> DEFINE At(n) == <<Trash, Candidate(c, n)>>
           K == Cardinality(DOMAIN t)
           T == {n \in 0..K : At(n) \notin DOMAIN t}
<1>1. K \in Nat /\ IsFiniteSet(DOMAIN t)
  BY FS_CardinalityType
<1>2. T # {}
  <2> SUFFICES ASSUME \A n \in 0..K : At(n) \in DOMAIN t PROVE FALSE
      OBVIOUS
  <2> DEFINE f == [n \in 0..K |-> At(n)]
             D == DOMAIN t
  <2>1. f \in [0..K -> D]
    OBVIOUS
  <2>2. IsFiniteSet(0..K) /\ Cardinality(0..K) = K + 1
    <3> HIDE DEF K
    <3> QED
      BY <1>1, FS_Interval
  <2>3. \E x, y \in 0..K : x # y /\ f[x] = f[y]
    <3>1. Cardinality(D) < Cardinality(0..K)
      BY <1>1, <2>2
    <3> HIDE DEF f, D, K
    <3> QED
      BY <1>1, <2>1, <2>2, <3>1, FS_PigeonHole DEF D
  <2>4. PICK x \in 0..K, y \in 0..K : x # y /\ At(x) = At(y)
    BY <2>3
  <2>5. Candidate(c, x) = Candidate(c, y)
    BY <2>4
  <2>6. x \in Nat /\ y \in Nat
    BY <1>1
  <2> QED
    BY <2>4, <2>5, <2>6, CandidatesDiffer
<1>3. PICK n \in T : \A m \in T : n <= m
  <2>1. T \subseteq Nat
    BY <1>1
  <2> HIDE DEF T
  <2> QED
    BY <1>2, <2>1, Least
<1>4. n \in 0..K /\ At(n) \notin DOMAIN t /\ \A m \in 0..(n - 1) : At(m) \in DOMAIN t
  <2>1. n \in 0..K /\ At(n) \notin DOMAIN t /\ n \in Nat
    BY <1>1
  <2>2. ASSUME NEW m \in 0..(n - 1), At(m) \notin DOMAIN t PROVE FALSE
    <3>1. m \in 0..K /\ ~(n <= m)
      BY <1>1, <2>1
    <3>2. m \in T
      BY <2>2, <3>1
    <3> QED
      BY <1>3, <3>1, <3>2
  <2> QED
    BY <2>1, <2>2
<1> DEFINE k == CHOOSE i \in 0..K : At(i) \notin DOMAIN t
                                    /\ \A m \in 0..(i - 1) : At(m) \in DOMAIN t
<1>5. k \in 0..K /\ At(k) \notin DOMAIN t
  BY <1>4
<1>6. UniqueName(t, c) = Candidate(c, k)
  BY DEF UniqueName
<1>7. k \in Nat
  BY <1>1, <1>5
<1> HIDE DEF k
<1> QED
  BY <1>5, <1>6, <1>7, CandidateIs

LEMMA TwoDeep ==
  ASSUME NEW c \in Component
  PROVE  /\ <<Trash, c>> \in Path /\ <<Trash>> \in Path
         /\ Len(<<Trash, c>>) = 2
         /\ <<Trash, c>>[1] = Trash /\ <<Trash, c>>[2] = c
         /\ Parents(<<Trash, c>>) = {<<>>, <<Trash>>}
<1>1. /\ <<Trash, c>> \in Path /\ <<Trash>> \in Path /\ <<>> \in Path
      /\ Len(<<Trash, c>>) = 2 /\ <<Trash, c>>[1] = Trash /\ <<Trash, c>>[2] = c
      /\ Len(<<Trash>>) = 1 /\ <<Trash>>[1] = Trash /\ Len(<<>>) = 0
  BY TrashIs, EmptySeq DEF Path
<1> DEFINE q == <<Trash, c>>
           a == <<Trash>>
           z == <<>>
<1> HIDE DEF q, a, z
<1>2. /\ q \in Path /\ a \in Path /\ z \in Path /\ Len(q) = 2 /\ Len(a) = 1
      /\ Len(z) = 0 /\ q[1] = a[1]
  BY <1>1 DEF q, a, z
<1>3. /\ SubSeq(q, 1, 0) = z
      /\ SubSeq(q, 1, 1) = a
  <2> DEFINE z2 == SubSeq(q, 1, 0)
             a2 == SubSeq(q, 1, 1)
  <2>1. 0 \in 0..Len(q) /\ 1 \in 0..Len(q)
    BY <1>2
  <2>2. /\ z2 \in Path /\ Len(z2) = 0
        /\ a2 \in Path /\ Len(a2) = 1 /\ \A i \in 1..1 : a2[i] = q[i]
    BY <1>2, <2>1, Starts
  <2> HIDE DEF z2, a2
  <2>3. z2 = z
    BY <1>2, <2>2, SeqEqual DEF Path
  <2>4. a2 = a
    <3>1. \A i \in 1..Len(a2) : a2[i] = a[i]
      BY <1>2, <2>2
    <3> QED
      BY <1>2, <2>2, <3>1, SeqEqual DEF Path
  <2> QED
    BY <2>3, <2>4 DEF z2, a2
<1>4. Parents(q) = {SubSeq(q, 1, k) : k \in 0..1}
  BY <1>2 DEF Parents
<1>5. 0..1 = {0, 1}
  OBVIOUS
<1>6. Parents(q) = {z, a}
  BY <1>3, <1>4, <1>5
<1> QED
  BY <1>1, <1>6 DEF q, a, z

-----------------------------------------------------------------------------
(* What an operation leaves alone: the notes there are, and what is at a   *)
(* path it has nothing to do with.                                         *)
Apart(at, p) == ~Within(p, at) /\ ~Within(at, p)

Undisturbed(t, u, at) ==
  \A x \in Path : Within(at, x) =>
     /\ x \in DOMAIN t <=> x \in DOMAIN u
     /\ x \in DOMAIN t => u[x] = t[x]

KeepsNotes(t, u) == \A q \in DOMAIN t : \E r \in DOMAIN u : u[r] = t[q]

LEMMA KeptNotes == ASSUME NEW t, NEW u, KeepsNotes(t, u) PROVE Notes(t) \subseteq Notes(u)
  BY DEF KeepsNotes, Notes

LEMMA UndisturbedTwice ==
  ASSUME NEW t, NEW u, NEW v, NEW at \in Path,
         Undisturbed(t, u, at), Undisturbed(u, v, at)
  PROVE  Undisturbed(t, v, at)
  BY DEF Undisturbed

LEMMA HeldUndisturbed ==
  ASSUME NEW t, NEW u, TreeOK(t), TreeOK(u), NEW at \in Path, Undisturbed(t, u, at)
  PROVE  Held(t, at) = Held(u, at)
<1>1. DOMAIN t \subseteq Path /\ DOMAIN u \subseteq Path
  BY DEF TreeOK
<1>2. {r \in DOMAIN t : Within(at, r)} = {r \in DOMAIN u : Within(at, r)}
  BY <1>1 DEF Undisturbed
<1>3. \A q \in {r \in DOMAIN t : Within(at, r)} : t[q] = u[q]
  BY <1>1 DEF Undisturbed
<1> QED
  BY <1>2, <1>3 DEF Held

LEMMA ParentsKeep ==
  ASSUME NEW t, TreeOK(t), NEW p \in Path, CanMake(t, p)
  PROVE  /\ KeepsNotes(t, WithParents(t, p))
         /\ \A at \in Path : ~Within(at, p) => Undisturbed(t, WithParents(t, p), at)
<1> DEFINE u == WithParents(t, p)
<1>1. /\ DOMAIN u = DOMAIN t \cup Parents(p)
      /\ \A q \in DOMAIN t : u[q] = t[q]
  BY ParentsMade
<1>2. Parents(p) = {s \in Path : Within(s, p) /\ s # p}
  BY ParentsAre
<1> HIDE DEF u
<1>3. KeepsNotes(t, u)
  BY <1>1 DEF KeepsNotes
<1>4. ASSUME NEW at \in Path, ~Within(at, p), NEW x \in Path, Within(at, x)
      PROVE  x \notin Parents(p)
  BY <1>2, <1>4, WithinWithin
<1>5. \A at \in Path : ~Within(at, p) => Undisturbed(t, u, at)
  BY <1>1, <1>4 DEF Undisturbed
<1> QED
  BY <1>3, <1>5 DEF u

LEMMA NoteKeeps ==
  ASSUME NEW t, NEW p \in Path, p \notin DOMAIN t, NEW note
  PROVE  LET u == [q \in DOMAIN t \cup {p} |-> IF q = p THEN note ELSE t[q]]
         IN  /\ KeepsNotes(t, u)
             /\ \A at \in Path : ~Within(at, p) => Undisturbed(t, u, at)
<1> DEFINE u == [q \in DOMAIN t \cup {p} |-> IF q = p THEN note ELSE t[q]]
<1>1. /\ DOMAIN u = DOMAIN t \cup {p}
      /\ \A q \in DOMAIN t : u[q] = t[q]
  OBVIOUS
<1> HIDE DEF u
<1>2. KeepsNotes(t, u)
  BY <1>1 DEF KeepsNotes
<1>3. \A at \in Path : ~Within(at, p) => Undisturbed(t, u, at)
  BY <1>1 DEF Undisturbed
<1> QED
  BY <1>2, <1>3 DEF u

LEMMA RemoveKeeps ==
  ASSUME NEW t, TreeOK(t), NEW p \in Path
  PROVE  \A at \in Path : Apart(at, p) => Undisturbed(t, Removed(t, p), at)
<1> DEFINE u == Removed(t, p)
<1>1. /\ DOMAIN u = {r \in DOMAIN t : ~Within(p, r)}
      /\ \A q \in DOMAIN u : u[q] = t[q]
  BY DEF Removed
<1> HIDE DEF u
<1>2. ASSUME NEW at \in Path, Apart(at, p), NEW x \in Path, Within(at, x)
      PROVE  ~Within(p, x)
  BY <1>2, OneLine DEF Apart
<1>3. \A at \in Path : Apart(at, p) => Undisturbed(t, u, at)
  BY <1>1, <1>2 DEF Undisturbed
<1> QED
  BY <1>3 DEF u

LEMMA RenameKeeps ==
  ASSUME NEW t, NEW p \in DOMAIN t, NEW q \in Path, Ready(t, q), ~Within(p, q)
  PROVE  /\ KeepsNotes(t, Renamed(t, p, q))
         /\ \A at \in Path : Apart(at, p) /\ Apart(at, q)
                               => Undisturbed(t, Renamed(t, p, q), at)
         /\ \A r \in DOMAIN t : ~Within(p, r)
                => r \in DOMAIN Renamed(t, p, q) /\ Renamed(t, p, q)[r] = t[r]
<1> DEFINE u == Renamed(t, p, q)
<1>1. /\ DOMAIN u \subseteq Path /\ IsFiniteSet(DOMAIN u)
      /\ \A r \in Path : ~Within(q, r) =>
            /\ r \in DOMAIN u <=> r \in DOMAIN t /\ ~Within(p, r)
            /\ r \in DOMAIN u => u[r] = t[r]
      /\ \A x \in Path :
            /\ q \o x \in DOMAIN u <=> p \o x \in DOMAIN t
            /\ q \o x \in DOMAIN u => u[q \o x] = t[p \o x]
  BY RenamedIs
<1> HIDE DEF u
<1>2. p \in Path /\ TreeOK(t) /\ DOMAIN t \subseteq Path /\ q \notin DOMAIN t
  BY DEF Ready, TreeOK
<1>3. ASSUME NEW r \in DOMAIN t PROVE ~Within(q, r)
  BY <1>2, <1>3, FolderAbove
<1>4. ASSUME NEW r \in DOMAIN t, ~Within(p, r) PROVE r \in DOMAIN u /\ u[r] = t[r]
  BY <1>1, <1>2, <1>3, <1>4
<1>5. ASSUME NEW r \in DOMAIN t, Within(p, r) PROVE \E s \in DOMAIN u : u[s] = t[r]
  <2>1. Rest(p, r) \in Path /\ p \o Rest(p, r) = r
    BY <1>2, <1>5, RestJoins
  <2> QED
    BY <1>1, <2>1
<1>6. KeepsNotes(t, u)
  BY <1>4, <1>5 DEF KeepsNotes
<1>7. ASSUME NEW at \in Path, Apart(at, p), Apart(at, q), NEW x \in Path, Within(at, x)
      PROVE  ~Within(p, x) /\ ~Within(q, x)
  BY <1>2, <1>7, OneLine DEF Apart
<1>8. \A at \in Path : Apart(at, p) /\ Apart(at, q) => Undisturbed(t, u, at)
  BY <1>1, <1>7 DEF Undisturbed
<1> QED
  BY <1>4, <1>6, <1>8 DEF u

(* What was at p is at q, as it was.                                       *)
LEMMA RenameHolds ==
  ASSUME NEW t, NEW p \in DOMAIN t, NEW q \in Path, Ready(t, q), ~Within(p, q)
  PROVE  Held(Renamed(t, p, q), q) = Held(t, p) /\ q \in DOMAIN Renamed(t, p, q)
<1> DEFINE u == Renamed(t, p, q)
<1>1. /\ DOMAIN u \subseteq Path /\ IsFiniteSet(DOMAIN u)
      /\ \A r \in Path : ~Within(q, r) =>
            /\ r \in DOMAIN u <=> r \in DOMAIN t /\ ~Within(p, r)
            /\ r \in DOMAIN u => u[r] = t[r]
      /\ \A x \in Path :
            /\ q \o x \in DOMAIN u <=> p \o x \in DOMAIN t
            /\ q \o x \in DOMAIN u => u[q \o x] = t[p \o x]
  BY RenamedIs
<1> HIDE DEF u
<1>2. p \in Path /\ DOMAIN t \subseteq Path
  BY DEF Ready, TreeOK
<1>3. ASSUME NEW h \in Held(t, p) PROVE h \in Held(u, q)
  <2>1. PICK r \in DOMAIN t : Within(p, r) /\ h = <<Rest(p, r), t[r]>>
    BY <1>3 DEF Held
  <2> DEFINE x == Rest(p, r)
  <2>2. x \in Path /\ p \o x = r
    BY <1>2, <2>1, RestJoins
  <2>3. Within(q, q \o x) /\ Rest(q, q \o x) = x
    BY <2>2, Joined
  <2>4. q \o x \in DOMAIN u /\ u[q \o x] = t[r]
    BY <1>1, <2>2
  <2>5. h = <<Rest(q, q \o x), u[q \o x]>>
    BY <2>1, <2>3, <2>4
  <2> HIDE DEF x
  <2> QED
    BY <2>3, <2>4, <2>5 DEF Held
<1>4. ASSUME NEW h \in Held(u, q) PROVE h \in Held(t, p)
  <2>1. PICK r \in DOMAIN u : Within(q, r) /\ h = <<Rest(q, r), u[r]>>
    BY <1>4 DEF Held
  <2> DEFINE x == Rest(q, r)
  <2>2. x \in Path /\ q \o x = r
    BY <1>1, <2>1, RestJoins
  <2>3. Within(p, p \o x) /\ Rest(p, p \o x) = x
    BY <1>2, <2>2, Joined
  <2>4. p \o x \in DOMAIN t /\ u[r] = t[p \o x]
    BY <1>1, <2>2
  <2>5. h = <<Rest(p, p \o x), t[p \o x]>>
    BY <2>1, <2>3, <2>4
  <2> HIDE DEF x
  <2> QED
    BY <2>3, <2>4, <2>5 DEF Held
<1>5. q \in DOMAIN u
  <2>1. <<>> \in Path
    BY EmptySeq DEF Path
  <2>2. p \o <<>> = p /\ q \o <<>> = q
    BY <1>2, ConcatEmptySeq DEF Path
  <2> QED
    BY <1>1, <2>1, <2>2
<1> QED
  BY <1>3, <1>4, <1>5 DEF u

-----------------------------------------------------------------------------
(* The inductive invariant: the tree is one a disk can hold, and what a    *)
(* Delete answered with is a path right below the trash, where there is    *)
(* what it said.                                                           *)
Stands(r, t) ==
  /\ Held(t, r.at) = r.held
  /\ r.at \in DOMAIN t
  /\ \E c \in Component : r.at = <<Trash, c>>

IInv == /\ TreeOK(tree)
        /\ changes \in 0..MaxChanges
        /\ \A r \in receipts : Stands(r, tree)

(* A call that leaves alone what it does not address leaves the receipts   *)
(* that remain true.                                                       *)
LEMMA BecomesInv ==
  ASSUME IInv, changes < MaxChanges,
         NEW t, TreeOK(t), NEW A, NEW new, Becomes(t, A, new),
         \A c \in Component :
            /\ <<Trash, c>> \in DOMAIN tree
            /\ \A p \in A : Apart(<<Trash, c>>, p)
            => Undisturbed(tree, t, <<Trash, c>>),
         \A r \in new : Stands(r, t)
  PROVE  IInv'
<1>1. /\ tree' = t /\ changes' = changes + 1
      /\ receipts' = {r \in receipts : \A p \in A : ~About(r, p)} \cup new
  BY DEF Becomes
<1>2. changes' \in 0..MaxChanges
  BY <1>1, PathsAssumption DEF IInv, PathsAssumption
<1>3. ASSUME NEW r \in receipts, \A p \in A : ~About(r, p) PROVE Stands(r, t)
  <2>1. PICK c \in Component : r.at = <<Trash, c>>
    BY DEF IInv, Stands
  <2> DEFINE at == <<Trash, c>>
  <2>2. at \in Path
    BY TwoDeep
  <2>3. at \in DOMAIN tree /\ Held(tree, at) = r.held
    BY <2>1 DEF IInv, Stands
  <2>4. \A p \in A : Apart(at, p)
    BY <1>3, <2>1 DEF About, Apart
  <2>5. Undisturbed(tree, t, at)
    BY <2>3, <2>4
  <2> HIDE DEF at
  <2>6. Held(t, at) = r.held
    BY <2>2, <2>3, <2>5, HeldUndisturbed DEF IInv
  <2>7. at \in DOMAIN t
    BY <2>2, <2>3, <2>5, WithinItself DEF Undisturbed
  <2>8. r.at = at
    BY <2>1 DEF at
  <2> QED
    BY <2>1, <2>6, <2>7, <2>8 DEF Stands
<1>4. \A r \in receipts' : Stands(r, t)
  BY <1>1, <1>3
<1> QED
  BY <1>1, <1>2, <1>4 DEF IInv

LEMMA CreateStep ==
  ASSUME IInv, changes < MaxChanges, NEW raw \in Path, Create(raw)
  PROVE  IInv' /\ KeepsNotes(tree, tree')
<1> DEFINE p == Clean(raw)
           t == WithParents(tree, p)
           note == Fresh
           u == [q \in DOMAIN t \cup {p} |-> IF q = p THEN note ELSE t[q]]
<1>1. CanMake(tree, p) /\ p \notin DOMAIN tree /\ Becomes(u, {p}, {})
  BY DEF Create, Exists
<1>2. p \in Path /\ TreeOK(tree)
  BY CleanIsPath DEF IInv
<1> HIDE DEF p
<1>3. Ready(t, p)
  BY <1>1, <1>2, ReadyWithParents
<1>4. KeepsNotes(tree, t) /\ \A at \in Path : ~Within(at, p) => Undisturbed(tree, t, at)
  BY <1>1, <1>2, ParentsKeep
<1>5. DOMAIN tree \subseteq DOMAIN t /\ p \notin DOMAIN t
  BY <1>1, <1>2, <1>3, ParentsMade DEF Ready
<1> HIDE DEF t, note
<1>6. TreeOK(u)
  <2>1. \A n : TreeOK([q \in DOMAIN t \cup {p} |-> IF q = p THEN n ELSE t[q]])
    BY <1>2, <1>3, NoteMade
  <2> QED
    BY <2>1, Zenon
<1>7. KeepsNotes(t, u) /\ \A at \in Path : ~Within(at, p) => Undisturbed(t, u, at)
  BY <1>2, <1>5, NoteKeeps
<1> HIDE DEF u
<1>8. ASSUME NEW at \in Path, Apart(at, p) PROVE Undisturbed(tree, u, at)
  BY <1>4, <1>7, <1>8, UndisturbedTwice DEF Apart
<1>9. KeepsNotes(tree, u)
  BY <1>4, <1>7 DEF KeepsNotes
<1>10. IInv'
  BY <1>1, <1>6, <1>8, TwoDeep, BecomesInv
<1> QED
  BY <1>1, <1>9, <1>10 DEF Becomes

(* Move, whatever the two paths are.                                       *)
LEMMA MovedIs ==
  ASSUME TreeOK(tree), NEW p \in DOMAIN tree, NEW q \in Path,
         q \notin DOMAIN tree, CanMake(tree, q)
  PROVE  /\ TreeOK(Moved(p, q)) /\ KeepsNotes(tree, Moved(p, q))
         /\ \A at \in Path : Apart(at, p) /\ Apart(at, q)
                               => Undisturbed(tree, Moved(p, q), at)
         /\ \A r \in DOMAIN tree : ~Within(p, r)
                => r \in DOMAIN Moved(p, q) /\ Moved(p, q)[r] = tree[r]
<1> DEFINE t == WithParents(tree, q)
<1>1. Ready(t, q) /\ TreeOK(t)
  BY ReadyWithParents, ParentsMade
<1>2. DOMAIN tree \subseteq DOMAIN t /\ \A r \in DOMAIN tree : t[r] = tree[r]
  BY ParentsMade
<1>3. KeepsNotes(tree, t) /\ \A at \in Path : ~Within(at, q) => Undisturbed(tree, t, at)
  BY ParentsKeep
<1>4. Moved(p, q) = IF ~Within(p, q) THEN Renamed(t, p, q) ELSE t
  BY DEF Moved, CanRename
<1>5. p \in Path /\ p \in DOMAIN t
  BY <1>2 DEF TreeOK
<1> HIDE DEF t
<1>6. CASE Within(p, q)
  BY <1>1, <1>2, <1>3, <1>4, <1>6 DEF Apart
<1>7. CASE ~Within(p, q)
  <2> DEFINE u == Renamed(t, p, q)
  <2>1. TreeOK(u)
    BY <1>1, <1>5, <1>7, RenamedTree
  <2>2. /\ KeepsNotes(t, u)
        /\ \A at \in Path : Apart(at, p) /\ Apart(at, q) => Undisturbed(t, u, at)
        /\ \A r \in DOMAIN t : ~Within(p, r) => r \in DOMAIN u /\ u[r] = t[r]
    BY <1>1, <1>5, <1>7, RenameKeeps
  <2> HIDE DEF u
  <2>3. KeepsNotes(tree, u)
    BY <1>3, <2>2 DEF KeepsNotes
  <2>4. ASSUME NEW at \in Path, Apart(at, p), Apart(at, q)
        PROVE  Undisturbed(tree, u, at)
    BY <1>3, <2>2, <2>4, UndisturbedTwice DEF Apart
  <2>5. \A r \in DOMAIN tree : ~Within(p, r) => r \in DOMAIN u /\ u[r] = tree[r]
    BY <1>2, <2>2
  <2>6. Moved(p, q) = u
    BY <1>4, <1>7 DEF u
  <2> QED
    BY <2>1, <2>3, <2>4, <2>5, <2>6
<1> QED
  BY <1>6, <1>7

LEMMA MoveStep ==
  ASSUME IInv, NEW raw \in Path, NEW to \in Path, Move(raw, to)
  PROVE  /\ KeepsNotes(tree, tree')
         /\ changes < MaxChanges => IInv'
         /\ \A r \in DOMAIN tree : ~Within(Clean(raw), r)
                => r \in DOMAIN tree' /\ tree'[r] = tree[r]
<1> DEFINE p == Clean(raw)
           q == Clean(to)
           u == Moved(p, q)
<1>1. /\ p \in DOMAIN tree /\ q \notin DOMAIN tree
      /\ CanMake(tree, q) /\ Becomes(u, {p, q}, {})
  BY DEF Move, Exists, NotThere
<1>2. q \in Path /\ TreeOK(tree)
  BY CleanIsPath DEF IInv
<1> HIDE DEF p, q
<1>3. /\ TreeOK(u) /\ KeepsNotes(tree, u)
      /\ \A at \in Path : Apart(at, p) /\ Apart(at, q) => Undisturbed(tree, u, at)
      /\ \A r \in DOMAIN tree : ~Within(p, r) => r \in DOMAIN u /\ u[r] = tree[r]
  BY <1>1, <1>2, MovedIs
<1> HIDE DEF u
<1>4. tree' = u
  BY <1>1 DEF Becomes
<1>5. changes < MaxChanges => IInv'
  BY <1>1, <1>3, TwoDeep, BecomesInv
<1> QED
  BY <1>3, <1>4, <1>5 DEF p

LEMMA EraseStep ==
  ASSUME IInv, changes < MaxChanges,
         NEW raw \in Path, NEW permanent, Erase(raw, permanent)
  PROVE  IInv'
<1> DEFINE p == Clean(raw)
           u == Removed(tree, p)
<1>1. Becomes(u, {p}, {})
  BY DEF Erase
<1>2. p \in Path /\ TreeOK(tree)
  BY CleanIsPath DEF IInv
<1> HIDE DEF p
<1>3. TreeOK(u) /\ \A at \in Path : Apart(at, p) => Undisturbed(tree, u, at)
  BY <1>2, RemovedTree, RemoveKeeps
<1> HIDE DEF u
<1> QED
  BY <1>1, <1>3, TwoDeep, BecomesInv

(* Two names right below the trash are apart, or the same.                 *)
LEMMA ApartInTrash ==
  ASSUME NEW c \in Component, NEW d \in Component, <<Trash, c>> # <<Trash, d>>
  PROVE  Apart(<<Trash, c>>, <<Trash, d>>)
<1> DEFINE p == <<Trash, c>>
           q == <<Trash, d>>
<1>1. p \in Path /\ q \in Path /\ Len(p) = 2 /\ Len(q) = 2
  BY TwoDeep
<1> HIDE DEF p, q
<1>2. p # q => Apart(p, q)
  BY <1>1, WithinEachOther DEF Apart
<1> QED
  BY <1>2 DEF p, q

LEMMA SoftDeleteStep ==
  ASSUME IInv, changes < MaxChanges, NEW raw \in Path, SoftDelete(raw)
  PROVE  IInv' /\ KeepsNotes(tree, tree')
<1> DEFINE p == Clean(raw)
           c == IF p = <<>> THEN Name("vault") ELSE Last(p)
           t == WithParents(tree, <<Trash, Trash>>)
           u == UniqueName(t, c)
           q == <<Trash, u>>
<1>1. /\ p \in DOMAIN tree /\ CanMake(tree, q)
      /\ IF CanRename(p, q)
         THEN Becomes(Renamed(t, p, q), {p},
                      {[at |-> Answer(p, u), held |-> Held(tree, p)]})
         ELSE Becomes(t, {}, {})
  BY DEF SoftDelete, Exists
<1>2. p \in Path /\ TreeOK(tree)
  BY CleanIsPath DEF IInv
<1>3. c \in Component
  <2>1. Name("vault") \in Component
    <3>1. "vault" \in Bases /\ <<>> \in Seq(Nat)
      BY PathsAssumption, EmptySeq DEF PathsAssumption
    <3> QED
      BY <3>1 DEF Name, Component
  <2>2. p # <<>> => Last(p) \in Component
    <3> HIDE DEF p
    <3> SUFFICES ASSUME p # <<>> PROVE Last(p) \in Component
        OBVIOUS
    <3>1. Len(p) \in 1..Len(p)
      BY <1>2, EmptySeq DEF Path
    <3> QED
      BY <1>2, <3>1, ElementOfSeq DEF Path, Last
  <2> QED
    BY <2>1, <2>2
<1> HIDE DEF p, c
<1>4. IsFiniteSet(DOMAIN t)
  <2>1. DOMAIN t = DOMAIN tree \cup Parents(<<Trash, Trash>>)
    BY DEF WithParents
  <2>2. IsFiniteSet(Parents(<<Trash, Trash>>))
    BY TrashIs, TwoDeep, ParentsAre
  <2> HIDE DEF t
  <2> QED
    BY <1>2, <2>1, <2>2, FS_Union DEF TreeOK
<1>5. u \in Component /\ q \notin DOMAIN t
  <2> HIDE DEF t
  <2> QED
    BY <1>3, <1>4, UniqueNameIsFree
<1> HIDE DEF u
<1>6. q \in Path /\ Parents(q) = Parents(<<Trash, Trash>>)
  BY <1>5, TrashIs, TwoDeep
<1>7. t = WithParents(tree, q)
  BY <1>6 DEF WithParents
<1> HIDE DEF t, q
<1>8. /\ Ready(t, q) /\ TreeOK(t) /\ KeepsNotes(tree, t)
      /\ DOMAIN tree \subseteq DOMAIN t
      /\ \A at \in Path : ~Within(at, q) => Undisturbed(tree, t, at)
  <2>1. DOMAIN t = DOMAIN tree \cup Parents(q) /\ TreeOK(t)
    BY <1>1, <1>2, <1>6, <1>7, ParentsMade
  <2>2. q \notin DOMAIN tree
    BY <1>5, <2>1
  <2>3. Ready(t, q)
    BY <1>1, <1>2, <1>6, <1>7, <2>2, ReadyWithParents
  <2> QED
    BY <1>1, <1>2, <1>6, <1>7, <2>1, <2>3, ParentsKeep
(* What the trash holds is not at the new name, nor within it.             *)
<1>9. ASSUME NEW d \in Component, <<Trash, d>> \in DOMAIN tree
      PROVE  Apart(<<Trash, d>>, q) /\ <<Trash, d>> \in Path
  <2>1. <<Trash, d>> # <<Trash, u>>
    BY <1>5, <1>8, <1>9 DEF q
  <2> QED
    BY <1>5, <2>1, ApartInTrash, TwoDeep DEF q
<1>10. CASE Within(p, q)
  <2>1. Becomes(t, {}, {})
    BY <1>1, <1>10 DEF CanRename
  <2>2. IInv'
    BY <1>8, <1>9, <2>1, BecomesInv DEF Apart
  <2> QED
    BY <1>8, <2>1, <2>2 DEF Becomes
<1>11. CASE ~Within(p, q)
  <2> DEFINE v == Renamed(t, p, q)
             r == [at |-> q, held |-> Held(tree, p)]
  <2>1. Becomes(v, {p}, {r})
    BY <1>1, <1>11 DEF CanRename, Answer, q
  <2>2. p \in DOMAIN t
    BY <1>1, <1>8
  <2>3. /\ TreeOK(v) /\ KeepsNotes(t, v)
        /\ \A at \in Path : Apart(at, p) /\ Apart(at, q) => Undisturbed(t, v, at)
    BY <1>6, <1>8, <1>11, <2>2, RenamedTree, RenameKeeps
  <2>4. Held(v, q) = Held(t, p) /\ q \in DOMAIN v
    BY <1>6, <1>8, <1>11, <2>2, RenameHolds
  <2>5. Held(t, p) = Held(tree, p)
    BY <1>2, <1>8, <1>11, HeldUndisturbed
  <2>6. Stands(r, v)
    <3>1. r.at = q /\ r.held = Held(tree, p)
      OBVIOUS
    <3> HIDE DEF r, v
    <3> QED
      BY <1>5, <2>4, <2>5, <3>1 DEF Stands, q
  <2> HIDE DEF v, r
  <2>7. ASSUME NEW d \in Component, <<Trash, d>> \in DOMAIN tree,
               Apart(<<Trash, d>>, p)
        PROVE  Undisturbed(tree, v, <<Trash, d>>)
    <3> DEFINE at == <<Trash, d>>
    <3>1. at \in Path /\ Apart(at, q) /\ Apart(at, p)
      BY <1>9, <2>7
    <3> HIDE DEF at
    <3>2. Undisturbed(tree, t, at) /\ Undisturbed(t, v, at)
      BY <1>8, <2>3, <3>1 DEF Apart
    <3>3. Undisturbed(tree, v, at)
      BY <3>1, <3>2, UndisturbedTwice
    <3> QED
      BY <3>3 DEF at
  <2>8. IInv'
    BY <2>1, <2>3, <2>6, <2>7, BecomesInv
  <2>9. KeepsNotes(tree, v)
    BY <1>8, <2>3 DEF KeepsNotes
  <2> QED
    BY <2>1, <2>8, <2>9 DEF Becomes
<1> QED
  BY <1>10, <1>11

LEMMA RestoreIsMove ==
  ASSUME NEW raw \in Path, NEW to \in Path, Restore(raw, to)
  PROVE  /\ raw # <<>> /\ raw[1] = Trash /\ Tail(raw) \in Path
         /\ IF to = <<>> THEN Move(raw, Tail(raw)) ELSE Move(raw, to)
<1>1. raw # <<>> /\ raw[1] = Trash
  BY DEF Restore, InTrashAsWritten
<1>2. Tail(raw) \in Path
  BY <1>1, HeadTailProperties DEF Path
<1> QED
  BY <1>1, <1>2 DEF Restore, DefaultTarget

LEMMA NextStep ==
  ASSUME IInv, Next
  PROVE  /\ IInv'
         /\ \/ KeepsNotes(tree, tree')
            \/ \E raw \in RawPaths, permanent \in BOOLEAN : Erase(raw, permanent)
<1>1. changes < MaxChanges /\ RawPaths \subseteq Path
  BY PathsAssumption DEF Next, PathsAssumption
<1>2. PICK raw \in RawPaths :
         \/ Create(raw)
         \/ \E to \in RawPaths : Move(raw, to)
         \/ \E to \in RawPaths : Restore(raw, to)
         \/ \E permanent \in BOOLEAN : Delete(raw, permanent)
  BY Zenon DEF Next
<1>3. raw \in Path
  BY <1>1
<1>4. CASE Create(raw)
  BY <1>1, <1>3, <1>4, CreateStep
<1>5. ASSUME NEW to \in RawPaths, Move(raw, to) PROVE IInv' /\ KeepsNotes(tree, tree')
  BY <1>1, <1>3, <1>5, MoveStep
<1>6. ASSUME NEW to \in RawPaths, Restore(raw, to) PROVE IInv' /\ KeepsNotes(tree, tree')
  <2>1. to \in Path
    BY <1>1
  <2>2. PICK q \in Path : Move(raw, q)
    BY <1>3, <1>6, <2>1, RestoreIsMove
  <2> QED
    BY <1>1, <1>3, <2>2, MoveStep
<1>7. ASSUME NEW permanent \in BOOLEAN, Delete(raw, permanent)
      PROVE  IInv' /\ (KeepsNotes(tree, tree') \/ Erase(raw, permanent))
  <2>1. CASE Erase(raw, permanent)
    BY <1>1, <1>3, <2>1, EraseStep
  <2>2. CASE SoftDelete(raw)
    BY <1>1, <1>3, <2>2, SoftDeleteStep
  <2> QED
    BY <1>7, <2>1, <2>2 DEF Delete
<1> QED
  BY <1>2, <1>4, <1>5, <1>6, <1>7

LEMMA InitIInv == Init => IInv
  BY PathsAssumption DEF PathsAssumption, Init, IInv, TreeOK

LEMMA Invariance == Spec => []IInv
<1>1. IInv /\ [Next]_vars => IInv'
  <2> SUFFICES ASSUME IInv, [Next]_vars PROVE IInv'
      OBVIOUS
  <2>1. CASE UNCHANGED vars
    BY <2>1 DEF vars, IInv
  <2> QED
    BY <2>1, NextStep
<1> QED
  BY InitIInv, <1>1, PTL DEF Spec

LEMMA TreeIsTree == IInv => TypeOK
<1> SUFFICES ASSUME IInv PROVE TypeOK
    OBVIOUS
<1>1. ASSUME NEW q \in DOMAIN tree \ {<<>>}
      PROVE  Front(q) \in DOMAIN tree /\ tree[Front(q)] = Folder
  <2>1. q \in Path /\ q # <<>>
    BY DEF IInv, TreeOK
  <2>2. Len(q) - 1 \in 0..(Len(q) - 1)
    BY <2>1, EmptySeq DEF Path
  <2>3. Front(q) \in Parents(q)
    BY <2>2 DEF Front, Parents
  <2> QED
    BY <2>3 DEF IInv, TreeOK
<1> QED
  BY <1>1 DEF IInv, TypeOK

(* Whatever paths clients write, the vault stays a tree: nothing is ever   *)
(* below a note, or below nothing.                                         *)
THEOREM VaultIsATree == Spec => []TypeOK
  BY Invariance, TreeIsTree, PTL

(* For any vault and any paths, no call but one that erases loses a note:  *)
(* MkdirAll makes only what is not there, Create and Move only go where    *)
(* nothing is, and a rename takes all that is below along.                 *)
THEOREM OnlyErasingLoses == Spec => NothingLost
<1>1. IInv /\ [Next]_vars =>
        [\/ Notes(tree) \subseteq Notes(tree')
         \/ \E raw \in RawPaths, permanent \in BOOLEAN : Erase(raw, permanent)]_vars
  BY NextStep, KeptNotes
<1> QED
  BY Invariance, <1>1, PTL DEF Spec, NothingLost

LEMMA InTrash ==
  ASSUME NEW c \in Component PROVE <<Trash>> \o <<c>> = <<Trash, c>>
<1> DEFINE a == <<Trash>>
           x == <<c>>
           b == <<Trash, c>>
<1>1. /\ a \in Path /\ Len(a) = 1 /\ a[1] = Trash
      /\ x \in Path /\ Len(x) = 1 /\ x[1] = c
  BY TrashIs DEF Path
<1>2. b \in Path /\ Len(b) = 2 /\ b[1] = Trash /\ b[2] = c
  BY TwoDeep
<1> HIDE DEF a, b, x
<1>3. /\ a \o x \in Path /\ Len(a \o x) = 2
      /\ 1 \in 1..Len(a) => (a \o x)[1] = a[1]
      /\ 1 \in 1..Len(x) => (a \o x)[Len(a) + 1] = x[1]
  BY <1>1, Joined, ConcatBefore, ConcatAt
<1>4. (a \o x)[1] = Trash /\ (a \o x)[2] = c
  BY <1>1, <1>3
<1>5. \A i \in 1..2 : (a \o x)[i] = b[i]
  <2>1. \A i \in 1..2 : i = 1 \/ i = 2
    OBVIOUS
  <2> QED
    BY <1>2, <1>4, <2>1
<1>6. a \o x = b
  BY <1>2, <1>3, <1>5, SeqEqual DEF Path
<1> QED
  BY <1>6 DEF a, b, x

LEMMA StandsIsListed ==
  ASSUME IInv, NEW r \in receipts
  PROVE  /\ Held(tree, r.at) = r.held /\ r.held # {}
         /\ r.at \in List(<<Trash>>, FALSE) \/ IsHidden(Last(r.at))
<1>1. PICK c \in Component : r.at = <<Trash, c>>
  BY DEF IInv, Stands
<1>2. Held(tree, r.at) = r.held /\ r.at \in DOMAIN tree
  BY DEF IInv, Stands
<1>3. /\ r.at \in Path /\ <<Trash>> \in Path /\ <<c>> \in Path /\ Len(r.at) = 2
      /\ Len(<<Trash>>) = 1 /\ r.at[2] = c
  <2>1. <<c>> \in Path /\ Len(<<Trash>>) = 1
    BY DEF Path
  <2>2. <<Trash, c>> \in Path /\ <<Trash>> \in Path /\ Len(<<Trash, c>>) = 2
        /\ <<Trash, c>>[2] = c
    BY TwoDeep
  <2> QED
    BY <1>1, <2>1, <2>2
<1>4. r.held # {}
  <2>1. Within(r.at, r.at)
    BY <1>3, WithinItself
  <2>2. <<Rest(r.at, r.at), tree[r.at]>> \in Held(tree, r.at)
    BY <1>2, <2>1 DEF Held
  <2> QED
    BY <1>2, <2>2
<1>5. <<Trash>> \o <<c>> = r.at
  BY <1>1, InTrash
<1>6. Within(<<Trash>>, r.at) /\ Rest(<<Trash>>, r.at) = <<c>>
  BY <1>3, <1>5, Joined
<1>7. Clean(<<Trash>>) = <<Trash>>
  <2>1. PICK f : /\ f[0] = <<>>
                 /\ \A k \in 1..1 : f[k] = CleanStep(f[k - 1], <<Trash>>[k])
                 /\ Clean(<<Trash>>) = f[1]
    BY <1>3, CleanIs
  <2>2. f[1] = CleanStep(f[1 - 1], <<Trash>>[1])
    BY <2>1
  <2>3. f[1] = CleanStep(<<>>, Trash)
    BY <2>1, <2>2
  <2>4. CleanStep(<<>>, Trash) = Append(<<>>, Trash)
    BY TrashIs DEF CleanStep
  <2>5. Append(<<>>, Trash) = <<Trash>>
    OBVIOUS
  <2> QED
    BY <2>1, <2>3, <2>4, <2>5
<1>8. Last(r.at) = c
  BY <1>3 DEF Last
<1>9. CASE IsHidden(c)
  BY <1>2, <1>4, <1>8, <1>9
<1>10. CASE ~IsHidden(c)
  <2>1. \A i \in DOMAIN <<c>> : ~IsHidden(<<c>>[i])
    BY <1>10
  <2>2. r.at # <<Trash>> /\ Len(r.at) = Len(<<Trash>>) + 1
    BY <1>3
  <2>3. r.at \in List(<<Trash>>, FALSE)
    BY <1>2, <1>6, <1>7, <2>1, <2>2 DEF List
  <2> QED
    BY <1>2, <1>4, <2>3
<1> QED
  BY <1>9, <1>10

(* Whatever is done to the rest of the vault, what a Delete has answered   *)
(* stays true until a call addresses it.                                   *)
THEOREM ReceiptsStayTrue == Spec => []ReceiptsHold
<1>1. IInv => ReceiptsHold
  BY StandsIsListed DEF ReceiptsHold
<1> QED
  BY Invariance, <1>1, PTL

LEMMA RestoreStep ==
  ASSUME IInv, NEW raw \in RawPaths, Restore(raw, <<>>),
         NEW q \in DOMAIN tree, ~Within(<<Trash>>, q)
  PROVE  q \in DOMAIN tree' /\ tree'[q] = tree[q]
<1>1. raw \in Path /\ <<>> \in Path
  BY PathsAssumption, EmptySeq DEF PathsAssumption, Path
<1>2. /\ raw # <<>> /\ raw[1] = Trash /\ Tail(raw) \in Path
      /\ Move(raw, Tail(raw))
  BY <1>1, RestoreIsMove
<1>3. ~Leaves(Clean(Tail(raw)))
  BY <1>2 DEF Move, Resolves, Leaves
<1>4. Clean(raw) = <<Trash>> \o Clean(Tail(raw))
  BY <1>1, <1>2, <1>3, CleanInTrash
<1> DEFINE p == Clean(raw)
<1>5. /\ p \in Path /\ <<Trash>> \in Path /\ Within(<<Trash>>, p)
  <2>1. <<Trash>> \in Path
    BY TrashIs, TwoDeep
  <2> QED
    BY <1>1, <1>2, <1>4, <2>1, CleanIsPath, Joined
<1>6. q \in Path
  BY DEF IInv, TreeOK
<1>7. ~Within(Clean(raw), q)
  BY <1>5, <1>6, WithinWithin
<1> QED
  BY <1>1, <1>2, <1>7, MoveStep

(* A Restore that is given no target takes nothing from outside the trash, *)
(* however many "..", "." and folders its path goes through.               *)
THEOREM RestoresComeFromTrash == Spec => RestoreTakesFromTrash
<1>1. IInv /\ [Next]_vars =>
        [\A raw \in RawPaths :
          Restore(raw, <<>>) =>
             \A q \in DOMAIN tree : ~Within(<<Trash>>, q)
                => q \in DOMAIN tree' /\ tree'[q] = tree[q]]_vars
  BY RestoreStep
<1> QED
  BY Invariance, <1>1, PTL DEF Spec, RestoreTakesFromTrash
=============================================================================
