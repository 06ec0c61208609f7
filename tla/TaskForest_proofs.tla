------------------------- MODULE TaskForest_proofs --------------------------
(***************************************************************************)
(* Proofs about the forest that a note describes, for every note: what a   *)
(* change of the note's lines makes of the nesting of the others.  So each *)
(* task tool is the operation of Reminders that has its name, and, until   *)
(* calls collide, TaskStore implements Reminders.                          *)
(***************************************************************************)
EXTENDS TaskStore_proofs

-----------------------------------------------------------------------------
(* The parent is the last of the ancestors.                                *)
LEMMA AncestorIs ==
  ASSUME NEW s \in Doc, NEW i \in Nat, NEW j
  PROVE  j \in Ancestors(s, i) <=>
            /\ j \in 1..(i - 1) /\ s[j].kind = "task"
            /\ \A k \in (j + 1)..i : s[k].kind = "task" /\ s[k].ind > s[j].ind
  BY DEF Ancestors, Above

LEMMA ParentIsLast ==
  ASSUME NEW s \in Doc, NEW i \in 1..Len(s)
  PROVE  /\ Parent(s, i) \in 0..(i - 1)
         /\ Parent(s, i) # 0 => Parent(s, i) \in Ancestors(s, i)
         /\ \A j \in Ancestors(s, i) : j <= Parent(s, i)
<1> DEFINE T == Ancestors(s, i) \cup {0}
<1>1. Len(s) \in Nat /\ i \in Nat /\ Ancestors(s, i) \subseteq 1..(i - 1)
  BY DocIsSeq DEF Ancestors
<1>2. i - 1 \in Nat /\ T \subseteq 0..(i - 1) /\ T # {}
  BY <1>1
<1>3. Max(T) \in T /\ \A y \in T : y <= Max(T)
  <2> HIDE DEF T
  <2> QED
    BY <1>2, MaxIsGreatest
<1>4. Parent(s, i) \in T /\ \A y \in T : y <= Parent(s, i)
  BY <1>3 DEF Parent
<1> HIDE DEF Parent
<1> QED
  BY <1>2, <1>4

LEMMA ParentIs ==
  ASSUME NEW s \in Doc, NEW i \in 1..Len(s), NEW p \in Ancestors(s, i) \cup {0},
         \A j \in Ancestors(s, i) : j <= p
  PROVE  Parent(s, i) = p
<1>1. p \in Nat /\ i \in Nat /\ Ancestors(s, i) \subseteq Nat \ {0}
  BY DocIsSeq DEF Ancestors
<1>2. Parent(s, i) \in 0..(i - 1) /\ (Parent(s, i) # 0 => Parent(s, i) <= p)
  BY ParentIsLast
<1>3. p # 0 => p <= Parent(s, i)
  BY ParentIsLast
<1> QED
  BY <1>1, <1>2, <1>3

LEMMA SameAncestorsSameParent ==
  ASSUME NEW s, NEW n, NEW i, Ancestors(n, i) = Ancestors(s, i)
  PROVE  Parent(n, i) = Parent(s, i)
  BY DEF Parent

(* What has been replaced left what follows it where it was, below what is *)
(* before it: a heading follows, or a task that is indented no deeper.     *)
Fits(s, n, a, b, d) ==
  /\ Moved(s, n, a, b, d)
  /\ b <= Len(s) => \/ s[b].kind = "heading"
                    \/ /\ \A k \in a..(b - 1) : s[k].ind >= s[b].ind
                       /\ \A k \in a..(b + d - 1) : n[k].ind >= s[b].ind

LEMMA FitsBack ==
  ASSUME NEW s, NEW n, NEW a, NEW b, NEW d, Fits(s, n, a, b, d)
  PROVE  Fits(n, s, a, b + d, -d)
<1>1. /\ Moved(n, s, a, b + d, -d)
      /\ Len(n) = Len(s) + d /\ d \in Int /\ Len(s) \in Nat
      /\ \A k \in b..Len(s) : n[k + d] = s[k]
  BY MovedBack, DocIsSeq DEF Fits, Moved
<1> b \in Nat
  BY <1>1, DocIsSeq DEF Fits, Moved
<1> (b + d) + -d = b /\ (b + d) + -d - 1 = b - 1
  BY <1>1
<1>2. ASSUME b + d <= Len(n) PROVE b <= Len(s) /\ n[b + d] = s[b]
  BY <1>1, <1>2
<1>3. b <= Len(s) => \/ s[b].kind = "heading"
                     \/ /\ \A k \in a..(b - 1) : s[k].ind >= s[b].ind
                        /\ \A k \in a..(b + d - 1) : n[k].ind >= s[b].ind
  BY DEF Fits
<1>4. b + d <= Len(n) =>
         \/ n[b + d].kind = "heading"
         \/ /\ \A k \in a..(b + d - 1) : n[k].ind >= n[b + d].ind
            /\ \A k \in a..(b - 1) : s[k].ind >= n[b + d].ind
  BY <1>1, <1>2, <1>3
<1> QED
  BY <1>1, <1>4 DEF Fits

LEMMA FitsAncestors ==
  ASSUME NEW s, NEW n, NEW a, NEW b, NEW d, Fits(s, n, a, b, d),
         NEW k \in b..Len(s), NEW j \in Ancestors(s, k)
  PROVE  \/ j \in 1..(a - 1) /\ j \in Ancestors(n, k + d)
         \/ j \in b..Len(s) /\ j + d \in Ancestors(n, k + d)
<1>1. /\ s \in Doc /\ n \in Doc /\ Len(s) \in Nat /\ Len(n) \in Nat
      /\ a \in 1..(Len(s) + 1) /\ b \in a..(Len(s) + 1) /\ d \in Int
      /\ a <= b + d /\ Len(n) = Len(s) + d
      /\ \A i \in 1..(a - 1) : n[i] = s[i]
      /\ \A i \in b..Len(s) : n[i + d] = s[i]
      /\ b <= Len(s) => /\ \A i \in a..(b - 1) : s[i].kind = "task"
                        /\ \A i \in a..(b + d - 1) : n[i].kind = "task"
      /\ b <= Len(s) => \/ s[b].kind = "heading"
                        \/ /\ \A i \in a..(b - 1) : s[i].ind >= s[b].ind
                           /\ \A i \in a..(b + d - 1) : n[i].ind >= s[b].ind
  BY DocIsSeq DEF Fits, Moved
<1>2. b \in Nat /\ k \in Nat /\ k + d \in Nat /\ b <= Len(s) /\ b \in 1..Len(s)
      /\ b <= k /\ a \in Nat
  BY <1>1
<1>3. /\ j \in 1..(k - 1) /\ s[j].kind = "task"
      /\ \A i \in (j + 1)..k : s[i].kind = "task" /\ s[i].ind > s[j].ind
  BY <1>1, <1>2, AncestorIs
<1>4. /\ \A i \in 1..Len(s) : s[i].ind \in Nat
      /\ \A i \in 1..Len(n) : n[i].ind \in Nat
  BY <1>1, DocIsSeq, ItemFields
<1>5. j \in 1..Len(s) /\ s[j].ind \in Nat /\ s[b].ind \in Nat
  BY <1>1, <1>2, <1>3, <1>4
<1>6. CASE j >= b
  <2>1. j + d \in 1..((k + d) - 1) /\ n[j + d] = s[j]
    BY <1>1, <1>2, <1>3, <1>6
  <2>2. ASSUME NEW i \in ((j + d) + 1)..(k + d)
        PROVE  n[i].kind = "task" /\ n[i].ind > n[j + d].ind
    <3>1. i - d \in (j + 1)..k /\ i - d \in b..Len(s) /\ (i - d) + d = i
      BY <1>1, <1>2, <1>3, <1>6
    <3>2. n[i] = s[i - d]
      BY <1>1, <3>1
    <3> QED
      BY <1>3, <2>1, <3>1, <3>2
  <2>3. j + d \in Ancestors(n, k + d)
    BY <1>1, <1>2, <1>3, <2>1, <2>2, AncestorIs
  <2> QED
    BY <1>5, <1>6, <2>3, <1>2
<1>7. CASE j < b
  <2>1. b \in (j + 1)..k
    BY <1>2, <1>3, <1>7
  <2>2. s[b].kind = "task" /\ s[b].ind > s[j].ind /\ s[b].kind # "heading"
    BY <1>3, <2>1
  <2>3. /\ \A i \in a..(b - 1) : s[i].ind >= s[b].ind
        /\ \A i \in a..(b + d - 1) : n[i].ind >= s[b].ind /\ n[i].kind = "task"
    BY <1>1, <1>2, <2>2
  <2>4. j \notin a..(b - 1)
    BY <1>5, <2>2, <2>3
  <2>5. j \in 1..(a - 1) /\ n[j] = s[j]
    BY <1>1, <1>2, <1>5, <1>7, <2>4
  <2>6. ASSUME NEW i \in (j + 1)..(k + d)
        PROVE  n[i].kind = "task" /\ n[i].ind > n[j].ind
    <3>1. i \in 1..Len(n) /\ n[i].ind \in Nat
      BY <1>1, <1>2, <1>3, <1>4
    <3>2. CASE i < a
      <4>1. i \in 1..(a - 1) /\ i \in (j + 1)..k /\ n[i] = s[i]
        BY <1>1, <1>2, <3>1, <3>2
      <4> QED
        BY <1>3, <2>5, <4>1
    <3>3. CASE i >= a /\ i < b + d
      <4>1. i \in a..(b + d - 1)
        BY <1>1, <1>2, <3>1, <3>3
      <4> QED
        BY <1>5, <2>2, <2>3, <2>5, <3>1, <4>1
    <3>4. CASE i >= b + d
      <4>1. i - d \in b..Len(s) /\ i - d \in (j + 1)..k /\ (i - d) + d = i
        BY <1>1, <1>2, <1>7, <3>1, <3>4, <2>5
      <4>2. n[i] = s[i - d]
        BY <1>1, <4>1
      <4> QED
        BY <1>3, <2>5, <4>1, <4>2
    <3> QED
      BY <1>1, <1>2, <3>1, <3>2, <3>3, <3>4
  <2>7. j \in 1..((k + d) - 1)
    BY <1>1, <1>2, <2>5
  <2>8. j \in Ancestors(n, k + d)
    BY <1>1, <1>2, <1>3, <2>5, <2>6, <2>7, AncestorIs
  <2> QED
    BY <2>5, <2>8
<1> QED
  BY <1>1, <1>2, <1>5, <1>6, <1>7

LEMMA FitsParent ==
  ASSUME NEW s, NEW n, NEW a, NEW b, NEW d, Fits(s, n, a, b, d)
  PROVE  /\ \A k \in 1..(a - 1) : Parent(n, k) = Parent(s, k)
         /\ \A k \in b..Len(s) :
               \/ Parent(s, k) \in 0..(a - 1) /\ Parent(n, k + d) = Parent(s, k)
               \/ /\ Parent(s, k) \in b..Len(s)
                  /\ Parent(n, k + d) = Parent(s, k) + d
<1>1. /\ s \in Doc /\ n \in Doc /\ Len(s) \in Nat /\ Len(n) \in Nat
      /\ a \in 1..(Len(s) + 1) /\ b \in a..(Len(s) + 1) /\ d \in Int
      /\ a <= b + d /\ Len(n) = Len(s) + d
      /\ \A i \in 1..(a - 1) : n[i] = s[i]
  BY DocIsSeq DEF Fits, Moved
<1>2. ASSUME NEW k \in 1..(a - 1) PROVE Parent(n, k) = Parent(s, k)
  <2>1. k \in Nat /\ \A i \in 1..k : n[i] = s[i]
    BY <1>1
  <2>2. ASSUME NEW j PROVE j \in Ancestors(n, k) <=> j \in Ancestors(s, k)
    <3>1. ASSUME j \in 1..(k - 1)
          PROVE  n[j] = s[j] /\ \A i \in (j + 1)..k : n[i] = s[i]
      BY <2>1, <3>1
    <3>2. j \in Ancestors(s, k) <=>
             /\ j \in 1..(k - 1) /\ s[j].kind = "task"
             /\ \A i \in (j + 1)..k : s[i].kind = "task" /\ s[i].ind > s[j].ind
      BY <1>1, <2>1, AncestorIs
    <3>3. j \in Ancestors(n, k) <=>
             /\ j \in 1..(k - 1) /\ n[j].kind = "task"
             /\ \A i \in (j + 1)..k : n[i].kind = "task" /\ n[i].ind > n[j].ind
      BY <1>1, <2>1, AncestorIs
    <3> QED
      BY <3>1, <3>2, <3>3
  <2> QED
    BY <2>2, SameAncestorsSameParent
<1>3. ASSUME NEW k \in b..Len(s)
      PROVE  \/ Parent(s, k) \in 0..(a - 1) /\ Parent(n, k + d) = Parent(s, k)
             \/ /\ Parent(s, k) \in b..Len(s)
                /\ Parent(n, k + d) = Parent(s, k) + d
  <2> DEFINE p == Parent(s, k)
             q == Parent(n, k + d)
  <2>1. /\ k \in 1..Len(s) /\ k + d \in 1..Len(n) /\ k + d \in (b + d)..Len(n)
        /\ (k + d) + -d = k /\ (b + d) + -d = b /\ Len(n) + -d = Len(s)
        /\ a \in Nat /\ b \in Nat /\ b + d \in Nat /\ 1 <= a /\ a <= b /\ a <= b + d
    BY <1>1
  <2>2. /\ p \in 0..(k - 1) /\ (p # 0 => p \in Ancestors(s, k))
        /\ \A j \in Ancestors(s, k) : j <= p
        /\ q \in 0..((k + d) - 1) /\ (q # 0 => q \in Ancestors(n, k + d))
        /\ \A j \in Ancestors(n, k + d) : j <= q
    BY <1>1, <2>1, ParentIsLast
  <2>3. ASSUME NEW j \in Ancestors(s, k)
        PROVE  \/ j \in 1..(a - 1) /\ j \in Ancestors(n, k + d)
               \/ j \in b..Len(s) /\ j + d \in Ancestors(n, k + d)
    BY FitsAncestors
  <2>4. ASSUME NEW j \in Ancestors(n, k + d)
        PROVE  \/ j \in 1..(a - 1) /\ j \in Ancestors(s, k)
               \/ j \in (b + d)..Len(n) /\ j + -d \in Ancestors(s, k)
    <3>1. Fits(n, s, a, b + d, -d)
      BY FitsBack
    <3> QED
      BY <2>1, <3>1, FitsAncestors
  <2> HIDE DEF p, q
  <2>5. p # 0 => \/ p \in 1..(a - 1) /\ p <= q
                 \/ p \in b..Len(s) /\ p + d <= q
    BY <2>2, <2>3
  <2>6. q # 0 => \/ q \in 1..(a - 1) /\ q <= p
                 \/ q \in (b + d)..Len(n) /\ q + -d <= p
    BY <2>2, <2>4
  <2>7. (p \in 0..(a - 1) /\ q = p) \/ (p \in b..Len(s) /\ q = p + d)
    <3>1. p \in Nat /\ q \in Nat /\ d \in Int
      BY <1>1, <2>1, <2>2
    <3>2. q = 0 \/ (1 <= q /\ q <= a - 1 /\ q <= p) \/ (b + d <= q /\ q - d <= p)
      BY <2>1, <2>6, <3>1
    <3>3. p = 0 \/ (1 <= p /\ p <= a - 1 /\ p <= q) \/ (b <= p /\ p + d <= q)
      BY <2>1, <2>5, <3>1
    <3>4. CASE p <= a - 1
      <4>1. /\ p \in Nat /\ q \in Nat /\ d \in Int /\ a \in Nat /\ b \in Nat
            /\ 1 <= a /\ a <= b /\ a <= b + d /\ p <= a - 1
        BY <2>1, <3>1, <3>4
      <4>2. p = 0 \/ p <= q
        BY <3>3, <4>1
      <4>3. q = 0 \/ q <= p
        BY <3>2, <4>1, <4>2
      <4>4. q = p
        BY <4>1, <4>2, <4>3
      <4>5. p \in 0..(a - 1)
        BY <4>1
      <4> QED
        BY <4>4, <4>5
    <3>5. CASE p >= b
      <4>1. /\ p \in Nat /\ q \in Nat /\ d \in Int /\ a \in Nat /\ b \in Nat
            /\ 1 <= a /\ a <= b /\ a <= b + d /\ b <= p
        BY <2>1, <3>1, <3>5
      <4>2. p + d <= q
        BY <3>3, <4>1
      <4>3. b + d <= q /\ q - d <= p
        BY <3>2, <4>1, <4>2
      <4>4. q = p + d
        BY <4>1, <4>2, <4>3
      <4>5. p \in b..Len(s)
        BY <2>1, <2>2, <3>5
      <4> QED
        BY <4>4, <4>5
    <3> QED
      BY <2>1, <3>1, <3>3, <3>4, <3>5
  <2> QED
    BY <2>7 DEF p, q
<1> QED
  BY <1>2, <1>3

-----------------------------------------------------------------------------
(* A task's place in the tree is its parent's reference and its own fields.*)
ParentId(s, i) == LET p == Parent(s, i) IN IF p = 0 THEN NoId ELSE s[p].id

LEMMA NodeIs ==
  ASSUME NEW s, NEW i
  PROVE  Node(s, i) = [parent |-> ParentId(s, i), title |-> s[i].title,
                       done |-> s[i].done, closed |-> s[i].closed]
  BY DEF Node, ParentId

LEMMA FitsNodes ==
  ASSUME NEW s, NEW n, NEW a, NEW b, NEW d, Fits(s, n, a, b, d)
  PROVE  /\ \A k \in 1..(a - 1) : Node(n, k) = Node(s, k)
         /\ \A k \in b..Len(s) : Node(n, k + d) = Node(s, k)
<1>1. /\ s \in Doc /\ n \in Doc /\ Len(s) \in Nat /\ Len(n) \in Nat
      /\ a \in 1..(Len(s) + 1) /\ b \in a..(Len(s) + 1) /\ d \in Int
      /\ a <= b + d /\ Len(n) = Len(s) + d
      /\ \A i \in 1..(a - 1) : n[i] = s[i]
      /\ \A i \in b..Len(s) : n[i + d] = s[i]
  BY DocIsSeq DEF Fits, Moved
<1>2. ASSUME NEW k \in 1..(a - 1) PROVE Node(n, k) = Node(s, k)
  <2>1. k \in 1..Len(s) /\ n[k] = s[k] /\ Parent(n, k) = Parent(s, k)
    BY <1>1, FitsParent
  <2>2. Parent(s, k) \in 0..(k - 1)
    BY <1>1, <2>1, ParentIsLast
  <2>3. Parent(s, k) # 0 => Parent(s, k) \in 1..(a - 1)
    BY <1>1, <2>2
  <2>4. ParentId(n, k) = ParentId(s, k)
    BY <1>1, <2>1, <2>3 DEF ParentId
  <2> QED
    BY <2>1, <2>4, NodeIs
<1>3. ASSUME NEW k \in b..Len(s) PROVE Node(n, k + d) = Node(s, k)
  <2> DEFINE p == Parent(s, k)
             q == Parent(n, k + d)
  <2>1. n[k + d] = s[k]
    BY <1>1
  <2>2. \/ p \in 0..(a - 1) /\ q = p
        \/ p \in b..Len(s) /\ q = p + d
    BY FitsParent
  <2>3. ParentId(s, k) = (IF p = 0 THEN NoId ELSE s[p].id)
        /\ ParentId(n, k + d) = (IF q = 0 THEN NoId ELSE n[q].id)
    BY DEF ParentId
  <2> HIDE DEF p, q
  <2>4. CASE p \in 0..(a - 1) /\ q = p
    <3>1. p = 0 \/ n[p] = s[p]
      BY <1>1, <2>4
    <3> QED
      BY <2>1, <2>3, <2>4, <3>1, NodeIs
  <2>5. CASE p \in b..Len(s) /\ q = p + d
    <3>1. p # 0 /\ q # 0 /\ n[q] = s[p]
      BY <1>1, <2>5
    <3> QED
      BY <2>1, <2>3, <3>1, NodeIs
  <2> QED
    BY <2>2, <2>4, <2>5
<1> QED
  BY <1>2, <1>3

(* If references are unique, each leads to the one task that has it.       *)
LEMMA TreeAt ==
  ASSUME NEW s \in Doc
  PROVE  /\ DOMAIN Tree(s) = IdsIn(s)
         /\ \A id \in IdsIn(s) : Tree(s)[id] = Node(s, Find(s, id))
         /\ Tree(s) = [id \in IdsIn(s) |-> Tree(s)[id]]
         /\ Unique(s) => \A i \in Named(s) :
                            /\ s[i].id \in IdsIn(s) /\ Find(s, s[i].id) = i
                            /\ Tree(s)[s[i].id] = Node(s, i)
<1>1. /\ DOMAIN Tree(s) = IdsIn(s)
      /\ \A id \in IdsIn(s) : Tree(s)[id] = Node(s, Find(s, id))
      /\ Tree(s) = [id \in IdsIn(s) |-> Tree(s)[id]]
  BY DEF Tree
<1>2. ASSUME Unique(s), NEW i \in Named(s)
      PROVE  s[i].id \in IdsIn(s) /\ Find(s, s[i].id) = i
  <2>1. s[i].id \in IdsIn(s)
    BY DEF IdsIn
  <2>2. Find(s, s[i].id) \in Named(s) /\ s[Find(s, s[i].id)].id = s[i].id
    BY <2>1, FoundTask
  <2> QED
    BY <1>2, <2>1, <2>2 DEF Unique
<1> QED
  BY <1>1, <1>2

(* The parent of a task that is not in the template is not in it either.   *)
LEMMA ParentIsTask ==
  ASSUME NEW s \in Doc, NEW i \in Tasks(s), Parent(s, i) # 0
  PROVE  Parent(s, i) \in Tasks(s) /\ Parent(s, i) < i
<1> DEFINE p == Parent(s, i)
<1>1. Len(s) \in Nat /\ DOMAIN s = 1..Len(s) /\ i \in 1..Len(s) /\ ~InTemplate(s, i)
  BY DocIsSeq DEF Tasks
<1>2. p \in Ancestors(s, i)
  BY <1>1, ParentIsLast
<1>3. /\ p \in 1..(i - 1) /\ s[p].kind = "task"
      /\ \A k \in (p + 1)..i : s[k].kind = "task" /\ s[k].ind > s[p].ind
  BY <1>1, <1>2, AncestorIs
<1> HIDE DEF p
<1>4. ASSUME InTemplate(s, p) PROVE FALSE
  <2>1. PICK g \in 1..p : s[g].title = Template /\ Open(s, g, p)
    BY <1>4 DEF InTemplate
  <2>2. g \in 1..i /\ p \in 1..i
    BY <1>1, <1>3
  <2>3. ASSUME NEW k \in (g + 1)..i, s[k].kind = "heading"
        PROVE  s[k].level > s[g].level
    <3>1. k \notin (p + 1)..i
      BY <1>3, <2>3
    <3>2. k \in (g + 1)..p
      BY <1>1, <1>3, <2>1, <3>1
    <3> QED
      BY <2>1, <2>3, <3>2 DEF Open
  <2>4. Open(s, g, i)
    BY <2>1, <2>3 DEF Open
  <2> QED
    BY <1>1, <2>1, <2>2, <2>4 DEF InTemplate
<1>5. p \in Tasks(s) /\ p < i
  BY <1>1, <1>3, <1>4 DEF Tasks
<1> QED
  BY <1>5 DEF p

(* So in a note all of whose reminders have IDs, parents have one.         *)
LEMMA ParentHasId ==
  ASSUME NEW s \in Doc, Unnamed(s) = {}, NEW i \in Tasks(s)
  PROVE  ParentId(s, i) \in IdsIn(s) \cup {NoId}
<1>1. CASE Parent(s, i) = 0
  BY <1>1 DEF ParentId
<1>2. CASE Parent(s, i) # 0
  <2>1. Parent(s, i) \in Tasks(s)
    BY <1>2, ParentIsTask
  <2>2. Parent(s, i) \in Named(s)
    BY <2>1 DEF Unnamed, Named
  <2> QED
    BY <1>2, <2>2 DEF ParentId, IdsIn
<1> QED
  BY <1>1, <1>2

LEMMA TreeIsForest ==
  ASSUME NEW s \in Doc
  PROVE  Tree(s) \in [IdsIn(s) -> Forest!Record] /\ IdsIn(s) \subseteq Ids
<1>1. ASSUME NEW id \in IdsIn(s) PROVE Node(s, Find(s, id)) \in Forest!Record
  <2> DEFINE i == Find(s, id)
             p == Parent(s, i)
  <2>1. Len(s) \in Nat /\ i \in 1..Len(s) /\ s[i] \in TaskItem
    BY FoundTask, DocIsSeq
  <2>2. p \in 0..(i - 1)
    BY <2>1, ParentIsLast
  <2>3. ParentId(s, i) = IF p = 0 THEN NoId ELSE s[p].id
    BY DEF ParentId
  <2> HIDE DEF p, i
  <2>4. p # 0 => s[p] \in Item
    BY <2>1, <2>2, DocIsSeq
  <2>5. ParentId(s, i) \in Ids \cup {NoId}
    BY <2>3, <2>4, ItemFields
  <2>6. s[i].title \in Titles /\ s[i].done \in BOOLEAN /\ s[i].closed \in BOOLEAN
    BY <2>1 DEF TaskItem
  <2>7. Node(s, i) = [parent |-> ParentId(s, i), title |-> s[i].title,
                      done |-> s[i].done, closed |-> s[i].closed]
    BY NodeIs
  <2>8. Node(s, i) \in Forest!Record
    BY <2>5, <2>6, <2>7 DEF Forest!Record
  <2> QED
    BY <2>8 DEF i
<1> QED
  BY <1>1, IdsAreIds DEF Tree

-----------------------------------------------------------------------------
(* What a change of some lines makes of the forest: the references outside *)
(* what was replaced stay, with all that is known of them, and the others  *)
(* are those of what has come for it.                                      *)
LEMMA FitsTree ==
  ASSUME NEW s, NEW n, NEW a, NEW b, NEW d, Fits(s, n, a, b, d),
         Unique(s), Unique(n)
  PROVE  /\ \A k \in Named(s) : k \notin a..(b - 1) =>
               /\ s[k].id \in IdsIn(n)
               /\ Tree(n)[s[k].id] = Tree(s)[s[k].id]
         /\ \A k \in Named(n) :
               \/ k \in a..(b + d - 1)
               \/ \E j \in Named(s) : j \notin a..(b - 1) /\ s[j].id = n[k].id
<1>1. /\ s \in Doc /\ n \in Doc /\ Len(s) \in Nat /\ Len(n) \in Nat
      /\ a \in 1..(Len(s) + 1) /\ b \in a..(Len(s) + 1) /\ d \in Int
      /\ a <= b + d /\ Len(n) = Len(s) + d
      /\ Moved(s, n, a, b, d)
  BY DocIsSeq DEF Fits, Moved
<1>2. Named(s) \subseteq 1..Len(s) /\ Named(n) \subseteq 1..Len(n)
  BY <1>1, IdsAreIds
<1>3. ASSUME NEW k \in Named(s), k \notin a..(b - 1)
      PROVE  s[k].id \in IdsIn(n) /\ Tree(n)[s[k].id] = Tree(s)[s[k].id]
  <2>1. Tree(s)[s[k].id] = Node(s, k) /\ k \in Tasks(s) /\ s[k].id # NoId
    BY <1>1, TreeAt DEF Named
  <2>2. k < a \/ k >= b
    BY <1>1, <1>2, <1>3
  <2>3. CASE k < a
    <3>1. k \in 1..(a - 1)
      BY <1>1, <1>2, <2>3
    <3>2. n[k] = s[k] /\ k \in Tasks(n) /\ Node(n, k) = Node(s, k)
      BY <1>1, <2>1, <3>1, MovedTasks, FitsNodes
    <3>3. k \in Named(n)
      BY <2>1, <3>2 DEF Named
    <3> QED
      BY <1>1, <2>1, <3>2, <3>3, TreeAt
  <2>4. CASE k >= b
    <3>1. k \in b..Len(s)
      BY <1>1, <1>2, <2>4
    <3>2. n[k + d] = s[k] /\ k + d \in Tasks(n) /\ Node(n, k + d) = Node(s, k)
      BY <1>1, <2>1, <3>1, MovedTasks, FitsNodes
    <3>3. k + d \in Named(n)
      BY <2>1, <3>2 DEF Named
    <3> QED
      BY <1>1, <2>1, <3>2, <3>3, TreeAt
  <2> QED
    BY <2>2, <2>3, <2>4
<1>4. ASSUME NEW k \in Named(n), k \notin a..(b + d - 1)
      PROVE  \E j \in Named(s) : j \notin a..(b - 1) /\ s[j].id = n[k].id
  <2>1. k \in Tasks(n) /\ n[k].id # NoId /\ k \in 1..Len(n)
    BY <1>2 DEF Named
  <2>2. k < a \/ k >= b + d
    BY <1>1, <1>4, <2>1
  <2>3. CASE k < a
    <3>1. k \in 1..(a - 1) /\ k \notin a..(b - 1)
      BY <1>1, <2>1, <2>3
    <3>2. n[k] = s[k] /\ k \in Tasks(s)
      BY <1>1, <2>1, <3>1, MovedTasks
    <3> QED
      BY <2>1, <3>1, <3>2 DEF Named
  <2>4. CASE k >= b + d
    <3> DEFINE j == k - d
    <3>1. j \in b..Len(s) /\ j \notin a..(b - 1) /\ j + d = k
      BY <1>1, <2>1, <2>4
    <3> HIDE DEF j
    <3>2. n[j + d] = s[j] /\ (j + d \in Tasks(n) <=> j \in Tasks(s))
      BY <1>1, <3>1, MovedTasks
    <3>3. j \in Named(s) /\ s[j].id = n[k].id
      BY <2>1, <3>1, <3>2 DEF Named
    <3> QED
      BY <3>1, <3>3
  <2> QED
    BY <2>2, <2>3, <2>4
<1> QED
  BY <1>3, <1>4

(* Nothing that has a reference has come: the forest is the same.          *)
LEMMA InsertedUnnamed ==
  ASSUME NEW s, NEW n, NEW a, NEW d, Fits(s, n, a, a, d),
         Unique(s), Unique(n), \A k \in a..(a + d - 1) : k \notin Named(n)
  PROVE  Tree(n) = Tree(s)
<1>1. s \in Doc /\ n \in Doc /\ a \in Nat
  BY DocIsSeq DEF Fits, Moved
<1>2. \A k : k \notin a..(a - 1)
  BY <1>1
<1>3. /\ \A k \in Named(s) : /\ s[k].id \in IdsIn(n)
                             /\ Tree(n)[s[k].id] = Tree(s)[s[k].id]
      /\ \A k \in Named(n) : \E j \in Named(s) : s[j].id = n[k].id
  BY <1>2, FitsTree
<1>4. /\ IdsIn(n) = IdsIn(s)
      /\ \A id \in IdsIn(s) : Tree(n)[id] = Tree(s)[id]
  BY <1>3 DEF IdsIn
<1> QED
  BY <1>1, <1>4, TreeAt

(* One reminder has come, between headings if not alone.                   *)
LEMMA InsertedNamed ==
  ASSUME NEW s, NEW n, NEW a, NEW d, Fits(s, n, a, a, d),
         Unique(s), Unique(n), Unnamed(s) = {},
         NEW p \in a..(a + d - 1), p \in Named(n),
         \A k \in a..(a + d - 1) : k # p => n[k].kind = "heading",
         n[p].id \notin IdsIn(s), n[p].done = FALSE, n[p].closed = FALSE
  PROVE  Forest!Create(Tree(s), Tree(n))
<1> DEFINE new == n[p].id
           node == [parent |-> ParentId(n, p), title |-> n[p].title,
                    done |-> FALSE, closed |-> FALSE]
<1>1. /\ s \in Doc /\ n \in Doc /\ Len(s) \in Nat /\ Len(n) \in Nat
      /\ a \in 1..(Len(s) + 1) /\ d \in Int
      /\ Len(n) = Len(s) + d /\ Moved(s, n, a, a, d)
  BY DocIsSeq DEF Fits, Moved
<1>2. \A k : k \notin a..(a - 1)
  BY <1>1
<1>3. /\ \A k \in Named(s) : /\ s[k].id \in IdsIn(n)
                             /\ Tree(n)[s[k].id] = Tree(s)[s[k].id]
      /\ \A k \in Named(n) : \/ k \in a..(a + d - 1)
                             \/ \E j \in Named(s) : s[j].id = n[k].id
  BY <1>2, FitsTree
<1>4. /\ new \in IdsIn(n) /\ Tree(n)[new] = Node(n, p)
      /\ p \in 1..Len(n) /\ p \in Tasks(n)
  BY <1>1, TreeAt, IdsAreIds DEF Named
<1>5. Node(n, p) = node
  BY NodeIs
<1>6. \A k \in a..(a + d - 1) : k \in Tasks(n) => k = p
  BY DEF Tasks
<1>7. IdsIn(n) = IdsIn(s) \cup {new}
  <2>1. IdsIn(s) \subseteq IdsIn(n)
    BY <1>3 DEF IdsIn
  <2>2. ASSUME NEW k \in Named(n) PROVE n[k].id \in IdsIn(s) \cup {new}
    <3>1. k \in Tasks(n)
      BY DEF Named
    <3> QED
      BY <1>3, <1>6, <3>1 DEF IdsIn
  <2> QED
    BY <1>4, <2>1, <2>2 DEF IdsIn
<1>8. ParentId(n, p) \in IdsIn(s) \cup {NoId}
  <2> DEFINE q == Parent(n, p)
  <2>1. CASE q = 0
    BY <2>1 DEF ParentId
  <2>2. CASE q # 0
    <3>1. q \in Tasks(n) /\ q < p
      BY <1>1, <1>4, <2>2, ParentIsTask
    <3>2. ParentId(n, p) = n[q].id
      BY <2>2 DEF ParentId
    <3> HIDE DEF q
    <3>3. q \notin a..(a + d - 1) /\ q \in 1..Len(n)
      BY <1>1, <1>4, <1>6, <3>1, DocIsSeq DEF Tasks
    <3>4. q \in 1..(a - 1)
      BY <1>1, <1>4, <3>1, <3>3
    <3>5. n[q] = s[q] /\ q \in Tasks(s)
      BY <1>1, <3>1, <3>4, MovedTasks
    <3>6. q \in Named(s)
      BY <3>5 DEF Unnamed, Named
    <3> QED
      BY <3>2, <3>5, <3>6 DEF IdsIn
  <2> QED
    BY <2>1, <2>2
<1>9. n[p].title \in Titles
  BY <1>1, <1>4, DocIsSeq, ItemFields DEF Tasks
<1>10. new \in IdsIn(n) \ IdsIn(s)
  BY <1>4
<1>11. Tree(n) = [j \in IdsIn(s) \cup {new} |->
                    IF j = new THEN node ELSE Tree(s)[j]]
  <2>1. \A j \in IdsIn(s) : Tree(n)[j] = Tree(s)[j]
    BY <1>3 DEF IdsIn
  <2>2. \A j \in IdsIn(s) \cup {new} :
           Tree(n)[j] = IF j = new THEN node ELSE Tree(s)[j]
    BY <1>4, <1>5, <1>10, <2>1
  <2>3. Tree(n) = [j \in IdsIn(n) |-> Tree(n)[j]]
    BY <1>1, TreeAt
  <2> HIDE DEF node, new
  <2> QED
    BY <1>7, <2>2, <2>3
<1>12. DOMAIN Tree(s) = IdsIn(s) /\ DOMAIN Tree(n) = IdsIn(n)
  BY <1>1, TreeAt
<1> DEFINE f == Tree(s)
           g == Tree(n)
           q == ParentId(n, p)
           t == n[p].title
<1>13. /\ q \in DOMAIN f \cup {NoId} /\ t \in Titles
       /\ new \in DOMAIN g \ DOMAIN f
       /\ g = [j \in DOMAIN f \cup {new} |->
                 IF j = new THEN [parent |-> q, title |-> t,
                                  done |-> FALSE, closed |-> FALSE]
                 ELSE f[j]]
  BY <1>8, <1>9, <1>10, <1>11, <1>12
<1> HIDE DEF new, f, g, q, t
<1>14. Forest!Create(f, g)
  BY <1>13 DEF Forest!Create
<1> QED
  BY <1>14 DEF f, g

(* A block goes, and with it what is nested in it.                         *)
LEMMA RemovedFits ==
  ASSUME NEW s \in Doc, NEW i \in 1..Len(s), s[i].kind = "task"
  PROVE  Fits(s, RemoveBlock(s, i), i, End(s, i), i - End(s, i))
<1> DEFINE e == End(s, i)
<1>1. /\ Len(s) \in Nat /\ e \in (i + 1)..(Len(s) + 1)
      /\ \A k \in (i + 1)..(e - 1) : Above(s, i, k)
      /\ e <= Len(s) => ~Above(s, i, e)
  BY DocIsSeq, EndInRange
<1>2. Moved(s, RemoveBlock(s, i), i, e, i - e)
  BY RemovedBlock
<1> HIDE DEF e
<1>3. \A k \in 1..Len(s) : s[k].ind \in Nat
  BY DocIsSeq, ItemFields
<1>4. \A k \in i..(e - 1) : s[k].ind >= s[i].ind
  <2>1. ASSUME NEW k \in (i + 1)..(e - 1) PROVE s[k].ind > s[i].ind
    <3>1. Above(s, i, k) /\ k \in (i + 1)..k
      BY <1>1
    <3> QED
      BY <3>1 DEF Above
  <2>2. ASSUME NEW k \in i..(e - 1) PROVE k = i \/ k \in (i + 1)..(e - 1)
    BY <1>1
  <2>3. ASSUME NEW k \in i..(e - 1) PROVE k \in 1..Len(s)
    BY <1>1
  <2> QED
    BY <1>3, <2>1, <2>2, <2>3
<1>5. ASSUME e <= Len(s), s[e].kind # "heading" PROVE s[e].ind <= s[i].ind
  <2>1. e \in 1..Len(s) /\ e \in Nat /\ i \in Nat /\ i < e
    BY <1>1, <1>5
  <2>2. s[e].ind \in Nat /\ s[i].ind \in Nat /\ (s[e].kind = "task" \/ s[e].ind = 0)
    <3>1. s[e] \in Item
      BY <2>1, DocIsSeq
    <3>2. s[e].kind = "task" \/ s[e].ind = 0
      BY <1>5, <3>1, ItemFields
    <3> QED
      BY <1>3, <2>1, <3>2
  <2>3. PICK k \in (i + 1)..e : ~(s[k].kind = "task" /\ s[k].ind > s[i].ind)
    BY <1>1, <1>5, <2>1 DEF Above
  <2>4. k \in (i + 1)..(e - 1) => s[k].kind = "task" /\ s[k].ind > s[i].ind
    <3>1. ASSUME k \in (i + 1)..(e - 1) PROVE Above(s, i, k) /\ k \in (i + 1)..k
      BY <1>1, <3>1
    <3> QED
      BY <3>1 DEF Above
  <2>5. k = e
    BY <2>1, <2>3, <2>4
  <2> QED
    BY <2>2, <2>3, <2>5
<1>6. ASSUME e <= Len(s)
      PROVE  \/ s[e].kind = "heading"
             \/ /\ \A k \in i..(e - 1) : s[k].ind >= s[e].ind
                /\ \A k \in i..(e + (i - e) - 1) : FALSE
  <2>1. e + (i - e) - 1 = i - 1
    BY <1>1
  <2>2. e \in 1..Len(s) /\ \A k \in i..(e - 1) : k \in 1..Len(s)
    BY <1>1, <1>6
  <2>3. \A k \in i..(e + (i - e) - 1) : FALSE
    BY <1>1, <2>1
  <2>4. ASSUME s[e].kind # "heading", NEW k \in i..(e - 1) PROVE s[k].ind >= s[e].ind
    <3>1. s[k].ind >= s[i].ind /\ s[e].ind <= s[i].ind
      BY <1>4, <1>5, <1>6, <2>4
    <3>2. s[k].ind \in Nat /\ s[e].ind \in Nat /\ s[i].ind \in Nat
      BY <1>3, <2>2
    <3> QED
      BY <3>1, <3>2
  <2> QED
    BY <2>3, <2>4
<1> DEFINE n == RemoveBlock(s, i)
           d == i - e
<1>7. ASSUME e <= Len(s)
      PROVE  \/ s[e].kind = "heading"
             \/ /\ \A k \in i..(e - 1) : s[k].ind >= s[e].ind
                /\ \A k \in i..(e + d - 1) : n[k].ind >= s[e].ind
  BY <1>6, <1>7
<1>8. Moved(s, n, i, e, d)
  BY <1>2
<1> HIDE DEF n, d
<1>9. Fits(s, n, i, e, d)
  BY <1>7, <1>8 DEF Fits
<1> QED
  BY <1>9 DEF e, n, d

LEMMA RemovedTree ==
  ASSUME NEW s \in Doc, NEW i \in 1..Len(s), s[i].kind = "task", Unique(s)
  PROVE  LET f == Tree(s)
             g == Tree(RemoveBlock(s, i))
         IN  /\ Forest!Prune(f, g)
             /\ i \in Named(s) /\ Unnamed(s) = {} => Forest!Delete(f, g, s[i].id)
<1> DEFINE n == RemoveBlock(s, i)
           e == End(s, i)
           f == Tree(s)
           g == Tree(n)
           gone == {k \in Named(s) : k \in i..(e - 1)}
           D == {s[k].id : k \in gone}
<1>1. /\ Len(s) \in Nat /\ e \in (i + 1)..(Len(s) + 1)
      /\ \A k \in (i + 1)..(e - 1) : Above(s, i, k)
  BY DocIsSeq, EndInRange
<1>2. Fits(s, n, i, e, i - e) /\ n \in Doc /\ Unique(n)
  BY RemovedFits, RemovedBlock
<1>3. \A k : k \notin i..(e + (i - e) - 1)
  BY <1>1
<1> HIDE DEF n, e
<1>4. /\ \A k \in Named(s) : k \notin gone =>
            s[k].id \in IdsIn(n) /\ g[s[k].id] = f[s[k].id]
      /\ \A k \in Named(n) :
            \E j \in Named(s) : j \notin gone /\ s[j].id = n[k].id
  BY <1>2, <1>3, FitsTree
<1>5. /\ DOMAIN f = IdsIn(s) /\ DOMAIN g = IdsIn(n)
      /\ g = [id \in IdsIn(n) |-> g[id]]
      /\ \A k \in Named(s) : s[k].id \in IdsIn(s) /\ f[s[k].id] = Node(s, k)
  BY <1>2, TreeAt
<1>6. \A k \in Named(s) : k \in gone <=> s[k].id \in D
  BY DEF Unique
<1> HIDE DEF gone, D
<1>7. IdsIn(n) = IdsIn(s) \ D
  <2>1. \A id \in IdsIn(n) : id \in IdsIn(s) /\ id \notin D
    BY <1>4, <1>6 DEF IdsIn
  <2>2. \A id \in IdsIn(s) : id \notin D => id \in IdsIn(n)
    BY <1>4, <1>6 DEF IdsIn
  <2> QED
    BY <2>1, <2>2
<1>8. \A id \in IdsIn(n) : g[id] = f[id]
  <2>1. ASSUME NEW id \in IdsIn(n) PROVE g[id] = f[id]
    <3>1. id \in IdsIn(s) /\ id \notin D
      BY <1>7
    <3>2. PICK k \in Named(s) : s[k].id = id
      BY <3>1 DEF IdsIn
    <3> QED
      BY <1>4, <1>6, <3>1, <3>2
  <2> QED
    BY <2>1
<1>9. D \subseteq IdsIn(s) /\ DOMAIN f \ DOMAIN g = D
  <2>1. D \subseteq IdsIn(s)
    BY DEF D, gone, IdsIn
  <2> QED
    BY <1>5, <1>7, <2>1
<1>10. g = [id \in DOMAIN f \ D |-> f[id]]
  <2> HIDE DEF f, g
  <2> QED
    BY <1>5, <1>7, <1>8
<1>11. ASSUME NEW k \in Named(s)
       PROVE  /\ k \in Tasks(s) /\ k \in 1..Len(s)
              /\ f[s[k].id].parent = ParentId(s, k)
              /\ ParentId(s, k) \in D => /\ Parent(s, k) \in gone
                                         /\ Parent(s, k) < k
  <2> DEFINE p == Parent(s, k)
  <2>1. k \in Tasks(s) /\ k \in 1..Len(s)
    BY IdsAreIds DEF Named
  <2>2. f[s[k].id].parent = ParentId(s, k)
    BY <1>5, NodeIs
  <2>3. ASSUME ParentId(s, k) \in D PROVE p \in gone /\ p < k
    <3>1. ParentId(s, k) # NoId
      BY <1>9, <2>3, IdsAreIds, IdsAssumption DEF IdsAssumption
    <3>2. p # 0 /\ ParentId(s, k) = s[p].id
      BY <3>1 DEF ParentId
    <3>3. p \in Tasks(s) /\ p < k
      BY <2>1, <3>2, ParentIsTask
    <3>4. p \in Named(s)
      BY <3>1, <3>2, <3>3 DEF Named
    <3> QED
      BY <1>6, <2>3, <3>2, <3>3, <3>4
  <2> QED
    BY <2>1, <2>2, <2>3
<1>12. ASSUME NEW id \in DOMAIN f, f[id].parent \in D PROVE id \in D
  <2>1. PICK k \in Named(s) : s[k].id = id
    BY <1>5, <1>12 DEF IdsIn
  <2> DEFINE p == Parent(s, k)
  <2>2. k \in 1..Len(s) /\ p \in gone /\ p < k
    BY <1>11, <1>12, <2>1
  <2>3. p \in i..(e - 1)
    BY <2>2 DEF gone
  <2>4. \A j \in e..Len(s) : \/ Parent(s, j) \in 0..(i - 1)
                             \/ Parent(s, j) \in e..Len(s)
    BY <1>2, FitsParent
  <2>5. k \notin e..Len(s)
    BY <1>1, <2>3, <2>4
  <2>6. k \in i..(e - 1)
    BY <1>1, <2>2, <2>3, <2>5
  <2> QED
    BY <1>6, <2>1, <2>6 DEF gone
<1>13. Forest!Prune(f, g)
  <2> HIDE DEF f, g
  <2> QED
    BY <1>9, <1>10, <1>12 DEF Forest!Prune
<1>14. ASSUME i \in Named(s), Unnamed(s) = {}
       PROVE  Forest!Delete(f, g, s[i].id)
  <2>1. i \in gone /\ s[i].id \in D
    <3>1. i \in i..(e - 1)
      BY <1>1
    <3> QED
      BY <1>6, <1>14, <3>1 DEF gone
  <2>2. ASSUME NEW k \in gone, k # i PROVE ParentId(s, k) \in D
    <3> DEFINE p == Parent(s, k)
    <3>1. k \in Named(s) /\ k \in (i + 1)..(e - 1) /\ k \in Tasks(s)
          /\ k \in 1..Len(s)
      <4>1. k \in Named(s) /\ k \in i..(e - 1)
        BY DEF gone
      <4> QED
        BY <1>1, <1>11, <2>2, <4>1
    <3>2. Above(s, i, k) /\ i \in 1..(k - 1)
      BY <1>1, <3>1
    <3>3. i \in Ancestors(s, k)
      BY <3>2 DEF Ancestors
    <3>4. i <= p /\ p \in 0..(k - 1)
      BY <3>1, <3>3, ParentIsLast
    <3>5. p # 0 /\ p \in i..(e - 1)
      BY <1>1, <3>1, <3>4
    <3>6. p \in Tasks(s) /\ ParentId(s, k) = s[p].id
      BY <3>1, <3>5, ParentIsTask DEF ParentId
    <3>7. p \in Named(s)
      BY <1>14, <3>6 DEF Unnamed, Named
    <3> QED
      BY <1>6, <3>5, <3>6, <3>7 DEF gone
  <2>3. ASSUME NEW id \in D PROVE id = s[i].id \/ f[id].parent \in D
    <3>1. PICK k \in gone : id = s[k].id
      BY DEF D
    <3>2. k \in Named(s)
      BY DEF gone
    <3> QED
      BY <1>11, <2>2, <3>1, <3>2
  <2>4. D = {s[i].id} \cup {j \in DOMAIN f : f[j].parent \in D}
    BY <1>5, <1>9, <1>12, <2>1, <2>3
  <2> HIDE DEF f, g
  <2> QED
    BY <1>9, <1>10, <2>4 DEF Forest!Delete
<1> QED
  BY <1>13, <1>14 DEF n

-----------------------------------------------------------------------------
(* A note whose lines are changed but not nested otherwise.                *)
SameNesting(s, n) ==
  /\ SameShape(s, n)
  /\ \A k \in 1..Len(s) : n[k].id = s[k].id /\ Parent(n, k) = Parent(s, k)

LEMMA SameNestingSameParents ==
  ASSUME NEW s, NEW n, SameNesting(s, n)
  PROVE  /\ Tasks(n) = Tasks(s) /\ Named(n) = Named(s) /\ IdsIn(n) = IdsIn(s)
         /\ Unique(s) => Unique(n)
         /\ \A k \in 1..Len(s) : ParentId(n, k) = ParentId(s, k)
<1>1. /\ s \in Doc /\ n \in Doc /\ Len(n) = Len(s) /\ Len(s) \in Nat
      /\ SameShape(s, n)
      /\ \A k \in 1..Len(s) : n[k].id = s[k].id /\ Parent(n, k) = Parent(s, k)
  BY DocIsSeq DEF SameNesting, SameShape
<1>2. IdsIn(n) = IdsIn(s) /\ (Unique(s) => Unique(n)) /\ Tasks(n) = Tasks(s)
  BY <1>1, SameShapeSameIds, SameShapeSameTasks
<1>3. Named(n) = Named(s)
  <2>1. \A k \in Tasks(s) : k \in 1..Len(s)
    BY <1>1, DocIsSeq DEF Tasks
  <2> QED
    BY <1>1, <1>2, <2>1 DEF Named
<1>4. ASSUME NEW k \in 1..Len(s) PROVE ParentId(n, k) = ParentId(s, k)
  <2>1. Parent(s, k) \in 0..(k - 1)
    BY <1>1, ParentIsLast
  <2>2. Parent(s, k) = 0 \/ n[Parent(s, k)].id = s[Parent(s, k)].id
    BY <1>1, <2>1
  <2> QED
    BY <1>1, <2>2 DEF ParentId
<1> QED
  BY <1>2, <1>3, <1>4

(* Only the task at i has other fields.                                    *)
LEMMA OneRecordChanges ==
  ASSUME NEW s, NEW n, SameNesting(s, n), Unique(s), NEW i \in Named(s),
         \A k \in 1..Len(s) \ {i} : /\ n[k].title = s[k].title
                                    /\ n[k].done = s[k].done
                                    /\ n[k].closed = s[k].closed
  PROVE  /\ s[i].id \in DOMAIN Tree(s)
         /\ Tree(s)[s[i].id] = Node(s, i)
         /\ Tree(n) = [Tree(s) EXCEPT ![s[i].id] =
                         [parent |-> @.parent, title |-> n[i].title,
                          done |-> n[i].done, closed |-> n[i].closed]]
<1> DEFINE id == s[i].id
           f == Tree(s)
           new == [parent |-> f[id].parent, title |-> n[i].title,
                   done |-> n[i].done, closed |-> n[i].closed]
<1>1. s \in Doc /\ n \in Doc /\ \A k \in 1..Len(s) : n[k].id = s[k].id
  BY DEF SameNesting, SameShape
<1>2. /\ Named(n) = Named(s) /\ IdsIn(n) = IdsIn(s) /\ Unique(n)
      /\ \A k \in 1..Len(s) : ParentId(n, k) = ParentId(s, k)
      /\ Named(s) \subseteq 1..Len(s)
  BY <1>1, SameNestingSameParents, IdsAreIds
<1>3. /\ DOMAIN f = IdsIn(s) /\ f = [j \in IdsIn(s) |-> f[j]]
      /\ Tree(n) = [j \in IdsIn(s) |-> Tree(n)[j]]
      /\ id \in IdsIn(s) /\ f[id] = Node(s, i)
      /\ \A k \in Named(s) : f[s[k].id] = Node(s, k)
      /\ \A k \in Named(s) : Tree(n)[s[k].id] = Node(n, k)
  BY <1>1, <1>2, TreeAt
<1>4. Node(n, i) = new
  <2>1. Node(n, i) = [parent |-> ParentId(s, i), title |-> n[i].title,
                      done |-> n[i].done, closed |-> n[i].closed]
    BY <1>2, NodeIs
  <2>2. f[id] = [parent |-> ParentId(s, i), title |-> s[i].title,
                 done |-> s[i].done, closed |-> s[i].closed]
    BY <1>3, NodeIs
  <2>3. f[id].parent = ParentId(s, i)
    BY <2>2
  <2> QED
    BY <2>1, <2>3
<1>5. ASSUME NEW j \in IdsIn(s), j # id PROVE Tree(n)[j] = f[j]
  <2>1. PICK k \in Named(s) : s[k].id = j
    BY DEF IdsIn
  <2>2. k \in 1..Len(s) \ {i}
    BY <1>2, <1>5, <2>1
  <2>3. Node(n, k) = Node(s, k)
    BY <1>2, <2>2, NodeIs
  <2> QED
    BY <1>3, <2>1, <2>3
<1>6. Tree(n)[id] = new
  BY <1>3, <1>4
<1> HIDE DEF new, id, f
<1>7. Tree(n) = [f EXCEPT ![id] = new]
  BY <1>3, <1>5, <1>6
<1> QED
  BY <1>3, <1>7 DEF new, id, f

LEMMA SameIndentSameParents ==
  ASSUME NEW s \in Doc, NEW n \in Doc, Len(n) = Len(s),
         \A k \in 1..Len(s) : n[k].kind = s[k].kind /\ n[k].ind = s[k].ind
  PROVE  \A i \in 1..Len(s) : Parent(n, i) = Parent(s, i)
<1>1. /\ Len(s) \in Nat /\ s \in Doc /\ n \in Doc /\ Len(n) = Len(s)
      /\ \A k \in 1..Len(s) : n[k].kind = s[k].kind /\ n[k].ind = s[k].ind
  BY DocIsSeq
<1>2. ASSUME NEW i \in 1..Len(s) PROVE Parent(n, i) = Parent(s, i)
  <2>1. ASSUME NEW j PROVE j \in Ancestors(n, i) <=> j \in Ancestors(s, i)
    <3> i \in Nat /\ s \in Doc /\ n \in Doc
      BY <1>1
    <3>1. j \in Ancestors(s, i) <=>
             /\ j \in 1..(i - 1) /\ s[j].kind = "task"
             /\ \A k \in (j + 1)..i : s[k].kind = "task" /\ s[k].ind > s[j].ind
      BY AncestorIs
    <3>2. j \in Ancestors(n, i) <=>
             /\ j \in 1..(i - 1) /\ n[j].kind = "task"
             /\ \A k \in (j + 1)..i : n[k].kind = "task" /\ n[k].ind > n[j].ind
      BY AncestorIs
    <3>3. ASSUME j \in 1..(i - 1)
          PROVE  /\ n[j].kind = s[j].kind /\ n[j].ind = s[j].ind
                 /\ \A k \in (j + 1)..i : n[k].kind = s[k].kind
                                          /\ n[k].ind = s[k].ind
      BY <1>1, <3>3
    <3> QED
      BY <3>1, <3>2, <3>3
  <2>2. Ancestors(n, i) = Ancestors(s, i)
    BY <2>1
  <2> QED
    BY <2>2, SameAncestorsSameParent
<1> QED
  BY <1>2

LEMMA SameIndentSameNesting ==
  ASSUME NEW s, NEW n, SameShape(s, n),
         \A k \in 1..Len(s) : n[k].id = s[k].id /\ n[k].ind = s[k].ind
  PROVE  SameNesting(s, n)
<1>1. /\ s \in Doc /\ n \in Doc /\ Len(n) = Len(s)
      /\ \A k \in 1..Len(s) : n[k].kind = s[k].kind /\ n[k].ind = s[k].ind
  BY DEF SameShape
<1> QED
  BY <1>1, SameIndentSameParents DEF SameNesting

(* No task that has an ID has other fields.                                *)
LEMMA SameRecords ==
  ASSUME NEW s, NEW n, SameNesting(s, n), Unique(s),
         \A k \in Named(s) : /\ n[k].title = s[k].title
                             /\ n[k].done = s[k].done
                             /\ n[k].closed = s[k].closed
  PROVE  Tree(n) = Tree(s)
<1>1. s \in Doc /\ n \in Doc /\ \A k \in 1..Len(s) : n[k].id = s[k].id
  BY DEF SameNesting, SameShape
<1>2. /\ Named(n) = Named(s) /\ IdsIn(n) = IdsIn(s) /\ Unique(n)
      /\ \A k \in 1..Len(s) : ParentId(n, k) = ParentId(s, k)
      /\ Named(s) \subseteq 1..Len(s)
  BY <1>1, SameNestingSameParents, IdsAreIds
<1>3. \A k \in Named(s) : Node(n, k) = Node(s, k)
  BY <1>2, NodeIs
<1>4. \A k \in Named(s) : Tree(n)[s[k].id] = Tree(s)[s[k].id]
  BY <1>1, <1>2, <1>3, TreeAt
<1>5. \A id \in IdsIn(s) : Tree(n)[id] = Tree(s)[id]
  BY <1>4 DEF IdsIn
<1> QED
  BY <1>1, <1>2, <1>5, TreeAt

(* Within a block a task is nested below another if all from the one to    *)
(* the other are nested deeper, whatever their indentation.                *)
LEMMA DepthMeansAbove ==
  ASSUME NEW s \in Doc, NEW i \in 1..Len(s), s[i].kind = "task",
         NEW j \in i..(End(s, i) - 1), NEW k \in (j + 1)..(End(s, i) - 1)
  PROVE  j \in Ancestors(s, k) <=>
            \A l \in (j + 1)..k : Depth(s, l) > Depth(s, j)
<1>1. /\ Len(s) \in Nat /\ i \in Nat /\ End(s, i) \in (i + 1)..(Len(s) + 1)
      /\ \A l \in i..(End(s, i) - 1) : s[l].kind = "task"
  BY DocIsSeq, EndInRange, BlockIsTasks
<1>2. /\ j \in 1..Len(s) /\ k \in 1..Len(s) /\ j \in Nat /\ k \in Nat /\ j < k
      /\ \A l \in j..k : l \in 1..Len(s) /\ s[l].kind = "task"
  BY <1>1
<1>3. \A l \in 1..Len(s) : s[l].ind \in Nat /\ IsFiniteSet(Ancestors(s, l))
                           /\ Depth(s, l) \in Nat
  BY DocIsSeq, ItemFields, DepthIsNat
<1>4. ASSUME j \in Ancestors(s, k), NEW l \in (j + 1)..k
      PROVE  Depth(s, l) > Depth(s, j)
  <2>1. l \in j..k /\ l \in 1..Len(s) /\ j \in 1..(l - 1)
    BY <1>2
  <2>2. \A m \in (j + 1)..k : s[m].kind = "task" /\ s[m].ind > s[j].ind
    BY <1>2, <1>4, AncestorIs
  <2>3. j \in Ancestors(s, l)
    <3>1. \A m \in (j + 1)..l : m \in (j + 1)..k
      BY <1>2
    <3>2. l \in Nat /\ s[j].kind = "task"
      BY <1>2, <2>1
    <3>3. \A m \in (j + 1)..l : s[m].kind = "task" /\ s[m].ind > s[j].ind
      BY <2>2, <3>1
    <3> QED
      BY <2>1, <3>2, <3>3, AncestorIs
  <2>4. Above(s, j, l)
    BY <2>3 DEF Ancestors
  <2>5. ASSUME NEW m \in Ancestors(s, j) PROVE m \in Ancestors(s, l)
    <3>1. m \in 1..(j - 1) /\ s[m].kind = "task" /\ Above(s, m, j)
      BY DEF Ancestors
    <3>2. m \in 1..Len(s) /\ m \in 1..(l - 1)
      BY <1>2, <2>1, <3>1
    <3>3. Above(s, m, l)
      BY <1>2, <2>1, <2>4, <3>1, <3>2, AboveIsTransitive
    <3> QED
      BY <3>1, <3>2, <3>3 DEF Ancestors
  <2>6. j \notin Ancestors(s, j)
    BY <1>2 DEF Ancestors
  <2> DEFINE A == Ancestors(s, j)
             B == Ancestors(s, l)
  <2>7. A \cup {j} \subseteq B /\ IsFiniteSet(A) /\ IsFiniteSet(B) /\ j \notin A
    BY <1>2, <1>3, <2>1, <2>3, <2>5, <2>6
  <2> HIDE DEF A, B
  <2>8. Cardinality(A \cup {j}) = Cardinality(A) + 1 /\ IsFiniteSet(A \cup {j})
    BY <2>7, FS_AddElement
  <2>9. Cardinality(A \cup {j}) <= Cardinality(B)
    BY <2>7, FS_Subset
  <2>10. Depth(s, j) = Cardinality(A) /\ Depth(s, l) = Cardinality(B)
    BY DEF Depth, A, B
  <2>11. Depth(s, j) \in Nat /\ Depth(s, l) \in Nat
    BY <1>2, <1>3, <2>1
  <2> QED
    BY <2>8, <2>9, <2>10, <2>11
<1>5. ASSUME j \notin Ancestors(s, k)
      PROVE  \E l \in (j + 1)..k : Depth(s, l) <= Depth(s, j)
  <2> DEFINE T == {l \in (j + 1)..k : s[l].ind <= s[j].ind}
             l == Min(T)
  <2>1. T # {} /\ T \subseteq Nat
    <3>1. ~(\A m \in (j + 1)..k : s[m].kind = "task" /\ s[m].ind > s[j].ind)
      BY <1>2, <1>5, AncestorIs
    <3>2. PICK m \in (j + 1)..k : ~(s[m].ind > s[j].ind)
      BY <1>2, <3>1
    <3>3. s[m].ind \in Nat /\ s[j].ind \in Nat
      BY <1>2, <1>3
    <3>4. m \in T
      BY <3>2, <3>3
    <3> QED
      BY <1>2, <3>4
  <2>2. l \in T /\ \A y \in T : l <= y
    <3> HIDE DEF T
    <3> QED
      BY <2>1, MinIsLeast
  <2> HIDE DEF l
  <2>3. l \in (j + 1)..k /\ l \in 1..Len(s) /\ s[l].ind <= s[j].ind
        /\ s[l].ind \in Nat /\ s[j].ind \in Nat
    BY <1>2, <1>3, <2>2
  <2>4. ASSUME NEW m \in (j + 1)..(l - 1) PROVE s[m].ind > s[j].ind
    <3>1. m \in (j + 1)..k /\ ~(l <= m) /\ m \in 1..Len(s)
      BY <1>2, <2>3
    <3>2. s[m].ind \in Nat
      BY <1>3, <3>1
    <3>3. m \notin T
      BY <2>2, <3>1
    <3> QED
      BY <2>3, <3>1, <3>2, <3>3
  <2> HIDE DEF T
  <2>5. ASSUME NEW m \in Ancestors(s, l) PROVE m \in Ancestors(s, j)
    <3>1. /\ m \in 1..(l - 1) /\ s[m].kind = "task"
          /\ \A x \in (m + 1)..l : s[x].kind = "task" /\ s[x].ind > s[m].ind
      BY <2>3, AncestorIs
    <3>2. m \in 1..Len(s) /\ s[m].ind \in Nat /\ l \in (m + 1)..l
      BY <1>3, <2>3, <3>1
    <3>3. s[l].ind > s[m].ind
      BY <3>1, <3>2
    <3>4. ~(s[m].ind > s[j].ind) /\ m # j
      BY <2>3, <3>2, <3>3
    <3>5. m \notin (j + 1)..(l - 1)
      BY <2>4, <3>4
    <3>6. m \in 1..(j - 1)
      BY <1>2, <2>3, <3>1, <3>4, <3>5
    <3>7. \A x \in (m + 1)..j : x \in (m + 1)..l
      BY <1>2, <2>3, <3>6
    <3> QED
      BY <1>2, <3>1, <3>6, <3>7, AncestorIs
  <2>6. IsFiniteSet(Ancestors(s, j)) /\ Ancestors(s, l) \subseteq Ancestors(s, j)
    BY <1>2, <1>3, <2>5
  <2>7. Depth(s, l) <= Depth(s, j)
    BY <2>6, FS_Subset DEF Depth
  <2> QED
    BY <2>3, <2>7
<1>6. ASSUME NEW l \in (j + 1)..k, Depth(s, l) <= Depth(s, j)
      PROVE  ~(Depth(s, l) > Depth(s, j))
  <2>1. Depth(s, l) \in Nat /\ Depth(s, j) \in Nat
    BY <1>2, <1>3
  <2> QED
    BY <1>6, <2>1
<1> QED
  BY <1>4, <1>5, <1>6

(* So rendering a block nests its tasks as they were nested.               *)
LEMMA ReplaceBlockNests ==
  ASSUME NEW s \in Doc, NEW i \in 1..Len(s), s[i].kind = "task"
  PROVE  SameNesting(s, ReplaceBlock(s, i))
<1> DEFINE e == End(s, i)
           n == ReplaceBlock(s, i)
           w(k) == s[i].ind + IndentUnit * (Depth(s, k) - Depth(s, i))
<1>1. /\ Len(s) \in Nat /\ e \in (i + 1)..(Len(s) + 1) /\ i \in Nat /\ e \in Nat
      /\ \A k \in i..(e - 1) : s[k].kind = "task" /\ k \in 1..Len(s)
  BY DocIsSeq, EndInRange, BlockIsTasks
<1>2. /\ n \in Doc /\ Len(n) = Len(s)
      /\ \A k \in 1..(i - 1) : n[k] = s[k]
      /\ \A k \in e..Len(s) : n[k] = s[k]
      /\ \A k \in i..(e - 1) :
            s[k] \in TaskItem /\ n[k] = [s[k] EXCEPT !.ind = w(k)]
  BY ReplacedBlock
<1>3. /\ SameShape(s, n)
      /\ \A k \in 1..Len(s) : n[k].id = s[k].id /\ n[k].kind = s[k].kind
  BY ReplaceBlockKeeps DEF SameShape
<1>4. Fits(s, RemoveBlock(s, i), i, e, i - e)
  BY RemovedFits
<1>5. /\ \A k \in 1..Len(s) : s[k].ind \in Nat /\ Depth(s, k) \in Nat
      /\ \A k \in i..(e - 1) : Depth(s, i) <= Depth(s, k)
  BY DocIsSeq, ItemFields, DepthIsNat, DepthInBlock
<1> HIDE DEF n, e
<1>6. ASSUME NEW k \in i..(e - 1)
      PROVE  n[k].ind = w(k) /\ n[k].kind = "task" /\ w(k) \in Nat /\ w(k) >= s[i].ind
  <2>1. n[k].ind = w(k)
    <3> DEFINE v == w(k)
    <3>1. s[k] \in TaskItem /\ n[k] = [s[k] EXCEPT !.ind = v]
      BY <1>2
    <3> HIDE DEF v
    <3>2. n[k].ind = v
      BY <3>1 DEF TaskItem
    <3> QED
      BY <3>2 DEF v
  <2>2. s[i].ind \in Nat /\ Depth(s, k) \in Nat /\ Depth(s, i) \in Nat
        /\ Depth(s, i) <= Depth(s, k)
    BY <1>1, <1>5
  <2>3. w(k) \in Nat /\ w(k) >= s[i].ind
    BY <2>2 DEF IndentUnit
  <2> QED
    BY <1>1, <1>3, <2>1, <2>3
<1>7. w(i) = s[i].ind /\ i \in i..(e - 1) /\ n[i].ind = s[i].ind
  <2>1. s[i].ind \in Nat /\ Depth(s, i) \in Nat /\ i \in i..(e - 1)
    BY <1>1, <1>5
  <2>2. w(i) = s[i].ind
    BY <2>1 DEF IndentUnit
  <2> QED
    BY <1>6, <2>1, <2>2
<1>8. ASSUME NEW j \in i..(e - 1), NEW k \in i..(e - 1)
      PROVE  w(j) < w(k) <=> Depth(s, j) < Depth(s, k)
  <2>1. Depth(s, j) \in Nat /\ Depth(s, k) \in Nat /\ Depth(s, i) \in Nat
        /\ s[i].ind \in Nat
    BY <1>1, <1>5
  <2>2. /\ w(j) = s[i].ind + 2 * (Depth(s, j) - Depth(s, i))
        /\ w(k) = s[i].ind + 2 * (Depth(s, k) - Depth(s, i))
    BY DEF IndentUnit
  <2> HIDE DEF w
  <2> QED
    BY <2>1, <2>2
<1> HIDE DEF w
(* What comes before the block and after it.                               *)
<1>9. Fits(s, n, i, e, 0)
  <2>1. e <= Len(s) => \/ s[e].kind = "heading"
                       \/ \A k \in i..(e - 1) : s[k].ind >= s[e].ind
    BY <1>4 DEF Fits
  <2>2. ASSUME e <= Len(s), NEW k \in i..(e - 1), s[i].ind >= s[e].ind
        PROVE  n[k].ind >= s[e].ind
    <3>1. e \in 1..Len(s) /\ i \in 1..Len(s)
      BY <1>1, <2>2
    <3>2. s[e].ind \in Nat /\ s[i].ind \in Nat
      BY <1>5, <3>1
    <3> QED
      BY <1>6, <2>2, <3>2
  <2>3. e <= Len(s) =>
           \/ s[e].kind = "heading"
           \/ /\ \A k \in i..(e - 1) : s[k].ind >= s[e].ind
              /\ \A k \in i..(e + 0 - 1) : n[k].ind >= s[e].ind
    <3>1. e + 0 - 1 = e - 1
      BY <1>1
    <3> QED
      BY <1>7, <2>1, <2>2, <3>1
  <2>4. Moved(s, n, i, e, 0)
    <3>1. /\ i \in 1..(Len(s) + 1) /\ e \in i..(Len(s) + 1) /\ 0 \in Int
          /\ i <= e + 0 /\ Len(n) = Len(s) + 0 /\ e + 0 - 1 = e - 1
      BY <1>1, <1>2
    <3>2. \A k \in e..Len(s) : k + 0 = k
      BY <1>1
    <3> QED
      BY <1>1, <1>2, <1>6, <3>1, <3>2 DEF Moved
  <2> QED
    BY <2>3, <2>4 DEF Fits
<1>10. ASSUME NEW k \in 1..Len(s), k \notin i..(e - 1)
       PROVE  Parent(n, k) = Parent(s, k)
  <2>1. CASE k < i
    <3>1. k \in 1..(i - 1)
      BY <1>1, <2>1
    <3> QED
      BY <1>9, <3>1, FitsParent
  <2>2. CASE k >= e
    <3>1. k \in e..Len(s) /\ k + 0 = k
      BY <1>1, <2>2
    <3>2. \/ Parent(s, k) \in 0..(i - 1) /\ Parent(n, k + 0) = Parent(s, k)
          \/ Parent(s, k) \in e..Len(s) /\ Parent(n, k + 0) = Parent(s, k) + 0
      BY <1>9, <3>1, FitsParent
    <3>3. Parent(s, k) \in e..Len(s) => Parent(s, k) + 0 = Parent(s, k)
      BY <1>1
    <3> QED
      BY <3>1, <3>2, <3>3
  <2> QED
    BY <1>1, <1>10, <2>1, <2>2
(* The block: what is above it, ...                                        *)
<1>11. ASSUME NEW k \in i..(e - 1), NEW j \in 1..(i - 1)
       PROVE  j \in Ancestors(n, k) <=> j \in Ancestors(s, k)
  <2>1. /\ k \in Nat /\ k \in 1..Len(s) /\ i <= k /\ n[j] = s[j] /\ j \in 1..Len(s)
        /\ j \in 1..(k - 1)
        /\ s[j].ind \in Nat /\ s[i].ind \in Nat
    BY <1>1, <1>2, <1>5
  <2>2. /\ j \in Ancestors(s, k) <=>
              /\ s[j].kind = "task"
              /\ \A l \in (j + 1)..k : s[l].kind = "task" /\ s[l].ind > s[j].ind
        /\ j \in Ancestors(n, k) <=>
              /\ n[j].kind = "task"
              /\ \A l \in (j + 1)..k : n[l].kind = "task" /\ n[l].ind > n[j].ind
    <3>1. j \in Ancestors(s, k) <=>
             /\ j \in 1..(k - 1) /\ s[j].kind = "task"
             /\ \A l \in (j + 1)..k : s[l].kind = "task" /\ s[l].ind > s[j].ind
      BY <2>1, AncestorIs
    <3>2. j \in Ancestors(n, k) <=>
             /\ j \in 1..(k - 1) /\ n[j].kind = "task"
             /\ \A l \in (j + 1)..k : n[l].kind = "task" /\ n[l].ind > n[j].ind
      BY <1>2, <2>1, AncestorIs
    <3> QED
      BY <2>1, <3>1, <3>2
  <2> i \in Nat /\ j \in Nat /\ k \in Nat /\ 1 <= j /\ j < i /\ i <= k /\ k < e
      /\ e \in Nat /\ e <= Len(s) + 1
    BY <1>1, <2>1
  <2>3. ASSUME NEW l \in (j + 1)..k, l < i
        PROVE  n[l] = s[l]
    <3>1. l \in 1..(i - 1)
      BY <2>3
    <3> QED
      BY <1>2, <3>1
  <2>4. ASSUME NEW l \in (j + 1)..k, ~(l < i)
        PROVE  /\ l \in i..(e - 1) /\ s[l].kind = "task" /\ n[l].kind = "task"
               /\ s[l].ind >= s[i].ind /\ n[l].ind >= s[i].ind
               /\ s[l].ind \in Nat /\ n[l].ind \in Nat
    <3>1. l \in i..(e - 1) /\ l \in 1..Len(s)
      <4>1. l \in i..(e - 1)
        BY <2>4
      <4> QED
        BY <1>1, <4>1
    <3>2. s[l].kind = "task" /\ n[l].kind = "task"
          /\ n[l].ind >= s[i].ind /\ n[l].ind \in Nat /\ s[l].ind \in Nat
      BY <1>1, <1>5, <1>6, <3>1
    <3>3. s[l].ind >= s[i].ind
      <4>1. CASE l = i
        BY <2>1, <4>1
      <4>2. CASE l # i
        <5>1. l \in (i + 1)..(e - 1)
          BY <1>1, <3>1, <4>2
        <5>2. Above(s, i, l) /\ l \in (i + 1)..l
          BY <1>1, <5>1, EndInRange DEF e
        <5> QED
          BY <2>1, <3>2, <5>2 DEF Above
      <4> QED
        BY <4>1, <4>2
    <3> QED
      BY <3>1, <3>2, <3>3
  <2>5. i \in (j + 1)..k
    BY <1>1, <2>1
  <2>6. ASSUME j \in Ancestors(s, k) PROVE j \in Ancestors(n, k)
    <3>1. s[j].kind = "task" /\ s[i].ind > s[j].ind
      BY <2>2, <2>5, <2>6
    <3>2. ASSUME NEW l \in (j + 1)..k PROVE n[l].kind = "task" /\ n[l].ind > n[j].ind
      <4>1. CASE l < i
        BY <2>1, <2>2, <2>3, <2>6, <4>1
      <4>2. CASE ~(l < i)
        <5>1. n[l].ind >= s[i].ind /\ n[l].ind \in Nat /\ n[l].kind = "task"
          BY <2>4, <4>2
        <5>2. s[i].ind > n[j].ind /\ n[j].ind \in Nat /\ s[i].ind \in Nat
          BY <2>1, <3>1
        <5> QED
          BY <5>1, <5>2
      <4> QED
        BY <4>1, <4>2
    <3> QED
      BY <2>1, <2>2, <3>1, <3>2
  <2>7. ASSUME j \in Ancestors(n, k) PROVE j \in Ancestors(s, k)
    <3>1. s[j].kind = "task" /\ s[i].ind > s[j].ind
      BY <1>7, <2>1, <2>2, <2>5, <2>7
    <3>2. ASSUME NEW l \in (j + 1)..k PROVE s[l].kind = "task" /\ s[l].ind > s[j].ind
      <4>1. CASE l < i
        BY <2>1, <2>2, <2>3, <2>7, <4>1
      <4>2. CASE ~(l < i)
        <5>1. s[l].ind >= s[i].ind /\ s[l].ind \in Nat /\ s[l].kind = "task"
          BY <2>4, <4>2
        <5>2. s[i].ind > s[j].ind /\ s[j].ind \in Nat /\ s[i].ind \in Nat
          BY <2>1, <3>1
        <5> QED
          BY <5>1, <5>2
      <4> QED
        BY <4>1, <4>2
    <3> QED
      BY <2>2, <3>1, <3>2
  <2> QED
    BY <2>6, <2>7
(* ... and what is in it.                                                  *)
<1>12. ASSUME NEW k \in i..(e - 1), NEW j \in i..(k - 1)
       PROVE  j \in Ancestors(n, k) <=> j \in Ancestors(s, k)
  <2>1. /\ j \in i..(e - 1) /\ k \in (j + 1)..(e - 1) /\ k \in Nat
        /\ j \in 1..(k - 1)
        /\ \A l \in (j + 1)..k : l \in i..(e - 1)
    BY <1>1
  <2>2. j \in Ancestors(s, k) <=> \A l \in (j + 1)..k : Depth(s, l) > Depth(s, j)
    BY <1>1, <2>1, DepthMeansAbove DEF e
  <2>3. j \in Ancestors(n, k) <=>
           /\ n[j].kind = "task"
           /\ \A l \in (j + 1)..k : n[l].kind = "task" /\ n[l].ind > n[j].ind
    BY <1>2, <2>1, AncestorIs
  <2>4. n[j].kind = "task" /\ n[j].ind = w(j)
    BY <1>6, <2>1
  <2>5. ASSUME NEW l \in (j + 1)..k
        PROVE  /\ n[l].kind = "task"
               /\ n[l].ind > n[j].ind <=> Depth(s, l) > Depth(s, j)
    <3>1. /\ l \in i..(e - 1) /\ n[l].kind = "task" /\ n[l].ind = w(l)
          /\ w(j) \in Nat /\ w(l) \in Nat
          /\ Depth(s, l) \in Nat /\ Depth(s, j) \in Nat
      BY <1>1, <1>5, <1>6, <2>1
    <3>2. w(j) < w(l) <=> Depth(s, j) < Depth(s, l)
      BY <1>8, <2>1, <3>1
    <3> QED
      BY <2>4, <3>1, <3>2
  <2> QED
    BY <2>2, <2>3, <2>4, <2>5
<1>13. ASSUME NEW k \in i..(e - 1) PROVE Parent(n, k) = Parent(s, k)
  <2>1. Ancestors(n, k) \subseteq 1..(k - 1) /\ Ancestors(s, k) \subseteq 1..(k - 1)
    BY DEF Ancestors
  <2>2. ASSUME NEW j \in 1..(k - 1) PROVE j \in 1..(i - 1) \/ j \in i..(k - 1)
    BY <1>1
  <2>3. Ancestors(n, k) = Ancestors(s, k)
    BY <1>11, <1>12, <2>1, <2>2
  <2> QED
    BY <2>3, SameAncestorsSameParent
<1> QED
  BY <1>3, <1>10, <1>13 DEF SameNesting, n

-----------------------------------------------------------------------------
(* The fields of one task become those of t.                               *)
LEMMA RewrittenTree ==
  ASSUME NEW s \in Doc, Unique(s), NEW i \in Named(s), NEW t \in TaskItem,
         t.id = s[i].id, t.ind = s[i].ind
  PROVE  /\ s[i].id \in DOMAIN Tree(s)
         /\ Tree(s)[s[i].id] = Node(s, i)
         /\ Tree(Rewrite(s, i, t)) =
              [Tree(s) EXCEPT ![s[i].id] =
                 [parent |-> @.parent, title |-> t.title,
                  done |-> t.done, closed |-> t.closed]]
<1> DEFINE m == [s EXCEPT ![i] = t]
           n == ReplaceBlock(m, i)
<1>1. i \in 1..Len(s) /\ s[i].kind = "task" /\ Len(s) \in Nat /\ DOMAIN s = 1..Len(s)
  BY IdsAreIds, DocIsSeq DEF Named, Tasks
<1>2. SameShape(s, m) /\ m[i] = t /\ \A k \in 1..Len(s) : m[k].id = s[k].id
  BY <1>1, EditedTask
<1>3. \A k \in 1..Len(s) : k # i => m[k] = s[k]
  BY <1>1
<1> HIDE DEF m
<1>4. \A k \in 1..Len(s) : m[k].ind = s[k].ind
  BY <1>2, <1>3
<1>5. SameNesting(s, m)
  BY <1>2, <1>4, SameIndentSameNesting
<1>6. m \in Doc /\ i \in 1..Len(m) /\ m[i].kind = "task" /\ Len(m) = Len(s)
  BY <1>1, <1>2 DEF SameShape
<1>7. /\ SameNesting(m, n)
      /\ \A k \in 1..Len(s) : /\ n[k].title = m[k].title
                              /\ n[k].done = m[k].done
                              /\ n[k].closed = m[k].closed
  BY <1>6, ReplaceBlockNests, ReplaceBlockKeeps
<1> HIDE DEF n
<1>8. SameNesting(s, n)
  <2>1. SameShape(s, n)
    BY <1>5, <1>7, SameShapeIsTransitive DEF SameNesting
  <2>2. \A k \in 1..Len(s) : n[k].id = s[k].id /\ Parent(n, k) = Parent(s, k)
    BY <1>5, <1>6, <1>7 DEF SameNesting
  <2> QED
    BY <2>1, <2>2 DEF SameNesting
<1>9. /\ \A k \in 1..Len(s) \ {i} : /\ n[k].title = s[k].title
                                    /\ n[k].done = s[k].done
                                    /\ n[k].closed = s[k].closed
      /\ n[i].title = t.title /\ n[i].done = t.done /\ n[i].closed = t.closed
  BY <1>1, <1>2, <1>3, <1>7
<1>10. /\ s[i].id \in DOMAIN Tree(s)
       /\ Tree(s)[s[i].id] = Node(s, i)
       /\ Tree(n) = [Tree(s) EXCEPT ![s[i].id] =
                       [parent |-> @.parent, title |-> n[i].title,
                        done |-> n[i].done, closed |-> n[i].closed]]
  BY <1>8, <1>9, OneRecordChanges
<1> QED
  BY <1>9, <1>10 DEF n, m, Rewrite

LEMMA UpdatedTree ==
  ASSUME NEW s \in Doc, Unique(s), NEW id \in IdsIn(s), NEW title \in Titles
  PROVE  LET i == Find(s, id)
         IN  Forest!Update(Tree(s),
                Tree(Rewrite(s, i, [s[i] EXCEPT !.title = title])), id)
<1> DEFINE i == Find(s, id)
           t == [s[i] EXCEPT !.title = title]
           f == Tree(s)
           g == Tree(Rewrite(s, i, t))
           r == f[id]
<1>1. i \in Named(s) /\ s[i].id = id /\ s[i] \in TaskItem
  BY FoundTask
<1> HIDE DEF i
<1>2. /\ t \in TaskItem /\ t.id = s[i].id /\ t.ind = s[i].ind /\ t.title = title
      /\ t.done = s[i].done /\ t.closed = s[i].closed
  BY <1>1 DEF TaskItem
<1> HIDE DEF t
<1>3. /\ id \in DOMAIN f /\ r = Node(s, i)
      /\ g = [f EXCEPT ![id] = [parent |-> @.parent, title |-> t.title,
                                done |-> t.done, closed |-> t.closed]]
  <2>1. t \in TaskItem /\ t.id = s[i].id /\ t.ind = s[i].ind
    BY <1>2
  <2>2. i \in Named(s) /\ s \in Doc /\ Unique(s)
    BY <1>1
  <2> HIDE DEF f, g
  <2>3. /\ s[i].id \in DOMAIN Tree(s) /\ Tree(s)[s[i].id] = Node(s, i)
        /\ Tree(Rewrite(s, i, t)) =
              [Tree(s) EXCEPT ![s[i].id] =
                 [parent |-> @.parent, title |-> t.title,
                  done |-> t.done, closed |-> t.closed]]
    BY <2>1, <2>2, RewrittenTree, Zenon
  <2> QED
    BY <1>1, <2>3 DEF f, g
<1>4. r = [parent |-> ParentId(s, i), title |-> s[i].title,
           done |-> s[i].done, closed |-> s[i].closed]
  BY <1>3, NodeIs
<1> HIDE DEF f, g
<1>5. g = [f EXCEPT ![id] = [r EXCEPT !.title = title]]
  <2>1. [r EXCEPT !.title = title] =
           [parent |-> r.parent, title |-> t.title,
            done |-> t.done, closed |-> t.closed]
    <3> HIDE DEF r
    <3> QED
      BY <1>2, <1>4
  <2> QED
    BY <1>3, <2>1
<1>6. Forest!Update(f, g, id)
  BY <1>5 DEF Forest!Update, Forest!Set
<1> QED
  BY <1>6 DEF f, g, i, t

LEMMA ReopenedTree ==
  ASSUME NEW s \in Doc, Unique(s), NEW id \in IdsIn(s)
  PROVE  LET i == Find(s, id)
         IN  Forest!Reopen(Tree(s),
                Tree(Rewrite(s, i, [s[i] EXCEPT !.done = FALSE])), id)
<1> DEFINE i == Find(s, id)
           t == [s[i] EXCEPT !.done = FALSE]
           f == Tree(s)
           g == Tree(Rewrite(s, i, t))
           r == f[id]
<1>1. i \in Named(s) /\ s[i].id = id /\ s[i] \in TaskItem
  BY FoundTask
<1> HIDE DEF i
<1>2. /\ t \in TaskItem /\ t.id = s[i].id /\ t.ind = s[i].ind /\ t.done = FALSE
      /\ t.title = s[i].title /\ t.closed = s[i].closed
  BY <1>1 DEF TaskItem
<1> HIDE DEF t
<1>3. /\ id \in DOMAIN f /\ r = Node(s, i)
      /\ g = [f EXCEPT ![id] = [parent |-> @.parent, title |-> t.title,
                                done |-> t.done, closed |-> t.closed]]
  <2>1. t \in TaskItem /\ t.id = s[i].id /\ t.ind = s[i].ind
    BY <1>2
  <2>2. i \in Named(s) /\ s \in Doc /\ Unique(s)
    BY <1>1
  <2> HIDE DEF f, g
  <2>3. /\ s[i].id \in DOMAIN Tree(s) /\ Tree(s)[s[i].id] = Node(s, i)
        /\ Tree(Rewrite(s, i, t)) =
              [Tree(s) EXCEPT ![s[i].id] =
                 [parent |-> @.parent, title |-> t.title,
                  done |-> t.done, closed |-> t.closed]]
    BY <2>1, <2>2, RewrittenTree, Zenon
  <2> QED
    BY <1>1, <2>3 DEF f, g
<1>4. r = [parent |-> ParentId(s, i), title |-> s[i].title,
           done |-> s[i].done, closed |-> s[i].closed]
  BY <1>3, NodeIs
<1> HIDE DEF f, g
<1>5. g = [f EXCEPT ![id] = [r EXCEPT !.done = FALSE]]
  <2> DEFINE v == t.done
  <2>1. [r EXCEPT !.done = v] =
           [parent |-> r.parent, title |-> t.title,
            done |-> v, closed |-> t.closed]
    <3>1. r = [parent |-> r.parent, title |-> t.title, done |-> s[i].done,
               closed |-> t.closed]
      BY <1>2, <1>4
    <3> DEFINE p == r.parent
               x == t.title
               y == s[i].done
               z == t.closed
    <3>2. r = [parent |-> p, title |-> x, done |-> y, closed |-> z]
      BY <3>1
    <3> HIDE DEF r, v, p, x, y, z
    <3>3. [r EXCEPT !.done = v] =
             [parent |-> p, title |-> x, done |-> v, closed |-> z]
      BY <3>2
    <3> QED
      BY <3>3 DEF p, x, z
  <2> QED
    BY <1>2, <1>3, <2>1
<1>6. Forest!Reopen(f, g, id)
  BY <1>5 DEF Forest!Reopen, Forest!Set
<1> QED
  BY <1>6 DEF f, g, i, t

LEMMA CompletedTree ==
  ASSUME NEW s \in Doc, Unique(s), NEW id \in IdsIn(s), Ready(s, Find(s, id))
  PROVE  LET i == Find(s, id)
         IN  Forest!Complete(Tree(s),
                Tree(Rewrite(s, i, [s[i] EXCEPT !.done = TRUE,
                                                !.closed = TRUE])), id)
<1> DEFINE i == Find(s, id)
           t == [s[i] EXCEPT !.done = TRUE, !.closed = TRUE]
           f == Tree(s)
           g == Tree(Rewrite(s, i, t))
           r == f[id]
<1>1. i \in Named(s) /\ s[i].id = id /\ s[i] \in TaskItem
  BY FoundTask
<1>2. OpenSubtasks(s, i) = {}
  BY DEF Ready
<1> HIDE DEF i
<1>3. /\ t \in TaskItem /\ t.id = s[i].id /\ t.ind = s[i].ind /\ t.done = TRUE
      /\ t.title = s[i].title /\ t.closed = TRUE
  <2> DEFINE x == s[i]
  <2> x \in TaskItem
    BY <1>1
  <2> HIDE DEF x
  <2>1. /\ [x EXCEPT !.done = TRUE, !.closed = TRUE] \in TaskItem
        /\ [x EXCEPT !.done = TRUE, !.closed = TRUE].id = x.id
        /\ [x EXCEPT !.done = TRUE, !.closed = TRUE].ind = x.ind
        /\ [x EXCEPT !.done = TRUE, !.closed = TRUE].title = x.title
        /\ [x EXCEPT !.done = TRUE, !.closed = TRUE].done = TRUE
        /\ [x EXCEPT !.done = TRUE, !.closed = TRUE].closed = TRUE
    BY DEF TaskItem
  <2> QED
    BY <2>1 DEF x
<1> HIDE DEF t
<1>4. /\ id \in DOMAIN f /\ r = Node(s, i)
      /\ g = [f EXCEPT ![id] = [parent |-> @.parent, title |-> t.title,
                                done |-> t.done, closed |-> t.closed]]
  <2>1. t \in TaskItem /\ t.id = s[i].id /\ t.ind = s[i].ind
    BY <1>3
  <2>2. i \in Named(s) /\ s \in Doc /\ Unique(s)
    BY <1>1
  <2> HIDE DEF f, g
  <2>3. /\ s[i].id \in DOMAIN Tree(s) /\ Tree(s)[s[i].id] = Node(s, i)
        /\ Tree(Rewrite(s, i, t)) =
              [Tree(s) EXCEPT ![s[i].id] =
                 [parent |-> @.parent, title |-> t.title,
                  done |-> t.done, closed |-> t.closed]]
    BY <2>1, <2>2, RewrittenTree, Zenon
  <2> QED
    BY <1>1, <2>3 DEF f, g
<1>5. r = [parent |-> ParentId(s, i), title |-> s[i].title,
           done |-> s[i].done, closed |-> s[i].closed]
  BY <1>4, NodeIs
<1>6. ASSUME NEW j \in DOMAIN f, f[j].parent = id PROVE f[j].done
  <2>1. j \in IdsIn(s)
    BY TreeAt
  <2>2. PICK k \in Named(s) : s[k].id = j
    BY <2>1 DEF IdsIn
  <2>3. f[j] = Node(s, k)
    BY <2>2, TreeAt
  <2>4. f[j].parent = ParentId(s, k) /\ f[j].done = s[k].done
    BY <2>3, NodeIs
  <2>5. id # NoId /\ k \in Tasks(s)
    BY <1>1 DEF Named
  <2> DEFINE p == Parent(s, k)
  <2>6. p # 0 /\ s[p].id = id
    BY <1>6, <2>4, <2>5 DEF ParentId
  <2>7. p \in Tasks(s)
    BY <2>5, <2>6, ParentIsTask
  <2>8. p = i
    BY <1>1, <2>5, <2>6, <2>7 DEF Named, Unique
  <2>9. k \in Children(s, i)
    BY <2>5, <2>8 DEF Children
  <2> QED
    BY <1>2, <2>4, <2>9 DEF OpenSubtasks
<1> HIDE DEF f, g
<1>7. g = [f EXCEPT ![id] = [r EXCEPT !.done = TRUE, !.closed = TRUE]]
  <2> DEFINE v == t.done
             w == t.closed
  <2>1. [r EXCEPT !.done = v, !.closed = w] =
           [parent |-> r.parent, title |-> t.title, done |-> v, closed |-> w]
    <3>1. r = [parent |-> r.parent, title |-> t.title, done |-> s[i].done,
               closed |-> s[i].closed]
      BY <1>3, <1>5
    <3> DEFINE p == r.parent
               x == t.title
               y == s[i].done
               z == s[i].closed
    <3>2. r = [parent |-> p, title |-> x, done |-> y, closed |-> z]
      BY <3>1
    <3> HIDE DEF r, v, w, p, x, y, z
    <3> DEFINE q == [r EXCEPT !.done = v]
    <3>4. q = [parent |-> p, title |-> x, done |-> v, closed |-> z]
      BY <3>2
    <3>5. [r EXCEPT !.done = v, !.closed = w] = [q EXCEPT !.closed = w]
      OBVIOUS
    <3> HIDE DEF q
    <3>6. [q EXCEPT !.closed = w] =
             [parent |-> p, title |-> x, done |-> v, closed |-> w]
      BY <3>4
    <3>3. [r EXCEPT !.done = v, !.closed = w] =
             [parent |-> p, title |-> x, done |-> v, closed |-> w]
      BY <3>5, <3>6
    <3> QED
      BY <3>3 DEF p, x
  <2>2. g = [f EXCEPT ![id] = [r EXCEPT !.done = v, !.closed = w]]
    BY <1>4, <2>1
  <2>3. v = TRUE /\ w = TRUE
    BY <1>3
  <2> HIDE DEF v, w, r
  <2> QED
    BY <2>2, <2>3
<1>8. Forest!Complete(f, g, id)
  BY <1>6, <1>7 DEF Forest!Complete, Forest!Set
<1> QED
  BY <1>8 DEF f, g, i, t

(* A reminder has come at a, where a heading follows, or a task that is    *)
(* indented no deeper.                                                     *)
LEMMA InsertedFits ==
  ASSUME NEW s \in Doc, NEW a \in 1..(Len(s) + 1), NEW t \in TaskItem,
         a <= Len(s) => s[a].kind = "heading" \/ t.ind >= s[a].ind
  PROVE  /\ Fits(s, Splice(s, a, a, <<t>>), a, a, 1)
         /\ Splice(s, a, a, <<t>>)[a] = t
<1> DEFINE n == Splice(s, a, a, <<t>>)
<1>1. Moved(s, n, a, a, 1) /\ n[a] = t
  BY InsertedTask
<1> HIDE DEF n
<1>2. a \in Nat /\ (\A k \in a..(a - 1) : FALSE) /\ \A k \in a..(a + 1 - 1) : k = a
  BY DocIsSeq
<1>3. Fits(s, n, a, a, 1)
  BY <1>1, <1>2 DEF Fits
<1> QED
  BY <1>1, <1>3 DEF n

(* Seen by nobody if it has no ID or is below the template.                *)
LEMMA InsertedTree ==
  ASSUME NEW s \in Doc, NEW a \in 1..(Len(s) + 1), NEW t \in TaskItem,
         a <= Len(s) => s[a].kind = "heading" \/ t.ind >= s[a].ind,
         Unique(s), t.id \notin IdsIn(s)
  PROVE  LET f == Tree(s)
             g == Tree(Splice(s, a, a, <<t>>))
         IN  /\ t.id = NoId => g = f
             /\ Unnamed(s) = {} /\ t.done = FALSE /\ t.closed = FALSE
                   => g = f \/ Forest!Create(f, g)
<1> DEFINE n == Splice(s, a, a, <<t>>)
<1>1. Fits(s, n, a, a, 1) /\ n[a] = t
  BY InsertedFits
<1>2. Unique(n)
  BY InsertedTask DEF Added
<1> HIDE DEF n
<1>3. a \in Nat /\ a \in a..(a + 1 - 1) /\ \A k \in a..(a + 1 - 1) : k = a
  BY DocIsSeq
<1>4. ASSUME a \notin Named(n) PROVE Tree(n) = Tree(s)
  BY <1>1, <1>2, <1>3, <1>4, InsertedUnnamed
<1>5. t.id = NoId => a \notin Named(n)
  BY <1>1 DEF Named
<1>6. ASSUME a \in Named(n), Unnamed(s) = {}, t.done = FALSE, t.closed = FALSE
      PROVE  Forest!Create(Tree(s), Tree(n))
  <2>1. /\ n[a].id \notin IdsIn(s) /\ n[a].done = FALSE /\ n[a].closed = FALSE
        /\ \A k \in a..(a + 1 - 1) : k # a => n[k].kind = "heading"
    BY <1>1, <1>3, <1>6
  <2> QED
    BY <1>1, <1>2, <1>3, <1>6, <2>1, InsertedNamed
<1> QED
  BY <1>4, <1>5, <1>6 DEF n

LEMMA CreatedUnder ==
  ASSUME NEW s \in Doc, Unique(s), Unnamed(s) = {}, NEW i \in Named(s),
         NEW title \in Titles, NEW id \in Ids \ IdsIn(s)
  PROVE  LET f == Tree(s)
             g == Tree(InsertUnder(s, i, Task(title, id, 0)))
         IN  g = f \/ Forest!Create(f, g)
<1> DEFINE t == Task(title, id, 0)
           u == [t EXCEPT !.ind = s[i].ind + IndentUnit]
           a == End(s, i)
<1>1. i \in 1..Len(s) /\ Len(s) \in Nat
  BY IdsAreIds, DocIsSeq
<1>2. s[i].ind \in Nat
  BY <1>1, DocIsSeq, ItemFields
<1>3. /\ u \in TaskItem /\ u.id = id /\ u.ind = s[i].ind + 2
      /\ u.done = FALSE /\ u.closed = FALSE
  <2>1. t \in TaskItem /\ t.id = id /\ t.done = FALSE /\ t.closed = FALSE
    BY DEF Task, TaskItem
  <2> HIDE DEF t
  <2> QED
    BY <1>2, <2>1 DEF TaskItem, IndentUnit
<1>4. a \in 1..(Len(s) + 1)
  BY <1>1, EndInRange
<1>5. a <= Len(s) => s[a].kind = "heading" \/ s[a].ind <= s[i].ind
  BY <1>1, EndIsShallow
<1>6. InsertUnder(s, i, t) = Splice(s, a, a, <<u>>)
  BY DEF InsertUnder
<1> HIDE DEF a, u
<1>7. a <= Len(s) => s[a].kind = "heading" \/ u.ind >= s[a].ind
  <2>1. a <= Len(s) => s[a].ind \in Nat
    BY <1>4, DocIsSeq, ItemFields
  <2> QED
    BY <1>2, <1>3, <1>5, <2>1
<1>8. u.id \notin IdsIn(s)
  BY <1>3
<1>9. LET g == Tree(Splice(s, a, a, <<u>>))
      IN  g = Tree(s) \/ Forest!Create(Tree(s), g)
  BY <1>3, <1>4, <1>7, <1>8, InsertedTree
<1> QED
  BY <1>6, <1>9 DEF t

LEMMA CreatedInSection ==
  ASSUME NEW s \in Doc, Unique(s), Unnamed(s) = {},
         NEW h \in Sections \cup {Template},
         NEW title \in Titles, NEW id \in Ids \ IdsIn(s)
  PROVE  LET f == Tree(s)
             g == Tree(InsertInSection(s, h, Task(title, id, 0)))
         IN  g = f \/ Forest!Create(f, g)
<1> DEFINE t == Task(title, id, 0)
           x == Heading(h, 2)
           l == Len(s)
           n == s \o <<x, t>>
<1>1. /\ t \in TaskItem /\ t.id = id /\ t.done = FALSE /\ t.closed = FALSE
      /\ t.kind = "task"
  BY DEF Task, TaskItem
<1>2. x \in HeadingItem /\ x.kind = "heading" /\ x.id = NoId /\ l \in Nat
  BY DocIsSeq DEF Heading, HeadingItem
<1> HIDE DEF t, x
<1>3. ASSUME NEW e \in 1..(Len(s) + 1), e <= Len(s) => s[e].kind = "heading"
      PROVE  LET g == Tree(Splice(s, e, e, <<t>>))
             IN  g = Tree(s) \/ Forest!Create(Tree(s), g)
  BY <1>1, <1>3, InsertedTree
<1>4. Tree(n) = Tree(s) \/ Forest!Create(Tree(s), Tree(n))
  <2>1. /\ Moved(s, n, l + 1, l + 1, 2) /\ n[l + 1] = x /\ n[l + 2] = t
        /\ Added(s, n, t)
    BY <1>1, <1>2, InsertedHeading
  <2> HIDE DEF n
  <2>2. Unique(n) /\ ~(l + 1 <= l)
    BY <1>1, <1>2, <2>1 DEF Added
  <2> HIDE DEF l
  <2>3. Fits(s, n, l + 1, l + 1, 2)
    BY <2>1, <2>2 DEF Fits, l
  <2>4. /\ l + 2 \in (l + 1)..(l + 1 + 2 - 1)
        /\ \A k \in (l + 1)..(l + 1 + 2 - 1) : k = l + 1 \/ k = l + 2
    BY <1>2
  <2>5. \A k \in (l + 1)..(l + 1 + 2 - 1) : k # l + 2 => n[k].kind = "heading"
    BY <1>2, <2>1, <2>4
  <2>6. CASE l + 2 \in Named(n)
    <3>1. n[l + 2].id \notin IdsIn(s) /\ n[l + 2].done = FALSE /\ n[l + 2].closed = FALSE
      BY <1>1, <2>1
    <3> QED
      BY <2>2, <2>3, <2>4, <2>5, <2>6, <3>1, InsertedNamed
  <2>7. CASE l + 2 \notin Named(n)
    <3>1. l + 1 \notin Named(n)
      BY <1>2, <2>1 DEF Named
    <3>2. \A k \in (l + 1)..(l + 1 + 2 - 1) : k \notin Named(n)
      BY <2>4, <2>7, <3>1
    <3> QED
      BY <2>2, <2>3, <3>2, InsertedUnnamed
  <2> QED
    BY <2>6, <2>7
<1>5. \/ InsertInSection(s, h, t) = n
      \/ \E e \in 1..(Len(s) + 1) :
            /\ e <= Len(s) => s[e].kind = "heading"
            /\ InsertInSection(s, h, t) = Splice(s, e, e, <<t>>)
  <2> HIDE DEF n
  <2>1. \/ InsertInSection(s, h, t) = n
        \/ \E k \in Headings(s), e \in 1..(Len(s) + 1) :
              /\ SectionEnds(s, k, e)
              /\ InsertInSection(s, h, t) = Splice(s, e, e, <<t>>)
    BY SectionPlace DEF n, x
  <2> QED
    BY <2>1 DEF SectionEnds
<1> QED
  BY <1>3, <1>4, <1>5 DEF t

-----------------------------------------------------------------------------
(* A tool does to the forest of its parsed copy what its name says.        *)
LEMMA SavedCopy ==
  ASSUME TypeOK, NEW c \in Clients, NEW new, Save(c, new)
  PROVE  call'[c].mem = new
<1>1. call[c] \in Call /\ DOMAIN call = Clients
  BY DEF TypeOK
<1> QED
  BY <1>1 DEF Save, Goto, Call

LEMMA CreateIsAtomic ==
  ASSUME IInv, NEW c \in Clients, Unique(call[c].mem), Create(c)
  PROVE  LET f == Tree(call[c].mem)
             g == Tree(call'[c].mem)
         IN  g = f \/ Forest!Create(f, g)
<1> DEFINE s == call[c].mem
<1>1. s \in Doc /\ TypeOK
  BY DEF IInv, TypeOK, Call
<1>2. Unnamed(s) = {}
  BY DEF IInv, CallsHold, Create, Save
<1>3. PICK id \in NewIds(s), title \in Titles :
         LET t == Task(title, id, 0)
         IN  \/ \E p \in IdsIn(s) : Save(c, InsertUnder(s, Find(s, p), t))
             \/ \E h \in Sections \cup {Template} :
                   Save(c, InsertInSection(s, h, t))
  BY DEF Create
<1> DEFINE t == Task(title, id, 0)
<1> HIDE DEF s
<1>4. id \in Ids \ IdsIn(s)
  BY DEF NewIds
<1>5. ASSUME NEW p \in IdsIn(s), Save(c, InsertUnder(s, Find(s, p), t))
      PROVE  LET g == Tree(call'[c].mem)
             IN  g = Tree(s) \/ Forest!Create(Tree(s), g)
  <2>1. Find(s, p) \in Named(s)
    BY <1>1, FoundTask
  <2>2. call'[c].mem = InsertUnder(s, Find(s, p), t)
    BY <1>1, <1>5, SavedCopy
  <2> QED
    BY <1>1, <1>2, <1>4, <2>1, <2>2, CreatedUnder DEF s
<1>6. ASSUME NEW h \in Sections \cup {Template}, Save(c, InsertInSection(s, h, t))
      PROVE  LET g == Tree(call'[c].mem)
             IN  g = Tree(s) \/ Forest!Create(Tree(s), g)
  <2>1. call'[c].mem = InsertInSection(s, h, t)
    BY <1>1, <1>6, SavedCopy
  <2> QED
    BY <1>1, <1>2, <1>4, <2>1, CreatedInSection DEF s
<1> QED
  BY <1>3, <1>5, <1>6 DEF s

LEMMA ChangeIsAtomic ==
  ASSUME IInv, NEW c \in Clients, Unique(call[c].mem)
  PROVE  LET f == Tree(call[c].mem)
             g == Tree(call'[c].mem)
         IN  /\ Update(c) => \E i \in DOMAIN f : Forest!Update(f, g, i)
             /\ Complete(c) => \E i \in DOMAIN f : Forest!Complete(f, g, i)
             /\ Reopen(c) => \E i \in DOMAIN f : Forest!Reopen(f, g, i)
             /\ Delete(c) => \E i \in DOMAIN f : Forest!Delete(f, g, i)
<1> DEFINE s == call[c].mem
           g == Tree(call'[c].mem)
<1>1. s \in Doc /\ TypeOK
  BY DEF IInv, TypeOK, Call
<1>2. call[c].pc = "loaded" => Unnamed(s) = {}
  BY DEF IInv, CallsHold
<1>3. DOMAIN Tree(s) = IdsIn(s)
  BY <1>1, TreeAt
<1> HIDE DEF s
<1>4. ASSUME Update(c) PROVE \E i \in IdsIn(s) : Forest!Update(Tree(s), g, i)
  <2>1. PICK id \in IdsIn(s), title \in Titles :
           LET i == Find(s, id)
           IN  Save(c, Rewrite(s, i, [s[i] EXCEPT !.title = title]))
    BY <1>4 DEF Update, s
  <2> DEFINE n == Rewrite(s, Find(s, id), [s[Find(s, id)] EXCEPT !.title = title])
  <2>2. Forest!Update(Tree(s), Tree(n), id)
    BY <1>1, UpdatedTree DEF s
  <2>3. Save(c, n)
    BY <2>1
  <2> HIDE DEF n
  <2>4. call'[c].mem = n
    BY <1>1, <2>3, SavedCopy
  <2> QED
    BY <2>2, <2>4
<1>5. ASSUME Complete(c) PROVE \E i \in IdsIn(s) : Forest!Complete(Tree(s), g, i)
  <2>1. PICK id \in IdsIn(s) :
           LET i == Find(s, id)
           IN  /\ Ready(s, i)
               /\ Save(c, Rewrite(s, i, [s[i] EXCEPT !.done = TRUE,
                                                     !.closed = TRUE]))
    BY <1>5 DEF Complete, s
  <2> DEFINE n == Rewrite(s, Find(s, id), [s[Find(s, id)] EXCEPT !.done = TRUE,
                                                                 !.closed = TRUE])
  <2>2. Forest!Complete(Tree(s), Tree(n), id)
    BY <1>1, <2>1, CompletedTree DEF s
  <2>3. Save(c, n)
    BY <2>1
  <2> HIDE DEF n
  <2>4. call'[c].mem = n
    BY <1>1, <2>3, SavedCopy
  <2> QED
    BY <2>2, <2>4
<1>6. ASSUME Reopen(c) PROVE \E i \in IdsIn(s) : Forest!Reopen(Tree(s), g, i)
  <2>1. PICK id \in IdsIn(s) :
           LET i == Find(s, id)
           IN  Save(c, Rewrite(s, i, [s[i] EXCEPT !.done = FALSE]))
    BY <1>6 DEF Reopen, s
  <2> DEFINE n == Rewrite(s, Find(s, id), [s[Find(s, id)] EXCEPT !.done = FALSE])
  <2>2. Forest!Reopen(Tree(s), Tree(n), id)
    BY <1>1, ReopenedTree DEF s
  <2>3. Save(c, n)
    BY <2>1
  <2> HIDE DEF n
  <2>4. call'[c].mem = n
    BY <1>1, <2>3, SavedCopy
  <2> QED
    BY <2>2, <2>4
<1>7. ASSUME Delete(c) PROVE \E i \in IdsIn(s) : Forest!Delete(Tree(s), g, i)
  <2>1. PICK id \in IdsIn(s) : Save(c, RemoveBlock(s, Find(s, id)))
    BY <1>7 DEF Delete, s
  <2>2. /\ Find(s, id) \in Named(s) /\ Find(s, id) \in 1..Len(s)
        /\ s[Find(s, id)].kind = "task" /\ s[Find(s, id)].id = id
    BY <1>1, FoundTask
  <2>3. Unnamed(s) = {}
    BY <1>2, <2>1 DEF Save
  <2>4. Forest!Delete(Tree(s), Tree(RemoveBlock(s, Find(s, id))), id)
    <3> DEFINE i == Find(s, id)
    <3> HIDE DEF i
    <3>1. i \in Named(s) /\ i \in 1..Len(s) /\ s[i].kind = "task" /\ Unique(s)
      BY <2>2 DEF i, s
    <3>2. Forest!Delete(Tree(s), Tree(RemoveBlock(s, i)), s[i].id)
      BY <1>1, <2>3, <3>1, RemovedTree
    <3> QED
      BY <2>2, <3>2 DEF i
  <2>5. call'[c].mem = RemoveBlock(s, Find(s, id))
    BY <1>1, <2>1, SavedCopy
  <2> QED
    BY <2>4, <2>5
<1> QED
  BY <1>3, <1>4, <1>5, <1>6, <1>7 DEF s

(* In a note of any length and nesting, whatever else it holds and however *)
(* a person has indented it, a tool creates, changes or removes the one    *)
(* reminder that it was called for, what is nested below it goes with it,  *)
(* and no other reminder changes its fields or its parent.                 *)
THEOREM EveryToolIsAtomic == Spec => ToolsAreAtomic
<1> DEFINE A == \A c \in Clients :
          call[c].pc = "loaded" /\ Unique(call[c].mem) =>
             LET f == Tree(call[c].mem)
                 g == Tree(call'[c].mem)
             IN  /\ Create(c) => f = g \/ Forest!Create(f, g)
                 /\ Update(c) => \E i \in DOMAIN f : Forest!Update(f, g, i)
                 /\ Complete(c) => \E i \in DOMAIN f : Forest!Complete(f, g, i)
                 /\ Reopen(c) => \E i \in DOMAIN f : Forest!Reopen(f, g, i)
                 /\ Delete(c) => \E i \in DOMAIN f : Forest!Delete(f, g, i)
<1>1. IInv => A
  BY CreateIsAtomic, ChangeIsAtomic
<1>2. ToolsAreAtomic <=> [][A]_vars
  BY DEF ToolsAreAtomic
<1> HIDE DEF A
<1> QED
  BY Invariant, <1>1, <1>2, PTL

-----------------------------------------------------------------------------
(* What else than the tools changes the forest: giving IDs, and a person.  *)
LEMMA AdoptedTree ==
  ASSUME NEW s \in Doc, Unique(s), NEW a \in FreshIds(s)
  PROVE  Forest!Adopt(Tree(s), Tree(WithIds(s, a)))
<1> DEFINE n == WithIds(s, a)
           f == Tree(s)
           g == Tree(n)
<1>1. /\ n \in Doc /\ Unnamed(n) = {} /\ IdsIn(s) \subseteq IdsIn(n) /\ Unique(n)
      /\ Len(n) = Len(s) /\ Len(s) \in Nat
      /\ Tasks(n) = Tasks(s)
      /\ \A k \in 1..Len(s) :
            /\ n[k].kind = s[k].kind /\ n[k].ind = s[k].ind
            /\ n[k].title = s[k].title
            /\ n[k].done = s[k].done /\ n[k].closed = s[k].closed
      /\ \A k \in Tasks(s) : IF s[k].id = NoId THEN n[k].id \notin IdsIn(s)
                                               ELSE n[k].id = s[k].id
  BY LoadedNote, LoadedItems, SameShapeSameTasks DEF SameShape
<1>2. /\ DOMAIN f = IdsIn(s) /\ DOMAIN g = IdsIn(n)
      /\ \A k \in Named(s) : f[s[k].id] = Node(s, k)
      /\ \A k \in Named(n) : /\ g[n[k].id] = Node(n, k)
                             /\ n[k].id \in IdsIn(n)
  BY <1>1, TreeAt
<1> HIDE DEF n, f, g
<1>3. ASSUME NEW k \in Named(n) PROVE g[n[k].id].parent \in IdsIn(n) \cup {NoId}
  <2>1. k \in Tasks(n)
    BY DEF Named
  <2>2. g[n[k].id].parent = ParentId(n, k)
    BY <1>2, NodeIs
  <2> QED
    BY <1>1, <2>1, <2>2, ParentHasId
<1>4. ASSUME NEW i \in IdsIn(n) PROVE g[i].parent \in IdsIn(n) \cup {NoId}
  <2>1. PICK k \in Named(n) : n[k].id = i
    BY DEF IdsIn
  <2> QED
    BY <1>3, <2>1
<1>5. ASSUME NEW i \in IdsIn(s)
      PROVE  \/ g[i] = f[i]
             \/ /\ f[i].parent = NoId
                /\ g[i].parent \in IdsIn(n) \ IdsIn(s)
                /\ g[i] = [f[i] EXCEPT !.parent = g[i].parent]
  <2>1. PICK k \in Named(s) : s[k].id = i
    BY DEF IdsIn
  <2>2. k \in Tasks(s) /\ s[k].id # NoId
    BY DEF Named
  <2>3. k \in Named(n) /\ n[k].id = i /\ k \in 1..Len(s)
    BY <1>1, <2>1, <2>2, DocIsSeq DEF Named, Tasks
  <2> DEFINE p == Parent(s, k)
             x == s[k].title
             y == s[k].done
             z == s[k].closed
             u == f[i]
             v == g[i]
             b == ParentId(s, k)
             c == ParentId(n, k)
  <2>4. Parent(n, k) = p
    BY <1>1, <2>3, SameIndentSameParents
  <2>5. u = [parent |-> b, title |-> x, done |-> y, closed |-> z]
    BY <1>2, <2>1, NodeIs
  <2>6. v = [parent |-> c, title |-> x, done |-> y, closed |-> z]
    <3>1. v = Node(n, k)
      BY <1>2, <2>3
    <3>2. n[k].title = x /\ n[k].done = y /\ n[k].closed = z
      BY <1>1, <2>3
    <3>3. Node(n, k) = [parent |-> c, title |-> n[k].title,
                        done |-> n[k].done, closed |-> n[k].closed]
      BY NodeIs
    <3> HIDE DEF c, v
    <3> QED
      BY <3>1, <3>2, <3>3
  <2>7. c = b \/ (b = NoId /\ c \in IdsIn(n) \ IdsIn(s))
    <3>1. CASE p = 0
      BY <2>4, <3>1 DEF ParentId
    <3>2. CASE p # 0
      <4>1. p \in Tasks(s)
        BY <2>2, <3>2, ParentIsTask
      <4>2. b = s[p].id /\ c = n[p].id
        BY <2>4, <3>2 DEF ParentId
      <4>3. CASE s[p].id # NoId
        BY <1>1, <4>1, <4>2, <4>3
      <4>4. CASE s[p].id = NoId
        <5>1. n[p].id \notin IdsIn(s) /\ p \in Tasks(n)
          BY <1>1, <4>1, <4>4
        <5>2. n[p].id \in IdsIn(n)
          BY <1>1, <5>1 DEF Unnamed, Named, IdsIn
        <5> QED
          BY <4>2, <4>4, <5>1, <5>2
      <4> QED
        BY <4>3, <4>4
    <3> QED
      BY <3>1, <3>2
  <2> HIDE DEF p, x, y, z, u, v, b, c
  <2>8. u.parent = b /\ v.parent = c /\ v = [u EXCEPT !.parent = c]
    BY <2>5, <2>6
  <2> QED
    BY <2>5, <2>6, <2>7, <2>8 DEF u, v
<1>6. Forest!Adopt(f, g)
  BY <1>1, <1>2, <1>4, <1>5 DEF Forest!Adopt
<1> QED
  BY <1>6 DEF f, g, n

LEMMA TickedTree ==
  ASSUME NEW s \in Doc, Unique(s), NEW i \in Tasks(s)
  PROVE  LET f == Tree(s)
             g == Tree([s EXCEPT ![i] = [s[i] EXCEPT !.done = ~@]])
         IN  g = f \/ \E id \in DOMAIN f : Forest!Tick(f, g, id)
<1> DEFINE u == [s[i] EXCEPT !.done = ~@]
           n == [s EXCEPT ![i] = u]
<1>1. i \in 1..Len(s) /\ s[i].kind = "task" /\ s[i] \in TaskItem
  BY DocIsSeq, ItemFields DEF Tasks
<1>2. /\ u \in TaskItem /\ u.id = s[i].id /\ u.ind = s[i].ind
      /\ u.title = s[i].title /\ u.closed = s[i].closed /\ u.done = ~s[i].done
  BY <1>1 DEF TaskItem
<1> HIDE DEF u
<1>3. /\ SameShape(s, n) /\ n[i] = u
      /\ \A k \in 1..Len(s) : n[k].id = s[k].id
      /\ \A k \in 1..Len(s) \ {i} : n[k] = s[k]
  BY <1>1, <1>2, EditedTask, DocIsSeq
<1> HIDE DEF n
<1>4. SameNesting(s, n)
  <2>1. \A k \in 1..Len(s) : n[k].id = s[k].id /\ n[k].ind = s[k].ind
    BY <1>2, <1>3
  <2> QED
    BY <1>3, <2>1, SameIndentSameNesting
<1>5. \A k \in 1..Len(s) \ {i} : /\ n[k].title = s[k].title
                                 /\ n[k].done = s[k].done
                                 /\ n[k].closed = s[k].closed
  BY <1>3
<1>6. CASE i \in Named(s)
  <2> DEFINE id == s[i].id
             f == Tree(s)
             g == Tree(n)
             r == f[id]
             v == n[i].done
  <2>1. /\ id \in DOMAIN f /\ r = Node(s, i)
        /\ g = [f EXCEPT ![id] = [parent |-> @.parent, title |-> n[i].title,
                                  done |-> n[i].done, closed |-> n[i].closed]]
    BY <1>4, <1>5, <1>6, OneRecordChanges
  <2>2. r = [parent |-> ParentId(s, i), title |-> s[i].title,
             done |-> s[i].done, closed |-> s[i].closed]
    BY <2>1, NodeIs
  <2>3. n[i].title = s[i].title /\ n[i].closed = s[i].closed /\ v = ~s[i].done
    BY <1>2, <1>3
  <2> HIDE DEF f, g
  <2>4. [r EXCEPT !.done = v] = [parent |-> r.parent, title |-> n[i].title,
                                 done |-> n[i].done, closed |-> n[i].closed]
    <3> DEFINE p == r.parent
               x == s[i].title
               y == s[i].done
               z == s[i].closed
    <3>1. r = [parent |-> p, title |-> x, done |-> y, closed |-> z]
      BY <2>2
    <3> HIDE DEF r, v, p, x, y, z
    <3>2. [r EXCEPT !.done = v] =
             [parent |-> p, title |-> x, done |-> v, closed |-> z]
      BY <3>1
    <3> QED
      BY <2>3, <3>2 DEF p, x, z, v
  <2>5. v = ~r.done
    BY <2>2, <2>3
  <2>6. g = [f EXCEPT ![id] = [r EXCEPT !.done = v]]
    BY <2>1, <2>4
  <2>7. Forest!Tick(f, g, id)
    BY <2>5, <2>6 DEF Forest!Tick, Forest!Set
  <2> QED
    BY <2>1, <2>7 DEF f, g, n, u
<1>7. CASE i \notin Named(s)
  <2>1. \A k \in Named(s) : k \in 1..Len(s) /\ k # i
    BY <1>7, IdsAreIds
  <2>2. \A k \in Named(s) : /\ n[k].title = s[k].title
                             /\ n[k].done = s[k].done
                             /\ n[k].closed = s[k].closed
    BY <1>5, <2>1
  <2>3. Tree(n) = Tree(s)
    BY <1>4, <2>2, SameRecords
  <2> QED
    BY <2>3 DEF n, u
<1> QED
  BY <1>6, <1>7

-----------------------------------------------------------------------------
(* Until calls collide, a call carries one operation on the forest of the  *)
(* note: from the copy that it has read to the one that it is to write.    *)
Carries(c) ==
    LET f == Tree(call[c].base)
        g == Tree(call[c].mem)
    IN  /\ Saving(c) => f = Tree(shown)
        /\ call[c].pc \in {"idTrunc", "idWrite"} => Forest!Adopt(f, g)
        /\ call[c].pc \in {"trunc", "write"} => f = g \/ Forest!Tool(f, g)

FInv == ~raced => \A c \in Clients : Carries(c)

LEMMA RestCarries ==
  ASSUME NEW c, call'[c].pc \in {"idle", "loaded"}
  PROVE  Carries(c)'
<1>1. ~Saving(c)'
  BY DEF Saving
<1> QED
  BY <1>1 DEF Carries

LEMMA OthersCarry ==
  ASSUME IInv, FInv, ~raced, NEW c \in Clients, NEW r \in Call,
         call' = [call EXCEPT ![c] = r], Carries(c)',
         (\E d \in Clients : Saving(d)') => shown' = shown
  PROVE  FInv'
<1>1. \A d \in Clients \ {c} : call'[d] = call[d] /\ (Saving(d)' <=> Saving(d))
  BY Stays DEF IInv
<1>2. ASSUME NEW d \in Clients \ {c} PROVE Carries(d)'
  <2>1. Carries(d) /\ call'[d] = call[d] /\ (Saving(d)' <=> Saving(d))
    BY <1>1 DEF FInv
  <2>2. Saving(d)' => shown' = shown
    OBVIOUS
  <2> QED
    BY <2>1, <2>2 DEF Carries
<1> QED
  BY <1>2 DEF FInv

LEMMA LoadCarries ==
  ASSUME IInv, FInv, NEW c \in Clients, Load(c), ~raced'
  PROVE  FInv' /\ shown' = shown
<1> DEFINE s == IF present THEN note ELSE Header
<1>1. PICK f \in FreshIds(s) :
         call' = [call EXCEPT ![c] =
                    [pc |-> AfterLoad(s), base |-> s, mem |-> WithIds(s, f)]]
  BY DEF Load
<1>2. shown' = shown /\ raced' = raced /\ ~raced
  BY DEF Load
<1>3. s \in Doc /\ Unique(s)
  BY <1>2, HeaderIsDoc DEF IInv, TypeOK, Orderly
<1> HIDE DEF s
<1> DEFINE m == WithIds(s, f)
           r == [pc |-> AfterLoad(s), base |-> s, mem |-> m]
<1>4. m \in Doc /\ Forest!Adopt(Tree(s), Tree(m))
  BY <1>3, LoadedNote, AdoptedTree
<1> HIDE DEF m
<1>5. AfterLoad(s) \in {"loaded", "idTrunc"}
  BY DEF AfterLoad
<1>6. /\ r \in Call /\ r.pc \in {"loaded", "idTrunc"} /\ r.base = s /\ r.mem = m
      /\ call' = [call EXCEPT ![c] = r]
  BY <1>1, <1>3, <1>4, <1>5 DEF Call, Steps, m
<1> HIDE DEF r
<1>7. call'[c] = r
  BY <1>6, Stays DEF IInv
<1>8. ~Saving(c)'
  BY <1>6, <1>7 DEF Saving
<1>9. Carries(c)'
  BY <1>4, <1>6, <1>7, <1>8 DEF Carries
<1> QED
  BY <1>2, <1>6, <1>9, OthersCarry

LEMMA SaveCarries ==
  ASSUME IInv, FInv, NEW c \in Clients, ~raced', NEW new \in Doc, Save(c, new),
         LET f == Tree(call[c].mem)
             g == Tree(call'[c].mem)
         IN  f = g \/ Forest!Tool(f, g)
  PROVE  FInv' /\ shown' = shown
<1> DEFINE r == [call[c] EXCEPT !.pc = "trunc", !.mem = new]
<1>1. /\ call[c].pc = "loaded" /\ call' = [call EXCEPT ![c] = r]
      /\ shown' = shown /\ raced' = raced /\ ~raced
  BY DEF Save, Goto
<1>2. call[c] \in Call
  BY DEF IInv, TypeOK
<1>3. r \in Call /\ r.pc = "trunc" /\ r.base = call[c].base
  BY <1>2 DEF Call, Steps
<1>4. call[c].mem = call[c].base
  BY <1>1 DEF IInv, CallsHold
<1> HIDE DEF r
<1>5. call'[c] = r
  BY <1>1, <1>3, Stays DEF IInv
<1>6. ~Saving(c)'
  BY <1>3, <1>5 DEF Saving
<1>7. call'[c].base = call[c].mem /\ call'[c].pc = "trunc"
  BY <1>3, <1>4, <1>5
<1>8. Carries(c)'
  BY <1>6, <1>7 DEF Carries
<1> QED
  BY <1>1, <1>3, <1>8, OthersCarry

LEMMA AnswerCarries ==
  ASSUME IInv, FInv, NEW c \in Clients, NEW ids, Answer(c, ids), ~raced'
  PROVE  FInv' /\ shown' = shown
<1>1. /\ call' = [call EXCEPT ![c] = Idle] /\ shown' = shown /\ raced' = raced
      /\ ~raced
  BY DEF Answer, Goto
<1>2. call'[c].pc = "idle"
  BY <1>1, IdleIsCall, Stays DEF IInv
<1>3. Carries(c)'
  BY <1>2, RestCarries
<1> QED
  BY <1>1, <1>3, IdleIsCall, OthersCarry

(* A call that truncates the note has a copy of what it held.              *)
LEMMA TruncCarries ==
  ASSUME IInv, FInv, NEW c \in Clients, Trunc(c), ~raced'
  PROVE  FInv' /\ shown' = shown
<1> DEFINE r == [call[c] EXCEPT
                  !.pc = IF @ = "idTrunc" THEN "idWrite" ELSE "write"]
           clobbers == c \in disturbed \/ \E d \in Clients \ {c} : Saving(d)
<1>1. /\ call[c].pc \in {"idTrunc", "trunc"}
      /\ call' = [call EXCEPT ![c] = r]
      /\ Notice(c, clobbers)
  BY DEF Trunc, Goto
<1>2. call[c] \in Call
  BY DEF IInv, TypeOK
<1>3. /\ r \in Call
      /\ r.pc = IF call[c].pc = "idTrunc" THEN "idWrite" ELSE "write"
      /\ r.base = call[c].base /\ r.mem = call[c].mem
  BY <1>1, <1>2 DEF Call, Steps
<1> HIDE DEF r
<1>4. call'[c] = r
  BY <1>1, <1>3, Stays DEF IInv
<1>5. ~Saving(c) /\ Saving(c)'
  BY <1>1, <1>3, <1>4 DEF Saving
<1>6. ~raced /\ ~clobbers /\ shown' = shown
  <2> clobbers \in BOOLEAN
    OBVIOUS
  <2> HIDE DEF clobbers
  <2> QED
    BY <1>1, <1>5, Noticed DEF IInv
<1>7. c \notin disturbed /\ \A d \in Clients : ~Saving(d)
  BY <1>5, <1>6
<1>8. shown = note /\ call[c].base = IF present THEN note ELSE Header
  BY <1>1, <1>6, <1>7 DEF IInv, Orderly, ViewIsCurrent
<1>9. Tree(call[c].base) = Tree(shown)
  <2>1. CASE present
    BY <1>8, <2>1
  <2>2. CASE ~present
    <3>1. note = << >>
      BY <2>2 DEF IInv, Missing
    <3>2. Tree(Header) = Tree(<< >>)
      BY HeaderIsDoc, EmptyDoc, TreeAt
    <3> QED
      BY <1>8, <2>2, <3>1, <3>2
  <2> QED
    BY <2>1, <2>2
<1>10. Carries(c)'
  <2>1. /\ call'[c].base = call[c].base /\ call'[c].mem = call[c].mem
        /\ call'[c].pc = IF call[c].pc = "idTrunc" THEN "idWrite" ELSE "write"
    BY <1>3, <1>4
  <2>2. Carries(c)
    BY <1>6 DEF FInv
  <2> QED
    BY <1>1, <1>6, <1>9, <2>1, <2>2 DEF Carries
<1> QED
  BY <1>1, <1>3, <1>6, <1>10, OthersCarry

(* The note, once it is written, holds what the call carried.              *)
LEMMA WriteCarries ==
  ASSUME IInv, FInv, NEW c \in Clients, WriteIds(c) \/ Write(c), ~raced'
  PROVE  /\ FInv'
         /\ Tree(shown') = Tree(shown)
              \/ Forest!Atomic(Tree(shown), Tree(shown'))
<1>1. PICK r \in Call : /\ call' = [call EXCEPT ![c] = r]
                        /\ r.pc \in {"idle", "loaded"}
  <2>1. CASE WriteIds(c)
    <3>1. [call[c] EXCEPT !.pc = "loaded", !.base = call[c].mem] \in Call
      BY DEF IInv, TypeOK, Call, Steps
    <3>2. [call[c] EXCEPT !.pc = "loaded", !.base = call[c].mem].pc = "loaded"
      BY DEF IInv, TypeOK, Call
    <3> QED
      BY <2>1, <3>1, <3>2 DEF WriteIds, Goto
  <2>2. CASE Write(c)
    BY <2>2, IdleIsCall DEF Write, Goto
  <2> QED
    BY <2>1, <2>2
<1>2. /\ call[c].pc = IF WriteIds(c) THEN "idWrite" ELSE "write"
      /\ note' \in Overlays(call[c].mem, note) /\ Notice(c, c \in disturbed)
  BY DEF WriteIds, Write
<1>3. Saving(c)
  BY <1>2 DEF Saving
<1>4. /\ call'[c] = r
      /\ \A d \in Clients \ {c} : call'[d] = call[d] /\ (Saving(d)' <=> Saving(d))
  BY <1>1, Stays DEF IInv
<1>5. /\ ~raced /\ c \notin disturbed
      /\ (\E d \in Clients : Saving(d)') => shown' = shown
      /\ (\A d \in Clients : ~Saving(d)') => shown' = note'
  <2> DEFINE clobbers == c \in disturbed
  <2> clobbers \in BOOLEAN /\ Notice(c, clobbers)
    BY <1>2
  <2> HIDE DEF clobbers
  <2>1. /\ ~raced /\ ~clobbers
        /\ (\E d \in Clients : Saving(d)') => shown' = shown
        /\ (\A d \in Clients : ~Saving(d)') => shown' = note'
    BY Noticed DEF IInv
  <2> QED
    BY <2>1 DEF clobbers
<1>6. \A d \in Clients : ~Saving(d)'
  <2>1. ~Saving(c)'
    BY <1>1, <1>4 DEF Saving
  <2>2. \A d \in Clients : Saving(d) => d = c
    BY <1>3, <1>5 DEF IInv, Orderly
  <2> QED
    BY <1>4, <2>1, <2>2
<1>7. shown' = call[c].mem
  BY <1>2, <1>3, <1>5, <1>6, CleanWrite
<1>8. FInv'
  <2>1. Carries(c)'
    BY <1>1, <1>4, RestCarries
  <2> QED
    BY <1>1, <1>5, <2>1, OthersCarry
<1>9. Tree(shown') = Tree(shown) \/ Forest!Atomic(Tree(shown), Tree(shown'))
  <2>1. Carries(c)
    BY <1>5 DEF FInv
  <2>2. Tree(shown) = Tree(call[c].base)
    BY <1>3, <2>1 DEF Carries
  <2>3. \/ Forest!Adopt(Tree(shown), Tree(shown'))
        \/ Tree(shown) = Tree(shown')
        \/ Forest!Tool(Tree(shown), Tree(shown'))
    BY <1>2, <1>7, <2>1, <2>2 DEF Carries
  <2> QED
    BY <2>3 DEF Forest!Atomic
<1> QED
  BY <1>8, <1>9

LEMMA HandCarries ==
  ASSUME IInv, FInv, HandEdit, ~raced'
  PROVE  /\ FInv'
         /\ Tree(shown') = Tree(shown)
              \/ Forest!Atomic(Tree(shown), Tree(shown'))
<1>1. call' = call /\ Notice(Outside, FALSE)
  BY DEF HandEdit
<1>2. /\ ~raced
      /\ (\E d \in Clients : Saving(d)') => shown' = shown
      /\ (\A d \in Clients : ~Saving(d)') => shown' = note'
  BY <1>1, Noticed DEF IInv
<1>3. \A d \in Clients : Saving(d)' <=> Saving(d)
  BY <1>1 DEF Saving
<1>4. FInv'
  <2>1. ASSUME NEW c \in Clients PROVE Carries(c)'
    <3>1. Carries(c) /\ (Saving(c)' => shown' = shown)
      BY <1>2 DEF FInv
    <3> QED
      BY <1>1, <1>3, <3>1 DEF Carries
  <2> QED
    BY <2>1 DEF FInv
<1>5. CASE \E d \in Clients : Saving(d)
  BY <1>2, <1>3, <1>4, <1>5
<1>6. CASE \A d \in Clients : ~Saving(d)
  <2>1. shown = note /\ shown' = note' /\ Unique(note) /\ TypeOK /\ note \in Doc
    BY <1>2, <1>3, <1>6 DEF IInv, Orderly, TypeOK
  <2>2. ASSUME NEW t, NEW a, Typed(note', t, a) PROVE Tree(note') = Tree(note)
    <3>1. t.id \notin IdsIn(note)
      BY <2>2 DEF Typed, IdsIn, Named
    <3> QED
      BY <2>1, <2>2, <3>1, InsertedTree DEF Typed
  <2>3. ASSUME NEW i \in Tasks(note), note' = [note EXCEPT ![i] = Ticked(i)]
        PROVE  Tree(note') = Tree(note) \/ Forest!Hand(Tree(note), Tree(note'))
    <3>1. \/ Tree(note') = Tree(note)
          \/ \E id \in DOMAIN Tree(note) : Forest!Tick(Tree(note), Tree(note'), id)
      BY <2>1, <2>3, TickedTree DEF Ticked
    <3> QED
      BY <3>1 DEF Forest!Hand
  <2>4. ASSUME NEW i \in Tasks(note), note' = RemoveBlock(note, i)
        PROVE  Forest!Hand(Tree(note), Tree(note'))
    <3>1. i \in 1..Len(note) /\ note[i].kind = "task"
      BY <2>1, DocIsSeq DEF Tasks
    <3>2. Forest!Prune(Tree(note), Tree(note'))
      BY <2>1, <2>4, <3>1, RemovedTree
    <3> QED
      BY <3>2 DEF Forest!Hand
  <2>5. Tree(note') = Tree(note) \/ Forest!Hand(Tree(note), Tree(note'))
    BY <2>1, <2>2, <2>3, <2>4, HandEditIs
  <2> QED
    BY <1>4, <2>1, <2>5 DEF Forest!Atomic
<1> QED
  BY <1>5, <1>6

(* The tools between load and save.                                        *)
LEMMA ToolCarries ==
  ASSUME IInv, FInv, NEW c \in Clients, ~raced',
         Create(c) \/ Update(c) \/ Complete(c) \/ Reopen(c) \/ Delete(c)
  PROVE  FInv' /\ shown' = shown
<1> DEFINE s == call[c].mem
           f == Tree(s)
           g == Tree(call'[c].mem)
<1>1. PICK new : Save(c, new)
  <2>1. ASSUME Create(c) PROVE \E new : Save(c, new)
    BY <2>1 DEF Create
  <2>2. ASSUME Update(c) PROVE \E new : Save(c, new)
    BY <2>2 DEF Update
  <2>3. ASSUME Complete(c) PROVE \E new : Save(c, new)
    BY <2>3 DEF Complete
  <2>4. ASSUME Reopen(c) PROVE \E new : Save(c, new)
    BY <2>4 DEF Reopen
  <2>5. ASSUME Delete(c) PROVE \E new : Save(c, new)
    BY <2>5 DEF Delete
  <2> QED
    BY <2>1, <2>2, <2>3, <2>4, <2>5
<1>2. call[c].pc = "loaded" /\ ~raced
  BY <1>1 DEF Save
<1>3. Unique(call[c].mem)
  BY <1>2 DEF IInv, Orderly
<1>4. f = g \/ Forest!Tool(f, g)
  <2>1. Create(c) => f = g \/ Forest!Create(f, g)
    BY <1>3, CreateIsAtomic
  <2>2. /\ Update(c) => \E i \in DOMAIN f : Forest!Update(f, g, i)
        /\ Complete(c) => \E i \in DOMAIN f : Forest!Complete(f, g, i)
        /\ Reopen(c) => \E i \in DOMAIN f : Forest!Reopen(f, g, i)
        /\ Delete(c) => \E i \in DOMAIN f : Forest!Delete(f, g, i)
    BY <1>3, ChangeIsAtomic
  <2> HIDE DEF f, g
  <2> QED
    BY <2>1, <2>2 DEF Forest!Tool
<1>5. new \in Doc
  <2>1. IInv' /\ call'[c].mem = new
    <3>1. IInv'
      BY ChangesIInv
    <3>2. call'[c].mem = new
      BY <1>1, SavedCopy DEF IInv
    <3> QED
      BY <3>1, <3>2
  <2>2. call'[c] \in Call
    BY <2>1 DEF IInv, TypeOK
  <2> QED
    BY <2>1, <2>2 DEF Call
<1> QED
  BY <1>1, <1>4, <1>5, SaveCarries

LEMMA NextCarries ==
  ASSUME IInv, FInv, Next, ~raced'
  PROVE  /\ FInv'
         /\ Tree(shown') = Tree(shown)
              \/ Forest!Atomic(Tree(shown), Tree(shown'))
<1>1. ASSUME NEW c \in Clients,
             List(c) \/ Get(c) \/ CompleteRefused(c) \/ NotFound(c)
      PROVE  FInv' /\ shown' = shown
  <2>1. PICK ids : Answer(c, ids)
    BY <1>1 DEF List, Get, CompleteRefused, NotFound
  <2> QED
    BY <2>1, AnswerCarries
<1>2. ASSUME NEW c \in Clients, Tool(c)
      PROVE  /\ FInv'
             /\ Tree(shown') = Tree(shown)
                  \/ Forest!Atomic(Tree(shown), Tree(shown'))
  <2>1. CASE \/ Load(c) \/ Trunc(c)
             \/ List(c) \/ Get(c) \/ CompleteRefused(c) \/ NotFound(c)
             \/ Create(c) \/ Update(c) \/ Complete(c) \/ Reopen(c) \/ Delete(c)
    <3>1. FInv' /\ shown' = shown
      BY <1>1, <2>1, LoadCarries, TruncCarries, ToolCarries
    <3> QED
      BY <3>1
  <2>2. CASE WriteIds(c) \/ Write(c)
    BY <2>2, WriteCarries
  <2> QED
    BY <1>2, <2>1, <2>2 DEF Tool
<1>3. ASSUME NEW c \in Clients, WriteFails(c) PROVE FALSE
  <2>1. Notice(c, TRUE)
    BY <1>3 DEF WriteFails
  <2> QED
    BY <2>1 DEF Notice
<1>4. CASE Crash
  <2>1. /\ call' = [c \in Clients |-> Idle] /\ shown' = note
        /\ ~raced /\ \A c \in Clients : ~Saving(c)
    BY <1>4 DEF Crash
  <2>2. shown' = shown
    BY <2>1 DEF IInv, Orderly
  <2>3. \A c \in Clients : Carries(c)'
    BY <2>1, IdleIsCall, RestCarries
  <2> QED
    BY <2>2, <2>3 DEF FInv
<1> QED
  BY <1>2, <1>3, <1>4, HandCarries DEF Next

LEMMA RacedStays == ASSUME Next, raced PROVE raced'
<1>1. ASSUME NEW c, NEW b, Notice(c, b) PROVE raced'
  BY <1>1 DEF Notice
<1>2. ASSUME NEW c \in Clients, Tool(c) PROVE raced'
  <2>1. CASE Trunc(c) \/ WriteIds(c) \/ Write(c)
    BY <1>1, <2>1 DEF Trunc, WriteIds, Write
  <2>2. CASE List(c) \/ Get(c) \/ CompleteRefused(c) \/ NotFound(c)
    BY <2>2 DEF List, Get, CompleteRefused, NotFound, Answer
  <2>3. CASE Load(c) \/ Create(c) \/ Update(c) \/ Complete(c) \/ Reopen(c) \/ Delete(c)
    BY <2>3 DEF Load, Create, Update, Complete, Reopen, Delete, Save
  <2> QED
    BY <1>2, <2>1, <2>2, <2>3 DEF Tool
<1>3. ASSUME NEW c \in Clients, WriteFails(c) PROVE raced'
  BY <1>1, <1>3 DEF WriteFails
<1>4. HandEdit => raced'
  BY <1>1 DEF HandEdit
<1>5. Crash => raced'
  BY DEF Crash
<1> QED
  BY <1>2, <1>3, <1>4, <1>5 DEF Next

(* For notes of any length and nesting, any number of calls that overlap   *)
(* without colliding and any hand edits: seen between saves, the note is a *)
(* forest of reminders on which every tool is one atomic step, though each *)
(* reads the whole note in one step, truncates it in another and rewrites  *)
(* it in a third.                                                          *)
THEOREM StoreKeepsForest == Spec => ForestSpec
<1>1. Init => Forest!Init /\ FInv
  <2>1. ASSUME Init PROVE Forest!Init
    <3>1. raced = FALSE /\ shown \in Doc
      BY <2>1, InitIInv DEF Init, IInv, TypeOK
    <3>2. /\ Tree(shown) \in [IdsIn(shown) -> Forest!Record]
          /\ IdsIn(shown) \subseteq Ids /\ DOMAIN Tree(shown) = IdsIn(shown)
      BY <3>1, TreeIsForest, TreeAt
    <3> QED
      BY <3>1, <3>2 DEF Forest!Init
  <2>2. ASSUME Init PROVE FInv
    <3>1. \A c \in Clients : call[c].pc = "idle"
      BY <2>2, IdleIsCall DEF Init
    <3> QED
      BY <3>1 DEF FInv, Carries, Saving
  <2> QED
    BY <2>1, <2>2
<1>2. IInv /\ FInv /\ [Next]_vars => FInv'
  <2>1. ASSUME IInv, FInv, UNCHANGED vars PROVE FInv'
    BY <2>1 DEF vars, FInv, Carries, Saving
  <2>2. ASSUME IInv, FInv, Next PROVE FInv'
    BY <2>2, NextCarries DEF FInv
  <2> QED
    BY <2>1, <2>2
<1>3. IInv /\ FInv /\ [Next]_vars => [Forest!Next]_(Forest!vars)
  <2> SUFFICES ASSUME IInv, FInv, [Next]_vars PROVE [Forest!Next]_(Forest!vars)
    OBVIOUS
  <2>1. CASE UNCHANGED vars
    BY <2>1 DEF vars, Forest!vars
  <2>2. CASE Next
    <3>1. raced \in BOOLEAN /\ raced' \in BOOLEAN
      BY NextIInv DEF IInv, TypeOK
    <3>2. CASE raced'
      BY <3>1, <3>2 DEF Forest!Next, Forest!Tear
    <3>3. CASE ~raced'
      <4>1. raced' = raced
        BY <2>2, <3>1, <3>3, RacedStays
      <4> DEFINE f == Tree(shown)
                 g == Tree(shown')
      <4>2. g = f \/ Forest!Atomic(f, g)
        BY <2>2, <3>3, NextCarries
      <4>3. CASE g = f
        BY <4>1, <4>3 DEF Forest!vars
      <4>4. CASE g # f /\ Forest!Atomic(f, g)
        BY <4>1, <4>4 DEF Forest!Next
      <4> QED
        BY <4>2, <4>3, <4>4
    <3> QED
      BY <3>2, <3>3
  <2> QED
    BY <2>1, <2>2
<1> QED
  BY Invariant, <1>1, <1>2, <1>3, PTL DEF Spec, ForestSpec, Forest!Spec

-----------------------------------------------------------------------------
(* Where a later call finds a new reminder: the ID is its own.             *)
LEMMA FoundAlone ==
  ASSUME NEW s, NEW n, NEW a, NEW d, Moved(s, n, a, a, d), NEW e \in a..(a + d - 1),
         NEW id \in Ids \ IdsIn(s), n[e].id = id,
         \A k \in a..(a + d - 1) : k # e => n[k].id = NoId
  PROVE  /\ e \in Tasks(n) => e \in Named(n) /\ Find(n, id) = e
         /\ e \notin Tasks(n) => id \notin IdsIn(n)
<1>1. ASSUME NEW k \in Named(n), n[k].id = id PROVE k = e
  <2>1. k \in a..(a + d - 1)
    BY <1>1, MovedIds
  <2> QED
    BY <2>1 DEF Named
<1>2. id # NoId
  BY IdsAssumption DEF IdsAssumption
<1>3. ASSUME e \in Tasks(n) PROVE e \in Named(n) /\ Find(n, id) = e
  <2>1. e \in Named(n)
    BY <1>2, <1>3 DEF Named
  <2>2. {i \in Named(n) : n[i].id = id} = {e}
    BY <1>1, <2>1
  <2>3. Max({e}) = e
    <3>1. n \in Doc
      BY DEF Moved
    <3>2. e \in Nat
      BY <2>1, <3>1, IdsAreIds
    <3>3. {e} \subseteq 0..e /\ {e} # {}
      BY <3>2
    <3> QED
      BY <3>2, <3>3, MaxIsGreatest
  <2> QED
    BY <2>1, <2>2, <2>3 DEF Find
<1>4. ASSUME e \notin Tasks(n) PROVE id \notin IdsIn(n)
  BY <1>1, <1>4 DEF IdsIn, Named
<1> QED
  BY <1>3, <1>4

(* A block lies outside the template if its task does.                     *)
LEMMA BlockInTasks ==
  ASSUME NEW s \in Doc, NEW i \in Tasks(s), NEW n \in Doc,
         NEW e \in (i + 1)..Len(n), n[e].kind = "task",
         \A k \in 1..i : n[k] = s[k],
         \A k \in (i + 1)..(e - 1) : n[k].kind = "task"
  PROVE  e \in Tasks(n)
<1>1. /\ i \in 1..Len(s) /\ s[i].kind = "task" /\ ~InTemplate(s, i)
      /\ i \in Nat /\ Len(n) \in Nat /\ e \in DOMAIN n
  BY DocIsSeq DEF Tasks
<1>2. ASSUME NEW h \in 1..e, n[h].title = Template, Open(n, h, e) PROVE FALSE
  <2>1. n[h].kind = "heading"
    BY <1>2 DEF Open
  <2>2. h \notin i..e
    <3>1. \A k \in i..e : k = e \/ k = i \/ k \in (i + 1)..(e - 1)
      BY <1>1
    <3>2. n[i].kind = "task"
      BY <1>1
    <3> QED
      BY <2>1, <3>1, <3>2
  <2>3. h \in 1..i /\ \A k \in (h + 1)..i : k \in (h + 1)..e /\ n[k] = s[k]
    BY <1>1, <2>2
  <2>4. s[h].title = Template /\ Open(s, h, i)
    BY <1>2, <2>3 DEF Open
  <2> QED
    BY <1>1, <2>3, <2>4 DEF InTemplate
<1> QED
  BY <1>1, <1>2 DEF Tasks, InTemplate

(* The children of a task lie in its block.                                *)
LEMMA ChildInBlock ==
  ASSUME NEW s \in Doc, NEW i \in Tasks(s), NEW k
  PROVE  k \in Children(s, i) <=> /\ k \in (i + 1)..(End(s, i) - 1)
                                  /\ Parent(s, k) = i
<1> DEFINE e == End(s, i)
<1>1. /\ i \in 1..Len(s) /\ Len(s) \in Nat /\ e \in (i + 1)..(Len(s) + 1)
      /\ \A j \in (i + 1)..(e - 1) : Above(s, i, j)
      /\ e <= Len(s) => ~Above(s, i, e)
  BY DocIsSeq, EndInRange DEF Tasks
<1> HIDE DEF e
<1>2. ASSUME k \in Children(s, i) PROVE k \in (i + 1)..(e - 1) /\ Parent(s, k) = i
  <2>1. k \in Tasks(s) /\ Parent(s, k) = i
    BY <1>2 DEF Children
  <2>2. k \in 1..Len(s)
    BY <2>1, DocIsSeq DEF Tasks
  <2>3. i \in Ancestors(s, k)
    BY <1>1, <2>1, <2>2, ParentIsLast
  <2>4. k > i /\ Above(s, i, k)
    BY <1>1, <2>2, <2>3 DEF Ancestors
  <2>5. ~(e <= k)
    <3> SUFFICES ASSUME e <= k PROVE FALSE
      OBVIOUS
    <3>1. e <= Len(s) /\ e > i /\ \A j \in (i + 1)..e : j \in (i + 1)..k
      BY <1>1, <2>2
    <3>2. Above(s, i, e)
      BY <2>4, <3>1 DEF Above
    <3> QED
      BY <1>1, <3>1, <3>2
  <2> QED
    BY <1>1, <2>1, <2>2, <2>4, <2>5
<1>3. ASSUME k \in (i + 1)..(e - 1), Parent(s, k) = i PROVE k \in Children(s, i)
  <2>1. /\ k \in (i + 1)..Len(s)
        /\ \A j \in (i + 1)..(k - 1) : j \in (i + 1)..(e - 1)
    BY <1>1, <1>3
  <2>2. \A j \in (i + 1)..(e - 1) : s[j].kind = "task"
    <3>1. ASSUME NEW j \in (i + 1)..(e - 1) PROVE s[j].kind = "task"
      <4>1. Above(s, i, j) /\ j \in (i + 1)..j
        BY <1>1
      <4> QED
        BY <4>1 DEF Above
    <3> QED
      BY <3>1
  <2>3. k \in Tasks(s)
    BY <1>3, <2>1, <2>2, BlockInTasks
  <2> QED
    BY <1>3, <2>3 DEF Children
<1> QED
  BY <1>2, <1>3 DEF e

LEMMA InBlock ==
  ASSUME NEW s \in Doc, NEW i \in Tasks(s)
  PROVE  /\ i \in 1..Len(s) /\ Len(s) \in Nat /\ s[i].kind = "task"
         /\ s[i].ind \in Nat
         /\ End(s, i) \in (i + 1)..(Len(s) + 1)
         /\ \A k \in (i + 1)..(End(s, i) - 1) :
               /\ k \in 1..Len(s) /\ i \in Ancestors(s, k)
               /\ s[k].kind = "task" /\ s[k].ind \in Nat /\ s[k].ind > s[i].ind
<1> DEFINE e == End(s, i)
<1>1. /\ i \in 1..Len(s) /\ Len(s) \in Nat /\ e \in (i + 1)..(Len(s) + 1)
      /\ s[i].kind = "task" /\ s[i].ind \in Nat
      /\ \A j \in (i + 1)..(e - 1) : Above(s, i, j)
  BY DocIsSeq, ItemFields, EndInRange DEF Tasks
<1> HIDE DEF e
<1>2. ASSUME NEW k \in (i + 1)..(e - 1)
      PROVE  /\ k \in 1..Len(s) /\ i \in Ancestors(s, k)
             /\ s[k].kind = "task" /\ s[k].ind \in Nat /\ s[k].ind > s[i].ind
  <2>1. k \in 1..Len(s) /\ i \in 1..(k - 1) /\ k \in (i + 1)..k
    BY <1>1
  <2>2. Above(s, i, k)
    BY <1>1
  <2>3. s[k].kind = "task" /\ s[k].ind > s[i].ind
    BY <2>1, <2>2 DEF Above
  <2>4. i \in Ancestors(s, k)
    BY <1>1, <2>1, <2>2 DEF Ancestors
  <2>5. s[k].ind \in Nat
    BY <2>1, DocIsSeq, ItemFields
  <2> QED
    BY <2>1, <2>3, <2>4, <2>5
<1> QED
  BY <1>1, <1>2 DEF e

(* What follows the last child in the block is nested below it.            *)
LEMMA LastChild ==
  ASSUME NEW s \in Doc, NEW i \in Tasks(s), NEW m \in Children(s, i),
         \A k \in Children(s, i) : k <= m,
         NEW l \in (m + 1)..(End(s, i) - 1)
  PROVE  s[l].ind > s[m].ind
<1> DEFINE e == End(s, i)
           low == {k \in (m + 1)..(e - 1) : s[k].ind <= s[m].ind}
<1>1. /\ i \in 1..Len(s) /\ Len(s) \in Nat /\ e \in (i + 1)..(Len(s) + 1)
      /\ \A k \in (i + 1)..(e - 1) :
            /\ k \in 1..Len(s) /\ i \in Ancestors(s, k)
            /\ s[k].kind = "task" /\ s[k].ind \in Nat
  BY InBlock
<1>2. m \in (i + 1)..(e - 1) /\ Parent(s, m) = i
  BY ChildInBlock
<1> HIDE DEF e
<1> SUFFICES ASSUME ~(s[l].ind > s[m].ind) PROVE FALSE
  OBVIOUS
<1>3. l \in low
  <2>1. l \in (i + 1)..(e - 1)
    BY <1>1, <1>2 DEF e
  <2> QED
    BY <1>1, <1>2, <2>1 DEF e
<1> DEFINE k == Min(low)
<1>4. k \in low /\ \A y \in low : k <= y
  <2>1. low \subseteq Nat
    BY <1>1, <1>2
  <2> HIDE DEF low
  <2> QED
    BY <1>3, <2>1, MinIsLeast
<1> HIDE DEF k
<1>5. k \in (m + 1)..(e - 1) /\ k \in (i + 1)..(e - 1) /\ s[k].ind <= s[m].ind
  BY <1>1, <1>2, <1>4
<1>6. \A y \in (m + 1)..(k - 1) : y \in (i + 1)..(e - 1) /\ s[y].ind > s[m].ind
  <2>1. ASSUME NEW y \in (m + 1)..(k - 1) PROVE s[y].ind > s[m].ind
    <3>1. y \in (m + 1)..(e - 1) /\ y \in (i + 1)..(e - 1) /\ ~(k <= y)
      BY <1>1, <1>2, <1>5
    <3>2. ~(s[y].ind <= s[m].ind)
      BY <1>4, <3>1
    <3> QED
      BY <1>1, <1>2, <3>1, <3>2
  <2> QED
    BY <1>1, <1>2, <1>5, <2>1
<1> HIDE DEF low
<1>7. ASSUME NEW j \in Ancestors(s, k) PROVE j <= i
  <2>1. /\ j \in 1..(k - 1) /\ s[j].kind = "task"
        /\ \A y \in (j + 1)..k : s[y].kind = "task" /\ s[y].ind > s[j].ind
    <3>1. k \in Nat
      BY <1>1, <1>5
    <3> QED
      BY <3>1, AncestorIs
  <2>2. s[k].ind > s[j].ind
    BY <1>1, <1>5, <2>1
  <2> SUFFICES ASSUME ~(j <= i) PROVE FALSE
    OBVIOUS
  <2>3. j \in (i + 1)..(e - 1) /\ s[j].ind \in Nat /\ s[m].ind \in Nat /\ s[k].ind \in Nat
    BY <1>1, <1>2, <1>5, <2>1
  <2>4. CASE j < m
    <3>1. j \in 1..(m - 1) /\ \A y \in (j + 1)..m : y \in (j + 1)..k
      BY <1>1, <1>2, <1>5, <2>1, <2>4
    <3>2. j \in Ancestors(s, m)
      <4>1. m \in Nat
        BY <1>1, <1>2
      <4> QED
        BY <2>1, <3>1, <4>1, AncestorIs
    <3>3. m \in 1..Len(s)
      BY <1>1, <1>2
    <3>4. j <= i
      BY <1>2, <3>2, <3>3, ParentIsLast
    <3> QED
      BY <3>4
  <2>5. CASE j = m
    BY <1>5, <2>2, <2>3, <2>5
  <2>6. CASE j > m
    <3>1. j \in (m + 1)..(k - 1)
      BY <1>1, <1>2, <1>5, <2>1, <2>6
    <3>2. s[j].ind > s[m].ind
      BY <1>6, <3>1
    <3> QED
      BY <1>5, <2>2, <2>3, <3>2
  <2> QED
    BY <1>1, <1>2, <2>1, <2>4, <2>5, <2>6
<1>8. Parent(s, k) = i
  BY <1>1, <1>5, <1>7, ParentIs
<1>9. k \in Children(s, i)
  BY <1>5, <1>8, ChildInBlock DEF e
<1> QED
  BY <1>1, <1>2, <1>5, <1>9

(* A task less than a unit deeper, with the rest of the block below it, is *)
(* the last child.                                                         *)
LEMMA ShallowIsLast ==
  ASSUME NEW s \in Doc, NEW i \in Tasks(s), NEW j \in (i + 1)..(End(s, i) - 1),
         s[j].ind < s[i].ind + IndentUnit,
         \A k \in (j + 1)..(End(s, i) - 1) : s[k].ind > s[j].ind
  PROVE  /\ j \in Children(s, i)
         /\ \A k \in Children(s, i) : k <= j
<1> DEFINE e == End(s, i)
<1>1. /\ i \in 1..Len(s) /\ Len(s) \in Nat /\ e \in (i + 1)..(Len(s) + 1)
      /\ s[i].ind \in Nat
      /\ \A k \in (i + 1)..(e - 1) :
            /\ k \in 1..Len(s) /\ i \in Ancestors(s, k)
            /\ s[k].kind = "task" /\ s[k].ind \in Nat /\ s[k].ind > s[i].ind
  BY InBlock
<1>2. j \in (i + 1)..(e - 1) /\ \A k \in (j + 1)..(e - 1) : s[k].ind > s[j].ind
  OBVIOUS
<1>3. s[j].ind = s[i].ind + 1
  BY <1>1 DEF IndentUnit
<1>4. \A k : k \in Children(s, i) <=> k \in (i + 1)..(e - 1) /\ Parent(s, k) = i
  BY ChildInBlock
<1> HIDE DEF e
<1>5. ASSUME NEW l \in Ancestors(s, j) PROVE l <= i
  <2>1. l \in 1..(j - 1) /\ \A y \in (l + 1)..j : s[y].ind > s[l].ind
    <3>1. j \in Nat
      BY <1>1, <1>2
    <3> QED
      BY <3>1, AncestorIs
  <2> SUFFICES ASSUME ~(l <= i) PROVE FALSE
    OBVIOUS
  <2>2. l \in (i + 1)..(e - 1) /\ j \in (l + 1)..j
    BY <1>1, <1>2, <2>1
  <2>3. s[j].ind > s[l].ind /\ s[l].ind > s[i].ind /\ s[l].ind \in Nat
    BY <1>1, <2>1, <2>2
  <2> QED
    BY <1>1, <1>3, <2>3
<1>6. Parent(s, j) = i
  BY <1>1, <1>2, <1>5, ParentIs
<1>7. ASSUME NEW k \in Children(s, i) PROVE k <= j
  <2>1. k \in (i + 1)..(e - 1) /\ Parent(s, k) = i /\ k \in 1..Len(s)
    BY <1>1, <1>4
  <2> SUFFICES ASSUME ~(k <= j) PROVE FALSE
    OBVIOUS
  <2>2. /\ j \in 1..(k - 1)
        /\ \A y \in (j + 1)..k : y \in (j + 1)..(e - 1) /\ y \in (i + 1)..(e - 1)
    BY <1>1, <1>2, <2>1
  <2>3. j \in Ancestors(s, k)
    <3>1. k \in Nat /\ s[j].kind = "task"
      BY <1>1, <1>2, <2>1
    <3>2. \A y \in (j + 1)..k : s[y].kind = "task" /\ s[y].ind > s[j].ind
      BY <1>1, <1>2, <2>2
    <3> QED
      BY <2>2, <3>1, <3>2, AncestorIs
  <2>4. j <= i
    BY <2>1, <2>3, ParentIsLast
  <2> QED
    BY <1>1, <1>2, <2>4
<1>8. j \in Children(s, i)
  BY <1>2, <1>4, <1>6
<1> QED
  BY <1>7, <1>8

LEMMA FoundUnder ==
  ASSUME NEW s \in Doc, NEW i \in Tasks(s), NEW t \in TaskItem,
         t.id \in Ids \ IdsIn(s)
  PROVE  FoundUnderParent(s, i, t)
<1> DEFINE e == End(s, i)
           u == [t EXCEPT !.ind = s[i].ind + IndentUnit]
           n == InsertUnder(s, i, t)
           C == Children(s, i)
           m == Max(C)
<1>1. /\ i \in 1..Len(s) /\ Len(s) \in Nat /\ e \in (i + 1)..(Len(s) + 1)
      /\ s[i].kind = "task" /\ s[i].ind \in Nat
      /\ \A k \in (i + 1)..(e - 1) :
            /\ k \in 1..Len(s) /\ i \in Ancestors(s, k)
            /\ s[k].kind = "task" /\ s[k].ind \in Nat /\ s[k].ind > s[i].ind
  BY InBlock
<1>2. e \in 1..(Len(s) + 1)
  BY <1>1
<1>3. u \in TaskItem /\ u.id = t.id /\ u.ind = s[i].ind + 2 /\ u.kind = "task"
  BY <1>1 DEF TaskItem, IndentUnit
<1>4. Moved(s, n, e, e, 1) /\ n[e] = u
  <2> HIDE DEF u, e
  <2> QED
    BY <1>2, <1>3, InsertedTask DEF InsertUnder, u, e
<1>5. /\ \A j : j \in C <=> j \in (i + 1)..(e - 1) /\ Parent(s, j) = i
      /\ C \subseteq Nat
  <2>1. \A j : j \in C <=> j \in (i + 1)..(e - 1) /\ Parent(s, j) = i
    BY ChildInBlock
  <2> HIDE DEF C, e
  <2>2. \A j : j \in C => j \in Nat
    BY <1>1, <2>1
  <2> QED
    BY <2>1, <2>2
<1> HIDE DEF e, u, n
<1>6. /\ n \in Doc /\ Len(n) = Len(s) + 1 /\ \A k \in 1..(e - 1) : n[k] = s[k]
      /\ e \in (i + 1)..Len(n) /\ e \in Nat
  BY <1>1, <1>4 DEF Moved
<1>7. e \in Tasks(n)
  <2>1. n[e].kind = "task" /\ (\A k \in 1..i : n[k] = s[k])
        /\ \A k \in (i + 1)..(e - 1) : n[k].kind = "task"
    BY <1>1, <1>3, <1>4, <1>6
  <2> QED
    BY <1>6, <2>1, BlockInTasks
<1>8. Find(n, t.id) = e
  <2>1. /\ e \in e..(e + 1 - 1) /\ n[e].id = t.id
        /\ \A k \in e..(e + 1 - 1) : k # e => n[k].id = NoId
    BY <1>3, <1>4, <1>6
  <2> QED
    BY <1>4, <1>7, <2>1, FoundAlone
<1>9. \A j : j \in Ancestors(n, e) <=>
                /\ j \in 1..(e - 1) /\ s[j].kind = "task"
                /\ s[j].ind < s[i].ind + 2
                /\ \A k \in (j + 1)..(e - 1) : s[k].kind = "task"
                                               /\ s[k].ind > s[j].ind
  <2>1. ASSUME NEW j
        PROVE  j \in Ancestors(n, e) <=>
                /\ j \in 1..(e - 1) /\ s[j].kind = "task"
                /\ s[j].ind < s[i].ind + 2
                /\ \A k \in (j + 1)..(e - 1) : s[k].kind = "task"
                                               /\ s[k].ind > s[j].ind
    <3>1. j \in Ancestors(n, e) <=>
            /\ j \in 1..(e - 1) /\ n[j].kind = "task"
            /\ \A k \in (j + 1)..e : n[k].kind = "task" /\ n[k].ind > n[j].ind
      BY <1>6, AncestorIs
    <3>2. ASSUME j \in 1..(e - 1)
          PROVE  /\ n[j] = s[j] /\ s[j].ind \in Nat
                 /\ e \in (j + 1)..e
                 /\ \A k \in (j + 1)..e : k = e \/ k \in (j + 1)..(e - 1)
                 /\ \A k \in (j + 1)..(e - 1) : k \in (j + 1)..e /\ n[k] = s[k]
      <4>1. j \in 1..Len(s)
        BY <1>1, <3>2
      <4>2. s[j].ind \in Nat
        BY <4>1, DocIsSeq, ItemFields
      <4> QED
        BY <1>6, <3>2, <4>2
    <3>3. ASSUME j \in 1..(e - 1)
          PROVE  n[e].ind > n[j].ind <=> s[j].ind < s[i].ind + 2
      BY <1>1, <1>3, <1>4, <3>2, <3>3
    <3> QED
      BY <1>3, <1>4, <3>1, <3>2, <3>3
  <2> QED
    BY <2>1
<1>10. i \in Ancestors(n, e)
  BY <1>1, <1>6, <1>9
<1>11. /\ e \in 1..Len(n)
       /\ Parent(n, e) \in 0..(e - 1)
       /\ Parent(n, e) # 0 => Parent(n, e) \in Ancestors(n, e)
       /\ \A j \in Ancestors(n, e) : j <= Parent(n, e)
  <2>1. e \in 1..Len(n)
    BY <1>1, <1>6
  <2> QED
    BY <1>6, <2>1, ParentIsLast
<1>12. C # {} => m \in C /\ \A k \in C : k <= m
  <2>1. C \subseteq 0..Len(s)
    BY <1>1, <1>5
  <2> HIDE DEF C
  <2> QED
    BY <1>1, <2>1, MaxIsGreatest
<1>13. ASSUME C # {}, s[m].ind < s[i].ind + 2 PROVE Parent(n, e) # i
  <2>1. m \in (i + 1)..(e - 1)
    BY <1>5, <1>12, <1>13
  <2>2. \A k \in (m + 1)..(e - 1) : s[k].ind > s[m].ind
    BY <1>12, <1>13, LastChild DEF e
  <2> HIDE DEF m, C
  <2>3. /\ m \in 1..(e - 1) /\ s[m].kind = "task"
        /\ \A k \in (m + 1)..(e - 1) : s[k].kind = "task"
    BY <1>1, <2>1
  <2>4. m \in Ancestors(n, e)
    BY <1>9, <1>13, <2>2, <2>3
  <2> QED
    BY <1>1, <1>11, <2>1, <2>4
<1>14. ASSUME Parent(n, e) # i PROVE C # {} /\ s[m].ind < s[i].ind + 2
  <2> DEFINE j == Parent(n, e)
  <2>1. j \in Ancestors(n, e) /\ j >= i
    BY <1>1, <1>10, <1>11
  <2>2. j \in (i + 1)..(e - 1)
    BY <1>1, <1>11, <1>14, <2>1
  <2>3. /\ s[j].ind < s[i].ind + 2
        /\ \A k \in (j + 1)..(e - 1) : s[k].ind > s[j].ind
    BY <1>9, <2>1
  <2> HIDE DEF j
  <2>4. j \in C /\ \A k \in C : k <= j
    BY <2>2, <2>3, ShallowIsLast DEF e, IndentUnit
  <2>5. m \in C /\ j <= m /\ m <= j
    BY <1>12, <2>4
  <2>6. m = j
    BY <1>5, <2>4, <2>5
  <2> HIDE DEF m, C
  <2> QED
    BY <2>3, <2>4, <2>6
<1>15. Shallow(s, i) <=> C # {} /\ s[m].ind < s[i].ind + 2
  BY DEF Shallow, IndentUnit
<1> HIDE DEF C, m
<1>16. Parent(n, Find(n, t.id)) = i <=> ~Shallow(s, i)
  BY <1>8, <1>13, <1>14, <1>15
<1> QED
  BY <1>16 DEF FoundUnderParent, NestsUnderParent, n

(* A task that ends the section of the heading at h, at the margin.        *)
EndsSection(n, h, e) ==
  /\ n \in Doc /\ h \in 1..Len(n) /\ e \in (h + 1)..Len(n)
  /\ n[h].kind = "heading" /\ n[e].kind = "task" /\ n[e].ind = 0
  /\ \A k \in (h + 1)..(e - 1) : n[k].kind = "heading" => n[k].level > n[h].level
  /\ e + 1 <= Len(n) => n[e + 1].kind = "heading" /\ n[e + 1].level <= n[h].level

LEMMA BelowIsBetween ==
  ASSUME NEW n, NEW h, NEW e, EndsSection(n, h, e)
  PROVE  /\ Open(n, h, e)
         /\ \A k : k \in Below(n, h) <=>
                     k \in (h + 1)..(e - 1) /\ n[k].kind = "heading"
<1>1. /\ n \in Doc /\ Len(n) \in Nat /\ DOMAIN n = 1..Len(n)
      /\ h \in 1..Len(n) /\ e \in (h + 1)..Len(n)
      /\ n[h].kind = "heading" /\ n[e].kind = "task"
      /\ \A k \in (h + 1)..(e - 1) : n[k].kind = "heading" => n[k].level > n[h].level
      /\ e + 1 <= Len(n) => n[e + 1].kind = "heading" /\ n[e + 1].level <= n[h].level
      /\ n[h].level \in Nat
  BY DocIsSeq, ItemFields DEF EndsSection
<1>2. \A k \in (h + 1)..e : k = e \/ k \in (h + 1)..(e - 1)
  BY <1>1
<1>3. Open(n, h, e)
  BY <1>1, <1>2 DEF Open
<1>4. ASSUME NEW k \in (h + 1)..(e - 1), n[k].kind = "heading"
      PROVE  k \in Below(n, h)
  <2>1. k \in 1..Len(n) /\ k > h /\ \A l \in (h + 1)..k : l \in (h + 1)..(e - 1)
    BY <1>1
  <2>2. Open(n, h, k)
    BY <1>1, <2>1 DEF Open
  <2> QED
    BY <1>1, <1>4, <2>1, <2>2 DEF Below, Headings
<1>5. ASSUME NEW k \in Below(n, h)
      PROVE  k \in (h + 1)..(e - 1) /\ n[k].kind = "heading"
  <2>1. k \in 1..Len(n) /\ n[k].kind = "heading" /\ k > h /\ Open(n, h, k)
    BY <1>1 DEF Below, Headings
  <2>2. ~(k >= e + 1)
    <3> SUFFICES ASSUME k >= e + 1 PROVE FALSE
      OBVIOUS
    <3>1. e + 1 <= Len(n) /\ e + 1 \in (h + 1)..k /\ e + 1 \in 1..Len(n)
      BY <1>1, <2>1
    <3>2. n[e + 1].level > n[h].level /\ n[e + 1].level <= n[h].level
      BY <1>1, <2>1, <3>1 DEF Open
    <3>3. n[e + 1].level \in Nat
      BY <1>1, <3>1, ItemFields, DocIsSeq
    <3> QED
      BY <1>1, <3>2, <3>3
  <2>3. k # e
    BY <1>1, <2>1
  <2> QED
    BY <1>1, <2>1, <2>2, <2>3
<1> QED
  BY <1>3, <1>4, <1>5

LEMMA OpenAtEnd ==
  ASSUME NEW n, NEW h, NEW e, EndsSection(n, h, e)
  PROVE  InTemplate(n, e) <=> EndsInTemplate(n, h)
<1>1. /\ n \in Doc /\ Len(n) \in Nat
      /\ h \in 1..Len(n) /\ e \in (h + 1)..Len(n)
      /\ n[h].kind = "heading" /\ n[e].kind = "task"
      /\ \A k \in (h + 1)..(e - 1) : n[k].kind = "heading" => n[k].level > n[h].level
      /\ \A k \in 1..Len(n) : n[k].level \in Nat
      /\ \A k : k \in Below(n, h) <=>
                  k \in (h + 1)..(e - 1) /\ n[k].kind = "heading"
  <2>1. n \in Doc
    BY DEF EndsSection
  <2>2. Len(n) \in Nat /\ \A k \in 1..Len(n) : n[k].level \in Nat
    BY <2>1, DocIsSeq, ItemFields
  <2> QED
    BY <2>1, <2>2, BelowIsBetween DEF EndsSection
<1>2. ASSUME InTemplate(n, e) PROVE EndsInTemplate(n, h)
  <2>1. PICK g \in 1..e : n[g].title = Template /\ Open(n, g, e)
    BY <1>2 DEF InTemplate
  <2>2. n[g].kind = "heading"
    BY <2>1 DEF Open
  <2>3. g \in 1..(e - 1)
    BY <1>1, <2>2
  <2>4. CASE g <= h
    <3>1. g \in 1..h /\ \A k \in (g + 1)..h : k \in (g + 1)..e
      BY <1>1, <2>3, <2>4
    <3>2. Open(n, g, h)
      BY <2>1, <3>1 DEF Open
    <3> QED
      BY <2>1, <3>1, <3>2 DEF EndsInTemplate, InTemplate
  <2>5. CASE g > h
    <3>1. g \in Below(n, h)
      BY <1>1, <2>2, <2>3, <2>5
    <3>2. ASSUME NEW k \in Below(n, h), k > g PROVE n[k].level > n[g].level
      <4>1. k \in (g + 1)..e /\ n[k].kind = "heading"
        BY <1>1, <2>3, <3>2
      <4> QED
        BY <2>1, <4>1 DEF Open
    <3> QED
      BY <2>1, <3>1, <3>2 DEF EndsInTemplate
  <2> QED
    BY <1>1, <2>3, <2>4, <2>5
<1>3. ASSUME InTemplate(n, h) PROVE InTemplate(n, e)
  <2>1. PICK g \in 1..h : n[g].title = Template /\ Open(n, g, h)
    BY <1>3 DEF InTemplate
  <2>2. ASSUME NEW k \in (g + 1)..e, n[k].kind = "heading"
        PROVE  n[k].level > n[g].level
    <3>1. k # e
      BY <1>1, <2>2
    <3>2. k \in (g + 1)..h \/ k \in (h + 1)..(e - 1)
      BY <1>1, <3>1
    <3>3. CASE k \in (g + 1)..h
      BY <2>1, <2>2, <3>3 DEF Open
    <3>4. CASE k \in (h + 1)..(e - 1)
      <4>1. n[k].level > n[h].level
        BY <1>1, <2>2, <3>4
      <4>2. n[h].level >= n[g].level
        <5>1. g = h \/ h \in (g + 1)..h
          BY <1>1
        <5>2. h \in (g + 1)..h => n[h].level > n[g].level
          BY <1>1, <2>1 DEF Open
        <5>3. g \in 1..Len(n) /\ n[g].level \in Nat /\ n[h].level \in Nat
          BY <1>1
        <5> QED
          BY <5>1, <5>2, <5>3
      <4>3. /\ n[k].level \in Nat /\ n[g].level \in Nat /\ n[h].level \in Nat
        <5>1. k \in 1..Len(n) /\ g \in 1..Len(n)
          BY <1>1, <3>4
        <5> QED
          BY <1>1, <5>1
      <4> QED
        BY <4>1, <4>2, <4>3
    <3> QED
      BY <3>2, <3>3, <3>4
  <2>3. Open(n, g, e) /\ g \in 1..e
    BY <1>1, <2>1, <2>2 DEF Open
  <2> QED
    BY <2>1, <2>3 DEF InTemplate
<1>4. ASSUME NEW g \in Below(n, h), n[g].title = Template,
             \A k \in Below(n, h) : k > g => n[k].level > n[g].level
      PROVE  InTemplate(n, e)
  <2>1. g \in (h + 1)..(e - 1) /\ n[g].kind = "heading"
    BY <1>1
  <2>2. ASSUME NEW k \in (g + 1)..e, n[k].kind = "heading"
        PROVE  n[k].level > n[g].level
    <3>1. k # e
      BY <1>1, <2>2
    <3>2. k \in (h + 1)..(e - 1) /\ k > g
      BY <1>1, <2>1, <3>1
    <3> QED
      BY <1>1, <1>4, <2>2, <3>2
  <2>3. Open(n, g, e) /\ g \in 1..e
    BY <1>1, <2>1, <2>2 DEF Open
  <2> QED
    BY <1>4, <2>3 DEF InTemplate
<1> QED
  BY <1>2, <1>3, <1>4 DEF EndsInTemplate

LEMMA PlacedInSection ==
  ASSUME NEW n, NEW h, NEW e, EndsSection(n, h, e)
  PROVE  /\ e \in Tasks(n) <=> ~EndsInTemplate(n, h)
         /\ Parent(n, e) = 0
         /\ SectionOf(n, e) = h <=> Below(n, h) = {}
<1>1. /\ n \in Doc /\ Len(n) \in Nat /\ DOMAIN n = 1..Len(n)
      /\ h \in 1..Len(n) /\ e \in (h + 1)..Len(n) /\ e \in 1..Len(n) /\ e \in Nat
      /\ n[h].kind = "heading" /\ n[e].kind = "task" /\ n[e].ind = 0
      /\ \A k : k \in Below(n, h) <=>
                  k \in (h + 1)..(e - 1) /\ n[k].kind = "heading"
  <2>1. /\ n \in Doc /\ h \in 1..Len(n) /\ e \in (h + 1)..Len(n)
        /\ n[h].kind = "heading" /\ n[e].kind = "task" /\ n[e].ind = 0
    BY DEF EndsSection
  <2>2. Len(n) \in Nat /\ DOMAIN n = 1..Len(n)
    BY <2>1, DocIsSeq
  <2>3. e \in 1..Len(n) /\ e \in Nat
    BY <2>1, <2>2
  <2> QED
    BY <2>1, <2>2, <2>3, BelowIsBetween
<1>2. e \in Tasks(n) <=> ~EndsInTemplate(n, h)
  BY <1>1, OpenAtEnd DEF Tasks
<1>3. Parent(n, e) = 0
  <2>1. ASSUME NEW j \in Ancestors(n, e) PROVE FALSE
    <3>1. j \in 1..(e - 1) /\ \A k \in (j + 1)..e : n[k].ind > n[j].ind
      BY <1>1, AncestorIs
    <3>2. j \in 1..Len(n) /\ e \in (j + 1)..e
      BY <1>1, <3>1
    <3>3. n[j].ind \in Nat
      BY <1>1, <3>2, DocIsSeq, ItemFields
    <3> QED
      BY <1>1, <3>1, <3>2, <3>3
  <2> QED
    BY <1>1, <2>1, ParentIs
<1> DEFINE H == {k \in Headings(n) : k < e} \cup {0}
<1>4. SectionOf(n, e) \in H /\ \A k \in H : k <= SectionOf(n, e)
  <2>1. H \subseteq 0..e /\ H # {}
    BY <1>1 DEF Headings
  <2> HIDE DEF H
  <2>2. Max(H) \in H /\ \A k \in H : k <= Max(H)
    BY <1>1, <2>1, MaxIsGreatest
  <2> QED
    BY <2>2 DEF SectionOf, H
<1>5. /\ h \in H
      /\ \A k \in H : k = 0 \/ (k \in 1..(e - 1) /\ n[k].kind = "heading")
      /\ \A k \in (h + 1)..(e - 1) : n[k].kind = "heading" => k \in H
  BY <1>1 DEF Headings
<1> DEFINE o == SectionOf(n, e)
<1> HIDE DEF H, o
<1>6. o \in H /\ \A k \in H : k <= o
  BY <1>4 DEF o
<1>7. ASSUME Below(n, h) = {} PROVE o = h
  <2>1. o >= h /\ (o = 0 \/ (o \in 1..(e - 1) /\ n[o].kind = "heading"))
    BY <1>1, <1>5, <1>6
  <2>2. ~(o \in (h + 1)..(e - 1))
    BY <1>1, <1>7, <2>1
  <2> QED
    BY <1>1, <2>1, <2>2
<1>8. ASSUME Below(n, h) # {} PROVE o # h
  <2>1. PICK k : k \in (h + 1)..(e - 1) /\ n[k].kind = "heading"
    BY <1>1, <1>8
  <2>2. k <= o
    BY <1>5, <1>6, <2>1
  <2> QED
    BY <1>1, <2>1, <2>2
<1> QED
  BY <1>2, <1>3, <1>7, <1>8 DEF o

LEMMA FoundThere ==
  ASSUME NEW s, NEW n, NEW a, NEW d, Moved(s, n, a, a, d), NEW e \in a..(a + d - 1),
         NEW t, t.id \in Ids \ IdsIn(s), n[e] = t,
         \A k \in a..(a + d - 1) : k # e => n[k].id = NoId,
         NEW h, EndsSection(n, h, e),
         NEW title, n[h].title = title,
         \A k \in Headings(n) : n[k].title = title => h <= k,
         n = InsertInSection(s, title, t)
  PROVE  FoundInSection(s, title, t)
<1> DEFINE T == {k \in Headings(n) : n[k].title = title}
<1>1. Min(T) = h
  <2>1. n \in Doc /\ h \in 1..Len(n) /\ n[h].kind = "heading"
    BY DEF EndsSection
  <2>2. h \in T /\ T \subseteq Nat /\ \A k \in T : h <= k
    BY <2>1, DocIsSeq DEF Headings
  <2> HIDE DEF T
  <2>3. Min(T) \in T /\ \A k \in T : Min(T) <= k
    BY <2>2, MinIsLeast
  <2>4. Min(T) <= h /\ h <= Min(T) /\ Min(T) \in Nat /\ h \in Nat
    BY <2>2, <2>3
  <2> QED
    BY <2>4
<1>2. /\ e \in Tasks(n) => Find(n, t.id) = e
      /\ e \notin Tasks(n) => t.id \notin IdsIn(n)
  BY FoundAlone
<1>3. /\ e \in Tasks(n) <=> ~EndsInTemplate(n, h)
      /\ Parent(n, e) = 0
      /\ SectionOf(n, e) = h <=> Below(n, h) = {}
      /\ Open(n, h, e)
  BY PlacedInSection, BelowIsBetween
<1> DEFINE m == InsertInSection(s, title, t)
           o == Min({k \in Headings(m) : m[k].title = title})
<1>4. m = n /\ o = h
  BY <1>1
<1> HIDE DEF m, o, T
<1>5. IF EndsInTemplate(m, o) THEN t.id \notin IdsIn(m)
      ELSE LET i == Find(m, t.id)
           IN  /\ Parent(m, i) = 0
               /\ Open(m, o, i)
               /\ SectionOf(m, i) = o <=> Below(m, o) = {}
  BY <1>2, <1>3, <1>4
<1> QED
  BY <1>5 DEF FoundInSection, m, o

LEMMA FoundInItsSection ==
  ASSUME NEW s \in Doc, NEW title \in Sections \cup {Template},
         NEW t \in TaskItem, t.ind = 0,
         t.id \in Ids \ IdsIn(s)
  PROVE  FoundInSection(s, title, t)
<1>1. t.kind = "task" /\ Len(s) \in Nat /\ DOMAIN s = 1..Len(s)
  BY DocIsSeq DEF TaskItem
<1>2. ASSUME NEW h \in Headings(s), NEW e \in 1..(Len(s) + 1),
             s[h].title = title,
             \A k \in Headings(s) : s[k].title = title => h <= k,
             SectionEnds(s, h, e),
             InsertInSection(s, title, t) = Splice(s, e, e, <<t>>)
      PROVE  FoundInSection(s, title, t)
  <2> DEFINE n == Splice(s, e, e, <<t>>)
  <2>1. Moved(s, n, e, e, 1) /\ n[e] = t
    BY InsertedTask
  <2>2. n = InsertInSection(s, title, t)
    BY <1>2
  <2> HIDE DEF n
  <2>3. /\ n \in Doc /\ Len(n) = Len(s) + 1 /\ DOMAIN n = 1..Len(n)
        /\ \A k \in 1..(e - 1) : n[k] = s[k]
        /\ e <= Len(s) => n[e + 1] = s[e]
    <3>1. /\ n \in Doc /\ Len(n) = Len(s) + 1
          /\ \A k \in 1..(e - 1) : n[k] = s[k]
          /\ \A k \in e..Len(s) : n[k + 1] = s[k]
      BY <2>1 DEF Moved
    <3>2. e <= Len(s) => e \in e..Len(s)
      BY <1>1
    <3> QED
      BY <3>1, <3>2, DocIsSeq
  <2>4. /\ h \in 1..Len(s) /\ e \in (h + 1)..(Len(s) + 1) /\ h \in 1..(e - 1)
        /\ s[h].kind = "heading"
        /\ \A k \in (h + 1)..(e - 1) : s[k].kind = "heading" => s[k].level > s[h].level
        /\ e <= Len(s) => s[e].kind = "heading" /\ s[e].level <= s[h].level
    <3>1. /\ h \in 1..Len(s) /\ e \in (h + 1)..(Len(s) + 1)
          /\ s[h].kind = "heading"
          /\ Open(s, h, e - 1)
          /\ e <= Len(s) => s[e].kind = "heading" /\ s[e].level <= s[h].level
      BY <1>2 DEF SectionEnds
    <3>2. h \in 1..(e - 1)
      BY <1>1, <3>1
    <3> QED
      BY <3>1, <3>2 DEF Open
  <2>5. EndsSection(n, h, e)
    <3>1. h \in 1..Len(n) /\ e \in (h + 1)..Len(n) /\ n[h] = s[h]
      BY <1>1, <2>3, <2>4
    <3>2. \A k \in (h + 1)..(e - 1) : n[k] = s[k]
      BY <1>1, <2>3, <2>4
    <3>3. e + 1 <= Len(n) => e <= Len(s)
      BY <1>1, <2>3
    <3> QED
      BY <1>1, <2>1, <2>3, <2>4, <3>1, <3>2, <3>3 DEF EndsSection
  <2>6. ASSUME NEW k \in Headings(n), n[k].title = title PROVE h <= k
    <3>1. k \in 1..Len(n) /\ n[k].kind = "heading"
      BY <2>3 DEF Headings
    <3>2. CASE k \in 1..(e - 1)
      <4>1. n[k] = s[k] /\ k \in 1..Len(s)
        BY <1>1, <2>3, <3>2
      <4>2. k \in Headings(s)
        BY <1>1, <3>1, <4>1 DEF Headings
      <4> QED
        BY <1>2, <2>6, <4>1, <4>2
    <3>3. CASE k \notin 1..(e - 1)
      BY <1>1, <2>3, <2>4, <3>1, <3>3
    <3> QED
      BY <3>2, <3>3
  <2>7. /\ e \in e..(e + 1 - 1)
        /\ \A k \in e..(e + 1 - 1) : k # e => n[k].id = NoId
    BY <1>1
  <2>8. n[h].title = title
    BY <1>2, <2>3, <2>4
  <2> QED
    BY <2>1, <2>2, <2>5, <2>6, <2>7, <2>8, FoundThere
<1>3. ASSUME \A k \in Headings(s) : s[k].title # title,
             InsertInSection(s, title, t) = s \o <<Heading(title, 2), t>>
      PROVE  FoundInSection(s, title, t)
  <2> DEFINE x == Heading(title, 2)
             l == Len(s)
             n == s \o <<x, t>>
  <2>1. x \in HeadingItem /\ x.kind = "heading" /\ x.id = NoId /\ x.title = title
    BY DEF Heading, HeadingItem
  <2>2. n = InsertInSection(s, title, t)
    BY <1>3
  <2> HIDE DEF x
  <2>3. Moved(s, n, l + 1, l + 1, 2) /\ n[l + 1] = x /\ n[l + 2] = t
    BY <2>1, InsertedHeading
  <2> HIDE DEF n
  <2>4. /\ n \in Doc /\ Len(n) = l + 2 /\ DOMAIN n = 1..(l + 2) /\ l \in Nat
        /\ \A k \in 1..l : n[k] = s[k]
    <3>1. n \in Doc /\ Len(n) = l + 2 /\ \A k \in 1..(l + 1 - 1) : n[k] = s[k]
      BY <2>3 DEF Moved
    <3>2. l + 1 - 1 = l
      BY <1>1
    <3> QED
      BY <1>1, <3>1, <3>2, DocIsSeq
  <2>5. EndsSection(n, l + 1, l + 2)
    <3>1. /\ l + 1 \in 1..Len(n) /\ l + 2 \in (l + 1 + 1)..Len(n)
          /\ ~(l + 2 + 1 <= Len(n))
          /\ \A k \in (l + 1 + 1)..(l + 2 - 1) : FALSE
      BY <2>4
    <3> QED
      BY <1>1, <2>1, <2>3, <2>4, <3>1 DEF EndsSection
  <2>6. ASSUME NEW k \in Headings(n), n[k].title = title PROVE l + 1 <= k
    <3>1. k \in 1..(l + 2) /\ n[k].kind = "heading"
      BY <2>4 DEF Headings
    <3>2. ~(k \in 1..l)
      <4> SUFFICES ASSUME k \in 1..l PROVE FALSE
        OBVIOUS
      <4>1. n[k] = s[k] /\ k \in DOMAIN s
        BY <1>1, <2>4
      <4>2. k \in Headings(s)
        BY <3>1, <4>1 DEF Headings
      <4> QED
        BY <1>3, <2>6, <4>1, <4>2
    <3> QED
      BY <2>4, <3>1, <3>2
  <2>7. /\ l + 2 \in (l + 1)..(l + 1 + 2 - 1)
        /\ \A k \in (l + 1)..(l + 1 + 2 - 1) : k # l + 2 => n[k].id = NoId
    <3>1. \A k \in (l + 1)..(l + 1 + 2 - 1) : k = l + 1 \/ k = l + 2
      BY <2>4
    <3> QED
      BY <2>1, <2>3, <2>4, <3>1
  <2>8. n[l + 1].title = title
    BY <2>1, <2>3
  <2> HIDE DEF l
  <2> QED
    BY <2>2, <2>3, <2>5, <2>6, <2>7, <2>8, FoundThere
<1> QED
  BY <1>2, <1>3, SectionPlace

(* In a note of any length, nesting and indentation, the answer of Create  *)
(* tells the parent and the section that the next call reads off the note, *)
(* but for the exceptions that CreatedIsFound names, and never in one of   *)
(* them.                                                                   *)
THEOREM CreateAnswersTrue == Spec => []CreatedIsFound
<1>1. IInv => CreatedIsFound
  <2> SUFFICES ASSUME IInv, NEW c \in Clients, call[c].pc = "loaded",
                      NEW id \in Ids \ IdsIn(call[c].mem)
               PROVE  LET s == call[c].mem
                          new == Task(CHOOSE t \in Titles : TRUE, id, 0)
                      IN  /\ \A p \in IdsIn(s) :
                                FoundUnderParent(s, Find(s, p), new)
                          /\ \A title \in Sections \cup {Template} :
                                FoundInSection(s, title, new)
    BY DEF CreatedIsFound
  <2> DEFINE s == call[c].mem
             new == Task(CHOOSE t \in Titles : TRUE, id, 0)
  <2>1. s \in Doc
    BY DEF IInv, TypeOK, Call
  <2>2. new \in TaskItem /\ new.id = id /\ new.ind = 0
    <3>1. (CHOOSE t \in Titles : TRUE) \in Titles
      BY TitlesAssumption DEF TitlesAssumption
    <3> QED
      BY <3>1, TaskIsItem DEF Task
  <2> HIDE DEF s, new
  <2>3. new.id \in Ids \ IdsIn(s)
    BY <2>2 DEF s
  <2>4. ASSUME NEW p \in IdsIn(s) PROVE FoundUnderParent(s, Find(s, p), new)
    <3>1. Find(s, p) \in Tasks(s)
      BY <2>1, FoundTask DEF Named
    <3> QED
      BY <2>1, <2>2, <2>3, <3>1, FoundUnder
  <2>5. ASSUME NEW title \in Sections \cup {Template} PROVE FoundInSection(s, title, new)
    BY <2>1, <2>2, <2>3, FoundInItsSection
  <2> QED
    BY <2>4, <2>5 DEF s, new
<1> QED
  BY Invariant, <1>1, PTL
=============================================================================
