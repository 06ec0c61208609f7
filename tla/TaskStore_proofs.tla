-------------------------- MODULE TaskStore_proofs --------------------------
(***************************************************************************)
(* Proofs about TaskStore, for any number of calls in flight, any note and *)
(* any hand edits: until calls collide, a reference is never given twice,  *)
(* and what a client was told stays in the note.                           *)
(*                                                                         *)
(* First what the operators of TaskDoc make of a note, for every note:     *)
(* which tasks and which IDs a change of the note leaves in it.            *)
(***************************************************************************)
EXTENDS TaskStore, SequenceTheorems, FiniteSetTheorems, WellFoundedInduction,
        TLAPS

-----------------------------------------------------------------------------
(* Least and greatest numbers.                                             *)
Less == {p \in Nat \X Nat : p[1] < p[2]}

LEMMA LessIsWellFounded == IsWellFoundedOn(Less, Nat)
  BY NatLessThanWellFounded, Zenon DEF OpToRel, Less

LEMMA MinIsLeast ==
  ASSUME NEW T, T \subseteq Nat, T # {}
  PROVE  Min(T) \in T /\ \A y \in T : Min(T) <= y
<1>1. PICK x \in T : \A y \in T : <<y, x>> \notin Less
  BY LessIsWellFounded, WFMin
<1>2. ASSUME NEW y \in T PROVE x <= y
  <2>1. x \in Nat /\ y \in Nat
    OBVIOUS
  <2>2. ~(y < x)
    BY <1>1, <2>1 DEF Less
  <2> QED
    BY <2>1, <2>2
<1> QED
  BY <1>2 DEF Min

LEMMA MaxIsGreatest ==
  ASSUME NEW n \in Nat, NEW T, T \subseteq 0..n, T # {}
  PROVE  Max(T) \in T /\ \A y \in T : y <= Max(T)
<1> DEFINE U == {n - x : x \in T}
<1>1. U \subseteq Nat /\ U # {}
  <2>1. ASSUME NEW x \in T PROVE n - x \in Nat
    <3>1. x \in 0..n
      OBVIOUS
    <3> QED
      BY <3>1
  <2>2. PICK x \in T : TRUE
    OBVIOUS
  <2>3. n - x \in U
    OBVIOUS
  <2> QED
    BY <2>1, <2>3
<1>2. Min(U) \in U /\ \A y \in U : Min(U) <= y
  <2> HIDE DEF U
  <2> QED
    BY <1>1, MinIsLeast
<1>3. PICK x \in T : Min(U) = n - x
  BY <1>2
<1>4. ASSUME NEW y \in T PROVE x >= y
  <2>1. n - y \in U
    OBVIOUS
  <2>2. x \in 0..n /\ y \in 0..n
    OBVIOUS
  <2>3. n - x <= n - y
    BY <1>2, <1>3, <2>1
  <2> QED
    BY <2>2, <2>3
<1>5. Max(T) \in T /\ \A y \in T : Max(T) >= y
  BY <1>4 DEF Max
<1> QED
  BY <1>5

-----------------------------------------------------------------------------
(* Items.                                                                  *)
LEMMA DocIsSeq ==
  ASSUME NEW s \in Doc
  PROVE  /\ s \in Seq(Item) /\ Len(s) \in Nat /\ DOMAIN s = 1..Len(s)
         /\ \A i \in 1..Len(s) : s[i] \in Item
  BY LenProperties, ElementOfSeq DEF Doc, Item

LEMMA ItemFields ==
  ASSUME NEW x \in Item
  PROVE  /\ x.kind \in {"task", "heading", "prose"}
         /\ x.level \in Nat /\ x.id \in Ids \cup {NoId} /\ x.ind \in Nat
         /\ x.kind = "task" => x \in TaskItem /\ x.level = 0 /\ x.title \in Titles
         /\ x.kind = "heading" => x \in HeadingItem /\ x.id = NoId
         /\ x.kind = "prose" => x.ind = 0
<1>1. CASE x \in TaskItem
  BY <1>1 DEF TaskItem
<1>2. CASE x \in HeadingItem
  <2>1. /\ x.kind = "heading" /\ x.level \in Nat /\ x.id = NoId /\ x.ind = 0
    BY <1>2 DEF HeadingItem
  <2> QED
    BY <1>2, <2>1
<1>3. CASE x \in ProseItem
  BY <1>3 DEF ProseItem
<1> QED
  BY <1>1, <1>2, <1>3 DEF Item

LEMMA TaskIsItem ==
  ASSUME NEW t \in Titles, NEW id \in Ids \cup {NoId}, NEW n \in Nat
  PROVE  /\ Task(t, id, n) \in TaskItem /\ Task(t, id, n) \in Item
         /\ Task(t, id, n).id = id /\ Task(t, id, n).kind = "task"
  BY DEF Task, TaskItem, Item

LEMMA HeadingIsItem ==
  ASSUME NEW t \in Sections \cup {Template}, NEW l \in Nat
  PROVE  Heading(t, l) \in Item /\ Heading(t, l).kind = "heading"
  BY DEF Heading, HeadingItem, Item

LEMMA FunctionIsSeq ==
  ASSUME NEW S, NEW m \in Nat, NEW r \in [1..m -> S]
  PROVE  r \in Seq(S) /\ Len(r) = m
<1>1. r \in Seq(S)
  BY SeqDef
<1>2. Len(r) \in Nat /\ 1..Len(r) = 1..m
  BY <1>1, LenProperties
<1>3. /\ Len(r) >= 1 => Len(r) \in 1..Len(r)
      /\ m >= 1 => m \in 1..m
  BY <1>2
<1>4. /\ Len(r) >= 1 => Len(r) \in 1..m
      /\ m >= 1 => m \in 1..Len(r)
  BY <1>2, <1>3
<1> QED
  BY <1>1, <1>2, <1>4

-----------------------------------------------------------------------------
(* A block is the task it begins with and what is nested below it.         *)
LEMMA EndInRange ==
  ASSUME NEW s \in Doc, NEW i \in 1..Len(s)
  PROVE  /\ End(s, i) \in (i + 1)..(Len(s) + 1)
         /\ \A k \in (i + 1)..(End(s, i) - 1) : Above(s, i, k)
         /\ End(s, i) <= Len(s) => ~Above(s, i, End(s, i))
<1> DEFINE T == {k \in (i + 1)..(Len(s) + 1) : k = Len(s) + 1 \/ ~Above(s, i, k)}
<1>1. Len(s) \in Nat
  BY DocIsSeq
<1>2. T \subseteq Nat /\ Len(s) + 1 \in T
  BY <1>1
<1>3. Min(T) \in T /\ \A y \in T : Min(T) <= y
  <2> HIDE DEF T
  <2> QED
    BY <1>2, MinIsLeast
<1>4. End(s, i) = Min(T)
  BY DEF End
<1> HIDE DEF End
<1>5. ASSUME NEW k \in (i + 1)..(End(s, i) - 1) PROVE Above(s, i, k)
  <2>1. End(s, i) \in (i + 1)..(Len(s) + 1)
    BY <1>3, <1>4
  <2>2. k \in (i + 1)..(Len(s) + 1) /\ k < End(s, i)
    BY <1>1, <2>1
  <2>3. k \notin T
    BY <1>3, <1>4, <2>1, <2>2
  <2> QED
    BY <2>2, <2>3
<1> QED
  BY <1>1, <1>3, <1>4, <1>5

(* A block ends before a heading, or prose or a task that is indented no   *)
(* deeper.                                                                 *)
LEMMA EndIsShallow ==
  ASSUME NEW s \in Doc, NEW i \in 1..Len(s)
  PROVE  LET e == End(s, i)
         IN  e <= Len(s) => s[e].kind = "heading" \/ s[e].ind <= s[i].ind
<1> DEFINE e == End(s, i)
<1>1. /\ Len(s) \in Nat /\ e \in (i + 1)..(Len(s) + 1)
      /\ \A k \in (i + 1)..(e - 1) : Above(s, i, k)
      /\ e <= Len(s) => ~Above(s, i, e)
  BY DocIsSeq, EndInRange
<1> HIDE DEF e
<1> SUFFICES ASSUME e <= Len(s), s[e].kind = "task", s[e].ind > s[i].ind PROVE FALSE
  <2>1. e \in 1..Len(s) => /\ s[e].kind \in {"heading", "task", "prose"}
                           /\ s[e].kind = "prose" => s[e].ind = 0
                           /\ s[e].ind \in Nat /\ s[i].ind \in Nat
    BY DocIsSeq, ItemFields
  <2> QED
    BY <1>1, <2>1 DEF e
<1>2. PICK k \in (i + 1)..e : ~(s[k].kind = "task" /\ s[k].ind > s[i].ind)
  BY <1>1 DEF Above
<1>3. k \in (i + 1)..(e - 1) /\ k \in (i + 1)..k
  BY <1>1, <1>2
<1>4. Above(s, i, k)
  BY <1>1, <1>3
<1> QED
  BY <1>2, <1>3, <1>4 DEF Above

LEMMA BlockIsTasks ==
  ASSUME NEW s \in Doc, NEW i \in 1..Len(s), s[i].kind = "task"
  PROVE  \A k \in i..(End(s, i) - 1) : s[k].kind = "task"
<1>1. /\ End(s, i) \in (i + 1)..(Len(s) + 1) /\ Len(s) \in Nat
      /\ \A k \in (i + 1)..(End(s, i) - 1) : Above(s, i, k)
  BY EndInRange, DocIsSeq
<1>2. ASSUME NEW k \in (i + 1)..(End(s, i) - 1) PROVE s[k].kind = "task"
  BY <1>1, <1>2 DEF Above
<1> QED
  BY <1>1, <1>2

-----------------------------------------------------------------------------
(* A note in which the items from a to b - 1 have made room for others.    *)
IsSplice(s, a, b, t, r) ==
  /\ r \in Doc
  /\ Len(t) \in Nat
  /\ Len(r) = Len(s) - (b - a) + Len(t)
  /\ \A i \in 1..(a - 1) : r[i] = s[i]
  /\ \A i \in 1..Len(t) : r[a - 1 + i] = t[i]
  /\ \A i \in b..Len(s) : r[i - b + a + Len(t)] = s[i]

LEMMA Spliced ==
  ASSUME NEW s \in Doc, NEW a \in 1..(Len(s) + 1), NEW b \in a..(Len(s) + 1),
         NEW t \in Seq(Item)
  PROVE  IsSplice(s, a, b, t, Splice(s, a, b, t))
<1> DEFINE n == Len(s)
           p == SubSeq(s, 1, a - 1)
           q == SubSeq(s, b, n)
<1>1. /\ s \in Seq(Item) /\ n \in Nat /\ Len(t) \in Nat
      /\ \A i \in 1..n : s[i] \in Item
  BY DocIsSeq, LenProperties
<1>2. /\ p \in Seq(Item) /\ Len(p) = a - 1 /\ \A i \in 1..(a - 1) : p[i] = s[i]
  <2>1. 1 \in Int /\ a - 1 \in Int /\ \A i \in 1..(a - 1) : s[i] \in Item
    BY <1>1
  <2>2. /\ SubSeq(s, 1, a - 1) \in Seq(Item)
        /\ Len(SubSeq(s, 1, a - 1)) = IF 1 <= a - 1 THEN (a - 1) - 1 + 1 ELSE 0
        /\ \A i \in 1..((a - 1) - 1 + 1) : SubSeq(s, 1, a - 1)[i] = s[1 + i - 1]
    <3> HIDE DEF n
    <3> QED
      BY <2>1, SubSeqProperties
  <2> QED
    BY <1>1, <2>2
<1>3. /\ q \in Seq(Item) /\ Len(q) = n - b + 1
      /\ \A i \in 1..(n - b + 1) : q[i] = s[b + i - 1]
  <2>1. b \in Int /\ n \in Int /\ \A i \in b..n : s[i] \in Item
    BY <1>1
  <2>2. /\ SubSeq(s, b, n) \in Seq(Item)
        /\ Len(SubSeq(s, b, n)) = IF b <= n THEN n - b + 1 ELSE 0
        /\ \A i \in 1..(n - b + 1) : SubSeq(s, b, n)[i] = s[b + i - 1]
    <3> HIDE DEF n
    <3> QED
      BY <2>1, SubSeqProperties
  <2> QED
    BY <1>1, <2>1, <2>2
<1> DEFINE pt == p \o t
           r == pt \o q
<1>4. Splice(s, a, b, t) = r
  BY DEF Splice
<1> HIDE DEF p, q, n
<1>5. /\ pt \in Seq(Item) /\ Len(pt) = a - 1 + Len(t)
      /\ \A i \in 1..(a - 1 + Len(t)) :
            pt[i] = IF i <= a - 1 THEN p[i] ELSE t[i - (a - 1)]
  <2>1. /\ p \o t \in Seq(Item) /\ Len(p \o t) = Len(p) + Len(t)
        /\ \A i \in 1..(Len(p) + Len(t)) :
              (p \o t)[i] = IF i <= Len(p) THEN p[i] ELSE t[i - Len(p)]
    BY <1>2, ConcatProperties
  <2> QED
    BY <1>2, <2>1
<1> HIDE DEF pt
<1>6. /\ r \in Seq(Item) /\ Len(r) = (a - 1 + Len(t)) + (n - b + 1)
      /\ \A i \in 1..((a - 1 + Len(t)) + (n - b + 1)) :
            r[i] = IF i <= a - 1 + Len(t) THEN pt[i] ELSE q[i - (a - 1 + Len(t))]
  <2>1. /\ pt \o q \in Seq(Item) /\ Len(pt \o q) = Len(pt) + Len(q)
        /\ \A i \in 1..(Len(pt) + Len(q)) :
              (pt \o q)[i] = IF i <= Len(pt) THEN pt[i] ELSE q[i - Len(pt)]
    BY <1>3, <1>5, ConcatProperties
  <2> QED
    BY <1>3, <1>5, <2>1
<1> HIDE DEF r
<1>7. a \in 1..(n + 1) /\ b \in a..(n + 1) /\ a \in Int /\ b \in Int
  BY <1>1 DEF n
<1>8. ASSUME NEW i \in 1..(a - 1) PROVE r[i] = s[i]
  <2>1. i \in 1..(a - 1 + Len(t)) /\ i \in 1..((a - 1 + Len(t)) + (n - b + 1))
    BY <1>1, <1>7
  <2> QED
    BY <1>1, <1>2, <1>5, <1>6, <1>7, <2>1
<1>9. ASSUME NEW i \in 1..Len(t) PROVE r[a - 1 + i] = t[i]
  <2>1. /\ a - 1 + i \in 1..(a - 1 + Len(t)) /\ ~(a - 1 + i <= a - 1)
        /\ a - 1 + i \in 1..((a - 1 + Len(t)) + (n - b + 1))
        /\ a - 1 + i - (a - 1) = i
    BY <1>1, <1>7
  <2> QED
    BY <1>5, <1>6, <2>1
<1>10. ASSUME NEW i \in b..n PROVE r[i - b + a + Len(t)] = s[i]
  <2> DEFINE k == i - b + a + Len(t)
  <2>1. /\ k \in 1..((a - 1 + Len(t)) + (n - b + 1)) /\ ~(k <= a - 1 + Len(t))
        /\ k - (a - 1 + Len(t)) = i - b + 1 /\ i - b + 1 \in 1..(n - b + 1)
        /\ b + (i - b + 1) - 1 = i
    BY <1>1, <1>7
  <2> QED
    BY <1>3, <1>6, <2>1
<1>11. r \in Doc /\ Len(r) = n - (b - a) + Len(t)
  BY <1>1, <1>6, <1>7 DEF Doc, Item
<1> QED
  BY <1>1, <1>4, <1>8, <1>9, <1>10, <1>11 DEF n, IsSplice
-----------------------------------------------------------------------------
(* Two notes with the same headings and tasks in the same places have the  *)
(* same tasks outside the template, whatever these are named.              *)
SameShape(s, n) ==
  /\ s \in Doc /\ n \in Doc
  /\ Len(n) = Len(s)
  /\ \A k \in 1..Len(s) : /\ n[k].kind = s[k].kind
                          /\ n[k].level = s[k].level
                          /\ s[k].kind = "heading" => n[k].title = s[k].title

LEMMA SameShapeSameTasks ==
  ASSUME NEW s, NEW n, SameShape(s, n)
  PROVE  Tasks(n) = Tasks(s)
<1>1. /\ DOMAIN s = 1..Len(s) /\ DOMAIN n = 1..Len(s) /\ Len(s) \in Nat
      /\ \A k \in 1..Len(s) : /\ n[k].kind = s[k].kind
                              /\ n[k].level = s[k].level
                              /\ s[k].kind = "heading" => n[k].title = s[k].title
  BY DocIsSeq DEF SameShape
<1>2. ASSUME NEW i \in 1..Len(s) PROVE InTemplate(n, i) <=> InTemplate(s, i)
  <2>1. \A k \in 1..i : k \in 1..Len(s)
    BY <1>1
  <2>2. \A h \in 1..i : \A k \in (h + 1)..i : k \in 1..Len(s)
    BY <1>1
  <2>3. ASSUME NEW h \in 1..i PROVE Open(n, h, i) <=> Open(s, h, i)
    BY <1>1, <2>1, <2>2 DEF Open
  <2>4. ASSUME NEW h \in 1..i
        PROVE  (n[h].title = Template /\ Open(n, h, i))
                 <=> (s[h].title = Template /\ Open(s, h, i))
    BY <1>1, <2>1, <2>3 DEF Open
  <2> QED
    BY <2>4 DEF InTemplate
<1> QED
  BY <1>1, <1>2 DEF Tasks

LEMMA SameShapeSameIds ==
  ASSUME NEW s, NEW n, SameShape(s, n), \A k \in 1..Len(s) : n[k].id = s[k].id
  PROVE  IdsIn(n) = IdsIn(s) /\ (Unique(s) => Unique(n))
<1>1. Tasks(n) = Tasks(s) /\ Tasks(s) \subseteq 1..Len(s)
  BY SameShapeSameTasks, DocIsSeq DEF SameShape, Tasks
<1>2. Named(n) = Named(s) /\ \A k \in Named(s) : n[k].id = s[k].id
  BY <1>1 DEF Named
<1> QED
  BY <1>2 DEF IdsIn, Unique

-----------------------------------------------------------------------------
(* The note n is s with the items from a to b - 1 replaced, after which    *)
(* the rest stands d places further on; all of them are tasks, unless they *)
(* stand at the end.                                                       *)
Moved(s, n, a, b, d) ==
  /\ s \in Doc /\ n \in Doc
  /\ a \in 1..(Len(s) + 1) /\ b \in a..(Len(s) + 1) /\ d \in Int
  /\ a <= b + d /\ Len(n) = Len(s) + d
  /\ \A k \in 1..(a - 1) : n[k] = s[k]
  /\ \A k \in b..Len(s) : n[k + d] = s[k]
  /\ b <= Len(s) => /\ \A k \in a..(b - 1) : s[k].kind = "task"
                    /\ \A k \in a..(b + d - 1) : n[k].kind = "task"

LEMMA MovedBack ==
  ASSUME NEW s, NEW n, NEW a, NEW b, NEW d, Moved(s, n, a, b, d)
  PROVE  Moved(n, s, a, b + d, -d)
<1>1. /\ s \in Doc /\ n \in Doc /\ Len(s) \in Nat /\ Len(n) \in Nat
      /\ a \in 1..(Len(s) + 1) /\ b \in a..(Len(s) + 1) /\ d \in Int
      /\ a <= b + d /\ Len(n) = Len(s) + d
      /\ \A k \in 1..(a - 1) : n[k] = s[k]
      /\ \A k \in b..Len(s) : n[k + d] = s[k]
      /\ b <= Len(s) => /\ \A k \in a..(b - 1) : s[k].kind = "task"
                        /\ \A k \in a..(b + d - 1) : n[k].kind = "task"
  BY DocIsSeq DEF Moved
<1>2. /\ a \in 1..(Len(n) + 1) /\ b + d \in a..(Len(n) + 1) /\ -d \in Int
      /\ a <= (b + d) + -d /\ Len(s) = Len(n) + -d /\ (b + d) + -d = b
  BY <1>1
<1>3. ASSUME NEW k \in (b + d)..Len(n) PROVE s[k + -d] = n[k]
  <2>1. k + -d \in b..Len(s) /\ (k + -d) + d = k
    BY <1>1
  <2> QED
    BY <1>1, <2>1
<1>4. b + d <= Len(n) <=> b <= Len(s)
  BY <1>1
<1> QED
  BY <1>1, <1>2, <1>3, <1>4 DEF Moved

LEMMA MovedInTemplate ==
  ASSUME NEW s, NEW n, NEW a, NEW b, NEW d, Moved(s, n, a, b, d),
         NEW i \in b..Len(s), InTemplate(s, i)
  PROVE  InTemplate(n, i + d)
<1>1. /\ Len(s) \in Nat /\ a \in 1..(Len(s) + 1) /\ b \in a..(Len(s) + 1)
      /\ d \in Int /\ a <= b + d /\ Len(n) = Len(s) + d
      /\ \A k \in 1..(a - 1) : n[k] = s[k]
      /\ \A k \in b..Len(s) : n[k + d] = s[k]
      /\ \A k \in a..(b - 1) : s[k].kind = "task"
      /\ \A k \in a..(b + d - 1) : n[k].kind = "task"
  <2>1. Len(s) \in Nat /\ b \in Int
    BY DocIsSeq DEF Moved
  <2>2. b <= Len(s)
    BY <2>1
  <2> QED
    BY <2>1, <2>2 DEF Moved
<1>2. PICK h \in 1..i : s[h].title = Template /\ Open(s, h, i)
  BY DEF InTemplate
<1>3. /\ s[h].kind = "heading"
      /\ \A k \in (h + 1)..i : s[k].kind = "heading" => s[k].level > s[h].level
  BY <1>2 DEF Open
<1> DEFINE g == IF h < a THEN h ELSE h + d
<1>4. h < a \/ h >= b
  BY <1>1, <1>3
<1>5. /\ g \in 1..(i + d) /\ n[g] = s[h]
  <2>1. CASE h < a
    <3>1. h \in 1..(a - 1) /\ h \in 1..(i + d)
      BY <1>1, <2>1
    <3>2. n[h] = s[h] /\ g = h
      BY <1>1, <2>1, <3>1
    <3> QED
      BY <3>1, <3>2
  <2>2. CASE ~(h < a)
    <3>1. h \in b..Len(s) /\ h + d \in 1..(i + d)
      BY <1>1, <1>4, <2>2
    <3>2. n[h + d] = s[h] /\ g = h + d
      BY <1>1, <2>2, <3>1
    <3> QED
      BY <3>1, <3>2
  <2> QED
    BY <2>1, <2>2
<1>6. ASSUME NEW k \in (g + 1)..(i + d), n[k].kind = "heading"
      PROVE  n[k].level > n[g].level
  <2>1. k < a \/ k >= b + d
    BY <1>1, <1>5, <1>6
  <2>2. CASE k < a
    <3>1. k \in (h + 1)..i /\ n[k] = s[k]
      BY <1>1, <1>4, <2>2
    <3> QED
      BY <1>3, <1>5, <1>6, <3>1
  <2>3. CASE k >= b + d
    <3>1. k - d \in (h + 1)..i /\ k - d \in b..Len(s) /\ (k - d) + d = k
      BY <1>1, <1>4, <2>3
    <3>2. n[k] = s[k - d]
      BY <1>1, <3>1
    <3> QED
      BY <1>3, <1>5, <1>6, <3>1, <3>2
  <2> QED
    BY <2>1, <2>2, <2>3
<1> HIDE DEF g
<1> QED
  BY <1>2, <1>3, <1>5, <1>6 DEF InTemplate, Open

LEMMA PrefixInTemplate ==
  ASSUME NEW s, NEW n, NEW i \in Nat, \A k \in 1..i : n[k] = s[k]
  PROVE  InTemplate(n, i) <=> InTemplate(s, i)
<1>1. \A h \in 1..i : \A k \in (h + 1)..i : k \in 1..i
  OBVIOUS
<1>2. ASSUME NEW h \in 1..i PROVE Open(n, h, i) <=> Open(s, h, i)
  BY <1>1 DEF Open
<1> QED
  BY <1>2 DEF InTemplate

LEMMA MovedTasks ==
  ASSUME NEW s, NEW n, NEW a, NEW b, NEW d, Moved(s, n, a, b, d)
  PROVE  /\ \A k \in 1..(a - 1) : n[k] = s[k] /\ (k \in Tasks(n) <=> k \in Tasks(s))
         /\ \A k \in b..Len(s) : /\ n[k + d] = s[k]
                                 /\ k + d \in Tasks(n) <=> k \in Tasks(s)
<1>1. /\ s \in Doc /\ n \in Doc /\ Len(s) \in Nat /\ Len(n) \in Nat
      /\ a \in 1..(Len(s) + 1) /\ b \in a..(Len(s) + 1) /\ d \in Int
      /\ a <= b + d /\ Len(n) = Len(s) + d
      /\ \A k \in 1..(a - 1) : n[k] = s[k]
      /\ \A k \in b..Len(s) : n[k + d] = s[k]
      /\ DOMAIN s = 1..Len(s) /\ DOMAIN n = 1..Len(n)
  BY DocIsSeq DEF Moved
<1>2. ASSUME NEW k \in 1..(a - 1) PROVE k \in Tasks(n) <=> k \in Tasks(s)
  <2>1. k \in Nat /\ k \in DOMAIN s /\ k \in DOMAIN n /\ \A j \in 1..k : n[j] = s[j]
    BY <1>1
  <2>2. InTemplate(n, k) <=> InTemplate(s, k)
    BY <2>1, PrefixInTemplate
  <2> QED
    BY <1>1, <2>1, <2>2 DEF Tasks
<1>3. ASSUME NEW k \in b..Len(s) PROVE k + d \in Tasks(n) <=> k \in Tasks(s)
  <2>1. /\ k \in DOMAIN s /\ k + d \in DOMAIN n /\ k + d \in (b + d)..Len(n)
        /\ (k + d) + -d = k
    BY <1>1
  <2>2. InTemplate(s, k) => InTemplate(n, k + d)
    BY MovedInTemplate
  <2>3. InTemplate(n, k + d) => InTemplate(s, (k + d) + -d)
    BY <2>1, MovedBack, MovedInTemplate
  <2>4. InTemplate(n, k + d) <=> InTemplate(s, k)
    BY <2>1, <2>2, <2>3
  <2> QED
    BY <1>1, <2>1, <2>4 DEF Tasks
<1> QED
  BY <1>1, <1>2, <1>3

(* So the IDs of a note are those that stood outside what was replaced,    *)
(* and those in what has come for it.                                      *)
LEMMA MovedIds ==
  ASSUME NEW s, NEW n, NEW a, NEW b, NEW d, Moved(s, n, a, b, d)
  PROVE  \A k \in Named(n) : k \in a..(b + d - 1) \/ n[k].id \in IdsIn(s)
<1>1. /\ Len(s) \in Nat /\ a \in 1..(Len(s) + 1) /\ b \in a..(Len(s) + 1)
      /\ d \in Int /\ a <= b + d /\ Len(n) = Len(s) + d
      /\ DOMAIN n = 1..Len(n)
  BY DocIsSeq DEF Moved
<1> SUFFICES ASSUME NEW k \in Named(n), k \notin a..(b + d - 1)
             PROVE  n[k].id \in IdsIn(s)
  OBVIOUS
<1>2. k \in Tasks(n) /\ k \in 1..Len(n) /\ n[k].id # NoId
  BY <1>1 DEF Named, Tasks
<1>3. CASE k < a
  <2>1. k \in 1..(a - 1)
    BY <1>1, <1>2, <1>3
  <2>2. k \in Tasks(s) /\ s[k] = n[k]
    BY <1>2, <2>1, MovedTasks
  <2> QED
    BY <1>2, <2>2 DEF IdsIn, Named
<1>4. CASE k >= b + d
  <2>1. k - d \in b..Len(s) /\ (k - d) + d = k
    BY <1>1, <1>2, <1>4
  <2>2. k - d \in Tasks(s) /\ s[k - d] = n[k]
    BY <1>2, <2>1, MovedTasks
  <2> QED
    BY <1>2, <2>2 DEF IdsIn, Named
<1> QED
  BY <1>1, <1>2, <1>3, <1>4

LEMMA MovedUnique ==
  ASSUME NEW s, NEW n, NEW a, NEW b, NEW d, Moved(s, n, a, b, d), Unique(s),
         \A k \in a..(b + d - 1) : k \in Named(n) => n[k].id \notin IdsIn(s),
         \A j, k \in a..(b + d - 1) :
            j \in Named(n) /\ k \in Named(n) => j = k
  PROVE  Unique(n)
<1>1. /\ Len(s) \in Nat /\ a \in 1..(Len(s) + 1) /\ b \in a..(Len(s) + 1)
      /\ d \in Int /\ a <= b + d /\ Len(n) = Len(s) + d
      /\ DOMAIN n = 1..Len(n)
  BY DocIsSeq DEF Moved
<1> DEFINE from(k) == IF k < a THEN k ELSE k - d
<1>2. ASSUME NEW k \in Named(n), k \notin a..(b + d - 1)
      PROVE  /\ k \in Int /\ (k < a \/ k >= b + d)
             /\ from(k) \in Named(s) /\ s[from(k)].id = n[k].id
  <2>1. k \in Tasks(n) /\ k \in 1..Len(n) /\ n[k].id # NoId
    BY <1>1 DEF Named, Tasks
  <2>2. CASE k < a
    <3>1. k \in 1..(a - 1)
      BY <1>1, <2>1, <2>2
    <3>2. k \in Tasks(s) /\ s[k] = n[k]
      BY <2>1, <3>1, MovedTasks
    <3> QED
      BY <2>1, <2>2, <3>2 DEF Named
  <2>3. CASE k >= b + d
    <3>1. k - d \in b..Len(s) /\ (k - d) + d = k /\ ~(k < a)
      BY <1>1, <2>1, <2>3
    <3>2. k - d \in Tasks(s) /\ s[k - d] = n[k]
      BY <2>1, <3>1, MovedTasks
    <3> QED
      BY <2>1, <2>3, <3>1, <3>2 DEF Named
  <2> QED
    BY <1>1, <1>2, <2>1, <2>2, <2>3
<1>3. ASSUME NEW j \in Named(n), NEW k \in Named(n), n[j].id = n[k].id
      PROVE  j = k
  <2>1. CASE j \notin a..(b + d - 1) /\ k \notin a..(b + d - 1)
    <3>1. from(j) = from(k)
      <4>1. /\ from(j) \in Named(s) /\ s[from(j)].id = n[j].id
            /\ from(k) \in Named(s) /\ s[from(k)].id = n[k].id
        BY <1>2, <2>1
      <4> HIDE DEF from
      <4> QED
        BY <1>3, <4>1 DEF Unique
    <3>2. /\ j \in Int /\ (j < a \/ j >= b + d)
          /\ k \in Int /\ (k < a \/ k >= b + d)
      BY <1>2, <2>1
    <3>3. from(j) < a <=> j < a
      BY <1>1, <3>2
    <3>4. from(k) < a <=> k < a
      BY <1>1, <3>2
    <3> QED
      BY <1>1, <3>1, <3>2, <3>3, <3>4
  <2>2. CASE j \in a..(b + d - 1) /\ k \in a..(b + d - 1)
    BY <2>2
  <2>3. CASE j \in a..(b + d - 1) /\ k \notin a..(b + d - 1)
    BY <1>3, <2>3, MovedIds
  <2>4. CASE j \notin a..(b + d - 1) /\ k \in a..(b + d - 1)
    BY <1>3, <2>4, MovedIds
  <2> QED
    BY <2>1, <2>2, <2>3, <2>4
<1> QED
  BY <1>3 DEF Unique

-----------------------------------------------------------------------------
(* A task at or below the place of another, in its block, is nested at     *)
(* least as deeply.                                                        *)
LEMMA AboveIsTransitive ==
  ASSUME NEW s \in Doc, NEW h \in 1..Len(s), NEW i \in 1..Len(s), NEW j \in 1..Len(s),
         Above(s, h, i), Above(s, i, j)
  PROVE  Above(s, h, j)
<1>1. /\ Len(s) \in Nat /\ h < i /\ i < j
      /\ \A k \in (h + 1)..i : s[k].kind = "task" /\ s[k].ind > s[h].ind
      /\ \A k \in (i + 1)..j : s[k].kind = "task" /\ s[k].ind > s[i].ind
  BY DocIsSeq DEF Above
<1>2. \A k \in 1..Len(s) : s[k].ind \in Nat
  BY DocIsSeq, ItemFields
<1>3. s[i].ind > s[h].ind
  BY <1>1
<1>4. ASSUME NEW k \in (h + 1)..j PROVE s[k].kind = "task" /\ s[k].ind > s[h].ind
  <2>1. CASE k <= i
    <3>1. k \in (h + 1)..i
      BY <1>1, <2>1
    <3> QED
      BY <1>1, <3>1
  <2>2. CASE k > i
    <3>1. k \in (i + 1)..j /\ k \in 1..Len(s)
      BY <1>1, <2>2
    <3> QED
      BY <1>1, <1>2, <1>3, <3>1
  <2> QED
    BY <1>1, <2>1, <2>2
<1> QED
  BY <1>1, <1>4 DEF Above

LEMMA AncestorsInBlock ==
  ASSUME NEW s \in Doc, NEW i \in 1..Len(s), NEW j \in i..(End(s, i) - 1)
  PROVE  Ancestors(s, i) \subseteq Ancestors(s, j)
<1>1. /\ Len(s) \in Nat /\ End(s, i) \in (i + 1)..(Len(s) + 1)
      /\ \A k \in (i + 1)..(End(s, i) - 1) : Above(s, i, k)
  BY DocIsSeq, EndInRange
<1>2. CASE j = i
  BY <1>2
<1>3. CASE j # i
  <2>1. Above(s, i, j) /\ j \in 1..Len(s) /\ i <= j
    BY <1>1, <1>3
  <2>2. ASSUME NEW h \in Ancestors(s, i) PROVE h \in Ancestors(s, j)
    <3>1. /\ h \in 1..Len(s) /\ s[h].kind = "task" /\ Above(s, h, i)
          /\ h \in 1..(j - 1)
      BY <1>1, <2>1 DEF Ancestors
    <3>2. Above(s, h, j)
      BY <2>1, <3>1, AboveIsTransitive
    <3> QED
      BY <3>1, <3>2 DEF Ancestors
  <2> QED
    BY <2>2
<1> QED
  BY <1>2, <1>3

LEMMA DepthIsNat ==
  ASSUME NEW s \in Doc, NEW i \in 1..Len(s)
  PROVE  IsFiniteSet(Ancestors(s, i)) /\ Depth(s, i) \in Nat
<1>1. Ancestors(s, i) \subseteq 1..(i - 1) /\ i - 1 \in Int /\ 1 \in Int
  BY DocIsSeq DEF Ancestors
<1>2. IsFiniteSet(1..(i - 1))
  BY <1>1, FS_Interval
<1> QED
  BY <1>1, <1>2, FS_Subset, FS_CardinalityType DEF Depth

LEMMA DepthInBlock ==
  ASSUME NEW s \in Doc, NEW i \in 1..Len(s), NEW j \in i..(End(s, i) - 1)
  PROVE  /\ Depth(s, i) \in Nat /\ Depth(s, j) \in Nat
         /\ Depth(s, i) <= Depth(s, j)
<1>1. j \in 1..Len(s)
  BY DocIsSeq, EndInRange
<1>2. /\ IsFiniteSet(Ancestors(s, j)) /\ Ancestors(s, i) \subseteq Ancestors(s, j)
      /\ Depth(s, i) \in Nat /\ Depth(s, j) \in Nat
  BY <1>1, DepthIsNat, AncestorsInBlock
<1> QED
  BY <1>2, FS_Subset DEF Depth

(* render changes the indentation of the block, and nothing else of it.    *)
LEMMA RenderIsDoc ==
  ASSUME NEW s \in Doc, NEW i \in 1..Len(s), s[i].kind = "task"
  PROVE  /\ Render(s, i) \in Seq(Item)
         /\ Len(Render(s, i)) = End(s, i) - i
         /\ \A k \in 1..(End(s, i) - i) :
               /\ Render(s, i)[k] =
                    [s[i + k - 1] EXCEPT !.ind = s[i].ind
                       + IndentUnit * (Depth(s, i + k - 1) - Depth(s, i))]
               /\ Render(s, i)[k] \in TaskItem
<1> DEFINE m == End(s, i) - i
           r == Render(s, i)
<1>1. /\ Len(s) \in Nat /\ m \in Nat /\ End(s, i) \in (i + 1)..(Len(s) + 1)
  BY DocIsSeq, EndInRange
<1>2. /\ DOMAIN r = 1..m
      /\ r = [k \in 1..m |-> r[k]]
      /\ \A k \in 1..m :
            r[k] = [s[i + k - 1] EXCEPT !.ind = s[i].ind
                       + IndentUnit * (Depth(s, i + k - 1) - Depth(s, i))]
  BY Zenon DEF Render
<1>3. ASSUME NEW k \in 1..m PROVE r[k] \in TaskItem
  <2> DEFINE j == i + k - 1
             d == IndentUnit * (Depth(s, j) - Depth(s, i))
  <2>1. j \in i..(End(s, i) - 1) /\ j \in 1..Len(s)
    <3>1. i \in Nat /\ k \in Nat /\ 1 <= k /\ k <= m /\ 1 <= i
      BY <1>1
    <3>2. End(s, i) \in Nat /\ End(s, i) <= Len(s) + 1 /\ m = End(s, i) - i
      BY <1>1
    <3> HIDE DEF m
    <3> QED
      BY <1>1, <3>1, <3>2
  <2> HIDE DEF j
  <2>2. s[j].kind = "task" /\ s[j] \in Item /\ s[i] \in Item
    BY <2>1, BlockIsTasks, DocIsSeq
  <2>3. s[j] \in TaskItem /\ s[i].ind \in Nat
    BY <2>2, ItemFields
  <2>4. s[i].ind + d \in Nat
    <3>1. d \in Nat
      BY <2>1, DepthInBlock DEF IndentUnit
    <3> HIDE DEF d
    <3> QED
      BY <2>3, <3>1
  <2>5. r[k] = [s[j] EXCEPT !.ind = s[i].ind + d]
    BY <1>2 DEF j
  <2> HIDE DEF r, d
  <2> QED
    BY <2>3, <2>4, <2>5 DEF TaskItem
<1>4. r \in [1..m -> Item]
  <2> HIDE DEF r, m
  <2> QED
    BY <1>2, <1>3 DEF Item
<1>5. r \in Seq(Item) /\ Len(r) = m
  <2> HIDE DEF r, m
  <2> QED
    BY <1>1, <1>4, FunctionIsSeq
<1> QED
  BY <1>2, <1>3, <1>5

LEMMA ReplacedBlock ==
  ASSUME NEW s \in Doc, NEW i \in 1..Len(s), s[i].kind = "task"
  PROVE  LET n == ReplaceBlock(s, i)
         IN  /\ n \in Doc /\ Len(n) = Len(s)
             /\ \A k \in 1..(i - 1) : n[k] = s[k]
             /\ \A k \in End(s, i)..Len(s) : n[k] = s[k]
             /\ \A k \in i..(End(s, i) - 1) :
                   /\ s[k] \in TaskItem
                   /\ n[k] = [s[k] EXCEPT !.ind = s[i].ind
                                + IndentUnit * (Depth(s, k) - Depth(s, i))]
<1> DEFINE e == End(s, i)
           r == Render(s, i)
           n == ReplaceBlock(s, i)
<1>1. /\ Len(s) \in Nat /\ i \in 1..(Len(s) + 1) /\ e \in (i + 1)..(Len(s) + 1)
      /\ e \in i..(Len(s) + 1)
  BY DocIsSeq, EndInRange
<1>2. /\ r \in Seq(Item) /\ Len(r) = e - i
      /\ \A k \in 1..(e - i) :
            /\ r[k] = [s[i + k - 1] EXCEPT !.ind = s[i].ind
                         + IndentUnit * (Depth(s, i + k - 1) - Depth(s, i))]
            /\ r[k] \in TaskItem
  BY RenderIsDoc
<1>3. n = Splice(s, i, e, r)
  BY DEF ReplaceBlock
<1> HIDE DEF e, r, n
<1>4. /\ n \in Doc /\ Len(n) = Len(s) - (e - i) + Len(r)
      /\ \A k \in 1..(i - 1) : n[k] = s[k]
      /\ \A k \in 1..Len(r) : n[i - 1 + k] = r[k]
      /\ \A k \in e..Len(s) : n[k - e + i + Len(r)] = s[k]
  <2>1. IsSplice(s, i, e, r, n)
    BY <1>1, <1>2, <1>3, Spliced
  <2> QED
    BY <2>1 DEF IsSplice
<1>5. Len(n) = Len(s) /\ Len(r) = e - i
  BY <1>1, <1>2, <1>4
<1>6. ASSUME NEW k \in e..Len(s) PROVE n[k] = s[k]
  <2>1. k - e + i + Len(r) = k
    BY <1>1, <1>5
  <2> QED
    BY <1>4, <2>1
<1>7. ASSUME NEW k \in i..(e - 1)
      PROVE  /\ s[k] \in TaskItem
             /\ n[k] = [s[k] EXCEPT !.ind = s[i].ind
                          + IndentUnit * (Depth(s, k) - Depth(s, i))]
  <2> DEFINE j == k - i + 1
  <2>1. /\ j \in 1..Len(r) /\ i - 1 + j = k /\ i + j - 1 = k
        /\ k \in 1..Len(s)
    BY <1>1, <1>5
  <2>2. n[k] = r[j]
    BY <1>4, <2>1
  <2>3. r[j] = [s[k] EXCEPT !.ind = s[i].ind
                                     + IndentUnit * (Depth(s, k) - Depth(s, i))]
    BY <1>2, <2>1
  <2>4. s[k].kind = "task" /\ s[k] \in Item
    BY <2>1, BlockIsTasks, DocIsSeq DEF e
  <2> QED
    BY <2>2, <2>3, <2>4, ItemFields
<1> QED
  BY <1>4, <1>5, <1>6, <1>7 DEF n, e

LEMMA ReplaceBlockKeeps ==
  ASSUME NEW s \in Doc, NEW i \in 1..Len(s), s[i].kind = "task"
  PROVE  /\ SameShape(s, ReplaceBlock(s, i))
         /\ \A k \in 1..Len(s) :
               LET x == ReplaceBlock(s, i)[k]
               IN  /\ x.id = s[k].id /\ x.title = s[k].title
                   /\ x.done = s[k].done /\ x.closed = s[k].closed
<1> DEFINE e == End(s, i)
           n == ReplaceBlock(s, i)
<1>1. Len(s) \in Nat /\ e \in (i + 1)..(Len(s) + 1)
  BY DocIsSeq, EndInRange
<1>2. /\ n \in Doc /\ Len(n) = Len(s)
      /\ \A k \in 1..(i - 1) : n[k] = s[k]
      /\ \A k \in e..Len(s) : n[k] = s[k]
      /\ \A k \in i..(e - 1) :
            /\ s[k] \in TaskItem
            /\ n[k] = [s[k] EXCEPT !.ind = s[i].ind
                         + IndentUnit * (Depth(s, k) - Depth(s, i))]
  BY ReplacedBlock
<1> HIDE DEF e, n
<1>3. ASSUME NEW k \in 1..Len(s)
      PROVE  k \in 1..(i - 1) \/ k \in e..Len(s) \/ k \in i..(e - 1)
  BY <1>1
<1>4. ASSUME NEW k \in 1..Len(s)
      PROVE  /\ n[k].kind = s[k].kind /\ n[k].level = s[k].level
             /\ n[k].title = s[k].title /\ n[k].id = s[k].id
             /\ n[k].done = s[k].done /\ n[k].closed = s[k].closed
  <2>1. n[k] = s[k] \/ (s[k] \in TaskItem /\ \E w : n[k] = [s[k] EXCEPT !.ind = w])
    BY <1>2, <1>3
  <2> QED
    BY <2>1 DEF TaskItem
<1> QED
  BY <1>2, <1>4 DEF SameShape, n

(* One task of a note is changed, not its reference and not its place.     *)
LEMMA EditedTask ==
  ASSUME NEW s \in Doc, NEW i \in 1..Len(s), s[i].kind = "task",
         NEW t \in TaskItem, t.id = s[i].id
  PROVE  /\ SameShape(s, [s EXCEPT ![i] = t])
         /\ \A k \in 1..Len(s) : [s EXCEPT ![i] = t][k].id = s[k].id
         /\ [s EXCEPT ![i] = t][i] = t
<1> DEFINE n == [s EXCEPT ![i] = t]
<1>1. s \in Seq(Item) /\ s[i] \in Item /\ t \in Item
  BY DocIsSeq DEF Item
<1>2. /\ n \in Seq(Item) /\ Len(n) = Len(s)
      /\ \A j \in 1..Len(s) : n[j] = IF j = i THEN t ELSE s[j]
  BY <1>1, ExceptSeq
<1>3. t.kind = "task" /\ t.level = 0 /\ s[i].level = 0
  BY <1>1, ItemFields DEF TaskItem
<1> HIDE DEF n
<1>4. n \in Doc
  BY <1>2 DEF Doc, Item
<1>5. /\ SameShape(s, n)
      /\ \A k \in 1..Len(s) : n[k].id = s[k].id
      /\ n[i] = t
  BY <1>2, <1>3, <1>4 DEF SameShape
<1> QED
  BY <1>5 DEF n

LEMMA SameShapeIsTransitive ==
  ASSUME NEW s, NEW m, NEW n, SameShape(s, m), SameShape(m, n)
  PROVE  SameShape(s, n)
  BY DEF SameShape

LEMMA RewrittenBlock ==
  ASSUME NEW s \in Doc, NEW i \in 1..Len(s), s[i].kind = "task",
         NEW t \in TaskItem, t.id = s[i].id
  PROVE  LET n == ReplaceBlock([s EXCEPT ![i] = t], i)
         IN  /\ n \in Doc /\ IdsIn(n) = IdsIn(s)
             /\ Unique(s) => Unique(n)
<1> DEFINE m == [s EXCEPT ![i] = t]
           n == ReplaceBlock(m, i)
<1>1. /\ SameShape(s, m) /\ m[i] = t
      /\ \A k \in 1..Len(s) : m[k].id = s[k].id
  BY EditedTask
<1> HIDE DEF m
<1>2. m \in Doc /\ Len(m) = Len(s) /\ m[i].kind = "task"
  BY <1>1 DEF SameShape, TaskItem
<1>3. /\ SameShape(m, n)
      /\ \A k \in 1..Len(m) : n[k].id = m[k].id
  BY <1>2, ReplaceBlockKeeps
<1> HIDE DEF n
<1>4. SameShape(s, n) /\ \A k \in 1..Len(s) : n[k].id = s[k].id
  BY <1>1, <1>2, <1>3, SameShapeIsTransitive
<1>5. n \in Doc /\ IdsIn(n) = IdsIn(s) /\ (Unique(s) => Unique(n))
  BY <1>4, SameShapeSameIds DEF SameShape
<1> QED
  BY <1>5 DEF n, m

LEMMA RemovedBlock ==
  ASSUME NEW s \in Doc, NEW i \in 1..Len(s), s[i].kind = "task"
  PROVE  /\ Moved(s, RemoveBlock(s, i), i, End(s, i), i - End(s, i))
         /\ RemoveBlock(s, i) \in Doc
         /\ IdsIn(RemoveBlock(s, i)) \subseteq IdsIn(s)
         /\ Unique(s) => Unique(RemoveBlock(s, i))
<1> DEFINE e == End(s, i)
           n == RemoveBlock(s, i)
           d == i - e
<1>1. /\ Len(s) \in Nat /\ i \in 1..(Len(s) + 1) /\ e \in i..(Len(s) + 1)
      /\ d \in Int /\ i <= e + d /\ e + d - 1 = i - 1
  BY DocIsSeq, EndInRange
<1>2. \A k \in i..(e - 1) : s[k].kind = "task"
  BY BlockIsTasks
<1>3. n = Splice(s, i, e, <<>>)
  BY DEF RemoveBlock
<1> HIDE DEF e, n
<1>4. << >> \in Seq(Item) /\ Len(<< >>) = 0
  BY EmptySeq
<1>5. /\ n \in Doc /\ Len(n) = Len(s) - (e - i) + 0
      /\ \A k \in 1..(i - 1) : n[k] = s[k]
      /\ \A k \in e..Len(s) : n[k - e + i + 0] = s[k]
  <2>1. IsSplice(s, i, e, <<>>, n)
    BY <1>1, <1>3, <1>4, Spliced
  <2> QED
    BY <1>4, <2>1 DEF IsSplice
<1>6. ASSUME NEW k \in e..Len(s) PROVE n[k + d] = s[k]
  <2>1. k + d = k - e + i + 0
    BY <1>1
  <2> QED
    BY <1>5, <2>1
<1>7. Len(n) = Len(s) + d
  BY <1>1, <1>5
<1>8. \A k \in i..(e + d - 1) : FALSE
  BY <1>1
<1>9. Moved(s, n, i, e, d)
  BY <1>1, <1>2, <1>5, <1>6, <1>7, <1>8 DEF Moved
<1> HIDE DEF d
<1>10. IdsIn(n) \subseteq IdsIn(s)
  BY <1>8, <1>9, MovedIds DEF IdsIn
<1>11. Unique(s) => Unique(n)
  BY <1>8, <1>9, MovedUnique
<1> QED
  BY <1>5, <1>9, <1>10, <1>11 DEF n, e, d

(* A new task at the end of a block.                                       *)
Added(s, n, t) ==
  /\ n \in Doc
  /\ IdsIn(n) \subseteq IdsIn(s) \cup {t.id}
  /\ IdsIn(s) \subseteq IdsIn(n)
  /\ t.id \notin IdsIn(s) /\ Unique(s) => Unique(n)

(* What is put in where nothing is taken out, of which only one item may   *)
(* have a reference.                                                       *)
LEMMA MovedIn ==
  ASSUME NEW s \in Doc, NEW n \in Doc, NEW a, NEW d, Moved(s, n, a, a, d),
         NEW t, NEW p, \A k \in a..(a + d - 1) : k # p => n[k].id = NoId,
         p \in a..(a + d - 1) => n[p].id = t.id
  PROVE  Added(s, n, t)
<1>1. /\ Len(s) \in Nat /\ a \in 1..(Len(s) + 1) /\ d \in Int
      /\ Len(n) = Len(s) + d
      /\ DOMAIN n = 1..Len(n) /\ DOMAIN s = 1..Len(s)
  BY DocIsSeq DEF Moved
<1>2. \A k \in Named(n) : k \in a..(a + d - 1) => k = p /\ n[k].id = t.id
  BY DEF Named
<1>3. IdsIn(n) \subseteq IdsIn(s) \cup {t.id}
  BY <1>2, MovedIds DEF IdsIn
<1>4. ASSUME NEW k \in Named(s) PROVE s[k].id \in IdsIn(n)
  <2>1. k \in Tasks(s) /\ k \in 1..Len(s) /\ s[k].id # NoId
    BY <1>1 DEF Named, Tasks
  <2>2. CASE k < a
    <3>1. k \in 1..(a - 1)
      BY <1>1, <2>1, <2>2
    <3>2. k \in Tasks(n) /\ n[k] = s[k]
      BY <2>1, <3>1, MovedTasks
    <3> QED
      BY <2>1, <3>2 DEF IdsIn, Named
  <2>3. CASE k >= a
    <3>1. k \in a..Len(s)
      BY <1>1, <2>1, <2>3
    <3>2. k + d \in Tasks(n) /\ n[k + d] = s[k]
      BY <2>1, <3>1, MovedTasks
    <3> QED
      BY <2>1, <3>2 DEF IdsIn, Named
  <2> QED
    BY <1>1, <2>1, <2>2, <2>3
<1>5. IdsIn(s) \subseteq IdsIn(n)
  BY <1>4 DEF IdsIn
<1>6. ASSUME t.id \notin IdsIn(s), Unique(s) PROVE Unique(n)
  <2>1. /\ \A k \in a..(a + d - 1) : k \in Named(n) => n[k].id \notin IdsIn(s)
        /\ \A j, k \in a..(a + d - 1) :
              j \in Named(n) /\ k \in Named(n) => j = k
    BY <1>2, <1>6
  <2> QED
    BY <1>6, <2>1, MovedUnique
<1> QED
  BY <1>3, <1>5, <1>6 DEF Added

LEMMA InsertedTask ==
  ASSUME NEW s \in Doc, NEW a \in 1..(Len(s) + 1), NEW t \in TaskItem
  PROVE  /\ Moved(s, Splice(s, a, a, <<t>>), a, a, 1)
         /\ Splice(s, a, a, <<t>>)[a] = t
         /\ Added(s, Splice(s, a, a, <<t>>), t)
<1> DEFINE n == Splice(s, a, a, <<t>>)
<1>1. Len(s) \in Nat /\ a \in a..(Len(s) + 1) /\ t \in Item /\ t.kind = "task"
  BY DocIsSeq DEF Item, TaskItem
<1>2. <<t>> \in Seq(Item) /\ Len(<<t>>) = 1 /\ <<t>>[1] = t
  BY <1>1
<1>3. IsSplice(s, a, a, <<t>>, n)
  BY <1>1, <1>2, Spliced
<1> HIDE DEF n
<1>4. /\ n \in Doc /\ Len(n) = Len(s) - (a - a) + 1
      /\ \A i \in 1..(a - 1) : n[i] = s[i]
      /\ \A i \in 1..1 : n[a - 1 + i] = <<t>>[i]
      /\ \A i \in a..Len(s) : n[i - a + a + 1] = s[i]
  BY <1>2, <1>3 DEF IsSplice
<1>5. n[a] = t
  <2>1. 1 \in 1..1 /\ a - 1 + 1 = a
    BY <1>1
  <2> QED
    BY <1>2, <1>4, <2>1
<1>6. ASSUME NEW i \in a..Len(s) PROVE n[i + 1] = s[i]
  <2>1. i - a + a + 1 = i + 1
    BY <1>1
  <2> QED
    BY <1>4, <2>1
<1>7. \A k \in a..(a + 1 - 1) : k = a
  BY <1>1
<1>8. Moved(s, n, a, a, 1)
  BY <1>1, <1>4, <1>5, <1>6, <1>7 DEF Moved
<1>9. Added(s, n, t)
  BY <1>4, <1>5, <1>7, <1>8, MovedIn
<1> QED
  BY <1>5, <1>8, <1>9 DEF n

LEMMA InsertedUnder ==
  ASSUME NEW s \in Doc, NEW i \in 1..Len(s), s[i].kind = "task",
         NEW t \in TaskItem
  PROVE  Added(s, InsertUnder(s, i, t), t)
<1> DEFINE u == [t EXCEPT !.ind = s[i].ind + IndentUnit]
<1>1. Len(s) \in Nat /\ End(s, i) \in 1..(Len(s) + 1)
  BY DocIsSeq, EndInRange
<1>2. s[i].ind \in Nat
  BY DocIsSeq, ItemFields
<1>3. u \in TaskItem /\ u.id = t.id
  BY <1>2 DEF TaskItem, IndentUnit
<1> HIDE DEF u
<1>4. Added(s, Splice(s, End(s, i), End(s, i), <<u>>), u)
  BY <1>1, <1>3, InsertedTask
<1> QED
  BY <1>3, <1>4 DEF InsertUnder, Added, u

(* A new heading, and a task under it, at the end of the note.             *)
LEMMA InsertedHeading ==
  ASSUME NEW s \in Doc, NEW x \in HeadingItem, NEW t \in TaskItem
  PROVE  LET n == s \o <<x, t>>
             l == Len(s)
         IN  /\ Moved(s, n, l + 1, l + 1, 2)
             /\ n[l + 1] = x /\ n[l + 2] = t
             /\ Added(s, n, t)
<1> DEFINE l == Len(s)
           n == s \o <<x, t>>
           w == <<x, t>>
<1>1. l \in Nat /\ s \in Seq(Item) /\ x \in Item /\ t \in Item
  BY DocIsSeq DEF Item
<1>2. x.id = NoId
  BY DEF HeadingItem
<1>3. w \in Seq(Item) /\ Len(w) = 2 /\ w[1] = x /\ w[2] = t
  BY <1>1
<1>4. /\ n \in Seq(Item) /\ Len(n) = Len(s) + Len(w)
      /\ \A i \in 1..(Len(s) + Len(w)) :
            n[i] = IF i <= Len(s) THEN s[i] ELSE w[i - Len(s)]
  <2> HIDE DEF w
  <2> QED
    BY <1>1, <1>3, ConcatProperties DEF w
<1> HIDE DEF n, w
<1>5. n \in Doc /\ Len(n) = l + 2 /\ \A i \in 1..l : n[i] = s[i]
  BY <1>1, <1>3, <1>4 DEF Doc, Item
<1>6. n[l + 1] = x /\ n[l + 2] = t
  <2>1. /\ l + 1 \in 1..(l + 2) /\ l + 2 \in 1..(l + 2)
        /\ ~(l + 1 <= l) /\ ~(l + 2 <= l) /\ (l + 1) - l = 1 /\ (l + 2) - l = 2
    BY <1>1
  <2> QED
    BY <1>3, <1>4, <2>1
<1>7. Moved(s, n, l + 1, l + 1, 2)
  <2>1. \A k \in (l + 1)..l : FALSE
    BY <1>1
  <2> QED
    BY <1>1, <1>5, <2>1 DEF Moved
<1>8. \A k \in (l + 1)..(l + 1 + 2 - 1) : k = l + 1 \/ k = l + 2
  BY <1>1
<1> HIDE DEF l
<1>9. Added(s, n, t)
  BY <1>2, <1>5, <1>6, <1>7, <1>8, MovedIn
<1> QED
  BY <1>6, <1>7, <1>9 DEF n, w, l

(* A section ends before the next heading of its rank or a higher one.     *)
SectionEnds(s, h, e) ==
  /\ h \in 1..Len(s) /\ e \in (h + 1)..(Len(s) + 1)
  /\ s[h].kind = "heading"
  /\ Open(s, h, e - 1)
  /\ e <= Len(s) => s[e].kind = "heading" /\ s[e].level <= s[h].level

LEMMA SectionPlace ==
  ASSUME NEW s \in Doc, NEW title, NEW t
  PROVE  LET n == InsertInSection(s, title, t)
         IN  \/ /\ \A k \in Headings(s) : s[k].title # title
                /\ n = s \o <<Heading(title, 2), t>>
             \/ \E h \in Headings(s), e \in 1..(Len(s) + 1) :
                   /\ s[h].title = title
                   /\ \A k \in Headings(s) : s[k].title = title => h <= k
                   /\ SectionEnds(s, h, e)
                   /\ n = Splice(s, e, e, <<t>>)
<1> DEFINE found == {h \in Headings(s) : s[h].title = title}
           h == Min(found)
           later == {k \in Headings(s) : k > h /\ s[k].level <= s[h].level}
           end == IF later = {} THEN Len(s) + 1 ELSE Min(later)
<1>1. Len(s) \in Nat /\ Headings(s) \subseteq 1..Len(s)
  BY DocIsSeq DEF Headings
<1>2. CASE found = {}
  <2>1. InsertInSection(s, title, t) = s \o <<Heading(title, 2), t>>
    BY <1>2 DEF InsertInSection
  <2>2. \A k \in Headings(s) : s[k].title # title
    BY <1>2
  <2> QED
    BY <2>1, <2>2
<1>3. CASE found # {}
  <2>1. h \in found /\ \A k \in found : h <= k
    <3>1. found \subseteq Nat
      BY <1>1
    <3> HIDE DEF found
    <3> QED
      BY <1>3, <3>1, MinIsLeast
  <2>2. /\ h \in Headings(s) /\ s[h].title = title
        /\ \A k \in Headings(s) : s[k].title = title => h <= k
    BY <2>1
  <2>3. InsertInSection(s, title, t) = Splice(s, end, end, <<t>>)
    BY <1>3 DEF InsertInSection
  <2> HIDE DEF h
  <2>4. h \in 1..Len(s) /\ s[h].kind = "heading"
    BY <1>1, <2>2 DEF Headings
  <2>5. /\ end \in (h + 1)..(Len(s) + 1)
        /\ \A k \in later : end <= k
        /\ end <= Len(s) => end \in later
    <3>1. later \subseteq Nat /\ later \subseteq (h + 1)..Len(s)
      BY <1>1, <2>4
    <3> HIDE DEF later
    <3>2. CASE later = {}
      BY <1>1, <2>4, <3>2
    <3>3. CASE later # {}
      <4>1. Min(later) \in later /\ \A k \in later : Min(later) <= k
        BY <3>1, <3>3, MinIsLeast
      <4>2. end = Min(later)
        BY <3>3
      <4> HIDE DEF end
      <4>3. end \in later /\ \A k \in later : end <= k
        BY <4>1, <4>2
      <4>4. end \in (h + 1)..Len(s)
        BY <3>1, <4>3
      <4>5. end \in (h + 1)..(Len(s) + 1)
        BY <1>1, <2>4, <4>4
      <4> QED
        BY <4>3, <4>5
    <3> QED
      BY <3>2, <3>3
  <2> HIDE DEF end
  <2>6. ASSUME NEW k \in (h + 1)..(end - 1), s[k].kind = "heading"
        PROVE  s[k].level > s[h].level
    <3>1. k \in 1..Len(s) /\ k > h /\ ~(end <= k)
      BY <1>1, <2>4, <2>5
    <3>2. k \in Headings(s) /\ k \notin later
      BY <2>5, <2>6, <3>1, DocIsSeq DEF Headings
    <3>3. ~(s[k].level <= s[h].level)
      BY <3>1, <3>2
    <3>4. s[k].level \in Nat /\ s[h].level \in Nat
      BY <2>4, <3>1, DocIsSeq, ItemFields
    <3> QED
      BY <3>3, <3>4
  <2>7. end <= Len(s) => s[end].kind = "heading" /\ s[end].level <= s[h].level
    BY <2>5 DEF Headings
  <2>8. SectionEnds(s, h, end)
    BY <2>4, <2>5, <2>6, <2>7 DEF SectionEnds, Open
  <2>9. end \in 1..(Len(s) + 1)
    BY <1>1, <2>4, <2>5
  <2> QED
    BY <2>2, <2>3, <2>8, <2>9
<1> QED
  BY <1>2, <1>3

LEMMA InsertedInSection ==
  ASSUME NEW s \in Doc, NEW title \in Sections \cup {Template}, NEW t \in TaskItem
  PROVE  Added(s, InsertInSection(s, title, t), t)
<1>1. Heading(title, 2) \in HeadingItem
  BY DEF Heading, HeadingItem
<1>2. Added(s, s \o <<Heading(title, 2), t>>, t)
  BY <1>1, InsertedHeading
<1>3. \A e \in 1..(Len(s) + 1) : Added(s, Splice(s, e, e, <<t>>), t)
  BY InsertedTask
<1>4. \/ InsertInSection(s, title, t) = s \o <<Heading(title, 2), t>>
      \/ \E e \in 1..(Len(s) + 1) :
            InsertInSection(s, title, t) = Splice(s, e, e, <<t>>)
  BY SectionPlace
<1> QED
  BY <1>2, <1>3, <1>4

-----------------------------------------------------------------------------
(* References are looked up among the tasks outside the template.          *)
LEMMA IdsAreIds ==
  ASSUME NEW s \in Doc
  PROVE  IdsIn(s) \subseteq Ids /\ Named(s) \subseteq 1..Len(s)
<1>1. Named(s) \subseteq 1..Len(s)
  BY DocIsSeq DEF Named, Tasks
<1>2. \A k \in Named(s) : s[k].id \in Ids
  BY <1>1, DocIsSeq, ItemFields DEF Named
<1> QED
  BY <1>1, <1>2 DEF IdsIn

LEMMA FoundTask ==
  ASSUME NEW s \in Doc, NEW id \in IdsIn(s)
  PROVE  /\ Find(s, id) \in Named(s) /\ Find(s, id) \in 1..Len(s)
         /\ s[Find(s, id)].id = id /\ s[Find(s, id)].kind = "task"
         /\ s[Find(s, id)] \in TaskItem
<1> DEFINE T == {i \in Named(s) : s[i].id = id}
<1>1. Len(s) \in Nat /\ Named(s) \subseteq 1..Len(s)
  BY DocIsSeq, IdsAreIds
<1>2. T \subseteq 0..Len(s) /\ T # {}
  BY <1>1 DEF IdsIn
<1>3. Max(T) \in T
  <2> HIDE DEF T
  <2> QED
    BY <1>1, <1>2, MaxIsGreatest
<1>4. Find(s, id) \in T
  BY <1>3 DEF Find
<1> HIDE DEF Find
<1>5. s[Find(s, id)].kind = "task" /\ Find(s, id) \in 1..Len(s)
  BY <1>1, <1>4 DEF Named, Tasks
<1> QED
  BY <1>4, <1>5, DocIsSeq, ItemFields

(* What a heading alone, or nothing, holds.                                *)
LEMMA NoTasks ==
  ASSUME NEW s \in Doc, \A k \in 1..Len(s) : s[k].kind = "heading"
  PROVE  Tasks(s) = {} /\ Named(s) = {} /\ IdsIn(s) = {} /\ Unique(s)
<1>1. Tasks(s) = {}
  BY DocIsSeq DEF Tasks
<1>2. Named(s) = {}
  BY <1>1 DEF Named
<1> QED
  BY <1>1, <1>2 DEF IdsIn, Unique

LEMMA EmptyDoc == << >> \in Doc /\ IdsIn(<< >>) = {} /\ Unique(<< >>)
<1>1. << >> \in Doc /\ Len(<< >>) = 0
  BY EmptySeq DEF Doc
<1> QED
  BY <1>1, NoTasks

(* Parts of notes, and notes that are joined.                              *)
LEMMA PartIsDoc ==
  ASSUME NEW s \in Doc, NEW m \in 1..(Len(s) + 1), NEW n \in 0..Len(s)
  PROVE  SubSeq(s, m, n) \in Doc
<1>1. m \in Int /\ n \in Int /\ \A i \in m..n : s[i] \in Item
  BY DocIsSeq
<1> QED
  BY <1>1, SubSeqProperties DEF Doc, Item

LEMMA JoinedIsDoc ==
  ASSUME NEW s \in Doc, NEW n \in Doc
  PROVE  s \o n \in Doc /\ s \o << >> = s
  BY ConcatProperties, ConcatEmptySeq DEF Doc

-----------------------------------------------------------------------------
(* What a call holds.  The IDs that a load has added are in the parsed     *)
(* copy before they are on disk; once they are, copy and note are one.     *)
CallsHold ==
    \A c \in Clients :
       /\ call[c].pc \in {"idTrunc", "idWrite"}
             => /\ IdsIn(call[c].base) \subseteq IdsIn(call[c].mem)
                /\ Unnamed(call[c].mem) = {}
       /\ call[c].pc = "loaded"
             => call[c].mem = call[c].base /\ Unnamed(call[c].mem) = {}

(* Only a note that is there is written.                                   *)
Missing == /\ ~present => note = <<>>
           /\ \A c \in Clients : Saving(c) => present

(* Until calls collide there is at most one save under way, of a call that *)
(* has read what the save replaces.                                        *)
Orderly ==
    /\ Unique(note) /\ Unique(shown)
    /\ told \subseteq IdsIn(shown)
    /\ \A c \in Clients : call[c].pc # "idle" => Unique(call[c].mem)
    /\ \A c \in Clients : Saving(c) => /\ c \notin disturbed
                                       /\ IdsIn(shown) \subseteq IdsIn(call[c].base)
                                       /\ \A d \in Clients : Saving(d) => d = c
    /\ (\A c \in Clients : ~Saving(c)) => shown = note
    /\ \A c \in Clients \ disturbed :
          call[c].pc = "loaded" => IdsIn(shown) \subseteq IdsIn(call[c].mem)

IInv == /\ TypeOK
        /\ ViewIsCurrent
        /\ CallsHold
        /\ Missing
        /\ ~raced => Orderly

-----------------------------------------------------------------------------
(* What a load makes of a note.                                            *)
LEMMA HeaderIsDoc ==
  Header \in Doc /\ IdsIn(Header) = {} /\ Unique(Header)
<1> DEFINE x == Heading("Reminders", 1)
<1>1. x \in Item /\ x.kind = "heading"
  BY HeaderAssumption, HeadingIsItem DEF HeaderAssumption
<1> HIDE DEF x
<1>2. Header = <<x>>
  BY DEF Header, x
<1>3. Header \in Seq(Item) /\ Len(Header) = 1 /\ Header[1] = x
  BY <1>1, <1>2
<1>4. Header \in Doc /\ \A k \in 1..Len(Header) : Header[k].kind = "heading"
  BY <1>1, <1>3 DEF Doc, Item
<1> QED
  BY <1>4, NoTasks

LEMMA LoadedNote ==
  ASSUME NEW s \in Doc, NEW f \in FreshIds(s)
  PROVE  /\ WithIds(s, f) \in Doc
         /\ Unnamed(WithIds(s, f)) = {}
         /\ IdsIn(s) \subseteq IdsIn(WithIds(s, f))
         /\ Unique(s) => Unique(WithIds(s, f))
         /\ Unnamed(s) = {} => WithIds(s, f) = s
<1> DEFINE n == WithIds(s, f)
           l == Len(s)
<1>1. /\ l \in Nat /\ s \in Seq(Item) /\ DOMAIN s = 1..l
      /\ \A i \in 1..l : s[i] \in Item
  BY DocIsSeq
<1>2. /\ DOMAIN f = Unnamed(s) /\ Unnamed(s) \subseteq Tasks(s)
      /\ \A i \in Unnamed(s) : f[i] \in Ids \ IdsIn(s)
      /\ \A i, j \in Unnamed(s) : f[i] = f[j] => i = j
  BY DEF FreshIds, Unnamed
<1>3. Tasks(s) \subseteq 1..l /\ \A i \in Tasks(s) : s[i].kind = "task"
  BY <1>1 DEF Tasks
<1>4. /\ DOMAIN n = 1..l
      /\ n = [i \in 1..l |-> n[i]]
      /\ \A i \in 1..l : n[i] = IF i \in Unnamed(s)
                                THEN [s[i] EXCEPT !.id = f[i]] ELSE s[i]
  BY <1>1, <1>2 DEF WithIds
<1> HIDE DEF n, l
<1>5. ASSUME NEW i \in 1..l
      PROVE  /\ n[i] \in Item
             /\ n[i].kind = s[i].kind /\ n[i].level = s[i].level
             /\ s[i].kind = "heading" => n[i].title = s[i].title
             /\ i \in Unnamed(s) => n[i].id = f[i]
             /\ i \notin Unnamed(s) => n[i].id = s[i].id
  <2>1. CASE i \in Unnamed(s)
    <3>1. s[i] \in TaskItem /\ f[i] \in Ids
      BY <1>1, <1>2, <1>3, <2>1, ItemFields
    <3>2. n[i] = [s[i] EXCEPT !.id = f[i]]
      BY <1>4, <2>1
    <3> QED
      BY <2>1, <3>1, <3>2 DEF TaskItem, Item
  <2>2. CASE i \notin Unnamed(s)
    BY <1>1, <1>4, <2>2
  <2> QED
    BY <2>1, <2>2
<1>6. n \in Seq(Item) /\ Len(n) = l
  <2>1. n \in [1..l -> Item]
    BY <1>4, <1>5
  <2> QED
    BY <1>1, <2>1, FunctionIsSeq
<1>7. n \in Doc /\ SameShape(s, n)
  BY <1>5, <1>6 DEF SameShape, Doc, Item, l
<1>8. Tasks(n) = Tasks(s)
  BY <1>7, SameShapeSameTasks
<1>9. ASSUME NEW i \in Tasks(s)
      PROVE  /\ n[i].id # NoId
             /\ i \in Unnamed(s) => n[i].id = f[i] /\ n[i].id \notin IdsIn(s)
             /\ i \notin Unnamed(s) => /\ n[i].id = s[i].id /\ i \in Named(s)
                                       /\ n[i].id \in IdsIn(s)
  <2>1. CASE i \in Unnamed(s)
    BY <1>2, <1>3, <1>5, <2>1, IdsAssumption DEF IdsAssumption
  <2>2. CASE i \notin Unnamed(s)
    BY <1>3, <1>5, <2>2 DEF Named, Unnamed, IdsIn
  <2> QED
    BY <2>1, <2>2
<1>10. Unnamed(n) = {} /\ Named(n) = Tasks(s)
  BY <1>8, <1>9 DEF Unnamed, Named
<1>11. IdsIn(s) \subseteq IdsIn(n)
  <2>1. ASSUME NEW i \in Named(s) PROVE s[i].id \in IdsIn(n)
    <3>1. i \in Tasks(s) /\ i \notin Unnamed(s)
      BY DEF Named, Unnamed
    <3> QED
      BY <1>9, <1>10, <3>1 DEF IdsIn
  <2> QED
    BY <2>1 DEF IdsIn
<1>12. ASSUME Unique(s) PROVE Unique(n)
  <2>1. ASSUME NEW i \in Tasks(s), NEW j \in Tasks(s), n[i].id = n[j].id
        PROVE  i = j
    <3>1. CASE i \in Unnamed(s) /\ j \in Unnamed(s)
      BY <1>2, <1>9, <2>1, <3>1
    <3>2. CASE i \notin Unnamed(s) /\ j \notin Unnamed(s)
      BY <1>9, <1>12, <2>1, <3>2 DEF Unique
    <3>3. CASE i \in Unnamed(s) /\ j \notin Unnamed(s)
      BY <1>9, <2>1, <3>3
    <3>4. CASE i \notin Unnamed(s) /\ j \in Unnamed(s)
      BY <1>9, <2>1, <3>4
    <3> QED
      BY <3>1, <3>2, <3>3, <3>4
  <2> QED
    BY <1>10, <2>1 DEF Unique
<1>13. ASSUME Unnamed(s) = {} PROVE n = s
  <2>1. \A i \in 1..l : n[i] = s[i]
    BY <1>4, <1>13
  <2> QED
    BY <1>1, <1>6, <2>1, SeqEqual DEF l
<1> QED
  BY <1>7, <1>10, <1>11, <1>12, <1>13 DEF n

(* Nothing else of a task changes.                                         *)
LEMMA LoadedItems ==
  ASSUME NEW s \in Doc, NEW f \in FreshIds(s)
  PROVE  LET n == WithIds(s, f)
         IN  /\ SameShape(s, n)
             /\ \A k \in 1..Len(s) :
                   /\ n[k].ind = s[k].ind /\ n[k].title = s[k].title
                   /\ n[k].done = s[k].done /\ n[k].closed = s[k].closed
             /\ \A k \in Tasks(s) : IF s[k].id = NoId THEN n[k].id \notin IdsIn(s)
                                                      ELSE n[k].id = s[k].id
<1> DEFINE n == WithIds(s, f)
           l == Len(s)
<1>1. /\ l \in Nat /\ DOMAIN s = 1..l /\ \A i \in 1..l : s[i] \in Item
      /\ Tasks(s) \subseteq 1..l /\ \A i \in Tasks(s) : s[i].kind = "task"
  BY DocIsSeq DEF Tasks
<1>2. /\ DOMAIN f = Unnamed(s) /\ Unnamed(s) \subseteq Tasks(s)
      /\ \A i \in Unnamed(s) : f[i] \notin IdsIn(s)
  BY DEF FreshIds, Unnamed
<1>3. /\ n \in Doc /\ DOMAIN n = 1..l
      /\ \A i \in 1..l : n[i] = IF i \in Unnamed(s)
                                THEN [s[i] EXCEPT !.id = f[i]] ELSE s[i]
  BY <1>1, <1>2, LoadedNote DEF WithIds
<1> HIDE DEF n, l
<1>4. Len(n) = l
  BY <1>1, <1>3, DocIsSeq
<1>5. ASSUME NEW i \in 1..l
      PROVE  /\ n[i].kind = s[i].kind /\ n[i].level = s[i].level
             /\ n[i].ind = s[i].ind /\ n[i].title = s[i].title
             /\ n[i].done = s[i].done /\ n[i].closed = s[i].closed
             /\ n[i].id = IF i \in Unnamed(s) THEN f[i] ELSE s[i].id
  <2>1. CASE i \in Unnamed(s)
    <3>1. s[i] \in TaskItem
      BY <1>1, <1>2, <2>1, ItemFields
    <3>2. n[i] = [s[i] EXCEPT !.id = f[i]]
      BY <1>3, <2>1
    <3> QED
      BY <2>1, <3>1, <3>2 DEF TaskItem
  <2>2. CASE i \notin Unnamed(s)
    BY <1>3, <2>2
  <2> QED
    BY <2>1, <2>2
<1>6. SameShape(s, n)
  BY <1>3, <1>4, <1>5 DEF SameShape, l
<1>7. ASSUME NEW k \in Tasks(s)
      PROVE  IF s[k].id = NoId THEN n[k].id \notin IdsIn(s) ELSE n[k].id = s[k].id
  <2>1. k \in 1..l /\ (k \in Unnamed(s) <=> s[k].id = NoId)
    BY <1>1 DEF Unnamed
  <2>2. n[k].id = IF k \in Unnamed(s) THEN f[k] ELSE s[k].id
    BY <1>5, <2>1
  <2> QED
    BY <1>2, <2>1, <2>2
<1> QED
  BY <1>5, <1>6, <1>7 DEF n, l

(* What a write leaves is a note; on a truncated one it is what was written.*)
LEMMA Overlaid ==
  ASSUME NEW new \in Doc, NEW old \in Doc, NEW n \in Overlays(new, old)
  PROVE  n \in Doc /\ (old = << >> => n = new)
<1>1. PICK k \in 1..(Len(old) + 1) : n = new \o SubSeq(old, k, Len(old))
  BY DEF Overlays
<1>2. Len(old) \in Nat /\ Len(old) \in 0..Len(old)
  BY DocIsSeq
<1>3. SubSeq(old, k, Len(old)) \in Doc
  BY <1>2, PartIsDoc
<1>4. n \in Doc
  BY <1>1, <1>3, JoinedIsDoc
<1>5. ASSUME old = << >> PROVE n = new
  <2>1. Len(old) = 0 /\ k \in Int
    BY <1>2, <1>5
  <2>2. k > Len(old)
    BY <2>1
  <2>3. SubSeq(old, k, Len(old)) = << >>
    BY <2>1, <2>2, SubSeqEmpty
  <2> QED
    BY <1>1, <2>3, JoinedIsDoc
<1> QED
  BY <1>4, <1>5

-----------------------------------------------------------------------------
(* The history.                                                            *)
LEMMA Noticed ==
  ASSUME TypeOK, NEW a, NEW clobbers \in BOOLEAN, Notice(a, clobbers),
         a \in Clients \/ a = Outside
  PROVE  /\ disturbed' \subseteq Clients /\ raced' \in BOOLEAN
         /\ ~raced' => /\ ~raced /\ ~clobbers
                       /\ \/ file' = file
                          \/ \A d \in Clients \ {a} : ~Saving(d)
         /\ \A d \in Clients \ {a} :
               d \notin disturbed' => /\ d \notin disturbed
                                      /\ file' = file \/ call[d].pc = "idle"
         /\ ~raced' => \A d \in Clients \ {a} :
                          Saving(d) => (d \in disturbed' <=> d \in disturbed)
         /\ a \in disturbed' <=> clobbers /\ a \in disturbed
         /\ (\E d \in Clients : Saving(d)') => shown' = shown
         /\ (\A d \in Clients : ~Saving(d)') => shown' = note'
<1> DEFINE hit == IF file' = file THEN {}
                  ELSE {d \in Clients \ {a} : call[d].pc # "idle"}
<1>1. /\ disturbed' = (IF clobbers THEN disturbed ELSE disturbed \ {a}) \cup hit
      /\ raced' = (raced \/ clobbers \/ \E d \in hit : Saving(d))
      /\ shown' = IF \E d \in Clients : Saving(d)' THEN shown ELSE note'
  BY DEF Notice
<1>2. /\ hit \subseteq Clients \ {a}
      /\ file' = file => hit = {}
      /\ file' # file => hit = {d \in Clients \ {a} : call[d].pc # "idle"}
  OBVIOUS
<1>3. disturbed \subseteq Clients /\ raced \in BOOLEAN
  BY DEF TypeOK
<1>4. \A d : Saving(d) => call[d].pc # "idle"
  BY DEF Saving
<1> HIDE DEF hit
<1>5. disturbed' \subseteq Clients /\ raced' \in BOOLEAN
  BY <1>1, <1>2, <1>3
<1>6. ASSUME ~raced'
      PROVE  /\ ~raced /\ ~clobbers
             /\ \A d \in hit : ~Saving(d)
             /\ \/ file' = file
                \/ \A d \in Clients \ {a} : ~Saving(d)
  BY <1>1, <1>2, <1>4, <1>6
<1>7. ASSUME ~raced', NEW d \in Clients \ {a}, Saving(d)
      PROVE  d \in disturbed' <=> d \in disturbed
  BY <1>1, <1>6, <1>7
<1>8. ASSUME NEW d \in Clients \ {a}, d \notin disturbed'
      PROVE  /\ d \notin disturbed
             /\ file' = file \/ call[d].pc = "idle"
  BY <1>1, <1>2, <1>8
<1>9. a \in disturbed' <=> clobbers /\ a \in disturbed
  BY <1>1, <1>2
<1> QED
  BY <1>1, <1>5, <1>6, <1>7, <1>8, <1>9

-----------------------------------------------------------------------------
LEMMA InitIInv == Init => IInv
<1> SUFFICES ASSUME Init PROVE IInv
  OBVIOUS
<1>1. note \in Doc /\ Unique(note) /\ present \in BOOLEAN
  BY EmptyDoc, StartAssumption, UniqueAssumption
     DEF Init, StartAssumption, UniqueAssumption
<1>2. Idle \in Call
  BY EmptyDoc DEF Idle, Call, Steps
<1>3. /\ call = [c \in Clients |-> Idle] /\ shown = note /\ told = {}
      /\ disturbed = {} /\ raced = FALSE /\ events = 0
      /\ ~present => note = << >>
  BY DEF Init
<1>4. \A c \in Clients : call[c].pc = "idle"
  BY <1>3 DEF Idle
<1>5. 0 \in 0..MaxEvents
  BY BoundsAssumption DEF BoundsAssumption
<1>6. TypeOK
  BY <1>1, <1>2, <1>3, <1>5 DEF TypeOK
<1>7. ViewIsCurrent /\ CallsHold /\ Missing
  BY <1>3, <1>4 DEF ViewIsCurrent, CallsHold, Missing, Saving
<1>8. Orderly
  BY <1>1, <1>3, <1>4 DEF Orderly, Saving
<1> QED
  BY <1>6, <1>7, <1>8 DEF IInv

(* The calls that a step leaves alone.                                     *)
LEMMA Stays ==
  ASSUME TypeOK, NEW c \in Clients, NEW r \in Call, call' = [call EXCEPT ![c] = r]
  PROVE  /\ call' \in [Clients -> Call] /\ call'[c] = r
         /\ \A d \in Clients \ {c} : call'[d] = call[d] /\ (Saving(d)' <=> Saving(d))
         /\ call[c] \in Call /\ call[c].mem \in Doc /\ call[c].base \in Doc
<1>1. call \in [Clients -> Call]
  BY DEF TypeOK
<1>2. call[c] \in Call
  BY <1>1
<1> QED
  BY <1>1, <1>2 DEF Saving, Call

LEMMA UnchangedIInv == ASSUME IInv, UNCHANGED vars PROVE IInv'
<1>1. /\ present' = present /\ note' = note /\ call' = call /\ events' = events
      /\ told' = told /\ shown' = shown /\ disturbed' = disturbed
      /\ raced' = raced
  BY DEF vars
<1>2. \A c : Saving(c)' <=> Saving(c)
  BY <1>1 DEF Saving
<1> QED
  BY <1>1, <1>2 DEF IInv, TypeOK, ViewIsCurrent, CallsHold, Missing, Orderly

-----------------------------------------------------------------------------
LEMMA LoadIInv == ASSUME IInv, NEW c \in Clients, Load(c) PROVE IInv'
<1> DEFINE s == IF present THEN note ELSE Header
<1>1. PICK f \in FreshIds(s) :
         call' = [call EXCEPT ![c] =
                    [pc |-> AfterLoad(s), base |-> s, mem |-> WithIds(s, f)]]
  BY DEF Load
<1>2. /\ call[c].pc = "idle" /\ Count
      /\ disturbed' = IF \E d \in Clients : Saving(d) THEN disturbed \cup {c}
                                                    ELSE disturbed \ {c}
      /\ present' = present /\ note' = note /\ told' = told /\ shown' = shown
      /\ raced' = raced
  BY DEF Load, file
<1>3. s \in Doc /\ (Unique(note) => Unique(s))
  BY HeaderIsDoc DEF IInv, TypeOK
<1> DEFINE m == WithIds(s, f)
           r == [pc |-> AfterLoad(s), base |-> s, mem |-> m]
<1>4. /\ m \in Doc /\ Unnamed(m) = {} /\ IdsIn(s) \subseteq IdsIn(m)
      /\ Unique(s) => Unique(m)
      /\ Unnamed(s) = {} => m = s
  <2> HIDE DEF s
  <2> QED
    BY <1>3, LoadedNote
<1>5. s' = s
  BY <1>2
<1> HIDE DEF s, m
<1>6. AfterLoad(s) \in {"loaded", "idTrunc"} /\ (AfterLoad(s) = "loaded" => m = s)
  BY <1>4 DEF AfterLoad
<1>7. /\ r \in Call /\ r.pc \in {"loaded", "idTrunc"} /\ r.base = s /\ r.mem = m
      /\ call' = [call EXCEPT ![c] = r]
  BY <1>1, <1>3, <1>4, <1>6 DEF Call, Steps, m
<1> HIDE DEF r
<1>8. /\ call' \in [Clients -> Call] /\ call'[c] = r
      /\ \A d \in Clients \ {c} : call'[d] = call[d] /\ (Saving(d)' <=> Saving(d))
  BY <1>7, Stays DEF IInv
<1>9. ~Saving(c) /\ ~Saving(c)'
  BY <1>2, <1>7, <1>8 DEF Saving
<1>10. TypeOK'
  BY <1>2, <1>8, BoundsAssumption DEF IInv, TypeOK, Count, BoundsAssumption
<1>11. ViewIsCurrent'
  BY <1>2, <1>5, <1>7, <1>8, <1>9 DEF IInv, ViewIsCurrent, s
<1>12. CallsHold'
  BY <1>4, <1>6, <1>7, <1>8 DEF IInv, CallsHold, r
<1>13. Missing'
  BY <1>2, <1>8, <1>9 DEF IInv, Missing
<1>14. ASSUME ~raced' PROVE Orderly'
  <2>1. Orderly
    BY <1>2, <1>14 DEF IInv
  <2>2. ASSUME c \notin disturbed' PROVE IdsIn(shown) \subseteq IdsIn(m)
    <3>1. shown = note
      BY <1>2, <2>1, <2>2 DEF Orderly
    <3>2. ~present => note = << >>
      BY DEF IInv, Missing
    <3>3. IdsIn(shown) \subseteq IdsIn(s)
      BY <3>1, <3>2, EmptyDoc DEF s
    <3> QED
      BY <1>4, <3>3
  <2>3. \A d \in Clients \ disturbed' :
           call'[d].pc = "loaded" => IdsIn(shown') \subseteq IdsIn(call'[d].mem)
    BY <1>2, <1>7, <1>8, <2>1, <2>2 DEF Orderly
  <2>4. \A d \in Clients : call'[d].pc # "idle" => Unique(call'[d].mem)
    BY <1>3, <1>4, <1>7, <1>8, <2>1 DEF Orderly
  <2>5. \A d \in Clients : Saving(d)' =>
           /\ d \notin disturbed'
           /\ IdsIn(shown') \subseteq IdsIn(call'[d].base)
           /\ \A e \in Clients : Saving(e)' => e = d
    BY <1>2, <1>8, <1>9, <2>1 DEF Orderly
  <2> QED
    BY <1>2, <1>8, <1>9, <2>1, <2>3, <2>4, <2>5 DEF Orderly
<1> QED
  BY <1>10, <1>11, <1>12, <1>13, <1>14 DEF IInv

(* Steps of a call that leave the note alone.                              *)
LEMMA SaveIInv ==
  ASSUME IInv, NEW c \in Clients, NEW new, Save(c, new),
         call[c].mem \in Doc => new \in Doc /\ (Unique(call[c].mem) => Unique(new))
  PROVE  IInv'
<1> DEFINE r == [call[c] EXCEPT !.pc = "trunc", !.mem = new]
<1>1. /\ call[c].pc = "loaded" /\ call' = [call EXCEPT ![c] = r]
      /\ present' = present /\ note' = note /\ told' = told /\ shown' = shown
      /\ raced' = raced /\ disturbed' = disturbed /\ events' = events
  BY DEF Save, Goto, file
<1>2. call[c] \in Call /\ call[c].mem \in Doc
  BY DEF IInv, TypeOK, Call
<1>3. /\ r \in Call /\ r.pc = "trunc" /\ r.base = call[c].base /\ r.mem = new
  BY <1>2 DEF Call, Steps
<1> HIDE DEF r
<1>4. /\ call' \in [Clients -> Call] /\ call'[c] = r
      /\ \A d \in Clients \ {c} : call'[d] = call[d] /\ (Saving(d)' <=> Saving(d))
  BY <1>1, <1>3, Stays DEF IInv
<1>5. ~Saving(c) /\ ~Saving(c)'
  BY <1>1, <1>3, <1>4 DEF Saving
<1>6. TypeOK'
  BY <1>1, <1>4 DEF IInv, TypeOK
<1>7. ViewIsCurrent'
  BY <1>1, <1>3, <1>4, <1>5 DEF IInv, ViewIsCurrent
<1>8. CallsHold'
  BY <1>3, <1>4 DEF IInv, CallsHold
<1>9. Missing'
  BY <1>1, <1>4, <1>5 DEF IInv, Missing
<1>10. ASSUME ~raced' PROVE Orderly'
  BY <1>1, <1>2, <1>3, <1>4, <1>5, <1>10 DEF IInv, Orderly
<1> QED
  BY <1>6, <1>7, <1>8, <1>9, <1>10 DEF IInv

LEMMA IdleIsCall == Idle \in Call /\ Idle.pc = "idle"
  BY EmptyDoc DEF Idle, Call, Steps

(* What is answered from a copy nobody has disturbed is in the note: a     *)
(* save that is under way has left nothing there to answer.                *)
LEMMA AnswerIsShown ==
  ASSUME IInv, ~raced, NEW c \in Clients, call[c].pc = "loaded", c \notin disturbed
  PROVE  IdsIn(call[c].mem) \subseteq IdsIn(shown)
<1>1. /\ call[c].mem = IF present THEN note ELSE Header
      /\ ~present => note = << >>
      /\ (\A d \in Clients : ~Saving(d)) => shown = note
  BY DEF IInv, ViewIsCurrent, CallsHold, Missing, Orderly
<1>2. CASE \E d \in Clients : Saving(d)
  <2>1. PICK d \in Clients : Saving(d)
    BY <1>2
  <2>2. d \notin disturbed
    BY <2>1 DEF IInv, Orderly
  <2>3. note = << >>
    BY <2>1, <2>2 DEF IInv, ViewIsCurrent
  <2> QED
    BY <1>1, <2>3, EmptyDoc, HeaderIsDoc
<1>3. CASE \A d \in Clients : ~Saving(d)
  BY <1>1, <1>3, HeaderIsDoc
<1> QED
  BY <1>2, <1>3

LEMMA AnswerIInv ==
  ASSUME IInv, NEW c \in Clients, NEW ids, Answer(c, ids),
         call[c].pc = "loaded" => ids \subseteq IdsIn(call[c].mem)
  PROVE  IInv'
<1>1. /\ call[c].pc = "loaded" /\ call' = [call EXCEPT ![c] = Idle]
      /\ present' = present /\ note' = note /\ shown' = shown
      /\ told' = told \cup (IF c \in disturbed THEN {} ELSE ids)
      /\ raced' = raced /\ disturbed' = disturbed /\ events' = events
      /\ ids \subseteq IdsIn(call[c].mem)
  BY DEF Answer, Goto, file
<1>2. call[c].mem \in Doc
  BY DEF IInv, TypeOK, Call
<1>3. /\ call' \in [Clients -> Call] /\ call'[c] = Idle
      /\ \A d \in Clients \ {c} : call'[d] = call[d] /\ (Saving(d)' <=> Saving(d))
  BY <1>1, IdleIsCall, Stays DEF IInv
<1>4. ~Saving(c) /\ ~Saving(c)' /\ call'[c].pc = "idle"
  BY <1>1, <1>3, IdleIsCall DEF Saving
<1>5. ids \subseteq Ids
  BY <1>1, <1>2, IdsAreIds
<1>6. TypeOK'
  BY <1>1, <1>3, <1>5 DEF IInv, TypeOK
<1>7. ViewIsCurrent'
  BY <1>1, <1>3, <1>4 DEF IInv, ViewIsCurrent
<1>8. CallsHold'
  BY <1>3, <1>4 DEF IInv, CallsHold
<1>9. Missing'
  BY <1>1, <1>3, <1>4 DEF IInv, Missing
<1>10. ASSUME ~raced' PROVE Orderly'
  <2>1. ~raced /\ told \subseteq IdsIn(shown)
    BY <1>1, <1>10 DEF IInv, Orderly
  <2>2. told' \subseteq IdsIn(shown')
    BY <1>1, <2>1, AnswerIsShown
  <2> QED
    BY <1>1, <1>3, <1>4, <2>1, <2>2 DEF IInv, Orderly
<1> QED
  BY <1>6, <1>7, <1>8, <1>9, <1>10 DEF IInv

-----------------------------------------------------------------------------
(* Saves.                                                                  *)
(* The other calls' view of the note, over a step of c.                    *)
LEMMA OthersView ==
  ASSUME IInv, NEW c \in Clients, NEW d \in Clients \ {c}, call'[d] = call[d],
         d \notin disturbed, file' = file \/ call[d].pc = "idle"
  PROVE  /\ call'[d].pc \in {"idTrunc", "loaded", "trunc"}
              => call'[d].base = IF present' THEN note' ELSE Header
         /\ Saving(d)' => present' /\ note' = << >>
<1>1. CASE file' = file
  <2>1. present' = present /\ note' = note
    BY <1>1 DEF file
  <2> QED
    BY <2>1 DEF IInv, ViewIsCurrent, Saving
<1>2. CASE call[d].pc = "idle"
  BY <1>2 DEF Saving
<1> QED
  BY <1>1, <1>2
LEMMA TruncIInv == ASSUME IInv, NEW c \in Clients, Trunc(c) PROVE IInv'
<1> DEFINE r == [call[c] EXCEPT
                  !.pc = IF @ = "idTrunc" THEN "idWrite" ELSE "write"]
           clobbers == c \in disturbed \/ \E d \in Clients \ {c} : Saving(d)
<1>1. /\ call[c].pc \in {"idTrunc", "trunc"} /\ present' = TRUE /\ note' = << >>
      /\ call' = [call EXCEPT ![c] = r] /\ events' = events /\ told' = told
      /\ Notice(c, clobbers)
  BY DEF Trunc, Truncated, Goto
<1>2. call[c] \in Call
  BY DEF IInv, TypeOK
<1>3. /\ r \in Call /\ r.pc \in {"idWrite", "write"}
      /\ r.pc = "idWrite" => call[c].pc = "idTrunc"
      /\ r.base = call[c].base /\ r.mem = call[c].mem
  BY <1>1, <1>2 DEF Call, Steps
<1>4. clobbers \in BOOLEAN
  OBVIOUS
<1> HIDE DEF r
<1>5. /\ call' \in [Clients -> Call] /\ call'[c] = r
      /\ \A d \in Clients \ {c} : call'[d] = call[d] /\ (Saving(d)' <=> Saving(d))
  BY <1>1, <1>3, Stays DEF IInv
<1>6. ~Saving(c) /\ Saving(c)'
  BY <1>1, <1>3, <1>5 DEF Saving
<1>7. /\ disturbed' \subseteq Clients /\ raced' \in BOOLEAN
      /\ ~raced' => ~raced /\ ~clobbers
      /\ \A d \in Clients \ {c} :
            d \notin disturbed' => /\ d \notin disturbed
                                   /\ file' = file \/ call[d].pc = "idle"
      /\ c \in disturbed' <=> clobbers /\ c \in disturbed
      /\ shown' = shown
  <2> HIDE DEF clobbers
  <2> QED
    BY <1>1, <1>4, <1>6, Noticed DEF IInv
<1>8. TypeOK'
  BY <1>1, <1>5, <1>7, EmptyDoc DEF IInv, TypeOK
<1>9. ViewIsCurrent'
  <2>1. ASSUME NEW d \in Clients \ {c}, d \notin disturbed'
        PROVE  /\ call'[d].pc \in {"idTrunc", "loaded", "trunc"}
                    => call'[d].base = IF present' THEN note' ELSE Header
               /\ Saving(d)' => present' /\ note' = << >>
    BY <1>5, <1>7, <2>1, OthersView
  <2>2. call'[c].pc \notin {"idTrunc", "loaded", "trunc"}
    BY <1>3, <1>5
  <2> QED
    BY <1>1, <2>1, <2>2 DEF ViewIsCurrent
<1>10. CallsHold'
  BY <1>1, <1>3, <1>5 DEF IInv, CallsHold
<1>11. Missing'
  BY <1>1 DEF IInv, Missing
<1>12. ASSUME ~raced' PROVE Orderly'
  <2>1. /\ ~raced /\ c \notin disturbed /\ \A d \in Clients : ~Saving(d)
        /\ c \notin disturbed'
    BY <1>6, <1>7, <1>12
  <2>2. IdsIn(shown) \subseteq IdsIn(call[c].base)
    <3>1. shown = note /\ call[c].base = IF present THEN note ELSE Header
      BY <1>1, <2>1 DEF IInv, Orderly, ViewIsCurrent
    <3>2. ~present => note = << >>
      BY DEF IInv, Missing
    <3> QED
      BY <3>1, <3>2, EmptyDoc
  <2>3. \A d \in Clients : Saving(d)' => d = c
    BY <1>5, <2>1
  <2>4. \A d \in Clients : call'[d].pc # "idle" => Unique(call'[d].mem)
    BY <1>1, <1>3, <1>5, <2>1 DEF IInv, Orderly
  <2> QED
    BY <1>1, <1>3, <1>5, <1>6, <1>7, <2>1, <2>2, <2>3, <2>4, EmptyDoc
       DEF IInv, Orderly
<1> QED
  BY <1>8, <1>9, <1>10, <1>11, <1>12 DEF IInv

(* A write by the only saver, over what it has truncated.                  *)
LEMMA CleanWrite ==
  ASSUME IInv, NEW c \in Clients, Saving(c), c \notin disturbed,
         note' \in Overlays(call[c].mem, note)
  PROVE  note' = call[c].mem /\ present
<1>1. note = << >> /\ present
  BY DEF IInv, ViewIsCurrent
<1>2. call[c].mem \in Doc /\ note \in Doc
  BY DEF IInv, TypeOK, Call
<1> QED
  BY <1>1, <1>2, Overlaid


LEMMA SavedIInv ==
  ASSUME IInv, NEW c \in Clients, Saving(c),
         NEW r \in Call, call' = [call EXCEPT ![c] = r],
         r.pc \in {"idle", "loaded"},
         r.pc = "loaded" => /\ call[c].pc = "idWrite"
                            /\ r.mem = call[c].mem /\ r.base = call[c].mem,
         present' = present, note' \in Overlays(call[c].mem, note),
         events' \in 0..MaxEvents,
         told' \subseteq Ids, ~raced => told' \subseteq IdsIn(call[c].mem),
         Notice(c, c \in disturbed)
  PROVE  IInv'
<1>1. /\ call' \in [Clients -> Call] /\ call'[c] = r
      /\ \A d \in Clients \ {c} : call'[d] = call[d] /\ (Saving(d)' <=> Saving(d))
      /\ call[c].mem \in Doc
  BY Stays DEF IInv
<1>2. ~Saving(c)'
  BY <1>1 DEF Saving
<1>3. /\ disturbed' \subseteq Clients /\ raced' \in BOOLEAN
      /\ ~raced' => ~raced /\ c \notin disturbed
      /\ \A d \in Clients \ {c} :
            d \notin disturbed' => /\ d \notin disturbed
                                   /\ file' = file \/ call[d].pc = "idle"
      /\ c \in disturbed' <=> c \in disturbed
      /\ (\E d \in Clients : Saving(d)') => shown' = shown
      /\ (\A d \in Clients : ~Saving(d)') => shown' = note'
  <2> DEFINE clobbers == c \in disturbed
  <2>1. clobbers \in BOOLEAN /\ Notice(c, clobbers)
    OBVIOUS
  <2>2. clobbers <=> c \in disturbed
    OBVIOUS
  <2> HIDE DEF clobbers
  <2> QED
    BY <2>1, <2>2, Noticed DEF IInv
<1>4. note' \in Doc /\ shown' \in Doc
  BY <1>1, <1>3, Overlaid DEF IInv, TypeOK
<1>5. TypeOK'
  BY <1>1, <1>3, <1>4 DEF IInv, TypeOK
<1>6. ViewIsCurrent'
  <2>1. ASSUME NEW d \in Clients \ {c}, d \notin disturbed'
        PROVE  /\ call'[d].pc \in {"idTrunc", "loaded", "trunc"}
                    => call'[d].base = IF present' THEN note' ELSE Header
               /\ Saving(d)' => present' /\ note' = << >>
    BY <1>1, <1>3, <2>1, OthersView
  <2>2. ASSUME c \notin disturbed'
        PROVE  call'[c].pc \in {"idTrunc", "loaded", "trunc"}
                 => call'[c].base = IF present' THEN note' ELSE Header
    BY <1>1, <1>3, <2>2, CleanWrite
  <2> QED
    BY <1>2, <2>1, <2>2 DEF ViewIsCurrent
<1>7. CallsHold'
  BY <1>1 DEF IInv, CallsHold
<1>8. Missing'
  BY <1>1, <1>2 DEF IInv, Missing
<1>9. ASSUME ~raced' PROVE Orderly'
  <2>1. /\ ~raced /\ c \notin disturbed /\ \A d \in Clients : Saving(d) => d = c
        /\ Unique(call[c].mem)
    BY <1>3, <1>9 DEF IInv, Orderly, Saving
  <2>2. note' = call[c].mem
    BY <2>1, CleanWrite
  <2>3. \A d \in Clients : ~Saving(d)'
    BY <1>1, <1>2, <2>1
  <2>4. \A d \in Clients : call'[d].pc # "idle" => Unique(call'[d].mem)
    BY <1>1, <2>1 DEF IInv, Orderly
  <2>5. shown' = call[c].mem
    BY <1>3, <2>2, <2>3
  <2>6. ASSUME NEW d \in Clients \ disturbed', call'[d].pc = "loaded"
        PROVE  IdsIn(shown') \subseteq IdsIn(call'[d].mem)
    <3>1. CASE d = c
      BY <1>1, <2>5, <2>6, <3>1
    <3>2. CASE d # c
      <4>1. call'[d] = call[d] /\ file' = file
        BY <1>1, <1>3, <2>6, <3>2
      <4>2. note' = note /\ note = << >>
        BY <2>1, <4>1 DEF IInv, ViewIsCurrent, file
      <4> QED
        BY <2>2, <2>5, <4>2, EmptyDoc
    <3> QED
      BY <3>1, <3>2
  <2> QED
    BY <1>3, <2>1, <2>2, <2>3, <2>4, <2>6 DEF Orderly
<1> QED
  BY <1>5, <1>6, <1>7, <1>8, <1>9 DEF IInv

LEMMA WriteIdsIInv == ASSUME IInv, NEW c \in Clients, WriteIds(c) PROVE IInv'
<1> DEFINE r == [call[c] EXCEPT !.pc = "loaded", !.base = call[c].mem]
<1>1. /\ call[c].pc = "idWrite" /\ call' = [call EXCEPT ![c] = r]
      /\ note' \in Overlays(call[c].mem, note) /\ present' = present
      /\ events' = events /\ told' = told /\ Notice(c, c \in disturbed)
  BY DEF WriteIds, Goto
<1>2. call[c] \in Call /\ Saving(c)
  BY <1>1 DEF IInv, TypeOK, Saving
<1>3. /\ r \in Call /\ r.pc = "loaded" /\ r.base = call[c].mem
      /\ r.mem = call[c].mem
  BY <1>2 DEF Call, Steps
<1>4. ~raced => told \subseteq IdsIn(call[c].mem)
  BY <1>1, <1>2 DEF IInv, Orderly, CallsHold
<1>5. events \in 0..MaxEvents /\ told \subseteq Ids
  BY DEF IInv, TypeOK
<1> HIDE DEF r
<1> QED
  BY <1>1, <1>2, <1>3, <1>4, <1>5, SavedIInv

LEMMA WriteIInv == ASSUME IInv, NEW c \in Clients, Write(c) PROVE IInv'
<1> DEFINE before == IdsIn(call[c].base)
           after == IdsIn(call[c].mem)
<1>1. /\ call[c].pc = "write" /\ call' = [call EXCEPT ![c] = Idle]
      /\ note' \in Overlays(call[c].mem, note) /\ present' = present
      /\ events' = events /\ told' = (told \ (before \ after)) \cup (after \ before)
      /\ Notice(c, c \in disturbed)
  BY DEF Write, Goto
<1>2. call[c] \in Call /\ Saving(c) /\ after \subseteq Ids
  BY <1>1, IdsAreIds DEF IInv, TypeOK, Saving, Call
<1>3. ~raced => told' \subseteq IdsIn(call[c].mem)
  <2>1. ~raced => told \subseteq before
    BY <1>2 DEF IInv, Orderly
  <2> QED
    BY <1>1, <2>1
<1>4. events \in 0..MaxEvents /\ told' \subseteq Ids
  BY <1>1, <1>2 DEF IInv, TypeOK
<1> QED
  BY <1>1, <1>2, <1>3, <1>4, IdleIsCall, SavedIInv

LEMMA Counted == ASSUME TypeOK, Count PROVE events' \in 0..MaxEvents
  BY BoundsAssumption DEF TypeOK, Count, BoundsAssumption

LEMMA WriteFailsIInv == ASSUME IInv, NEW c \in Clients, WriteFails(c) PROVE IInv'
<1>1. PICK k \in 0..Len(call[c].mem) :
         note' \in Overlays(SubSeq(call[c].mem, 1, k), note)
  BY DEF WriteFails
<1>2. /\ Saving(c) /\ Count /\ call' = [call EXCEPT ![c] = Idle]
      /\ present' = present /\ told' = told /\ Notice(c, TRUE)
  BY DEF WriteFails
<1>3. /\ call' \in [Clients -> Call] /\ call'[c] = Idle
      /\ \A d \in Clients \ {c} : call'[d] = call[d] /\ (Saving(d)' <=> Saving(d))
      /\ call[c].mem \in Doc
  BY <1>2, IdleIsCall, Stays DEF IInv
<1>4. call'[c].pc = "idle" /\ ~Saving(c)'
  BY <1>3, IdleIsCall DEF Saving
<1>5. note' \in Doc
  <2>1. 1 \in 1..(Len(call[c].mem) + 1)
    BY <1>3, DocIsSeq
  <2>2. SubSeq(call[c].mem, 1, k) \in Doc
    BY <1>3, <2>1, PartIsDoc
  <2> QED
    BY <1>1, <2>2, Overlaid DEF IInv, TypeOK
<1>6. /\ disturbed' \subseteq Clients /\ raced' \in BOOLEAN /\ raced'
      /\ \A d \in Clients \ {c} :
            d \notin disturbed' => /\ d \notin disturbed
                                   /\ file' = file \/ call[d].pc = "idle"
      /\ (\E d \in Clients : Saving(d)') => shown' = shown
      /\ (\A d \in Clients : ~Saving(d)') => shown' = note'
  BY <1>2, Noticed DEF IInv
<1>7. TypeOK'
  BY <1>2, <1>3, <1>5, <1>6, Counted DEF IInv, TypeOK
<1>8. ViewIsCurrent'
  <2>1. ASSUME NEW d \in Clients \ {c}, d \notin disturbed'
        PROVE  /\ call'[d].pc \in {"idTrunc", "loaded", "trunc"}
                    => call'[d].base = IF present' THEN note' ELSE Header
               /\ Saving(d)' => present' /\ note' = << >>
    BY <1>3, <1>6, <2>1, OthersView
  <2> QED
    BY <1>4, <2>1 DEF ViewIsCurrent
<1>9. CallsHold'
  BY <1>3, <1>4 DEF IInv, CallsHold
<1>10. Missing'
  BY <1>2, <1>3, <1>4 DEF IInv, Missing
<1> QED
  BY <1>6, <1>7, <1>8, <1>9, <1>10 DEF IInv

-----------------------------------------------------------------------------
LEMMA CrashIInv == ASSUME IInv, Crash PROVE IInv'
<1>1. /\ Count /\ call' = [c \in Clients |-> Idle] /\ disturbed' = {}
      /\ raced' = (raced \/ \E c \in Clients : Saving(c)) /\ shown' = note
      /\ present' = present /\ note' = note /\ told' = told
  BY DEF Crash, file
<1>2. \A c \in Clients : call'[c].pc = "idle" /\ ~Saving(c)'
  BY <1>1, IdleIsCall DEF Saving
<1>3. TypeOK'
  BY <1>1, IdleIsCall, Counted DEF IInv, TypeOK
<1>4. ViewIsCurrent' /\ CallsHold' /\ Missing'
  BY <1>1, <1>2 DEF IInv, ViewIsCurrent, CallsHold, Missing
<1>5. ASSUME ~raced' PROVE Orderly'
  <2>1. ~raced /\ \A c \in Clients : ~Saving(c)
    BY <1>1, <1>5
  <2> QED
    BY <1>1, <1>2, <2>1 DEF IInv, Orderly
<1> QED
  BY <1>3, <1>4, <1>5 DEF IInv

(* What a person makes of the note: a reminder without an ID comes, a box  *)
(* is ticked or a block goes.                                              *)
Typed(n, t, a) ==
  /\ t \in TaskItem /\ t.id = NoId /\ a \in 1..(Len(note) + 1)
  /\ a <= Len(note) => note[a].kind = "heading" \/ t.ind >= note[a].ind
  /\ n = Splice(note, a, a, <<t>>)

Ticked(i) == [note[i] EXCEPT !.done = ~@]

LEMMA HandEditIs ==
  ASSUME TypeOK, HandEdit
  PROVE  \/ /\ \E t, a : Typed(note', t, a)
            /\ told' = told
         \/ /\ \E i \in Tasks(note) : note' = [note EXCEPT ![i] = Ticked(i)]
            /\ told' = told
         \/ /\ \E i \in Tasks(note) : note' = RemoveBlock(note, i)
            /\ told' = told \ (IdsIn(note) \ IdsIn(note'))
<1>1. /\ note \in Doc /\ Len(note) \in Nat /\ Tasks(note) \subseteq 1..Len(note)
      /\ \A i \in Tasks(note) : note[i].kind = "task" /\ note[i] \in TaskItem
  BY DocIsSeq, ItemFields DEF TypeOK, Tasks
<1>2. ASSUME NEW t \in Titles, note' = note \o <<Task(t, NoId, 0)>>
      PROVE  \E u, a : Typed(note', u, a)
  <2> DEFINE u == Task(t, NoId, 0)
             l == Len(note)
  <2>1. u \in TaskItem /\ u.id = NoId /\ u \in Item
    BY TaskIsItem
  <2>2. note' = note \o <<u>>
    BY <1>2
  <2> HIDE DEF u
  <2>3. note' = Splice(note, l + 1, l + 1, <<u>>)
    <3>1. SubSeq(note, 1, (l + 1) - 1) = note
      <4>1. (l + 1) - 1 = l
        BY <1>1
      <4> QED
        BY <1>1, <4>1, SubSeqFull DEF Doc
    <3>2. SubSeq(note, l + 1, l) = << >>
      BY <1>1, SubSeqEmpty
    <3>3. <<u>> \in Seq(Item)
      BY <2>1
    <3>4. note \o <<u>> \in Seq(Item)
      BY <1>1, <3>3, DocIsSeq, ConcatProperties
    <3>5. (note \o <<u>>) \o << >> = note \o <<u>>
      BY <3>4, ConcatEmptySeq
    <3> QED
      BY <2>2, <3>1, <3>2, <3>5 DEF Splice
  <2>4. l + 1 \in 1..(l + 1) /\ ~(l + 1 <= l)
    BY <1>1
  <2>5. Typed(note', u, l + 1)
    BY <2>1, <2>3, <2>4 DEF Typed
  <2> QED
    BY <2>5
<1>3. ASSUME NEW t \in Titles, NEW i \in Tasks(note), NEW w \in HandIndents,
             note' = Splice(note, End(note, i), End(note, i),
                            <<Task(t, NoId, note[i].ind + w)>>)
      PROVE  \E u, a : Typed(note', u, a)
  <2> DEFINE u == Task(t, NoId, note[i].ind + w)
             a == End(note, i)
  <2>1. /\ w \in Nat /\ note[i].ind \in Nat /\ note[i].ind + w \in Nat
        /\ note[i].ind + w >= note[i].ind
    BY <1>1, BoundsAssumption DEF BoundsAssumption, TaskItem
  <2>2. u \in TaskItem /\ u.id = NoId /\ u.ind = note[i].ind + w
    BY <2>1, TaskIsItem DEF Task
  <2>3. note' = Splice(note, a, a, <<u>>)
    BY <1>3
  <2>4. a \in 1..(Len(note) + 1)
    BY <1>1, EndInRange
  <2>5. a <= Len(note) => note[a].kind = "heading" \/ note[a].ind <= note[i].ind
    BY <1>1, EndIsShallow
  <2> HIDE DEF u, a
  <2>6. a <= Len(note) => note[a].ind \in Nat
    BY <1>1, <2>4, DocIsSeq, ItemFields
  <2>7. a <= Len(note) => note[a].kind = "heading" \/ u.ind >= note[a].ind
    BY <2>1, <2>2, <2>5, <2>6
  <2>8. Typed(note', u, a)
    BY <2>2, <2>3, <2>4, <2>7 DEF Typed
  <2> QED
    BY <2>8
<1>4. ASSUME NEW i \in Tasks(note), note' = [note EXCEPT ![i].done = ~@]
      PROVE  note' = [note EXCEPT ![i] = Ticked(i)]
  BY <1>4 DEF Ticked
<1> QED
  BY <1>2, <1>3, <1>4 DEF HandEdit

(* What a person makes of the note: its IDs stay apart, and those that go  *)
(* from the note go from what clients count on.                            *)
LEMMA EditedByHand ==
  ASSUME IInv, HandEdit
  PROVE  /\ note' \in Doc /\ (Unique(note) => Unique(note'))
         /\ told' \subseteq told
         /\ told' \cap IdsIn(note) \subseteq IdsIn(note')
<1>1. /\ TypeOK /\ note \in Doc /\ Tasks(note) \subseteq 1..Len(note)
      /\ \A i \in Tasks(note) : note[i].kind = "task" /\ note[i] \in TaskItem
  BY DocIsSeq, ItemFields DEF IInv, TypeOK, Tasks
<1>2. CASE (\E t, a : Typed(note', t, a)) /\ told' = told
  <2>1. PICK t, a : Typed(note', t, a)
    BY <1>2
  <2>2. Added(note, note', t) /\ t.id = NoId
    BY <1>1, <2>1, InsertedTask DEF Typed
  <2>3. NoId \notin IdsIn(note)
    BY DEF IdsIn, Named
  <2> QED
    BY <1>2, <2>2, <2>3 DEF Added
<1>3. CASE /\ \E i \in Tasks(note) : note' = [note EXCEPT ![i] = Ticked(i)]
           /\ told' = told
  <2>1. PICK i \in Tasks(note) : note' = [note EXCEPT ![i] = Ticked(i)]
    BY <1>3
  <2>2. Ticked(i) \in TaskItem /\ Ticked(i).id = note[i].id
    BY <1>1 DEF TaskItem, Ticked
  <2>3. i \in 1..Len(note) /\ note[i].kind = "task"
    BY <1>1
  <2>4. /\ SameShape(note, note')
        /\ \A k \in 1..Len(note) : note'[k].id = note[k].id
    <3> DEFINE u == Ticked(i)
    <3> HIDE DEF u
    <3>1. u \in TaskItem /\ u.id = note[i].id
      BY <2>2 DEF u
    <3>2. /\ SameShape(note, [note EXCEPT ![i] = u])
          /\ \A k \in 1..Len(note) : [note EXCEPT ![i] = u][k].id = note[k].id
      BY <1>1, <2>3, <3>1, EditedTask
    <3> QED
      BY <2>1, <3>2 DEF u
  <2> QED
    BY <1>3, <2>4, SameShapeSameIds DEF SameShape
<1>4. CASE /\ \E i \in Tasks(note) : note' = RemoveBlock(note, i)
           /\ told' = told \ (IdsIn(note) \ IdsIn(note'))
  <2>1. PICK i \in Tasks(note) : note' = RemoveBlock(note, i)
    BY <1>4
  <2>2. note' \in Doc /\ (Unique(note) => Unique(note'))
    BY <1>1, <2>1, RemovedBlock
  <2> QED
    BY <1>4, <2>2
<1> QED
  BY <1>1, <1>2, <1>3, <1>4, HandEditIs

LEMMA HandEditIInv == ASSUME IInv, HandEdit PROVE IInv'
<1>1. /\ present /\ present' = present /\ call' = call /\ Count
      /\ Notice(Outside, FALSE)
  BY DEF HandEdit
<1>2. /\ note' \in Doc /\ (Unique(note) => Unique(note'))
      /\ told' \subseteq told
      /\ told' \cap IdsIn(note) \subseteq IdsIn(note')
  BY EditedByHand
<1>3. Outside \notin Clients
  BY ClientsAssumption DEF ClientsAssumption
<1>4. /\ disturbed' \subseteq Clients /\ raced' \in BOOLEAN
      /\ ~raced' => ~raced /\ (file' = file \/ \A d \in Clients : ~Saving(d))
      /\ \A d \in Clients :
            d \notin disturbed' => /\ d \notin disturbed
                                   /\ file' = file \/ call[d].pc = "idle"
      /\ ~raced' => \A d \in Clients : Saving(d) => (d \in disturbed' <=> d \in disturbed)
      /\ (\E d \in Clients : Saving(d)') => shown' = shown
      /\ (\A d \in Clients : ~Saving(d)') => shown' = note'
  BY <1>1, <1>3, Noticed DEF IInv
<1>5. \A d \in Clients : Saving(d)' <=> Saving(d)
  BY <1>1 DEF Saving
<1>6. TypeOK'
  BY <1>1, <1>2, <1>4, Counted DEF IInv, TypeOK
<1>7. ViewIsCurrent'
  <2>1. ASSUME NEW d \in Clients, d \notin disturbed'
        PROVE  /\ call'[d].pc \in {"idTrunc", "loaded", "trunc"}
                    => call'[d].base = IF present' THEN note' ELSE Header
               /\ Saving(d)' => present' /\ note' = << >>
    <3>1. CASE file' = file
      <4>1. note' = note
        BY <3>1 DEF file
      <4> QED
        BY <1>1, <1>4, <1>5, <2>1, <4>1 DEF IInv, ViewIsCurrent
    <3>2. CASE call[d].pc = "idle"
      BY <1>1, <1>5, <3>2 DEF Saving
    <3> QED
      BY <1>4, <2>1, <3>1, <3>2
  <2> QED
    BY <2>1 DEF ViewIsCurrent
<1>8. CallsHold'
  BY <1>1 DEF IInv, CallsHold
<1>9. Missing'
  BY <1>1 DEF IInv, Missing
<1>10. ASSUME ~raced' PROVE Orderly'
  <2>1. Orderly /\ (file' = file \/ \A d \in Clients : ~Saving(d))
    BY <1>4, <1>10 DEF IInv
  <2>2. CASE \A d \in Clients : ~Saving(d)
    <3>1. shown = note /\ shown' = note' /\ told \subseteq IdsIn(note)
      BY <1>4, <1>5, <2>1, <2>2 DEF Orderly
    <3>2. ASSUME NEW d \in Clients \ disturbed', call[d].pc = "loaded"
          PROVE  IdsIn(shown') \subseteq IdsIn(call[d].mem)
      <4>1. d \notin disturbed /\ note' = note
        BY <1>4, <3>2 DEF file
      <4> QED
        BY <2>1, <3>1, <3>2, <4>1 DEF Orderly
    <3> QED
      BY <1>1, <1>2, <1>5, <2>1, <2>2, <3>1, <3>2 DEF Orderly
  <2>3. CASE file' = file /\ \E d \in Clients : Saving(d)
    <3>1. note' = note /\ shown' = shown
      BY <1>4, <1>5, <2>3 DEF file
    <3> QED
      BY <1>1, <1>2, <1>4, <1>5, <1>10, <2>1, <2>3, <3>1 DEF Orderly
  <2> QED
    BY <2>1, <2>2, <2>3
<1> QED
  BY <1>6, <1>7, <1>8, <1>9, <1>10 DEF IInv

-----------------------------------------------------------------------------
(* The tools between load and save.                                        *)
LEMMA ChangesIInv ==
  ASSUME IInv, NEW c \in Clients,
         Create(c) \/ Update(c) \/ Complete(c) \/ Reopen(c) \/ Delete(c)
  PROVE  IInv'
<1> DEFINE s == call[c].mem
<1>1. s \in Doc
  BY DEF IInv, TypeOK, Call
<1>2. ASSUME NEW id \in IdsIn(s)
      PROVE  /\ Find(s, id) \in 1..Len(s) /\ s[Find(s, id)].kind = "task"
             /\ s[Find(s, id)] \in TaskItem
  BY <1>1, FoundTask
<1> HIDE DEF s
<1>3. CASE Create(c)
  <2>1. PICK id \in NewIds(s), title \in Titles :
           LET t == Task(title, id, 0)
           IN  \/ \E p \in IdsIn(s) : Save(c, InsertUnder(s, Find(s, p), t))
               \/ \E h \in Sections \cup {Template} :
                     Save(c, InsertInSection(s, h, t))
    BY <1>3 DEF Create, s
  <2> DEFINE t == Task(title, id, 0)
  <2>2. t \in TaskItem /\ t.id \notin IdsIn(s)
    BY TaskIsItem DEF NewIds
  <2> HIDE DEF t
  <2>3. CASE \E p \in IdsIn(s) : Save(c, InsertUnder(s, Find(s, p), t))
    <3>1. PICK p \in IdsIn(s) : Save(c, InsertUnder(s, Find(s, p), t))
      BY <2>3
    <3>2. Added(s, InsertUnder(s, Find(s, p), t), t)
      BY <1>1, <1>2, <2>2, InsertedUnder
    <3> QED
      BY <2>2, <3>1, <3>2, SaveIInv DEF Added, s
  <2>4. CASE \E h \in Sections \cup {Template} : Save(c, InsertInSection(s, h, t))
    <3>1. PICK h \in Sections \cup {Template} : Save(c, InsertInSection(s, h, t))
      BY <2>4
    <3>2. Added(s, InsertInSection(s, h, t), t)
      BY <1>1, <2>2, InsertedInSection
    <3> QED
      BY <2>2, <3>1, <3>2, SaveIInv DEF Added, s
  <2> QED
    BY <2>1, <2>3, <2>4 DEF t
<1>4. ASSUME NEW id \in IdsIn(s), NEW t \in TaskItem, t.id = s[Find(s, id)].id,
             Save(c, Rewrite(s, Find(s, id), t))
      PROVE  IInv'
  <2>1. /\ Rewrite(s, Find(s, id), t) \in Doc
        /\ Unique(s) => Unique(Rewrite(s, Find(s, id), t))
    BY <1>1, <1>2, <1>4, RewrittenBlock DEF Rewrite
  <2> QED
    BY <1>4, <2>1, SaveIInv DEF s
<1>5. CASE Update(c)
  <2>1. PICK id \in IdsIn(s), title \in Titles :
           Save(c, Rewrite(s, Find(s, id), [s[Find(s, id)] EXCEPT !.title = title]))
    BY <1>5 DEF Update, s
  <2>2. /\ [s[Find(s, id)] EXCEPT !.title = title] \in TaskItem
        /\ [s[Find(s, id)] EXCEPT !.title = title].id = s[Find(s, id)].id
    BY <1>2 DEF TaskItem
  <2> QED
    BY <1>4, <2>1, <2>2
<1>6. CASE Complete(c)
  <2>1. PICK id \in IdsIn(s) :
           Save(c, Rewrite(s, Find(s, id),
                           [s[Find(s, id)] EXCEPT !.done = TRUE, !.closed = TRUE]))
    BY <1>6 DEF Complete, s
  <2>2. /\ [s[Find(s, id)] EXCEPT !.done = TRUE, !.closed = TRUE] \in TaskItem
        /\ [s[Find(s, id)] EXCEPT !.done = TRUE, !.closed = TRUE].id
             = s[Find(s, id)].id
    BY <1>2 DEF TaskItem
  <2> QED
    BY <1>4, <2>1, <2>2
<1>7. CASE Reopen(c)
  <2>1. PICK id \in IdsIn(s) :
           Save(c, Rewrite(s, Find(s, id), [s[Find(s, id)] EXCEPT !.done = FALSE]))
    BY <1>7 DEF Reopen, s
  <2>2. /\ [s[Find(s, id)] EXCEPT !.done = FALSE] \in TaskItem
        /\ [s[Find(s, id)] EXCEPT !.done = FALSE].id = s[Find(s, id)].id
    BY <1>2 DEF TaskItem
  <2> QED
    BY <1>4, <2>1, <2>2
<1>8. CASE Delete(c)
  <2>1. PICK id \in IdsIn(s) : Save(c, RemoveBlock(s, Find(s, id)))
    BY <1>8 DEF Delete, s
  <2>2. /\ RemoveBlock(s, Find(s, id)) \in Doc
        /\ Unique(s) => Unique(RemoveBlock(s, Find(s, id)))
    BY <1>1, <1>2, RemovedBlock
  <2> QED
    BY <2>1, <2>2, SaveIInv DEF s
<1> QED
  BY <1>3, <1>5, <1>6, <1>7, <1>8

LEMMA AnswersIInv ==
  ASSUME IInv, NEW c \in Clients,
         List(c) \/ Get(c) \/ CompleteRefused(c) \/ NotFound(c)
  PROVE  IInv'
<1> DEFINE s == call[c].mem
<1>1. CASE List(c)
  BY <1>1, AnswerIInv DEF List
<1>2. CASE Get(c)
  <2>1. PICK id \in IdsIn(s) :
           Answer(c, {id} \cup {s[k].id : k \in
                        {j \in Tasks(s) : Find(s, id) \in Ancestors(s, j)}})
    BY <1>2 DEF Get
  <2>2. call[c].pc = "loaded" => \A k \in Tasks(s) : s[k].id \in IdsIn(s)
    BY DEF IInv, CallsHold, Unnamed, IdsIn, Named
  <2>3. call[c].pc = "loaded" =>
           {id} \cup {s[k].id : k \in {j \in Tasks(s) : Find(s, id) \in Ancestors(s, j)}}
             \subseteq IdsIn(s)
    BY <2>2
  <2> QED
    BY <2>1, <2>3, AnswerIInv
<1>3. CASE CompleteRefused(c)
  <2>1. PICK id \in IdsIn(s) :
           Answer(c, {s[k].id : k \in OpenSubtasks(s, Find(s, id))})
    BY <1>3 DEF CompleteRefused
  <2>2. OpenSubtasks(s, Find(s, id)) \subseteq Tasks(s)
    BY DEF OpenSubtasks, Children
  <2>3. call[c].pc = "loaded" => \A k \in Tasks(s) : s[k].id \in IdsIn(s)
    BY DEF IInv, CallsHold, Unnamed, IdsIn, Named
  <2>4. call[c].pc = "loaded" =>
           {s[k].id : k \in OpenSubtasks(s, Find(s, id))} \subseteq IdsIn(s)
    BY <2>2, <2>3
  <2> QED
    BY <2>1, <2>4, AnswerIInv
<1>4. CASE NotFound(c)
  BY <1>4, AnswerIInv DEF NotFound
<1> QED
  BY <1>1, <1>2, <1>3, <1>4

LEMMA NextIInv == ASSUME IInv, [Next]_vars PROVE IInv'
<1>1. CASE UNCHANGED vars
  BY <1>1, UnchangedIInv
<1>2. ASSUME NEW c \in Clients, Tool(c) PROVE IInv'
  BY <1>2, LoadIInv, TruncIInv, WriteIdsIInv, WriteIInv, AnswersIInv, ChangesIInv
     DEF Tool
<1> QED
  BY <1>1, <1>2, WriteFailsIInv, CrashIInv, HandEditIInv DEF Next

LEMMA Invariant == Spec => []IInv
<1>1. IInv /\ [Next]_vars => IInv'
  BY NextIInv
<1> QED
  BY InitIInv, <1>1, PTL DEF Spec

-----------------------------------------------------------------------------
(* Whatever the calls, the hand edits and the faults, the note is a note:  *)
(* no rewrite of a block, of any depth and however it is indented, gives   *)
(* an item an indentation that is not a number of columns.                 *)
THEOREM NotesAreNotes == Spec => []TypeOK
<1>1. IInv => TypeOK
  BY DEF IInv
<1> QED
  BY Invariant, <1>1, PTL

(* The copy of a call that nobody has disturbed is of the note on disk.    *)
THEOREM CopiesAreCurrent == Spec => []ViewIsCurrent
<1>1. IInv => ViewIsCurrent
  BY DEF IInv
<1> QED
  BY Invariant, <1>1, PTL

(* No two tasks have one reference, for any number of IDs, of calls that   *)
(* interleave without colliding, of crashes and of hand edits.             *)
THEOREM IdsStayUnique == Spec => []IdsAreUnique
<1>1. IInv => IdsAreUnique
  BY DEF IInv, Orderly, IdsAreUnique
<1> QED
  BY Invariant, <1>1, PTL

(* An ID that a client was told, in an answer or by a refused Complete,    *)
(* addresses a task until it is deleted, and a call finds it there unless  *)
(* another actor came in between.                                          *)
THEOREM ToldIdsStayValid == Spec => []SeenIdsStayValidUnlessRaced
<1>1. IInv => SeenIdsStayValidUnlessRaced
  BY DEF IInv, Orderly, SeenIdsStayValidUnlessRaced
<1> QED
  BY Invariant, <1>1, PTL
=============================================================================
