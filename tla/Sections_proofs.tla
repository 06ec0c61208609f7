-------------------------- MODULE Sections_proofs --------------------------
(***************************************************************************)
(* Proofs about Sections, for any notes, contents and page size: that what *)
(* markdownSections makes of the headings nests as its README says, what a *)
(* client has who reads by pages, and what ReplaceSection leaves alone.    *)
(*                                                                         *)
(*   - Only: it keeps the order, and what is in the set;                   *)
(*   - Lines and Headings: where they begin and end in the text;           *)
(*   - Stacks: stack[k] are the headings that are open at heading k;       *)
(*   - Inv: the inductive invariant of the reader;                         *)
(*   - LinesJoin, HeadingsJoin: the lines and the headings of two texts    *)
(*     that are joined where a line ends;                                  *)
(*   - CutAfter, CutBefore: what a note has before and after a section;    *)
(*   - Replacing: what it has when the three parts are put together.       *)
(***************************************************************************)
EXTENDS Sections, SequenceTheorems, FiniteSetTheorems, WellFoundedInduction,
        TLAPS

-----------------------------------------------------------------------------
(* Least numbers, and induction up to a number, for sets.                  *)
Less == {p \in Nat \X Nat : p[1] < p[2]}

LEMMA LessIsWellFounded == IsWellFoundedOn(Less, Nat)
  BY NatLessThanWellFounded, Zenon DEF OpToRel, Less

LEMMA Least ==
  ASSUME NEW T, T \subseteq Nat, T # {}
  PROVE  \E x \in T : \A y \in T : x <= y
<1>1. PICK x \in T : \A y \in T : <<y, x>> \notin Less
  BY LessIsWellFounded, WFMin
<1>2. ASSUME NEW y \in T PROVE x <= y
  <2>1. x \in Nat /\ y \in Nat
    OBVIOUS
  <2>2. ~(y < x)
    BY <1>1, <2>1 DEF Less
  <2> QED
    BY <2>1, <2>2
<1> QED
  BY <1>2

LEMMA MinIsLeast ==
  ASSUME NEW T, T \subseteq Nat, T # {}
  PROVE  Min(T) \in T /\ \A y \in T : Min(T) <= y
  BY Least DEF Min

LEMMA MinIs ==
  ASSUME NEW T, T \subseteq Nat, NEW x \in T, \A y \in T : x <= y
  PROVE  Min(T) = x
<1>1. Min(T) \in T /\ \A y \in T : Min(T) <= y
  BY MinIsLeast
<1>2. Min(T) <= x /\ x <= Min(T) /\ Min(T) \in Nat /\ x \in Nat
  BY <1>1
<1> QED
  BY <1>2

LEMMA UpTo ==
  ASSUME NEW n \in Nat, NEW T, 0 \in T,
         \A k \in 1..n : k - 1 \in T => k \in T
  PROVE  \A k \in 0..n : k \in T
<1> DEFINE U == (0..n) \ T
<1>1. SUFFICES ASSUME U # {} PROVE FALSE
  OBVIOUS
<1>2. PICK x \in U : \A y \in U : x <= y
  <2>1. U \subseteq Nat
    OBVIOUS
  <2> HIDE DEF U
  <2> QED
    BY <1>1, <2>1, Least
<1>3. x \in 1..n /\ x - 1 \in 0..n /\ ~(x <= x - 1)
  BY <1>2
<1> QED
  BY <1>2, <1>3

-----------------------------------------------------------------------------
(* Sequences of numbers that ascend, and what is in them.                  *)
Ascends(r) == \A p, q \in 1..Len(r) : p < q => r[p] < r[q]

Elems(r) == {r[i] : i \in 1..Len(r)}

LEMMA EmptyAscends ==
  /\ <<>> \in Seq(Int) /\ Ascends(<<>>)
  /\ \A x : x \notin Elems(<<>>)
<1>1. <<>> \in Seq(Int) /\ Len(<<>>) = 0
  BY EmptySeq
<1> QED
  BY <1>1 DEF Ascends, Elems

LEMMA AppendAscends ==
  ASSUME NEW r \in Seq(Int), Ascends(r), NEW x \in Int,
         \A y \in Elems(r) : y < x
  PROVE  /\ Append(r, x) \in Seq(Int) /\ Ascends(Append(r, x))
         /\ \A y : y \in Elems(Append(r, x)) <=> y \in Elems(r) \/ y = x
<1> DEFINE t == Append(r, x)
           n == Len(r)
<1>1. /\ n \in Nat /\ t \in Seq(Int) /\ Len(t) = n + 1 /\ t[n + 1] = x
      /\ \A i \in 1..n : t[i] = r[i] /\ r[i] \in Int
  BY LenProperties, AppendProperties, ElementOfSeq
<1> HIDE DEF t
<1>2. \A i \in 1..n : r[i] < x
  BY DEF Elems
<1> HIDE DEF n
<1>3. ASSUME NEW p \in 1..Len(t), NEW q \in 1..Len(t), p < q
      PROVE  t[p] < t[q]
  <2>1. p \in 1..n /\ (q \in 1..n \/ q = n + 1)
    BY <1>1, <1>3
  <2>2. CASE q = n + 1
    BY <1>1, <1>2, <2>1, <2>2
  <2>3. CASE q \in 1..n
    <3>1. r[p] < r[q]
      BY <1>3, <2>1, <2>3 DEF Ascends, n
    <3> QED
      BY <1>1, <2>1, <2>3, <3>1
  <2> QED
    BY <2>1, <2>2, <2>3
<1>4. ASSUME NEW y PROVE y \in Elems(t) <=> y \in Elems(r) \/ y = x
  <2>1. ASSUME NEW i \in 1..Len(t) PROVE i \in 1..n \/ i = n + 1
    BY <1>1
  <2>2. ASSUME NEW i \in 1..n PROVE i \in 1..Len(t)
    BY <1>1
  <2>3. n + 1 \in 1..Len(t)
    BY <1>1
  <2> QED
    BY <1>1, <2>1, <2>2, <2>3 DEF Elems, n
<1> QED
  BY <1>1, <1>3, <1>4 DEF Ascends, t

(* Two sequences that ascend are one if they have the same elements.       *)
LEMMA SameStart ==
  ASSUME NEW r \in Seq(Int), NEW t \in Seq(Int), Ascends(r), Ascends(t),
         Elems(r) = Elems(t)
  PROVE  \A i \in 1..Len(r) : i \in 1..Len(t) /\ r[i] = t[i]
<1>1. /\ Len(r) \in Nat /\ Len(t) \in Nat
      /\ \A i \in 1..Len(r) : r[i] \in Int
      /\ \A i \in 1..Len(t) : t[i] \in Int
  BY LenProperties, ElementOfSeq
<1> DEFINE U == {i \in 1..Len(r) : ~(i \in 1..Len(t) /\ r[i] = t[i])}
<1>2. SUFFICES ASSUME U # {} PROVE FALSE
  OBVIOUS
<1>3. PICK i \in U : \A j \in U : i <= j
  <2>1. U \subseteq Nat
    OBVIOUS
  <2> HIDE DEF U
  <2> QED
    BY <1>2, <2>1, Least
<1>4. i \in 1..Len(r) /\ ~(i \in 1..Len(t) /\ r[i] = t[i])
  BY <1>3
<1>5. \A j \in 1..(i - 1) : /\ j \in 1..Len(r) /\ j \in 1..Len(t)
                            /\ r[j] = t[j]
  BY <1>1, <1>3
<1> HIDE DEF U
<1>6. PICK p \in 1..Len(t) : r[i] = t[p]
  BY <1>4 DEF Elems
<1>7. ~(p < i)
  <2> SUFFICES ASSUME p < i PROVE FALSE
    OBVIOUS
  <2>1. p \in 1..(i - 1)
    BY <1>1, <1>4
  <2>2. r[p] = t[p] /\ p \in 1..Len(r) /\ r[p] < r[i]
    BY <1>4, <1>5, <2>1 DEF Ascends
  <2> QED
    BY <1>1, <1>4, <1>6, <2>2
<1>8. i \in 1..Len(t) /\ p # i /\ i < p
  BY <1>1, <1>4, <1>6, <1>7
<1>9. t[i] < t[p]
  BY <1>8 DEF Ascends
<1>10. PICK q \in 1..Len(r) : r[q] = t[i]
  BY <1>8 DEF Elems
<1>11. ~(q < i)
  <2> SUFFICES ASSUME q < i PROVE FALSE
    OBVIOUS
  <2>1. q \in 1..(i - 1)
    BY <1>1, <1>4
  <2>2. r[q] = t[q] /\ q \in 1..Len(t) /\ t[q] < t[i]
    BY <1>5, <1>8, <2>1 DEF Ascends
  <2> QED
    BY <1>1, <1>8, <1>10, <2>2
<1>12. r[i] <= r[q]
  <2>1. q = i \/ i < q
    BY <1>1, <1>4, <1>11
  <2>2. i < q => r[i] < r[q]
    BY <1>4 DEF Ascends
  <2> QED
    BY <1>1, <1>4, <2>1, <2>2
<1>13. r[i] \in Int /\ t[i] \in Int /\ t[p] \in Int /\ r[q] \in Int
  BY <1>1, <1>4, <1>8
<1> QED
  BY <1>6, <1>9, <1>10, <1>12, <1>13

LEMMA SameElems ==
  ASSUME NEW r \in Seq(Int), NEW t \in Seq(Int), Ascends(r), Ascends(t),
         \A x : x \in Elems(r) <=> x \in Elems(t)
  PROVE  r = t
<1>1. Elems(r) = Elems(t)
  OBVIOUS
<1>2. \A i \in 1..Len(r) : i \in 1..Len(t) /\ r[i] = t[i]
  BY <1>1, SameStart
<1>3. \A i \in 1..Len(t) : i \in 1..Len(r)
  BY <1>1, SameStart
<1>4. Len(r) \in Nat /\ Len(t) \in Nat
  BY LenProperties
<1>5. Len(r) = Len(t)
  <2>1. ~(Len(r) < Len(t))
    <3> SUFFICES ASSUME Len(r) < Len(t) PROVE FALSE
      OBVIOUS
    <3>1. Len(t) \in 1..Len(t)
      BY <1>4
    <3>2. Len(t) \in 1..Len(r)
      BY <1>3, <3>1
    <3> QED
      BY <1>4, <3>2
  <2>2. ~(Len(t) < Len(r))
    <3> SUFFICES ASSUME Len(t) < Len(r) PROVE FALSE
      OBVIOUS
    <3>1. Len(r) \in 1..Len(r)
      BY <1>4
    <3>2. Len(r) \in 1..Len(t)
      BY <1>2, <3>1
    <3> QED
      BY <1>4, <3>2
  <2> QED
    BY <1>4, <2>1, <2>2
<1> QED
  BY <1>2, <1>5, SeqEqual

LEMMA UptoIs ==
  ASSUME NEW n \in Nat
  PROVE  /\ Upto(n) \in Seq(Int) /\ Ascends(Upto(n)) /\ Len(Upto(n)) = n
         /\ \A x : x \in Elems(Upto(n)) <=> x \in 1..n
<1>1. Upto(n) \in [1..n -> Int] /\ \A i \in 1..n : Upto(n)[i] = i
  BY DEF Upto
<1>2. Upto(n) \in Seq(Int) /\ Len(Upto(n)) = n
  <2>1. Upto(n) \in Seq(Int)
    BY <1>1, SeqDef
  <2> QED
    BY <1>1, <2>1
<1> QED
  BY <1>1, <1>2 DEF Ascends, Elems

-----------------------------------------------------------------------------
(* Only: f[k] is what is kept of the first k elements.                     *)
Keeps(s, S, n, f) ==
    /\ f[0] = <<>>
    /\ \A k \in 1..n : f[k] = IF s[k] \in S THEN Append(f[k - 1], s[k])
                                            ELSE f[k - 1]

LEMMA KeepsExist ==
  ASSUME NEW s, NEW S, NEW n \in Nat PROVE \E f : Keeps(s, S, n, f)
<1> DEFINE T == {m \in Nat : \E f : Keeps(s, S, m, f)}
<1>1. 0 \in T
  <2> DEFINE f == [k \in 0..0 |-> <<>>]
  <2>1. Keeps(s, S, 0, f)
    BY DEF Keeps
  <2> QED
    BY <2>1
<1>2. ASSUME NEW k \in 1..n, k - 1 \in T PROVE k \in T
  <2>1. PICK f : Keeps(s, S, k - 1, f)
    BY <1>2
  <2> DEFINE next == IF s[k] \in S THEN Append(f[k - 1], s[k]) ELSE f[k - 1]
             g == [j \in 0..k |-> IF j = k THEN next ELSE f[j]]
  <2>2. g[0] = <<>>
    BY <2>1 DEF Keeps
  <2>3. ASSUME NEW j \in 1..k
        PROVE  g[j] = IF s[j] \in S THEN Append(g[j - 1], s[j]) ELSE g[j - 1]
    <3>1. j - 1 \in 0..k /\ j - 1 # k
      OBVIOUS
    <3>2. g[j - 1] = f[j - 1]
      BY <3>1
    <3>3. CASE j = k
      BY <3>2, <3>3
    <3>4. CASE j # k
      <4>1. j \in 1..(k - 1) /\ j \in 0..k
        BY <3>4
      <4>2. f[j] = IF s[j] \in S THEN Append(f[j - 1], s[j]) ELSE f[j - 1]
        BY <2>1, <4>1 DEF Keeps
      <4>3. g[j] = f[j]
        BY <3>4, <4>1
      <4> HIDE DEF g
      <4> QED
        BY <3>2, <4>2, <4>3
    <3> QED
      BY <3>3, <3>4
  <2> HIDE DEF g
  <2>4. Keeps(s, S, k, g)
    BY <2>2, <2>3 DEF Keeps
  <2> QED
    BY <2>4
<1>3. n \in T
  <2> HIDE DEF T
  <2>1. \A k \in 0..n : k \in T
    BY <1>1, <1>2, UpTo
  <2> QED
    BY <2>1
<1> QED
  BY <1>3

Kept(s, S, f) ==
    f = [k \in 0..Len(s) |->
           IF k = 0 THEN <<>>
           ELSE IF s[k] \in S THEN Append(f[k - 1], s[k]) ELSE f[k - 1]]

LEMMA OnlyKeeps ==
  ASSUME NEW E, NEW s \in Seq(E), NEW S
  PROVE  \E f : Keeps(s, S, Len(s), f) /\ Only(s, S) = f[Len(s)]
<1> DEFINE n == Len(s)
           c == CHOOSE f : Kept(s, S, f)
<1>1. n \in Nat
  BY LenProperties
<1>2. Only(s, S) = c[n]
  BY DEF Only, Kept
<1>3. PICK f : Keeps(s, S, n, f)
  BY <1>1, KeepsExist
<1> DEFINE h == [k \in 0..n |-> f[k]]
<1>4. Kept(s, S, h)
  <2>1. ASSUME NEW k \in 0..n
        PROVE  f[k] = IF k = 0 THEN <<>>
                      ELSE IF s[k] \in S THEN Append(h[k - 1], s[k]) ELSE h[k - 1]
    <3>1. CASE k = 0
      BY <1>3, <3>1 DEF Keeps
    <3>2. CASE k # 0
      <4>1. k \in 1..n /\ k - 1 \in 0..n
        BY <1>1, <3>2
      <4>2. h[k - 1] = f[k - 1]
        BY <4>1
      <4>3. f[k] = IF s[k] \in S THEN Append(f[k - 1], s[k]) ELSE f[k - 1]
        BY <1>3, <4>1 DEF Keeps
      <4> HIDE DEF h
      <4> QED
        BY <3>2, <4>2, <4>3
    <3> QED
      BY <3>1, <3>2
  <2> QED
    BY <2>1 DEF Kept
<1>5. Kept(s, S, c)
  BY <1>4
<1> HIDE DEF c
<1>6. Keeps(s, S, n, c)
  <2>1. c[0] = <<>>
    BY <1>1, <1>5 DEF Kept
  <2>2. ASSUME NEW k \in 1..n
        PROVE  c[k] = IF s[k] \in S THEN Append(c[k - 1], s[k]) ELSE c[k - 1]
    <3>1. k \in 0..n /\ k # 0
      BY <1>1
    <3> QED
      BY <1>5, <3>1 DEF Kept
  <2> QED
    BY <2>1, <2>2 DEF Keeps
<1> QED
  BY <1>2, <1>6

(* Only keeps, of numbers that ascend, those in S, and they ascend.        *)
LEMMA OnlyIs ==
  ASSUME NEW s \in Seq(Int), Ascends(s), NEW S
  PROVE  /\ Only(s, S) \in Seq(Int) /\ Ascends(Only(s, S))
         /\ \A x : x \in Elems(Only(s, S)) <=> x \in Elems(s) /\ x \in S
<1> DEFINE n == Len(s)
<1>1. n \in Nat /\ \A i \in 1..n : s[i] \in Int
  BY LenProperties, ElementOfSeq
<1>2. PICK f : Keeps(s, S, n, f) /\ Only(s, S) = f[n]
  BY OnlyKeeps
<1> DEFINE P(k) == /\ f[k] \in Seq(Int) /\ Ascends(f[k])
                   /\ \A x : x \in Elems(f[k]) <=>
                                \E i \in 1..k : x = s[i] /\ x \in S
           T == {k \in 0..n : P(k)}
<1>3. 0 \in T
  <2>1. f[0] = <<>> /\ 0 \in 0..n
    BY <1>1, <1>2 DEF Keeps
  <2>2. \A x : ~ \E i \in 1..0 : x = s[i] /\ x \in S
    OBVIOUS
  <2>3. P(0)
    BY <2>1, <2>2, EmptyAscends
  <2> QED
    BY <2>1, <2>3
<1>4. ASSUME NEW k \in 1..n, k - 1 \in T PROVE k \in T
  <2>1. k \in 0..n /\ P(k - 1) /\ s[k] \in Int
    <3> HIDE DEF P
    <3>1. P(k - 1)
      BY <1>4
    <3> QED
      BY <1>1, <3>1
  <2>2. f[k] = IF s[k] \in S THEN Append(f[k - 1], s[k]) ELSE f[k - 1]
    BY <1>2 DEF Keeps
  <2>3. ASSUME NEW i PROVE i \in 1..k <=> (i \in 1..(k - 1) \/ i = k)
    BY <1>1
  <2>4. CASE s[k] \notin S
    <3>1. f[k] = f[k - 1]
      BY <2>2, <2>4
    <3>2. \A x : (\E i \in 1..k : x = s[i] /\ x \in S) <=>
                   \E i \in 1..(k - 1) : x = s[i] /\ x \in S
      BY <2>3, <2>4
    <3>3. P(k)
      BY <2>1, <3>1, <3>2
    <3> QED
      BY <2>1, <3>3
  <2>5. CASE s[k] \in S
    <3>1. f[k] = Append(f[k - 1], s[k])
      BY <2>2, <2>5
    <3>2. \A y \in Elems(f[k - 1]) : y < s[k]
      <4>1. ASSUME NEW i \in 1..(k - 1) PROVE s[i] < s[k]
        <5>1. i \in 1..n /\ i < k
          BY <1>1
        <5> QED
          BY <5>1 DEF Ascends
      <4> QED
        BY <2>1, <4>1
    <3>3. /\ f[k] \in Seq(Int) /\ Ascends(f[k])
          /\ \A y : y \in Elems(f[k]) <=> y \in Elems(f[k - 1]) \/ y = s[k]
      <4>1. f[k - 1] \in Seq(Int) /\ Ascends(f[k - 1])
        BY <2>1
      <4>2. /\ Append(f[k - 1], s[k]) \in Seq(Int)
            /\ Ascends(Append(f[k - 1], s[k]))
            /\ \A y : y \in Elems(Append(f[k - 1], s[k])) <=>
                         y \in Elems(f[k - 1]) \/ y = s[k]
        BY <2>1, <3>2, <4>1, AppendAscends
      <4> QED
        BY <3>1, <4>2
    <3>4. ASSUME NEW x
          PROVE  x \in Elems(f[k]) <=> \E i \in 1..k : x = s[i] /\ x \in S
      <4>1. x \in Elems(f[k]) <=> x \in Elems(f[k - 1]) \/ x = s[k]
        BY <3>3
      <4>2. x \in Elems(f[k - 1]) <=> \E i \in 1..(k - 1) : x = s[i] /\ x \in S
        BY <2>1
      <4> QED
        BY <2>3, <2>5, <4>1, <4>2
    <3>5. P(k)
      BY <3>3, <3>4
    <3> QED
      BY <2>1, <3>5
  <2> QED
    BY <2>4, <2>5
<1>5. P(n)
  <2> HIDE DEF P
  <2>1. n \in T
    <3> HIDE DEF T
    <3>1. \A k \in 0..n : k \in T
      BY <1>1, <1>3, <1>4, UpTo
    <3> QED
      BY <1>1, <3>1
  <2> QED
    BY <2>1
<1>6. \A x : x \in Elems(s) <=> \E i \in 1..n : x = s[i]
  BY DEF Elems
<1> QED
  BY <1>2, <1>5, <1>6

-----------------------------------------------------------------------------
(* Stacks: stack[k] are the headings that are open at heading k.           *)
Opened(h, before, k) ==
    Append(Only(before, {j \in 1..k : StaysOpen(h[j].level, h[k].level)}), k)

Stacking(h, n, f) == /\ f[0] = <<>>
                     /\ \A k \in 1..n : f[k] = Opened(h, f[k - 1], k)

LEMMA StackingExists ==
  ASSUME NEW h, NEW n \in Nat PROVE \E f : Stacking(h, n, f)
<1> DEFINE T == {m \in Nat : \E f : Stacking(h, m, f)}
<1>1. 0 \in T
  <2> DEFINE f == [k \in 0..0 |-> <<>>]
  <2>1. Stacking(h, 0, f)
    BY DEF Stacking
  <2> QED
    BY <2>1
<1>2. ASSUME NEW k \in 1..n, k - 1 \in T PROVE k \in T
  <2>1. PICK f : Stacking(h, k - 1, f)
    BY <1>2
  <2> DEFINE g == [j \in 0..k |-> IF j = k THEN Opened(h, f[k - 1], k) ELSE f[j]]
  <2>2. g[0] = <<>>
    BY <2>1 DEF Stacking
  <2>3. ASSUME NEW j \in 1..k PROVE g[j] = Opened(h, g[j - 1], j)
    <3>1. j - 1 \in 0..k /\ j - 1 # k
      OBVIOUS
    <3>2. g[j - 1] = f[j - 1]
      BY <3>1
    <3>3. CASE j = k
      BY <3>2, <3>3
    <3>4. CASE j # k
      <4>1. j \in 1..(k - 1) /\ j \in 0..k
        BY <3>4
      <4>2. f[j] = Opened(h, f[j - 1], j)
        BY <2>1, <4>1 DEF Stacking
      <4>3. g[j] = f[j]
        BY <3>4, <4>1
      <4> HIDE DEF g
      <4> QED
        BY <3>2, <4>2, <4>3
    <3> QED
      BY <3>3, <3>4
  <2> HIDE DEF g
  <2>4. Stacking(h, k, g)
    BY <2>2, <2>3 DEF Stacking
  <2> QED
    BY <2>4
<1>3. n \in T
  <2> HIDE DEF T
  <2>1. \A k \in 0..n : k \in T
    BY <1>1, <1>2, UpTo
  <2> QED
    BY <2>1
<1> QED
  BY <1>3

Stacked(h, f) ==
    f = [k \in 0..Len(h) |->
           IF k = 0 THEN <<>>
           ELSE Append(Only(f[k - 1],
                            {j \in 1..k : StaysOpen(h[j].level, h[k].level)}), k)]

LEMMA StacksAre ==
  ASSUME NEW h, Len(h) \in Nat PROVE Stacking(h, Len(h), Stacks(h))
<1> DEFINE n == Len(h)
           c == CHOOSE f : Stacked(h, f)
<1>1. Stacks(h) = c
  BY DEF Stacks, Stacked
<1>2. PICK f : Stacking(h, n, f)
  BY StackingExists
<1> DEFINE g == [k \in 0..n |-> f[k]]
<1>3. Stacked(h, g)
  <2>1. ASSUME NEW k \in 0..n
        PROVE  f[k] = IF k = 0 THEN <<>> ELSE Opened(h, g[k - 1], k)
    <3>1. CASE k = 0
      BY <1>2, <3>1 DEF Stacking
    <3>2. CASE k # 0
      <4>1. k \in 1..n /\ k - 1 \in 0..n
        BY <3>2
      <4>2. g[k - 1] = f[k - 1]
        BY <4>1
      <4>3. f[k] = Opened(h, f[k - 1], k)
        BY <1>2, <4>1 DEF Stacking
      <4> HIDE DEF g
      <4> QED
        BY <3>2, <4>2, <4>3
    <3> QED
      BY <3>1, <3>2
  <2> QED
    BY <2>1 DEF Stacked, Opened
<1>4. Stacked(h, c)
  BY <1>3
<1> HIDE DEF c
<1>5. c[0] = <<>>
  BY <1>4 DEF Stacked
<1>6. ASSUME NEW k \in 1..n PROVE c[k] = Opened(h, c[k - 1], k)
  <2>1. k \in 0..n /\ k # 0
    OBVIOUS
  <2> QED
    BY <1>4, <2>1 DEF Stacked, Opened
<1> QED
  BY <1>1, <1>5, <1>6 DEF Stacking

Open(h, k) == {j \in 1..k : \A i \in (j + 1)..k : h[i].level > h[j].level}

Levelled(h) == Len(h) \in Nat /\ \A k \in 1..Len(h) : h[k].level \in Nat

(* A heading leaves open those of a lower level, and is open itself.       *)
LEMMA OpenNext ==
  ASSUME NEW h, Levelled(h), NEW k \in 1..Len(h), NEW x
  PROVE  x \in Open(h, k) <=>
            \/ /\ x \in Open(h, k - 1)
               /\ x \in {j \in 1..k : StaysOpen(h[j].level, h[k].level)}
            \/ x = k
<1>1. Len(h) \in Nat /\ \A j \in 1..k : h[j].level \in Nat
  BY DEF Levelled
<1>2. ASSUME x \in Open(h, k), x # k
      PROVE  /\ x \in Open(h, k - 1)
             /\ x \in {j \in 1..k : StaysOpen(h[j].level, h[k].level)}
  <2>1. /\ x \in 1..k /\ x \in 1..(k - 1) /\ k \in (x + 1)..k
        /\ \A i \in (x + 1)..k : h[i].level > h[x].level
    BY <1>1, <1>2 DEF Open
  <2>2. \A i \in (x + 1)..(k - 1) : i \in (x + 1)..k
    BY <1>1
  <2>3. x \in Open(h, k - 1)
    BY <2>1, <2>2 DEF Open
  <2>4. h[x].level < h[k].level
    BY <1>1, <2>1
  <2> QED
    BY <2>1, <2>3, <2>4 DEF StaysOpen
<1>3. ASSUME x \in Open(h, k - 1),
             x \in {j \in 1..k : StaysOpen(h[j].level, h[k].level)}
      PROVE  x \in Open(h, k)
  <2>1. /\ x \in 1..k /\ h[x].level < h[k].level
        /\ \A i \in (x + 1)..(k - 1) : h[i].level > h[x].level
    BY <1>3 DEF Open, StaysOpen
  <2>2. ASSUME NEW i \in (x + 1)..k PROVE h[i].level > h[x].level
    <3>1. i \in (x + 1)..(k - 1) \/ i = k
      BY <1>1
    <3> QED
      BY <1>1, <2>1, <3>1
  <2> QED
    BY <2>1, <2>2 DEF Open
<1>4. k \in Open(h, k)
  BY <1>1 DEF Open
<1> QED
  BY <1>2, <1>3, <1>4

LEMMA StackIsOpen ==
  ASSUME NEW h, Levelled(h), NEW m \in 1..Len(h)
  PROVE  /\ Stacks(h)[m] \in Seq(Int) /\ Ascends(Stacks(h)[m])
         /\ \A x : x \in Elems(Stacks(h)[m]) <=> x \in Open(h, m)
<1> DEFINE n == Len(h)
           f == Stacks(h)
           P(k) == /\ f[k] \in Seq(Int) /\ Ascends(f[k])
                   /\ \A x : x \in Elems(f[k]) <=> x \in Open(h, k)
           T == {k \in 0..n : P(k)}
<1>1. n \in Nat /\ Stacking(h, n, f)
  BY StacksAre DEF Levelled
<1> HIDE DEF f
<1>2. 0 \in T
  <2>1. f[0] = <<>> /\ 0 \in 0..n
    BY <1>1 DEF Stacking
  <2>2. \A x : x \notin Open(h, 0)
    BY DEF Open
  <2>3. P(0)
    BY <2>1, <2>2, EmptyAscends
  <2> QED
    BY <2>1, <2>3
<1>3. ASSUME NEW k \in 1..n, k - 1 \in T PROVE k \in T
  <2>1. k \in 0..n /\ P(k - 1) /\ k \in Int
    BY <1>1, <1>3
  <2> DEFINE B == {j \in 1..k : StaysOpen(h[j].level, h[k].level)}
             o == Only(f[k - 1], B)
  <2>2. f[k] = Append(o, k)
    BY <1>1 DEF Stacking, Opened
  <2>3. /\ o \in Seq(Int) /\ Ascends(o)
        /\ \A x : x \in Elems(o) <=> x \in Elems(f[k - 1]) /\ x \in B
    <3>1. f[k - 1] \in Seq(Int) /\ Ascends(f[k - 1])
      BY <2>1
    <3> HIDE DEF B
    <3> QED
      BY <3>1, OnlyIs
  <2>4. \A x : x \in Elems(o) <=> x \in Open(h, k - 1) /\ x \in B
    <3> HIDE DEF B, o
    <3> QED
      BY <2>1, <2>3
  <2>5. \A x \in Elems(o) : x < k
    <3>1. \A x : x \in Open(h, k - 1) => x \in 1..(k - 1)
      BY DEF Open
    <3> HIDE DEF B, o
    <3> QED
      BY <2>1, <2>4, <3>1
  <2>6. /\ f[k] \in Seq(Int) /\ Ascends(f[k])
        /\ \A x : x \in Elems(f[k]) <=> x \in Elems(o) \/ x = k
    <3> HIDE DEF o
    <3>1. /\ Append(o, k) \in Seq(Int) /\ Ascends(Append(o, k))
          /\ \A x : x \in Elems(Append(o, k)) <=> x \in Elems(o) \/ x = k
      BY <2>1, <2>3, <2>5, AppendAscends
    <3> QED
      BY <2>2, <3>1
  <2>7. \A x : x \in Open(h, k) <=> (x \in Open(h, k - 1) /\ x \in B) \/ x = k
    BY OpenNext
  <2>8. P(k)
    <3> HIDE DEF B, o
    <3> QED
      BY <2>4, <2>6, <2>7
  <2> QED
    BY <2>1, <2>8
<1>4. m \in T
  <2> HIDE DEF T
  <2>1. \A k \in 0..n : k \in T
    BY <1>1, <1>2, <1>3, UpTo
  <2> QED
    BY <1>1, <2>1
<1> QED
  BY <1>4 DEF f

LEMMA StackIsOpenAt ==
  ASSUME NEW h, Levelled(h), NEW k \in 1..Len(h)
  PROVE  Stacks(h)[k] = OpenAt(h, k)
<1> DEFINE B == {j \in 1..k : \A i \in (j + 1)..k : h[i].level > h[j].level}
           r == Stacks(h)[k]
           t == Only(Upto(k), B)
<1>1. r \in Seq(Int) /\ Ascends(r) /\ \A x : x \in Elems(r) <=> x \in Open(h, k)
  BY StackIsOpen
<1>2. /\ Upto(k) \in Seq(Int) /\ Ascends(Upto(k))
      /\ \A x : x \in Elems(Upto(k)) <=> x \in 1..k
  BY UptoIs DEF Levelled
<1>3. /\ t \in Seq(Int) /\ Ascends(t)
      /\ \A x : x \in Elems(t) <=> x \in Elems(Upto(k)) /\ x \in B
  <2> HIDE DEF B
  <2> QED
    BY <1>2, OnlyIs
<1>4. B = Open(h, k) /\ \A x : x \in B => x \in 1..k
  BY DEF Open
<1>5. t = OpenAt(h, k)
  BY DEF OpenAt
<1>6. \A x : x \in Elems(r) <=> x \in Elems(t)
  <2> HIDE DEF r, t, B
  <2> QED
    BY <1>1, <1>2, <1>3, <1>4
<1> HIDE DEF r, t, B
<1>7. r = t
  BY <1>1, <1>3, <1>6, SameElems
<1> QED
  BY <1>5, <1>7 DEF r

-----------------------------------------------------------------------------
(* Where the lines of a text, and its headings, begin and end.             *)
LEMMA FunIsSeq ==
  ASSUME NEW n \in Nat, NEW f, DOMAIN f = 1..n, f = [i \in 1..n |-> f[i]]
  PROVE  Len(f) = n
<1> DEFINE S == {f[i] : i \in 1..n}
<1>1. \A i \in 1..n : f[i] \in S
  OBVIOUS
<1> HIDE DEF S
<1>2. f \in [1..n -> S]
  BY <1>1
<1>3. f \in Seq(S)
  BY <1>2, SeqDef
<1> QED
  BY <1>3, LenProperties

LinesShape(s, l) ==
    /\ Len(s) \in Nat /\ Len(l) \in Nat /\ DOMAIN l = 1..Len(l)
    /\ \A k \in 1..Len(l) : /\ l[k].at \in 1..Len(s)
                            /\ l[k].next \in 1..(Len(s) + 1)
                            /\ l[k].at < l[k].next
    /\ \A j, k \in 1..Len(l) : j < k => l[j].next <= l[k].at

LEMMA LinesAre ==
  ASSUME NEW E, NEW s \in Seq(E) PROVE LinesShape(s, Lines(s))
<1> DEFINE ends == Ends(s)
           n == Len(ends)
           at(k) == IF k = 1 THEN 1 ELSE ends[k - 1] + 1
           l == Lines(s)
<1>1. Len(s) \in Nat
  BY LenProperties
<1>2. ends \in Seq(Int) /\ Ascends(ends) /\ \A x \in Elems(ends) : x \in 1..Len(s)
  <2> DEFINE B == {i \in 1..Len(s) : s[i] = Newline \/ i = Len(s)}
  <2>1. /\ Upto(Len(s)) \in Seq(Int) /\ Ascends(Upto(Len(s)))
        /\ \A x : x \in Elems(Upto(Len(s))) <=> x \in 1..Len(s)
    BY <1>1, UptoIs
  <2>2. ends = Only(Upto(Len(s)), B)
    BY DEF Ends
  <2> HIDE DEF B, ends
  <2> QED
    BY <2>1, <2>2, OnlyIs
<1> HIDE DEF ends
<1>3. /\ n \in Nat /\ DOMAIN ends = 1..n
      /\ \A k \in 1..n : ends[k] \in 1..Len(s)
  BY <1>2, LenProperties DEF Elems
<1>4. \A j, k \in 1..n : j < k => ends[j] < ends[k]
  BY <1>2 DEF Ascends
<1>5. /\ DOMAIN l = 1..n /\ l = [k \in 1..n |-> l[k]]
      /\ \A k \in 1..n : l[k].at = at(k) /\ l[k].next = ends[k] + 1
  BY <1>3 DEF Lines, ends
<1> HIDE DEF l
<1>6. Len(l) = n
  BY <1>3, <1>5, FunIsSeq
<1> HIDE DEF n
<1>7. ASSUME NEW k \in 1..n
      PROVE  /\ at(k) \in 1..Len(s) /\ ends[k] + 1 \in 1..(Len(s) + 1)
             /\ at(k) < ends[k] + 1
  <2>1. CASE k = 1
    BY <1>1, <1>3, <2>1
  <2>2. CASE k # 1
    <3>1. k - 1 \in 1..n /\ k - 1 < k
      BY <1>3, <2>2
    <3>2. ends[k - 1] < ends[k]
      BY <1>4, <3>1
    <3> QED
      BY <1>1, <1>3, <2>2, <3>1, <3>2
  <2> QED
    BY <2>1, <2>2
<1>8. ASSUME NEW j \in 1..n, NEW k \in 1..n, j < k
      PROVE  ends[j] + 1 <= at(k)
  <2>1. k # 1 /\ k - 1 \in 1..n /\ (j = k - 1 \/ j < k - 1)
    BY <1>3, <1>8
  <2>2. j < k - 1 => ends[j] < ends[k - 1]
    BY <1>4, <2>1
  <2>3. ends[j] \in Int /\ ends[k - 1] \in Int
    BY <1>3, <2>1
  <2> QED
    BY <2>1, <2>2, <2>3
<1> QED
  BY <1>1, <1>3, <1>5, <1>6, <1>7, <1>8 DEF LinesShape, l

-----------------------------------------------------------------------------
(* Paragraphs: whether a line is of one depends on the line before, and on *)
(* what this line says.                                                    *)
TextAfter(l, open, before, k) ==
    /\ ~InFrontmatter(l, k) /\ ~open[k - 1] /\ ~open[k]
    /\ l[k].says \notin {<<>>, <<Rule>>}
    /\ Level(l[k].says) = 0
    /\ ~(l[k].says = <<Equals>> /\ before)

Texting(l, open, n, f) ==
    /\ f[0] = FALSE
    /\ \A k \in 1..n : f[k] = TextAfter(l, open, f[k - 1], k)

LEMMA TextingExists ==
  ASSUME NEW l, NEW open, NEW n \in Nat PROVE \E f : Texting(l, open, n, f)
<1> DEFINE T == {m \in Nat : \E f : Texting(l, open, m, f)}
<1>1. 0 \in T
  <2> DEFINE f == [k \in 0..0 |-> FALSE]
  <2>1. Texting(l, open, 0, f)
    BY DEF Texting
  <2> QED
    BY <2>1
<1>2. ASSUME NEW k \in 1..n, k - 1 \in T PROVE k \in T
  <2>1. PICK f : Texting(l, open, k - 1, f)
    BY <1>2
  <2> DEFINE last == TextAfter(l, open, f[k - 1], k)
             g == [j \in 0..k |-> IF j = k THEN last ELSE f[j]]
  <2>2. g[0] = FALSE
    <3>1. f[0] = FALSE /\ 0 \in 0..k /\ 0 # k
      BY <2>1 DEF Texting
    <3> HIDE DEF last
    <3> QED
      BY <3>1, Zenon
  <2>3. ASSUME NEW j \in 1..k PROVE g[j] = TextAfter(l, open, g[j - 1], j)
    <3>1. j \in 0..k /\ j - 1 \in 0..k /\ j - 1 # k
      OBVIOUS
    <3>2. g[j - 1] = f[j - 1]
      BY <3>1, Zenon
    <3>3. CASE j = k
      <4>1. g[j] = TextAfter(l, open, f[j - 1], j)
        BY <3>1, <3>3, Zenon
      <4> HIDE DEF g
      <4> QED
        BY <3>2, <4>1, Zenon
    <3>4. CASE j # k
      <4>1. j \in 1..(k - 1)
        BY <3>4
      <4>2. f[j] = TextAfter(l, open, f[j - 1], j)
        BY <2>1, <4>1, Zenon DEF Texting
      <4>3. g[j] = f[j]
        BY <3>1, <3>4, Zenon
      <4> HIDE DEF g
      <4> QED
        BY <3>2, <4>2, <4>3, Zenon
    <3> QED
      BY <3>3, <3>4
  <2> HIDE DEF g
  <2>4. Texting(l, open, k, g)
    BY <2>2, <2>3, Zenon DEF Texting
  <2>5. k \in Nat
    OBVIOUS
  <2> QED
    BY <2>4, <2>5
<1>3. n \in T
  <2> HIDE DEF T
  <2>1. \A k \in 0..n : k \in T
    BY <1>1, <1>2, UpTo
  <2> QED
    BY <2>1
<1> QED
  BY <1>3

Texted(l, open, f) ==
    f = [k \in 0..Len(l) |->
           IF k = 0 \/ InFrontmatter(l, k) THEN FALSE
           ELSE /\ ~open[k - 1] /\ ~open[k]
                /\ l[k].says \notin {<<>>, <<Rule>>}
                /\ Level(l[k].says) = 0
                /\ ~(l[k].says = <<Equals>> /\ f[k - 1])]

LEMMA TextsAre ==
  ASSUME NEW l, NEW open, Len(l) \in Nat
  PROVE  Texting(l, open, Len(l), Paragraphs(l, open))
<1> DEFINE n == Len(l)
           c == CHOOSE f : Texted(l, open, f)
           Body(g, k) == IF k = 0 \/ InFrontmatter(l, k) THEN FALSE
                         ELSE /\ ~open[k - 1] /\ ~open[k]
                              /\ l[k].says \notin {<<>>, <<Rule>>}
                              /\ Level(l[k].says) = 0
                              /\ ~(l[k].says = <<Equals>> /\ g[k - 1])
<1>1. Paragraphs(l, open) = c
  BY Zenon DEF Paragraphs, Texted
<1>2. PICK f : Texting(l, open, n, f)
  BY TextingExists
<1>3. ASSUME NEW g, NEW k \in 1..n PROVE Body(g, k) = TextAfter(l, open, g[k - 1], k)
  <2>1. k # 0
    OBVIOUS
  <2>2. CASE InFrontmatter(l, k)
    BY <2>2, Zenon DEF TextAfter
  <2>3. CASE ~InFrontmatter(l, k)
    BY <2>1, <2>3, Zenon DEF TextAfter
  <2> QED
    BY <2>2, <2>3
<1>4. ASSUME NEW g PROVE Body(g, 0) = FALSE
  BY Zenon
<1>5. \A g : Texted(l, open, g) <=> g = [k \in 0..n |-> Body(g, k)]
  BY Zenon DEF Texted
<1> HIDE DEF Body
<1> DEFINE g == [k \in 0..n |-> f[k]]
<1>6. ASSUME NEW k \in 0..n PROVE f[k] = Body(g, k)
  <2>1. CASE k = 0
    BY <1>2, <1>4, <2>1 DEF Texting
  <2>2. CASE k # 0
    <3>1. k \in 1..n /\ k - 1 \in 0..n
      BY <2>2
    <3>2. g[k - 1] = f[k - 1]
      BY <3>1, Zenon
    <3>3. f[k] = TextAfter(l, open, f[k - 1], k)
      BY <1>2, <3>1, Zenon DEF Texting
    <3> HIDE DEF g
    <3> QED
      BY <1>3, <3>1, <3>2, <3>3, Zenon
  <2> QED
    BY <2>1, <2>2
<1>7. g = [k \in 0..n |-> Body(g, k)]
  <2> HIDE DEF g
  <2>1. g = [k \in 0..n |-> f[k]]
    BY Zenon DEF g
  <2> QED
    BY <1>6, <2>1, Zenon
<1>8. Texted(l, open, c)
  <2> HIDE DEF g
  <2>1. Texted(l, open, g)
    BY <1>5, <1>7, Zenon
  <2> QED
    BY <2>1, Zenon
<1> HIDE DEF c
<1>9. \A k \in 0..n : c[k] = Body(c, k)
  <2>1. c = [k \in 0..n |-> Body(c, k)]
    BY <1>5, <1>8, Zenon
  <2> QED
    BY <2>1
<1>10. c[0] = FALSE
  <2>1. 0 \in 0..n
    OBVIOUS
  <2> QED
    BY <1>4, <1>9, <2>1, Zenon
<1>11. ASSUME NEW k \in 1..n PROVE c[k] = TextAfter(l, open, c[k - 1], k)
  <2>1. k \in 0..n
    OBVIOUS
  <2> QED
    BY <1>3, <1>9, <2>1, Zenon
<1> QED
  BY <1>1, <1>10, <1>11, Zenon DEF Texting

(* The levels of headings, and what marks no heading.                      *)
LEMMA LevelRange == ASSUME NEW c PROVE Level(c) \in 0..6 /\ Level(<<>>) = 0
<1>1. CASE c # <<>> /\ \E n \in 1..6 : c[1] = Hashes[n]
  <2>1. (CHOOSE n \in 1..6 : c[1] = Hashes[n]) \in 1..6
    BY <1>1
  <2>2. Level(c) = CHOOSE n \in 1..6 : c[1] = Hashes[n]
    BY <1>1, Zenon DEF Level
  <2>3. Level(c) \in 1..6
    BY <2>1, <2>2, Zenon
  <2>4. Level(<<>>) = 0
    BY Zenon DEF Level
  <2> QED
    BY <2>3, <2>4
<1>2. CASE ~(c # <<>> /\ \E n \in 1..6 : c[1] = Hashes[n])
  <2>1. Level(c) = 0
    BY <1>2, Zenon DEF Level
  <2>2. Level(<<>>) = 0
    BY Zenon DEF Level
  <2> QED
    BY <2>1, <2>2
<1> QED
  BY <1>1, <1>2

HeadingShape(s, h) ==
    /\ Levelled(h) /\ DOMAIN h = 1..Len(h)
    /\ \A k \in 1..Len(h) : /\ h[k].start \in 1..Len(s)
                            /\ h[k].body \in 1..(Len(s) + 1)
                            /\ h[k].start < h[k].body
    /\ \A j, k \in 1..Len(h) : j < k => h[j].body <= h[k].start

LEMMA HeadingsInAre ==
  ASSUME NEW s, NEW l, LinesShape(s, l), NEW open, NEW said,
         Texting(l, open, Len(l), said)
  PROVE  HeadingShape(s, HeadingsIn(s, l, open, said))
<1> DEFINE seen(k)  == ~InFrontmatter(l, k) /\ ~open[k - 1]
           atx(k)   == seen(k) /\ Level(l[k].says) > 0
           text(k)  == said[k]
           under(k) == seen(k) /\ l[k].says \in Underlines /\ text(k - 1)
           before(k) == {j \in 1..(k - 1) : \A i \in j..(k - 1) : text(i)}
           first(k) == Min(before(k))
           heading(k) ==
              IF atx(k)
              THEN [level |-> Level(l[k].says), title |-> Tail(l[k].says),
                    start |-> l[k].at, body |-> l[k].next, setext |-> FALSE]
              ELSE [level |-> IF l[k].says = <<Equals>> THEN 1 ELSE 2,
                    title |-> SubSeq(s, l[first(k)].at, l[k].at - 2),
                    start |-> l[first(k)].at, body |-> l[k].next, setext |-> TRUE]
           B == {k \in 1..Len(l) : atx(k) \/ under(k)}
           where == Only(Upto(Len(l)), B)
           from(k) == IF atx(k) THEN k ELSE first(k)
           h == HeadingsIn(s, l, open, said)
           n == Len(where)
<1>1. h = [i \in DOMAIN where |-> heading(where[i])]
  BY DEF HeadingsIn
<1> HIDE DEF h
<1>2. /\ Len(s) \in Nat /\ Len(l) \in Nat
      /\ \A k \in 1..Len(l) : /\ l[k].at \in 1..Len(s)
                              /\ l[k].next \in 1..(Len(s) + 1)
                              /\ l[k].at < l[k].next
      /\ \A j, k \in 1..Len(l) : j < k => l[j].next <= l[k].at
  BY DEF LinesShape
<1>3. where \in Seq(Int) /\ Ascends(where) /\ \A x \in Elems(where) : x \in B
  <2> HIDE DEF B
  <2>1. Upto(Len(l)) \in Seq(Int) /\ Ascends(Upto(Len(l)))
    BY <1>2, UptoIs
  <2> QED
    BY <2>1, OnlyIs
<1>4. ASSUME NEW k \in 1..Len(l), text(k) PROVE ~atx(k) /\ ~under(k)
  <2>1. said[k] = TextAfter(l, open, said[k - 1], k)
    BY Zenon DEF Texting
  <2>2. /\ l[k].says # <<Rule>> /\ Level(l[k].says) = 0
        /\ ~(l[k].says = <<Equals>> /\ said[k - 1])
    BY <1>4, <2>1, Zenon DEF TextAfter
  <2>3. ~under(k)
    BY <2>2, Zenon DEF Underlines
  <2>4. ~(Level(l[k].says) > 0)
    BY <2>2
  <2> QED
    BY <2>3, <2>4, Zenon
<1>5. ASSUME NEW k \in 1..Len(l), atx(k) \/ under(k)
      PROVE  from(k) \in 1..k /\ \A i \in from(k)..(k - 1) : text(i)
  <2>1. CASE atx(k)
    <3>1. from(k) = k
      BY <2>1
    <3>2. k \in 1..k /\ \A i \in k..(k - 1) : FALSE
      BY <1>2
    <3> HIDE DEF from, text
    <3> QED
      BY <3>1, <3>2
  <2>2. CASE ~atx(k)
    <3>1. k > 1 /\ text(k - 1) /\ from(k) = first(k)
      <4>1. text(k - 1) /\ from(k) = first(k)
        BY <1>5, <2>2, Zenon
      <4>2. ~said[0]
        BY Zenon DEF Texting
      <4>3. k = 1 => k - 1 = 0
        OBVIOUS
      <4>4. k # 1
        BY <4>1, <4>2, <4>3, Zenon
      <4> QED
        BY <4>1, <4>4
    <3> HIDE DEF text, from
    <3>2. k - 1 \in 1..(k - 1) /\ \A i \in (k - 1)..(k - 1) : i = k - 1
      BY <1>2, <3>1
    <3>3. k - 1 \in before(k) /\ before(k) \subseteq Nat
      BY <3>1, <3>2
    <3>4. first(k) \in before(k)
      <4> HIDE DEF before
      <4> QED
        BY <3>3, MinIsLeast
    <3> HIDE DEF first
    <3>5. /\ first(k) \in 1..(k - 1)
          /\ \A i \in first(k)..(k - 1) : text(i)
      BY <3>4
    <3>6. from(k) \in 1..k
      BY <1>2, <3>1, <3>5
    <3> QED
      BY <3>1, <3>5, <3>6
  <2> QED
    BY <2>1, <2>2
<1>6. ASSUME NEW k
      PROVE  /\ heading(k).start = l[from(k)].at /\ heading(k).body = l[k].next
             /\ heading(k).level \in Nat
  <2>1. Level(l[k].says) \in Nat
    BY LevelRange
  <2> QED
    BY <2>1
<1> HIDE DEF B, heading, from
<1>7. n \in Nat /\ DOMAIN where = 1..n /\ \A i \in 1..n : where[i] \in B
  BY <1>3, LenProperties DEF Elems
<1>8. \A i, j \in 1..n : i < j => where[i] < where[j]
  BY <1>3 DEF Ascends
<1> HIDE DEF where
<1>9. /\ DOMAIN h = 1..n /\ h = [i \in 1..n |-> h[i]]
      /\ \A i \in 1..n : h[i] = heading(where[i])
  BY <1>1, <1>7
<1>10. Len(h) = n
  BY <1>7, <1>9, FunIsSeq
<1> HIDE DEF n
<1>11. ASSUME NEW i \in 1..n
       PROVE  /\ where[i] \in 1..Len(l) /\ from(where[i]) \in 1..where[i]
              /\ \A k \in from(where[i])..(where[i] - 1) : text(k)
              /\ atx(where[i]) \/ under(where[i])
  <2>1. where[i] \in 1..Len(l) /\ (atx(where[i]) \/ under(where[i]))
    BY <1>7 DEF B
  <2> HIDE DEF atx, under, text
  <2> QED
    BY <1>5, <2>1
<1> HIDE DEF atx, under, text
<1>12. ASSUME NEW i \in 1..n
       PROVE  /\ h[i].level \in Nat /\ h[i].start \in 1..Len(s)
              /\ h[i].body \in 1..(Len(s) + 1) /\ h[i].start < h[i].body
  <2> DEFINE k == where[i]
             f == from(k)
  <2>1. /\ k \in 1..Len(l) /\ f \in 1..Len(l) /\ (f = k \/ f < k)
    BY <1>2, <1>11
  <2>2. h[i].start = l[f].at /\ h[i].body = l[k].next /\ h[i].level \in Nat
    BY <1>6, <1>9
  <2> HIDE DEF k, f
  <2>3. /\ l[f].at \in 1..Len(s) /\ l[k].next \in 1..(Len(s) + 1)
        /\ l[f].at < l[f].next /\ l[k].at < l[k].next
        /\ l[k].at \in Int /\ l[f].next \in Int
        /\ f < k => l[f].next <= l[k].at
    <3>1. l[f].at \in 1..Len(s) /\ l[f].next \in 1..(Len(s) + 1) /\ l[f].at < l[f].next
      BY <1>2, <2>1
    <3>2. l[k].at \in 1..Len(s) /\ l[k].next \in 1..(Len(s) + 1) /\ l[k].at < l[k].next
      BY <1>2, <2>1
    <3>3. f < k => l[f].next <= l[k].at
      BY <1>2, <2>1
    <3>4. l[k].at \in Int /\ l[f].next \in Int
      BY <1>2, <3>1, <3>2
    <3> QED
      BY <3>1, <3>2, <3>3, <3>4
  <2>4. l[f].at < l[k].next
    BY <2>1, <2>3
  <2> QED
    BY <2>2, <2>3, <2>4
<1>13. ASSUME NEW i \in 1..n, NEW j \in 1..n, i < j
       PROVE  h[i].body <= h[j].start
  <2> DEFINE k == where[i]
             m == where[j]
             f == from(m)
  <2>1. /\ k \in 1..Len(l) /\ m \in 1..Len(l) /\ f \in 1..Len(l) /\ k < m
        /\ f \in 1..m
        /\ (\A x \in f..(m - 1) : text(x)) /\ (atx(k) \/ under(k))
    BY <1>2, <1>8, <1>11, <1>13
  <2>2. h[i].body = l[k].next /\ h[j].start = l[f].at
    BY <1>6, <1>9
  <2> HIDE DEF k, m, f
  <2>3. ~text(k)
    BY <1>4, <2>1
  <2>4. k \notin f..(m - 1)
    BY <2>1, <2>3
  <2>5. k < f
    BY <2>1, <2>4
  <2> QED
    BY <1>2, <2>1, <2>2, <2>5
<1> QED
  BY <1>7, <1>9, <1>10, <1>12, <1>13 DEF HeadingShape, Levelled, h

LEMMA HeadingsAre ==
  ASSUME NEW E, NEW s \in Seq(E)
  PROVE  Len(s) \in Nat /\ HeadingShape(s, Headings(s))
<1> DEFINE l    == Lines(s)
           open == OpenFence(l)
           said == Paragraphs(l, open)
<1>1. LinesShape(s, l) /\ Len(s) \in Nat
  BY LinesAre, LenProperties
<1>2. Texting(l, open, Len(l), said)
  BY <1>1, TextsAre DEF LinesShape
<1>3. Headings(s) = HeadingsIn(s, l, open, said)
  BY Zenon DEF Headings
<1> HIDE DEF l, open, said
<1> QED
  BY <1>1, <1>2, <1>3, HeadingsInAre

-----------------------------------------------------------------------------
(* Where a section ends: the first heading that takes it off the stack is  *)
(* the first that does not have a higher level.                            *)
Off(h, k) == {j \in (k + 1)..Len(h) : k \notin ToSet(Stacks(h)[j])}

Later(h, k) == {j \in (k + 1)..Len(h) : h[j].level <= h[k].level}

LEMMA OffIs ==
  ASSUME NEW h, Levelled(h), NEW k \in 1..Len(h)
  PROVE  /\ Off(h, k) = {} <=> Later(h, k) = {}
         /\ Later(h, k) # {} => /\ Min(Off(h, k)) = Min(Later(h, k))
                                /\ Min(Later(h, k)) \in 1..Len(h)
<1>1. Len(h) \in Nat /\ \A j \in 1..Len(h) : h[j].level \in Nat
  BY DEF Levelled
<1>2. ASSUME NEW j \in 1..Len(h)
      PROVE  k \in ToSet(Stacks(h)[j]) <=> k \in Open(h, j)
  <2>1. /\ Stacks(h)[j] \in Seq(Int)
        /\ k \in Elems(Stacks(h)[j]) <=> k \in Open(h, j)
    BY StackIsOpen
  <2>2. DOMAIN Stacks(h)[j] = 1..Len(Stacks(h)[j])
    BY <2>1, LenProperties
  <2> QED
    BY <2>1, <2>2 DEF ToSet, Elems
<1>3. \A j \in (k + 1)..Len(h) : j \in 1..Len(h)
  BY <1>1
<1>4. ASSUME NEW j \in Later(h, k) PROVE j \in Off(h, k)
  <2>1. j \in (k + 1)..Len(h) /\ ~(h[j].level > h[k].level) /\ j \in (k + 1)..j
    BY <1>1, <1>3 DEF Later
  <2>2. k \notin Open(h, j)
    BY <2>1 DEF Open
  <2> QED
    BY <1>2, <1>3, <2>1, <2>2 DEF Off
<1>5. ASSUME NEW j \in Off(h, k) PROVE \E i \in Later(h, k) : i <= j
  <2>1. j \in (k + 1)..Len(h) /\ k \notin Open(h, j) /\ k \in 1..j
    BY <1>1, <1>2, <1>3 DEF Off
  <2>2. PICK i \in (k + 1)..j : ~(h[i].level > h[k].level)
    BY <2>1 DEF Open
  <2>3. i \in (k + 1)..Len(h) /\ i <= j
    BY <1>1, <2>1
  <2>4. h[i].level <= h[k].level
    BY <1>1, <1>3, <2>2, <2>3
  <2> QED
    BY <2>3, <2>4 DEF Later
<1>6. Off(h, k) = {} <=> Later(h, k) = {}
  BY <1>4, <1>5
<1>7. ASSUME Later(h, k) # {}
      PROVE  /\ Min(Off(h, k)) = Min(Later(h, k))
             /\ Min(Later(h, k)) \in 1..Len(h)
  <2> DEFINE m == Min(Later(h, k))
  <2>1. Later(h, k) \subseteq Nat /\ Off(h, k) \subseteq Nat
    BY <1>1 DEF Later, Off
  <2>2. m \in Later(h, k) /\ \A i \in Later(h, k) : m <= i
    BY <1>7, <2>1, MinIsLeast
  <2> HIDE DEF m
  <2>3. m \in Off(h, k)
    BY <1>4, <2>2
  <2>4. ASSUME NEW j \in Off(h, k) PROVE m <= j
    <3>1. PICK i \in Later(h, k) : i <= j
      BY <1>5
    <3>2. m <= i /\ m \in Nat /\ i \in Nat /\ j \in Nat
      BY <2>1, <2>2
    <3> QED
      BY <3>1, <3>2
  <2>5. Min(Off(h, k)) = m
    BY <2>1, <2>3, <2>4, MinIs
  <2>6. m \in 1..Len(h)
    BY <1>3, <2>2 DEF Later
  <2> QED
    BY <2>5, <2>6 DEF m
<1> QED
  BY <1>6, <1>7

EndUnder(s, h, k) ==
    IF Off(h, k) = {} THEN Len(s) + 1 ELSE h[Min(Off(h, k))].start

NextSetext(h, k) == Off(h, k) # {} /\ h[Min(Off(h, k))].setext

PathAt(h, k) == [i \in DOMAIN Stacks(h)[k] |-> h[Stacks(h)[k][i]].title]

SectionAt(s, h, k) ==
    [path |-> PathAt(h, k), level |-> h[k].level, start |-> h[k].start,
     body |-> h[k].body, end |-> EndUnder(s, h, k),
     nextSetext |-> NextSetext(h, k)]

LEMMA SectionsUnderAre ==
  ASSUME NEW s, NEW h
  PROVE  SectionsUnder(s, h, Stacks(h)) =
            [k \in DOMAIN h |-> SectionAt(s, h, k)]
  BY DEF SectionsUnder, SectionAt, PathAt, EndUnder, NextSetext, Off

LEMMA SectionsAre ==
  ASSUME NEW s
  PROVE  markdownSections(s) =
            [k \in DOMAIN Headings(s) |-> SectionAt(s, Headings(s), k)]
  BY SectionsUnderAre DEF markdownSections

LEMMA EndIs ==
  ASSUME NEW s, NEW h, HeadingShape(s, h), NEW k \in 1..Len(h)
  PROVE  EndUnder(s, h, k) = EndOf(s, h, k)
<1>1. Levelled(h)
  BY DEF HeadingShape
<1>2. EndOf(s, h, k) = IF Later(h, k) = {} THEN Len(s) + 1
                       ELSE h[Min(Later(h, k))].start
  BY DEF EndOf, Later
<1>3. /\ Off(h, k) = {} <=> Later(h, k) = {}
      /\ Later(h, k) # {} => Min(Off(h, k)) = Min(Later(h, k))
  BY <1>1, OffIs
<1> QED
  BY <1>2, <1>3 DEF EndUnder

LEMMA EndInRange ==
  ASSUME NEW s, Len(s) \in Nat, NEW h, HeadingShape(s, h), NEW k \in 1..Len(h)
  PROVE  EndUnder(s, h, k) \in 1..(Len(s) + 1)
<1>1. Levelled(h) /\ \A j \in 1..Len(h) : h[j].start \in 1..Len(s)
  BY DEF HeadingShape
<1>2. Off(h, k) # {} => Min(Off(h, k)) \in 1..Len(h)
  BY <1>1, OffIs
<1> QED
  BY <1>1, <1>2 DEF EndUnder

LEMMA StartsApart ==
  ASSUME NEW s, Len(s) \in Nat, NEW h, HeadingShape(s, h),
         NEW i \in 1..Len(h), NEW j \in 1..Len(h), h[i].start = h[j].start
  PROVE  i = j
<1>1. /\ \A k \in 1..Len(h) : /\ h[k].start \in Int /\ h[k].body \in Int
                              /\ h[k].start < h[k].body
      /\ \A k, m \in 1..Len(h) : k < m => h[k].body <= h[m].start
      /\ Len(h) \in Nat
  BY DEF HeadingShape, Levelled
<1>2. ~(i < j)
  <2> SUFFICES ASSUME i < j PROVE FALSE
    OBVIOUS
  <2>1. h[i].body <= h[j].start
    BY <1>1
  <2> QED
    BY <1>1, <2>1
<1>3. ~(j < i)
  <2> SUFFICES ASSUME j < i PROVE FALSE
    OBVIOUS
  <2>1. h[j].body <= h[i].start
    BY <1>1
  <2> QED
    BY <1>1, <2>1
<1> QED
  BY <1>1, <1>2, <1>3

LEMMA NextSetextIs ==
  ASSUME NEW s, Len(s) \in Nat, NEW h, HeadingShape(s, h), NEW k \in 1..Len(h)
  PROVE  NextSetext(h, k) <=> \E j \in DOMAIN h : /\ h[j].start = EndOf(s, h, k)
                                                  /\ h[j].setext
<1>1. /\ Levelled(h) /\ DOMAIN h = 1..Len(h)
      /\ \A j \in 1..Len(h) : h[j].start \in 1..Len(s)
  BY DEF HeadingShape
<1>2. EndUnder(s, h, k) = EndOf(s, h, k)
  BY EndIs
<1>3. Off(h, k) # {} => Min(Off(h, k)) \in 1..Len(h)
  BY <1>1, OffIs
<1>4. CASE Off(h, k) = {}
  <2>1. EndOf(s, h, k) = Len(s) + 1
    BY <1>2, <1>4 DEF EndUnder
  <2>2. \A j \in 1..Len(h) : h[j].start # Len(s) + 1
    BY <1>1
  <2> QED
    BY <1>1, <1>4, <2>1, <2>2 DEF NextSetext
<1>5. CASE Off(h, k) # {}
  <2> DEFINE m == Min(Off(h, k))
  <2>1. m \in 1..Len(h) /\ EndOf(s, h, k) = h[m].start
    BY <1>2, <1>3, <1>5 DEF EndUnder
  <2>2. NextSetext(h, k) <=> h[m].setext
    BY <1>5 DEF NextSetext
  <2> HIDE DEF m
  <2>3. \A j \in 1..Len(h) : h[j].start = h[m].start => j = m
    BY <2>1, StartsApart
  <2> QED
    BY <1>1, <2>1, <2>2, <2>3
<1> QED
  BY <1>4, <1>5

(* A section as the README defines it.                                     *)
Nested(s, h, k) ==
    [level |-> h[k].level, start |-> h[k].start, body |-> h[k].body,
     end |-> EndOf(s, h, k),
     nextSetext |-> \E j \in DOMAIN h : /\ h[j].start = EndOf(s, h, k)
                                        /\ h[j].setext,
     path |-> [i \in DOMAIN OpenAt(h, k) |-> h[OpenAt(h, k)[i]].title]]

LEMMA SectionIsNested ==
  ASSUME NEW s, Len(s) \in Nat, NEW h, HeadingShape(s, h), NEW k \in 1..Len(h)
  PROVE  SectionAt(s, h, k) = Nested(s, h, k)
<1> DEFINE path == [i \in DOMAIN OpenAt(h, k) |-> h[OpenAt(h, k)[i]].title]
           setext == \E j \in DOMAIN h : /\ h[j].start = EndOf(s, h, k)
                                         /\ h[j].setext
<1>1. Stacks(h)[k] = OpenAt(h, k)
  BY StackIsOpenAt DEF HeadingShape
<1>2. PathAt(h, k) = path
  BY <1>1, Zenon DEF PathAt
<1>3. EndUnder(s, h, k) = EndOf(s, h, k)
  BY EndIs
<1>4. NextSetext(h, k) = setext
  <2>1. NextSetext(h, k) <=> setext
    BY NextSetextIs
  <2>2. NextSetext(h, k) \in BOOLEAN /\ setext \in BOOLEAN
    BY DEF NextSetext
  <2> HIDE DEF setext
  <2> QED
    BY <2>1, <2>2
<1>5. Nested(s, h, k) =
         [level |-> h[k].level, start |-> h[k].start, body |-> h[k].body,
          end |-> EndOf(s, h, k), nextSetext |-> setext, path |-> path]
  BY DEF Nested
<1> HIDE DEF path, setext
<1> QED
  BY <1>2, <1>3, <1>4, <1>5 DEF SectionAt

LEMMA Nesting == note \in Seq(Tokens) => SectionsNest
<1> SUFFICES ASSUME note \in Seq(Tokens) PROVE SectionsNest
  OBVIOUS
<1> DEFINE h == Headings(note)
<1>1. Len(note) \in Nat /\ HeadingShape(note, h)
  BY HeadingsAre
<1>2. markdownSections(note) = [k \in DOMAIN h |-> SectionAt(note, h, k)]
  BY SectionsAre
<1> HIDE DEF h
<1>3. \A k \in DOMAIN h : SectionAt(note, h, k) = Nested(note, h, k)
  <2>1. DOMAIN h = 1..Len(h)
    BY <1>1 DEF HeadingShape
  <2> QED
    BY <1>1, <2>1, SectionIsNested
<1>4. markdownSections(note) = [k \in DOMAIN h |-> Nested(note, h, k)]
  BY <1>2, <1>3
<1> QED
  BY <1>4 DEF SectionsNest, Nested, h

-----------------------------------------------------------------------------
(* What is selected and read of a note, and what it is replaced by.        *)
LEMMA SectionInRange ==
  ASSUME NEW E, NEW s \in Seq(E), NEW sec \in ToSet(markdownSections(s))
  PROVE  /\ Len(s) \in Nat /\ sec.body \in 1..(Len(s) + 1)
         /\ sec.end \in 1..(Len(s) + 1)
<1> DEFINE h == Headings(s)
<1>1. Len(s) \in Nat /\ HeadingShape(s, h)
  BY HeadingsAre
<1>2. markdownSections(s) = [k \in DOMAIN h |-> SectionAt(s, h, k)]
  BY SectionsAre
<1> HIDE DEF h
<1>3. /\ DOMAIN h = 1..Len(h)
      /\ \A k \in 1..Len(h) : h[k].body \in 1..(Len(s) + 1)
  BY <1>1 DEF HeadingShape
<1>4. PICK k \in 1..Len(h) : sec = SectionAt(s, h, k)
  BY <1>2, <1>3 DEF ToSet
<1>5. EndUnder(s, h, k) \in 1..(Len(s) + 1)
  BY <1>1, EndInRange
<1>6. sec.body = h[k].body /\ sec.end = EndUnder(s, h, k)
  BY <1>4 DEF SectionAt
<1> QED
  BY <1>1, <1>3, <1>5, <1>6

LEMMA SubSeqIs ==
  ASSUME NEW E, NEW s \in Seq(E), NEW m \in 1..(Len(s) + 1), NEW n \in 0..Len(s)
  PROVE  SubSeq(s, m, n) \in Seq(E)
<1>1. Len(s) \in Nat /\ \A i \in 1..Len(s) : s[i] \in E
  BY LenProperties, ElementOfSeq
<1>2. m \in Int /\ n \in Int /\ \A i \in m..n : i \in 1..Len(s)
  BY <1>1
<1>3. \A i \in m..n : s[i] \in E
  BY <1>1, <1>2
<1> QED
  BY <1>2, <1>3, SubSeqProperties

LEMMA SectionsFinite ==
  ASSUME NEW E, NEW s \in Seq(E)
  PROVE  IsFiniteSet(ToSet(markdownSections(s)))
<1> DEFINE h == Headings(s)
           md == markdownSections(s)
           n == Len(h)
<1>1. HeadingShape(s, h)
  BY HeadingsAre
<1>2. n \in Nat /\ DOMAIN h = 1..n
  BY <1>1 DEF HeadingShape, Levelled
<1>3. md = [k \in 1..n |-> SectionAt(s, h, k)]
  BY <1>2, SectionsAre
<1> HIDE DEF md, n
<1>4. DOMAIN md = 1..n /\ md = [k \in 1..n |-> md[k]]
  BY <1>3
<1>5. md \in Surjection(1..n, ToSet(md))
  BY <1>4 DEF ToSet, Surjection
<1>6. IsFiniteSet(1..n)
  BY <1>2, FS_Interval
<1>7. IsFiniteSet(ToSet(md))
  BY <1>5, <1>6, FS_Surjection
<1> QED
  BY <1>7 DEF md

LEMMA MatchesAre ==
  ASSUME NEW E, NEW s \in Seq(E), NEW path
  PROVE  /\ Matches(s, path) \subseteq ToSet(markdownSections(s))
         /\ IsFiniteSet(Matches(s, path))
<1>1. Matches(s, path) \in SUBSET ToSet(markdownSections(s))
  BY DEF Matches
<1>2. IsFiniteSet(ToSet(markdownSections(s)))
  BY SectionsFinite
<1> HIDE DEF Matches
<1> QED
  BY <1>1, <1>2, FS_Subset

(* There is at most one text under a path.                                 *)
LEMMA OneText ==
  ASSUME NEW E, NEW s \in Seq(E), NEW path,
         NEW t \in Texts(s, path), NEW u \in Texts(s, path)
  PROVE  t = u
<1>1. CASE path = <<>>
  BY <1>1 DEF Texts
<1>2. CASE path # <<>>
  <2>1. Cardinality(Matches(s, path)) = 1
    BY <1>2 DEF Texts, Selects
  <2>2. IsFiniteSet(Matches(s, path))
    BY MatchesAre
  <2>3. PICK x : Matches(s, path) = {x}
    BY <2>1, <2>2, FS_Singleton
  <2>4. \A v \in Texts(s, path) : v = SubSeq(s, x.body, x.end - 1)
    BY <1>2, <2>3 DEF Texts
  <2> QED
    BY <2>4
<1> QED
  BY <1>1, <1>2

LEMMA TextIsSeq ==
  ASSUME NEW E, NEW s \in Seq(E), NEW path, NEW t \in Texts(s, path)
  PROVE  t \in Seq(E)
<1>1. CASE path = <<>>
  BY <1>1 DEF Texts
<1>2. CASE path # <<>>
  <2>1. PICK sec \in Matches(s, path) : t = SubSeq(s, sec.body, sec.end - 1)
    BY <1>2 DEF Texts
  <2>2. sec \in ToSet(markdownSections(s))
    BY DEF Matches
  <2>3. /\ Len(s) \in Nat /\ sec.body \in 1..(Len(s) + 1)
        /\ sec.end \in 1..(Len(s) + 1)
    BY <2>2, SectionInRange
  <2>4. sec.end - 1 \in 0..Len(s)
    BY <2>3
  <2> QED
    BY <2>1, <2>3, <2>4, SubSeqIs
<1> QED
  BY <1>1, <1>2

LEMMA EndedIs ==
  ASSUME NEW s \in Seq(Tokens)
  PROVE  Ended(s) \in Seq(Tokens) /\ Apart(s) \in Seq(Tokens)
<1>1. Newline \in Tokens
  BY NotesAssumption DEF NotesAssumption
<1> HIDE DEF Newline
<1>2. Append(s, Newline) \in Seq(Tokens)
  BY <1>1, AppendProperties
<1> QED
  BY <1>2 DEF Ended, Apart

LEMMA ReplacedIsNote ==
  ASSUME NEW s \in Seq(Tokens), NEW sec \in ToSet(markdownSections(s)),
         NEW content \in Seq(Tokens)
  PROVE  ReplaceSection(s, sec, content) \in Seq(Tokens)
<1> DEFINE heading == SubSeq(s, 1, sec.body - 1)
           rest == SubSeq(s, sec.end, Len(s))
           ended == IF rest = <<>> THEN content ELSE Ended(content)
           middle == IF rest # <<>> /\ sec.nextSetext THEN Apart(ended) ELSE ended
<1>1. /\ Len(s) \in Nat /\ sec.body \in 1..(Len(s) + 1)
      /\ sec.end \in 1..(Len(s) + 1)
  BY SectionInRange
<1>2. /\ 1 \in 1..(Len(s) + 1) /\ sec.body - 1 \in 0..Len(s)
      /\ Len(s) \in 0..Len(s)
  BY <1>1
<1>3. heading \in Seq(Tokens) /\ rest \in Seq(Tokens)
  BY <1>1, <1>2, SubSeqIs
<1>4. ReplaceSection(s, sec, content) =
         IF content = <<>> THEN heading \o rest
         ELSE (Ended(heading) \o middle) \o rest
  BY DEF ReplaceSection
<1> HIDE DEF heading, rest
<1>5. ended \in Seq(Tokens)
  BY EndedIs
<1> HIDE DEF ended
<1>6. middle \in Seq(Tokens)
  BY <1>5, EndedIs
<1> HIDE DEF middle
<1>7. heading \o rest \in Seq(Tokens) /\ Ended(heading) \in Seq(Tokens)
  BY <1>3, EndedIs, ConcatProperties
<1>8. Ended(heading) \o middle \in Seq(Tokens)
  BY <1>6, <1>7, ConcatProperties
<1>9. (Ended(heading) \o middle) \o rest \in Seq(Tokens)
  BY <1>3, <1>8, ConcatProperties
<1> QED
  BY <1>4, <1>7, <1>9

-----------------------------------------------------------------------------
(* The inductive invariant: what the reader has is how the text begins     *)
(* that is now under its path, and it is not beyond the end of it.         *)
Has(s, r) ==
    \E text \in Texts(s, r.path) :
       /\ r.status \in {"reading", "done"}
       /\ r.offset \in 0..Len(text)
       /\ r.got = SubSeq(text, 1, r.offset)
       /\ r.status = "done" => r.offset = Len(text)

Shaped == DOMAIN reader = {"path", "offset", "got", "status"}

Inv == /\ TypeOK
       /\ Shaped
       /\ mixed \/ reader.status = "idle" \/ Has(note, reader)

LEMMA IdleIs ==
  /\ DOMAIN Idle = {"path", "offset", "got", "status"}
  /\ Idle.path = <<>> /\ Idle.offset = 0 /\ Idle.got = <<>>
  /\ Idle.status = "idle"
  BY DEF Idle

LEMMA IsEmpty ==
  ASSUME NEW x, x = <<>> PROVE x \in Seq(Tokens)
<1>1. <<>> \in Seq(Tokens)
  BY EmptySeq
<1> QED
  BY <1>1, Zenon

LEMMA InitInv == ASSUME Init PROVE Inv
<1>1. note \in Seq(Tokens) /\ MaxChanges \in Nat
  BY NotesAssumption, BoundAssumption DEF Init, NotesAssumption, BoundAssumption
<1>2. reader = Idle /\ changes = 0 /\ mixed = FALSE
  BY DEF Init
<1>3. reader.got \in Seq(Tokens)
  BY <1>2, IdleIs, IsEmpty
<1>4. /\ DOMAIN reader = {"path", "offset", "got", "status"}
      /\ reader.offset = 0 /\ reader.status = "idle"
  BY <1>2, IdleIs
<1>5. changes \in 0..MaxChanges
  BY <1>1, <1>2
<1>6. mixed \in BOOLEAN
  BY <1>2, Zenon
<1>7. reader.status \in {"idle", "reading", "done", "failed"}
  BY <1>4
<1> QED
  BY <1>1, <1>3, <1>4, <1>5, <1>6, <1>7 DEF Inv, TypeOK, Shaped

LEMMA BeginInv == ASSUME Inv, NEW path, Begin(path) PROVE Inv'
<1>1. /\ reader' = [Idle EXCEPT !.path = path, !.status = "reading"]
      /\ UNCHANGED <<note, changes, mixed>>
  BY DEF Begin
<1>2. /\ DOMAIN reader' = {"path", "offset", "got", "status"}
      /\ reader'.path = path /\ reader'.offset = 0 /\ reader'.got = <<>>
      /\ reader'.status = "reading"
  BY <1>1, IdleIs
<1>3. PICK text \in Texts(note, path) : TRUE
  BY DEF Begin
<1>4. note \in Seq(Tokens)
  BY DEF Inv, TypeOK
<1>5. text \in Seq(Tokens)
  BY <1>4, TextIsSeq
<1>6. Len(text) \in Nat /\ SubSeq(text, 1, 0) = <<>>
  BY <1>5, LenProperties, SubSeqEmpty
<1>7. Has(note, reader')
  BY <1>2, <1>6 DEF Has
<1>8. Has(note, reader)'
  BY <1>1, <1>7
<1>9. reader'.got \in Seq(Tokens)
  BY <1>2, IsEmpty
<1>10. reader'.offset \in Nat /\ reader'.status \in {"reading"}
  BY <1>2
<1> QED
  BY <1>1, <1>2, <1>8, <1>9, <1>10 DEF Inv, TypeOK, Shaped

LEMMA PageInv == ASSUME Inv, Page PROVE Inv'
<1> DEFINE off == reader.offset
<1>1. PICK text \in Texts(note, reader.path) :
         LET end == Min({reader.offset + PageSize, Len(text)})
         IN  /\ Reading
             /\ reader.offset <= Len(text)
             /\ reader' = [reader EXCEPT
                             !.got = @ \o SubSeq(text, reader.offset + 1, end),
                             !.offset = NextOffset(end),
                             !.status = IF end < Len(text) THEN "reading"
                                                           ELSE "done"]
             /\ UNCHANGED <<note, changes, mixed>>
  BY DEF Page
<1> DEFINE end == Min({off + PageSize, Len(text)})
           page == SubSeq(text, off + 1, end)
<1>2. /\ note \in Seq(Tokens) /\ off \in Nat /\ reader.got \in Seq(Tokens)
      /\ Shaped
  BY DEF Inv, TypeOK
<1>3. text \in Seq(Tokens) /\ Len(text) \in Nat
  BY <1>2, TextIsSeq, LenProperties
<1>4. PageSize \in Nat /\ PageSize > 0
  BY PageSizeAssumption DEF PageSizeAssumption
<1>5. /\ Reading /\ off <= Len(text) /\ UNCHANGED <<note, changes, mixed>>
      /\ reader' = [reader EXCEPT !.got = reader.got \o page, !.offset = end,
                                  !.status = IF end < Len(text) THEN "reading"
                                                                ELSE "done"]
  BY <1>1, <1>2 DEF NextOffset, Shaped
<1>6. end \in off..Len(text)
  <2> DEFINE T == {off + PageSize, Len(text)}
  <2>1. T \subseteq Nat /\ T # {}
    BY <1>2, <1>3, <1>4
  <2>2. \A x \in T : x >= off
    BY <1>2, <1>3, <1>4, <1>5
  <2>3. Len(text) \in T
    OBVIOUS
  <2> HIDE DEF T
  <2>4. Min(T) \in T /\ Min(T) <= Len(text)
    BY <2>1, <2>3, MinIsLeast
  <2>5. Min(T) \in Nat /\ Min(T) >= off
    BY <2>1, <2>2, <2>4
  <2> QED
    BY <1>2, <1>3, <2>4, <2>5 DEF T
<1> HIDE DEF end
<1>7. /\ DOMAIN reader' = {"path", "offset", "got", "status"}
      /\ reader'.path = reader.path /\ reader'.offset = end
      /\ reader'.got = reader.got \o page
      /\ reader'.status = IF end < Len(text) THEN "reading" ELSE "done"
  <2> HIDE DEF page
  <2> QED
    BY <1>2, <1>5 DEF Shaped
<1>8. page \in Seq(Tokens)
  <2>1. off + 1 \in 1..(Len(text) + 1) /\ end \in 0..Len(text)
    BY <1>2, <1>3, <1>5, <1>6
  <2> QED
    BY <1>3, <2>1, SubSeqIs
<1>9. reader'.got \in Seq(Tokens)
  <2> HIDE DEF page
  <2> QED
    BY <1>2, <1>7, <1>8, ConcatProperties
<1>10. ASSUME ~mixed PROVE Has(note, reader')
  <2>1. Has(note, reader)
    BY <1>5, <1>10 DEF Inv, Reading
  <2>2. PICK old \in Texts(note, reader.path) : reader.got = SubSeq(old, 1, off)
    BY <2>1 DEF Has
  <2>3. reader.got = SubSeq(text, 1, off)
    BY <1>2, <2>2, OneText
  <2>4. /\ 1 \in 1..(Len(text) + 1) /\ off \in (1 - 1)..Len(text)
        /\ end \in off..Len(text)
    BY <1>2, <1>3, <1>5, <1>6
  <2>5. SubSeq(text, 1, off) \o page = SubSeq(text, 1, end)
    BY <1>3, <2>4, ConcatAdjacentSubSeq
  <2>6. reader'.got = SubSeq(text, 1, end)
    BY <1>7, <2>3, <2>5, Zenon
  <2>7. end \in 0..Len(text) /\ (~(end < Len(text)) => end = Len(text))
    BY <1>2, <1>3, <1>6
  <2> QED
    BY <1>7, <2>6, <2>7 DEF Has
<1>11. ~mixed => Has(note, reader)'
  BY <1>5, <1>10
<1>12. end \in Nat
  BY <1>2, <1>3, <1>6
<1> QED
  BY <1>5, <1>7, <1>9, <1>11, <1>12 DEF Inv, TypeOK, Shaped

LEMMA PageFailsInv == ASSUME Inv, PageFails PROVE Inv'
<1>1. mixed
  <2> SUFFICES ASSUME ~mixed PROVE FALSE
    BY DEF Inv, TypeOK
  <2>1. Has(note, reader)
    BY DEF Inv, PageFails, Reading
  <2>2. PICK text \in Texts(note, reader.path) : reader.offset \in 0..Len(text)
    BY <2>1 DEF Has
  <2>3. reader.offset > Len(text)
    BY DEF PageFails
  <2>4. text \in Seq(Tokens)
    BY TextIsSeq DEF Inv, TypeOK
  <2>5. Len(text) \in Nat
    BY <2>4, LenProperties
  <2> QED
    BY <2>2, <2>3, <2>5
<1>2. /\ reader' = [reader EXCEPT !.status = "failed"]
      /\ UNCHANGED <<note, changes, mixed>> /\ Shaped
  BY DEF PageFails, Inv
<1>3. /\ DOMAIN reader' = {"path", "offset", "got", "status"}
      /\ reader'.path = reader.path /\ reader'.offset = reader.offset
      /\ reader'.got = reader.got /\ reader'.status = "failed"
  BY <1>2 DEF Shaped
<1> QED
  BY <1>1, <1>2, <1>3 DEF Inv, TypeOK, Shaped

LEMMA BecomesInv ==
  ASSUME Inv, NEW s \in Seq(Tokens), Becomes(s) PROVE Inv'
<1>1. /\ note' = s /\ reader' = (IF Reading THEN reader ELSE Idle)
      /\ mixed' = (Reading /\ (mixed \/ ~Begins(reader.got, s, reader.path)))
      /\ changes < MaxChanges /\ changes' = changes + 1
  BY DEF Becomes
<1>2. changes' \in 0..MaxChanges /\ mixed' \in BOOLEAN
  BY <1>1, BoundAssumption DEF Inv, TypeOK, BoundAssumption
<1>3. CASE ~Reading
  <2>1. reader' = Idle
    BY <1>1, <1>3
  <2>2. reader'.got \in Seq(Tokens)
    BY <2>1, IdleIs, IsEmpty
  <2>3. /\ DOMAIN reader' = {"path", "offset", "got", "status"}
        /\ reader'.offset = 0 /\ reader'.status = "idle"
    BY <2>1, IdleIs
  <2> QED
    BY <1>1, <1>2, <2>2, <2>3 DEF Inv, TypeOK, Shaped
<1>4. CASE Reading
  <2>1. reader' = reader
    BY <1>1, <1>4
  <2>2. ASSUME ~mixed' PROVE Has(s, reader)
    <3>1. ~mixed /\ Begins(reader.got, s, reader.path)
      BY <1>1, <1>4, <2>2
    <3>2. Has(note, reader) /\ note \in Seq(Tokens) /\ reader.got \in Seq(Tokens)
      BY <1>4, <3>1 DEF Inv, TypeOK, Reading
    <3>3. PICK old \in Texts(note, reader.path) :
             /\ reader.offset \in 0..Len(old)
             /\ reader.got = SubSeq(old, 1, reader.offset)
      BY <3>2 DEF Has
    <3>4. PICK text \in Texts(s, reader.path) : IsPrefix(reader.got, text)
      BY <3>1 DEF Begins
    <3>5. old \in Seq(Tokens) /\ Len(old) \in Nat
      BY <3>2, TextIsSeq, LenProperties
    <3>6. text \in Seq(Tokens) /\ Len(text) \in Nat
      BY TextIsSeq, LenProperties
    <3>7. Len(reader.got) = reader.offset
      <4>1. reader.offset \in Nat /\ \A i \in 1..reader.offset : i \in 1..Len(old)
        BY <3>3, <3>5
      <4>2. \A i \in 1..reader.offset : old[i] \in Tokens
        BY <3>5, <4>1, ElementOfSeq
      <4>3. Len(SubSeq(old, 1, reader.offset)) =
               IF 1 <= reader.offset THEN reader.offset - 1 + 1 ELSE 0
        <5>1. reader.offset \in Int /\ 1 \in Int
          BY <4>1
        <5> QED
          BY <4>2, <5>1, SubSeqProperties
      <4> QED
        BY <3>3, <4>1, <4>3
    <3>8. /\ reader.offset <= Len(text)
          /\ SubSeq(reader.got, 1, reader.offset) = SubSeq(text, 1, reader.offset)
      BY <3>4, <3>7 DEF IsPrefix
    <3>9. SubSeq(reader.got, 1, reader.offset) = reader.got
      BY <3>2, <3>7, SubSeqFull
    <3>10. reader.got = SubSeq(text, 1, reader.offset)
      BY <3>8, <3>9
    <3>11. reader.offset \in 0..Len(text) /\ reader.status = "reading"
      BY <1>4, <3>3, <3>5, <3>6, <3>8 DEF Reading
    <3> QED
      BY <3>10, <3>11 DEF Has
  <2>3. ~mixed' => Has(note, reader)'
    BY <1>1, <2>1, <2>2
  <2> QED
    BY <1>1, <1>2, <2>1, <2>3 DEF Inv, TypeOK, Shaped
<1> QED
  BY <1>3, <1>4

LEMMA NextInv == Inv /\ [Next]_vars => Inv'
<1> SUFFICES ASSUME Inv, [Next]_vars PROVE Inv'
  OBVIOUS
<1>1. note \in Seq(Tokens) /\ Contents \subseteq Seq(Tokens)
  BY NotesAssumption DEF Inv, TypeOK, NotesAssumption
<1>2. ASSUME NEW path \in Paths(note), Begin(path) PROVE Inv'
  BY <1>2, BeginInv
<1>3. CASE Page
  BY <1>3, PageInv
<1>4. CASE PageFails
  BY <1>4, PageFailsInv
<1>5. ASSUME NEW path \in Paths(note), Replace(path) PROVE Inv'
  <2>1. PICK sec \in Matches(note, path), content \in Contents :
           Becomes(ReplaceSection(note, sec, content))
    BY <1>5 DEF Replace
  <2>2. sec \in ToSet(markdownSections(note)) /\ content \in Seq(Tokens)
    BY <1>1 DEF Matches
  <2>3. ReplaceSection(note, sec, content) \in Seq(Tokens)
    BY <1>1, <2>2, ReplacedIsNote
  <2> QED
    BY <2>1, <2>3, BecomesInv
<1>6. CASE AppendNote
  <2>1. PICK content \in Contents : Becomes(note \o content)
    BY <1>6 DEF AppendNote
  <2>2. note \o content \in Seq(Tokens)
    BY <1>1, ConcatProperties
  <2> QED
    BY <2>1, <2>2, BecomesInv
<1>7. CASE UNCHANGED vars
  <2>1. UNCHANGED <<note, changes, reader, mixed>>
    BY <1>7 DEF vars
  <2>2. Has(note, reader)' <=> Has(note, reader)
    BY <2>1
  <2> QED
    BY <2>1, <2>2 DEF Inv, TypeOK, Shaped
<1> QED
  BY <1>2, <1>3, <1>4, <1>5, <1>6, <1>7 DEF Next

LEMMA AlwaysInv == Spec => []Inv
  BY InitInv, NextInv, PTL DEF Spec

(* Whatever is replaced, appended and read, the note is made of tokens and *)
(* the reader's offset is a number.                                        *)
THEOREM SectionsTypeCorrect == Spec => []TypeOK
<1>1. Inv => TypeOK
  BY DEF Inv
<1> QED
  BY <1>1, AlwaysInv, PTL

(* markdownSections, which goes through the headings once with a stack,    *)
(* gives every section of every note the end and the path that the README  *)
(* defines.                                                                *)
THEOREM SectionsAreNested == Spec => []SectionsNest
<1>1. Inv => note \in Seq(Tokens)
  BY DEF Inv, TypeOK
<1> QED
  BY <1>1, AlwaysInv, Nesting, PTL

(* Whoever reads by pages of any size, while the note changes, ends with   *)
(* the whole text and nothing else, unless a change touched what had been  *)
(* read; and no page is refused before that.                               *)
THEOREM ReadersHaveTheText == Spec => []PagesAreTheText
<1>1. Inv => PagesAreTheText
  BY DEF Inv, Has, PagesAreTheText
<1> QED
  BY <1>1, AlwaysInv, PTL

-----------------------------------------------------------------------------
(* Two texts of which the first ends with a newline: the lines of the one  *)
(* are followed by those of the other.                                     *)
LEMMA FunInSeq ==
  ASSUME NEW E, NEW n \in Nat, NEW f \in [1..n -> E] PROVE f \in Seq(E)
  BY SeqDef

Mixes(u, r, t, n) ==
    /\ \A x \in Elems(r) : x <= n
    /\ \A x \in Elems(t) : x >= 1
    /\ \A x : x \in Elems(u) <=> \/ x \in Elems(r)
                                \/ \E y \in Elems(t) : x = y + n

Joins(u, r, t, n) ==
    /\ Len(u) = Len(r) + Len(t)
    /\ \A i \in 1..Len(r) : u[i] = r[i]
    /\ \A i \in 1..Len(t) : u[Len(r) + i] = t[i] + n

LEMMA Joining ==
  ASSUME NEW r \in Seq(Int), NEW t \in Seq(Int), NEW u \in Seq(Int),
         NEW n \in Nat, Ascends(r), Ascends(t), Ascends(u), Mixes(u, r, t, n)
  PROVE  Joins(u, r, t, n)
<1> DEFINE p == Len(r)
           q == Len(t)
           v == [i \in 1..(p + q) |-> IF i <= p THEN r[i] ELSE t[i - p] + n]
<1>15. /\ \A x \in Elems(r) : x <= n
       /\ \A x \in Elems(t) : x >= 1
       /\ \A x : x \in Elems(u) <=> \/ x \in Elems(r)
                                   \/ \E y \in Elems(t) : x = y + n
  BY DEF Mixes
<1>1. /\ p \in Nat /\ q \in Nat
      /\ \A i \in 1..p : r[i] \in Int /\ r[i] <= n
      /\ \A i \in 1..q : t[i] \in Int /\ t[i] >= 1
  BY <1>15, LenProperties, ElementOfSeq DEF Elems
<1>2. /\ \A i, j \in 1..p : i < j => r[i] < r[j]
      /\ \A i, j \in 1..q : i < j => t[i] < t[j]
  BY DEF Ascends
<1>3. /\ \A x : x \in Elems(r) <=> \E i \in 1..p : x = r[i]
      /\ \A x : x \in Elems(t) <=> \E i \in 1..q : x = t[i]
  BY DEF Elems
<1> HIDE DEF p, q
<1>4. ASSUME NEW i \in 1..(p + q)
      PROVE  /\ i \in 1..p => v[i] = r[i]
             /\ i \notin 1..p => i - p \in 1..q /\ v[i] = t[i - p] + n
  BY <1>1
<1>5. ASSUME NEW i \in 1..q
      PROVE  p + i \in 1..(p + q) /\ v[p + i] = t[i] + n
  <2>1. PICK j \in 1..(p + q) : j = p + i /\ j \notin 1..p /\ j - p = i
    BY <1>1
  <2>2. v[j] = t[j - p] + n
    BY <1>4, <2>1
  <2> HIDE DEF v
  <2> QED
    BY <2>1, <2>2
<1>6. DOMAIN v = 1..(p + q) /\ v = [i \in 1..(p + q) |-> v[i]]
  OBVIOUS
<1> HIDE DEF v
<1>7. ASSUME NEW i \in 1..(p + q) PROVE v[i] \in Int
  <2>1. CASE i \in 1..p
    BY <1>1, <1>4, <2>1
  <2>2. CASE i \notin 1..p
    <3>1. i - p \in 1..q /\ v[i] = t[i - p] + n
      BY <1>4, <2>2
    <3>2. t[i - p] \in Int
      BY <1>1, <3>1
    <3> QED
      BY <3>1, <3>2
  <2> QED
    BY <2>1, <2>2
<1>8. v \in Seq(Int)
  <2>1. v \in [1..(p + q) -> Int]
    BY <1>6, <1>7
  <2>2. p + q \in Nat
    BY <1>1
  <2> HIDE DEF v
  <2> QED
    BY <2>1, <2>2, FunInSeq
<1>9. Len(v) = p + q
  <2>1. p + q \in Nat
    BY <1>1
  <2> QED
    BY <2>1, <1>6, FunIsSeq
<1>10. ASSUME NEW i \in 1..(p + q), NEW j \in 1..(p + q), i < j
       PROVE  v[i] < v[j]
  <2>1. CASE i \in 1..p /\ j \in 1..p
    BY <1>2, <1>4, <1>10, <2>1
  <2>2. CASE i \in 1..p /\ j \notin 1..p
    <3>1. v[i] = r[i] /\ j - p \in 1..q /\ v[j] = t[j - p] + n
      BY <1>4, <2>2
    <3>2. r[i] \in Int /\ r[i] <= n /\ t[j - p] \in Int /\ t[j - p] >= 1
      BY <1>1, <2>2, <3>1
    <3> QED
      BY <3>1, <3>2
  <2>3. CASE i \notin 1..p
    <3>1. j \notin 1..p /\ i - p < j - p
      BY <1>1, <1>10, <2>3
    <3>2. /\ i - p \in 1..q /\ v[i] = t[i - p] + n
          /\ j - p \in 1..q /\ v[j] = t[j - p] + n
      BY <1>4, <2>3, <3>1
    <3>3. /\ t[i - p] < t[j - p]
          /\ t[i - p] \in Int /\ t[j - p] \in Int
      BY <1>1, <1>2, <3>1, <3>2
    <3> QED
      BY <3>2, <3>3
  <2> QED
    BY <2>1, <2>2, <2>3
<1>11. Ascends(v)
  BY <1>9, <1>10 DEF Ascends
<1>12. ASSUME NEW x PROVE x \in Elems(v) <=> x \in Elems(u)
  <2>1. x \in Elems(v) <=> \E i \in 1..(p + q) : x = v[i]
    BY <1>9 DEF Elems
  <2>2. ASSUME NEW i \in 1..(p + q), x = v[i] PROVE x \in Elems(u)
    BY <1>3, <1>4, <1>15, <2>2
  <2>3. ASSUME NEW i \in 1..p, x = r[i] PROVE \E j \in 1..(p + q) : x = v[j]
    <3>1. i \in 1..(p + q)
      BY <1>1
    <3> QED
      BY <1>4, <2>3, <3>1
  <2>4. ASSUME NEW i \in 1..q, x = t[i] + n
        PROVE  \E j \in 1..(p + q) : x = v[j]
    BY <1>5, <2>4
  <2>5. x \in Elems(u) <=> \/ x \in Elems(r)
                           \/ \E y \in Elems(t) : x = y + n
    BY <1>15
  <2>6. ASSUME x \in Elems(u) PROVE \E i \in 1..(p + q) : x = v[i]
    <3>1. CASE x \in Elems(r)
      BY <1>3, <2>3, <3>1
    <3>2. CASE x \notin Elems(r)
      <4>1. PICK y \in Elems(t) : x = y + n
        BY <2>5, <2>6, <3>2
      <4>2. PICK i \in 1..q : y = t[i]
        BY <1>3
      <4> QED
        BY <2>4, <4>1, <4>2
    <3> QED
      BY <3>1, <3>2
  <2> QED
    BY <2>1, <2>2, <2>6
<1>13. u = v
  BY <1>8, <1>11, <1>12, SameElems
<1>14. \A i \in 1..p : u[i] = r[i]
  <2>1. \A i \in 1..p : i \in 1..(p + q)
    BY <1>1
  <2> QED
    BY <1>4, <1>13, <2>1
<1> QED
  BY <1>5, <1>9, <1>13, <1>14 DEF p, q, Joins

EndsIn(s) == {i \in 1..Len(s) : s[i] = Newline \/ i = Len(s)}

LEMMA EndsAre ==
  ASSUME NEW s \in Seq(Tokens)
  PROVE  /\ Ends(s) \in Seq(Int) /\ Ascends(Ends(s))
         /\ \A x : x \in Elems(Ends(s)) <=> x \in EndsIn(s)
         /\ Len(Ends(s)) \in Nat /\ DOMAIN Ends(s) = 1..Len(Ends(s))
         /\ \A k \in 1..Len(Ends(s)) : Ends(s)[k] \in EndsIn(s)
<1>1. Len(s) \in Nat
  BY LenProperties
<1>2. /\ Upto(Len(s)) \in Seq(Int) /\ Ascends(Upto(Len(s)))
      /\ \A x : x \in Elems(Upto(Len(s))) <=> x \in 1..Len(s)
  BY <1>1, UptoIs
<1>3. Ends(s) = Only(Upto(Len(s)), EndsIn(s))
  BY DEF Ends, EndsIn
<1>4. \A x \in EndsIn(s) : x \in 1..Len(s)
  BY DEF EndsIn
<1>5. /\ Ends(s) \in Seq(Int) /\ Ascends(Ends(s))
      /\ \A x : x \in Elems(Ends(s)) <=> x \in EndsIn(s)
  BY <1>2, <1>3, <1>4, OnlyIs
<1>6. Len(Ends(s)) \in Nat /\ DOMAIN Ends(s) = 1..Len(Ends(s))
  BY <1>5, LenProperties
<1>7. \A k \in 1..Len(Ends(s)) : Ends(s)[k] \in Elems(Ends(s))
  BY DEF Elems
<1> QED
  BY <1>5, <1>6, <1>7

(* The last end is the end of the text.                                    *)
LEMMA LastEnd ==
  ASSUME NEW s \in Seq(Tokens), Len(s) >= 1
  PROVE  Len(Ends(s)) >= 1 /\ Ends(s)[Len(Ends(s))] = Len(s)
<1> DEFINE e == Ends(s)
           n == Len(e)
<1>1. /\ Ascends(e) /\ n \in Nat /\ \A k \in 1..n : e[k] \in EndsIn(s)
      /\ \A x : x \in Elems(e) <=> x \in EndsIn(s)
  BY EndsAre
<1> HIDE DEF e
<1>2. Len(s) \in Nat /\ Len(s) \in EndsIn(s)
  <2>1. Len(s) \in Nat
    BY LenProperties
  <2> QED
    BY <2>1 DEF EndsIn
<1>3. PICK i \in 1..n : e[i] = Len(s)
  BY <1>1, <1>2 DEF Elems
<1>4. n \in 1..n
  BY <1>1, <1>3
<1>5. e[n] \in 1..Len(s)
  BY <1>1, <1>4 DEF EndsIn
<1>6. i < n => e[i] < e[n]
  BY <1>1, <1>4 DEF Ascends
<1>7. i = n
  BY <1>1, <1>2, <1>3, <1>5, <1>6
<1> QED
  BY <1>1, <1>3, <1>7 DEF e

LEMMA SubSeqLeft ==
  ASSUME NEW s \in Seq(Tokens), NEW t \in Seq(Tokens),
         NEW m \in Int, NEW n \in Int, m >= 1, n <= Len(s)
  PROVE  SubSeq(s \o t, m, n) = SubSeq(s, m, n)
<1>1. /\ Len(s) \in Nat /\ Len(t) \in Nat
      /\ \A i \in 1..(Len(s) + Len(t)) : (s \o t)[i] =
            IF i <= Len(s) THEN s[i] ELSE t[i - Len(s)]
  BY LenProperties, ConcatProperties
<1>2. ASSUME NEW i \in m..n
      PROVE  i \in 1..Len(s) /\ i \in 1..(Len(s) + Len(t)) /\ i <= Len(s)
  BY <1>1
<1>3. \A i \in m..n : (s \o t)[i] = s[i]
  BY <1>1, <1>2
<1>4. \A i \in m..n : s[i] \in Tokens
  BY <1>2, ElementOfSeq
<1>5. \A i \in m..n : (s \o t)[i] \in Tokens
  BY <1>3, <1>4
<1> DEFINE u == SubSeq(s, m, n)
           v == SubSeq(s \o t, m, n)
<1>6. /\ u \in Seq(Tokens) /\ Len(u) = IF m <= n THEN n - m + 1 ELSE 0
      /\ \A i \in 1..(n - m + 1) : u[i] = s[m + i - 1]
  BY <1>4, SubSeqProperties
<1>7. /\ v \in Seq(Tokens) /\ Len(v) = IF m <= n THEN n - m + 1 ELSE 0
      /\ \A i \in 1..(n - m + 1) : v[i] = (s \o t)[m + i - 1]
  BY <1>5, SubSeqProperties
<1> HIDE DEF u, v
<1>8. ASSUME NEW i \in 1..Len(u) PROVE v[i] = u[i]
  <2>1. i \in 1..(n - m + 1) /\ m + i - 1 \in m..n
    BY <1>6
  <2>2. (s \o t)[m + i - 1] = s[m + i - 1]
    BY <1>3, <2>1
  <2> QED
    BY <1>6, <1>7, <2>1, <2>2
<1>9. v = u
  BY <1>6, <1>7, <1>8, SeqEqual
<1> QED
  BY <1>9 DEF u, v

LEMMA SubSeqRight ==
  ASSUME NEW s \in Seq(Tokens), NEW t \in Seq(Tokens),
         NEW m \in Int, NEW n \in Int, m >= 1, n <= Len(t)
  PROVE  SubSeq(s \o t, m + Len(s), n + Len(s)) = SubSeq(t, m, n)
<1> DEFINE d == Len(s)
<1>1. /\ d \in Nat /\ Len(t) \in Nat
      /\ \A i \in 1..(d + Len(t)) : (s \o t)[i] =
            IF i <= d THEN s[i] ELSE t[i - d]
  BY LenProperties, ConcatProperties
<1> HIDE DEF d
<1>2. ASSUME NEW i \in (m + d)..(n + d)
      PROVE  i \in 1..(d + Len(t)) /\ ~(i <= d) /\ i - d \in 1..Len(t)
  BY <1>1
<1>3. \A i \in (m + d)..(n + d) : (s \o t)[i] = t[i - d]
  BY <1>1, <1>2
<1>4. \A i \in m..n : t[i] \in Tokens
  <2>1. \A i \in m..n : i \in 1..Len(t)
    BY <1>1
  <2> QED
    BY <2>1, ElementOfSeq
<1>5. \A i \in (m + d)..(n + d) : (s \o t)[i] \in Tokens
  <2>1. \A i \in (m + d)..(n + d) : i - d \in m..n
    BY <1>1
  <2> QED
    BY <1>3, <1>4, <2>1
<1>12. PICK a \in Int, b \in Int : a = m + d /\ b = n + d
  BY <1>1
<1> DEFINE u == SubSeq(t, m, n)
           v == SubSeq(s \o t, a, b)
<1>6. /\ u \in Seq(Tokens) /\ Len(u) = IF m <= n THEN n - m + 1 ELSE 0
      /\ \A i \in 1..(n - m + 1) : u[i] = t[m + i - 1]
  BY <1>4, SubSeqProperties
<1>7. \A i \in a..b : (s \o t)[i] \in Tokens
  BY <1>5, <1>12
<1>8. /\ v \in Seq(Tokens) /\ Len(v) = IF a <= b THEN b - a + 1 ELSE 0
      /\ \A i \in 1..(b - a + 1) : v[i] = (s \o t)[a + i - 1]
  <2>1. a \in Int /\ b \in Int
    BY <1>12
  <2> DEFINE w == s \o t
  <2>2. \A i \in a..b : w[i] \in Tokens
    BY <1>7
  <2> HIDE DEF w
  <2>3. /\ SubSeq(w, a, b) \in Seq(Tokens)
        /\ Len(SubSeq(w, a, b)) = IF a <= b THEN b - a + 1 ELSE 0
        /\ \A i \in 1..(b - a + 1) : SubSeq(w, a, b)[i] = w[a + i - 1]
    BY <2>1, <2>2, SubSeqProperties
  <2> QED
    BY <2>3 DEF w
<1> HIDE DEF u, v
<1>9. ASSUME NEW i \in 1..Len(u) PROVE v[i] = u[i]
  <2>1. PICK j \in Int : j = a + i - 1
    BY <1>1
  <2>2. /\ i \in 1..(n - m + 1) /\ i \in 1..(b - a + 1)
        /\ j \in (m + d)..(n + d) /\ j - d = m + i - 1
    BY <1>1, <1>6, <1>12, <2>1
  <2>3. u[i] = t[m + i - 1]
    BY <1>6, <2>2
  <2>4. v[i] = (s \o t)[j]
    BY <1>8, <2>1, <2>2
  <2>5. (s \o t)[j] = t[j - d]
    BY <1>3, <2>2
  <2> QED
    BY <2>2, <2>3, <2>4, <2>5
<1>10. Len(v) = Len(u)
  BY <1>1, <1>6, <1>8, <1>12
<1>11. v = u
  BY <1>6, <1>8, <1>9, <1>10, SeqEqual
<1> QED
  BY <1>11, <1>12 DEF u, v, d

From(e, k) == IF k = 1 THEN 1 ELSE e[k - 1] + 1

Until(s, i) == IF s[i] = Newline THEN i - 1 ELSE i

LEMMA LinesAt ==
  ASSUME NEW s \in Seq(Tokens)
  PROVE  /\ Len(Lines(s)) = Len(Ends(s)) /\ DOMAIN Lines(s) = 1..Len(Ends(s))
         /\ \A k \in 1..Len(Ends(s)) :
               /\ Lines(s)[k].at = From(Ends(s), k)
               /\ Lines(s)[k].next = Ends(s)[k] + 1
               /\ Lines(s)[k].says = SubSeq(s, From(Ends(s), k),
                                               Until(s, Ends(s)[k]))
<1> DEFINE e == Ends(s)
           n == Len(e)
           l == Lines(s)
<1>1. n \in Nat /\ DOMAIN e = 1..n
  BY EndsAre
<1>2. l = [k \in 1..n |->
              [at |-> From(e, k), next |-> e[k] + 1,
               says |-> SubSeq(s, From(e, k), Until(s, e[k]))]]
  BY <1>1 DEF Lines, From, Until
<1> HIDE DEF l, n, e
<1>3. /\ DOMAIN l = 1..n /\ l = [k \in 1..n |-> l[k]]
      /\ \A k \in 1..n : /\ l[k].at = From(e, k) /\ l[k].next = e[k] + 1
                         /\ l[k].says = SubSeq(s, From(e, k), Until(s, e[k]))
  BY <1>2
<1>4. Len(l) = n
  BY <1>1, <1>3, FunIsSeq
<1> QED
  BY <1>3, <1>4 DEF l, n, e

EndsLine(s) == Len(s) >= 1 /\ s[Len(s)] = Newline

(* The lines l are the lines a and then the lines b, d tokens further on.  *)
LinesFollow(l, a, b, d) ==
    /\ Len(l) = Len(a) + Len(b)
    /\ \A k \in 1..Len(a) : /\ l[k].at = a[k].at /\ l[k].next = a[k].next
                            /\ l[k].says = a[k].says
    /\ \A k \in 1..Len(b) : /\ l[Len(a) + k].at = b[k].at + d
                            /\ l[Len(a) + k].next = b[k].next + d
                            /\ l[Len(a) + k].says = b[k].says

LEMMA EndsJoin ==
  ASSUME NEW s \in Seq(Tokens), NEW t \in Seq(Tokens), EndsLine(s)
  PROVE  Joins(Ends(s \o t), Ends(s), Ends(t), Len(s))
<1> DEFINE d == Len(s)
           u == s \o t
<1>1. /\ d \in Nat /\ Len(t) \in Nat /\ u \in Seq(Tokens)
      /\ Len(u) = d + Len(t)
      /\ \A i \in 1..(d + Len(t)) : u[i] = IF i <= d THEN s[i] ELSE t[i - d]
  BY LenProperties, ConcatProperties
<1>2. d >= 1 /\ s[d] = Newline
  BY DEF EndsLine
<1> HIDE DEF d, u
<1>3. ASSUME NEW x
      PROVE  x \in EndsIn(u) <=> x \in EndsIn(s) \/ \E y \in EndsIn(t) : x = y + d
  <2>1. ASSUME NEW i \in 1..d PROVE i \in EndsIn(u) <=> i \in EndsIn(s)
    <3>1. i \in 1..Len(u) /\ u[i] = s[i]
      BY <1>1
    <3>2. i = Len(u) => i = d
      BY <1>1
    <3> QED
      BY <1>2, <3>1, <3>2 DEF EndsIn, d
  <2>2. ASSUME NEW i \in 1..Len(t) PROVE i + d \in EndsIn(u) <=> i \in EndsIn(t)
    <3>1. PICK j \in 1..Len(u) : j = i + d /\ ~(j <= d) /\ j - d = i
      BY <1>1
    <3>2. u[j] = t[i]
      BY <1>1, <3>1
    <3>3. j = Len(u) <=> i = Len(t)
      BY <1>1, <3>1
    <3>4. j \in EndsIn(u) <=> i \in EndsIn(t)
      BY <3>1, <3>2, <3>3 DEF EndsIn
    <3> QED
      BY <3>1, <3>4
  <2>3. ASSUME NEW i \in 1..Len(u), i \notin 1..d
        PROVE  \E y \in 1..Len(t) : i = y + d
    <3>1. i - d \in 1..Len(t) /\ i = i - d + d
      BY <1>1, <2>3
    <3> QED
      BY <3>1
  <2>4. x \in EndsIn(u) => x \in 1..Len(u)
    BY DEF EndsIn
  <2>5. x \in EndsIn(s) => x \in 1..d
    BY DEF EndsIn, d
  <2>6. \A y \in EndsIn(t) : y \in 1..Len(t)
    BY DEF EndsIn
  <2> QED
    BY <2>1, <2>2, <2>3, <2>4, <2>5, <2>6
<1>4. /\ Ends(s) \in Seq(Int) /\ Ascends(Ends(s))
      /\ \A x : x \in Elems(Ends(s)) <=> x \in EndsIn(s)
  BY EndsAre
<1>5. /\ Ends(t) \in Seq(Int) /\ Ascends(Ends(t))
      /\ \A x : x \in Elems(Ends(t)) <=> x \in EndsIn(t)
  BY EndsAre
<1>6. /\ Ends(u) \in Seq(Int) /\ Ascends(Ends(u))
      /\ \A x : x \in Elems(Ends(u)) <=> x \in EndsIn(u)
  BY <1>1, EndsAre
<1>7. Mixes(Ends(u), Ends(s), Ends(t), d)
  <2>1. \A x \in Elems(Ends(s)) : x <= d
    BY <1>1, <1>4 DEF EndsIn, d
  <2>2. \A x \in Elems(Ends(t)) : x >= 1
    BY <1>1, <1>5 DEF EndsIn
  <2>3. \A x : x \in Elems(Ends(u)) <=>
                  \/ x \in Elems(Ends(s))
                  \/ \E y \in Elems(Ends(t)) : x = y + d
    BY <1>3, <1>4, <1>5, <1>6
  <2> QED
    BY <2>1, <2>2, <2>3 DEF Mixes
<1>8. d \in Nat
  BY <1>1
<1>9. Joins(Ends(u), Ends(s), Ends(t), d)
  BY <1>4, <1>5, <1>6, <1>7, <1>8, Joining
<1> QED
  BY <1>9 DEF u, d

LEMMA FurtherOn ==
  ASSUME NEW d \in Nat, NEW c \in Nat, NEW x \in 1..c
  PROVE  \E i \in 1..(d + c) : i = x + d /\ ~(i <= d) /\ i - d = x
<1>1. x + d \in 1..(d + c) /\ ~(x + d <= d) /\ x + d - d = x
  OBVIOUS
<1> QED
  BY <1>1

LEMMA LinesJoin ==
  ASSUME NEW s \in Seq(Tokens), NEW t \in Seq(Tokens), EndsLine(s)
  PROVE  LinesFollow(Lines(s \o t), Lines(s), Lines(t), Len(s))
<1> DEFINE d == Len(s)
           u == s \o t
           e == Ends(u)
           f == Ends(s)
           g == Ends(t)
           p == Len(f)
           q == Len(g)
<1>1. /\ d \in Nat /\ Len(t) \in Nat /\ u \in Seq(Tokens)
      /\ Len(u) = d + Len(t) /\ d >= 1
      /\ \A i \in 1..(d + Len(t)) : u[i] = IF i <= d THEN s[i] ELSE t[i - d]
  BY LenProperties, ConcatProperties DEF EndsLine
<1>2. p \in Nat /\ \A k \in 1..p : f[k] \in 1..d
  BY EndsAre DEF EndsIn
<1>3. q \in Nat /\ \A k \in 1..q : g[k] \in 1..Len(t)
  BY EndsAre DEF EndsIn
<1>4. p >= 1 /\ f[p] = d
  BY <1>1, LastEnd
<1>5. /\ Len(e) = p + q /\ \A i \in 1..p : e[i] = f[i]
      /\ \A i \in 1..q : e[p + i] = g[i] + d
  BY EndsJoin DEF Joins
<1>6. /\ Len(Lines(u)) = Len(e)
      /\ \A k \in 1..Len(e) :
            /\ Lines(u)[k].at = From(e, k) /\ Lines(u)[k].next = e[k] + 1
            /\ Lines(u)[k].says = SubSeq(u, From(e, k), Until(u, e[k]))
  BY <1>1, LinesAt
<1>7. /\ Len(Lines(s)) = p
      /\ \A k \in 1..p :
            /\ Lines(s)[k].at = From(f, k) /\ Lines(s)[k].next = f[k] + 1
            /\ Lines(s)[k].says = SubSeq(s, From(f, k), Until(s, f[k]))
  BY LinesAt
<1>8. /\ Len(Lines(t)) = q
      /\ \A k \in 1..q :
            /\ Lines(t)[k].at = From(g, k) /\ Lines(t)[k].next = g[k] + 1
            /\ Lines(t)[k].says = SubSeq(t, From(g, k), Until(t, g[k]))
  BY LinesAt
<1> HIDE DEF e, f, g, p, q
<1>9. ASSUME NEW k \in 1..p
      PROVE  /\ Lines(u)[k].at = Lines(s)[k].at
             /\ Lines(u)[k].next = Lines(s)[k].next
             /\ Lines(u)[k].says = Lines(s)[k].says
  <2>1. k \in 1..Len(e) /\ (k # 1 => k - 1 \in 1..p)
    BY <1>2, <1>3, <1>5
  <2>2. /\ From(e, k) = From(f, k) /\ From(f, k) \in Int /\ From(f, k) >= 1
        /\ e[k] = f[k] /\ f[k] \in 1..d /\ f[k] \in 1..(d + Len(t))
    BY <1>1, <1>2, <1>5, <2>1 DEF From
  <2>3. u[f[k]] = s[f[k]]
    BY <1>1, <2>2
  <2>4. /\ Until(u, f[k]) = Until(s, f[k])
        /\ Until(s, f[k]) \in Int /\ Until(s, f[k]) <= d
    BY <1>1, <2>2, <2>3 DEF Until
  <2>5. SubSeq(u, From(f, k), Until(s, f[k])) = SubSeq(s, From(f, k), Until(s, f[k]))
    BY <2>2, <2>4, SubSeqLeft DEF u, d
  <2>6. Lines(u)[k].says = SubSeq(u, From(f, k), Until(s, f[k]))
    BY <1>6, <2>1, <2>2, <2>4
  <2> HIDE DEF u
  <2> QED
    BY <1>6, <1>7, <2>1, <2>2, <2>5, <2>6
<1>10. ASSUME NEW k \in 1..q
       PROVE  /\ Lines(u)[p + k].at = Lines(t)[k].at + d
              /\ Lines(u)[p + k].next = Lines(t)[k].next + d
              /\ Lines(u)[p + k].says = Lines(t)[k].says
  <2>1. PICK j \in 1..Len(e) : j = p + k
    BY <1>2, <1>3, <1>5
  <2>2. /\ g[k] \in 1..Len(t) /\ e[j] = g[k] + d
    BY <1>3, <1>5, <2>1
  <2>3. From(e, j) = From(g, k) + d /\ From(g, k) \in Int /\ From(g, k) >= 1
    <3>1. CASE k = 1
      <4>1. j # 1 /\ j - 1 = p /\ p \in 1..p
        BY <1>2, <1>4, <2>1, <3>1
      <4>2. e[j - 1] = d
        BY <1>4, <1>5, <4>1
      <4> QED
        BY <1>1, <3>1, <4>1, <4>2 DEF From
    <3>2. CASE k # 1
      <4>1. j # 1 /\ j - 1 = p + (k - 1) /\ k - 1 \in 1..q
        BY <1>2, <1>3, <2>1, <3>2
      <4>2. e[j - 1] = g[k - 1] + d /\ g[k - 1] \in 1..Len(t)
        BY <1>3, <1>5, <4>1
      <4> QED
        BY <1>1, <3>2, <4>1, <4>2 DEF From
    <3> QED
      BY <3>1, <3>2
  <2>4. u[e[j]] = t[g[k]]
    <3>1. d \in Nat /\ Len(t) \in Nat /\ g[k] \in 1..Len(t)
      BY <1>1, <2>2
    <3>2. PICK i \in 1..(d + Len(t)) : i = g[k] + d /\ ~(i <= d) /\ i - d = g[k]
      BY <3>1, FurtherOn
    <3>3. u[i] = t[i - d]
      BY <1>1, <3>2
    <3> QED
      BY <2>2, <3>2, <3>3
  <2>5. /\ Until(u, e[j]) = Until(t, g[k]) + d
        /\ Until(t, g[k]) \in Int /\ Until(t, g[k]) <= Len(t)
    BY <1>1, <2>2, <2>4 DEF Until
  <2>6. SubSeq(u, From(g, k) + d, Until(t, g[k]) + d)
           = SubSeq(t, From(g, k), Until(t, g[k]))
    BY <2>3, <2>5, SubSeqRight DEF u, d
  <2>7. Lines(u)[j].says = SubSeq(u, From(g, k) + d, Until(t, g[k]) + d)
    BY <1>6, <2>3, <2>5
  <2>8. /\ Lines(u)[j].at = From(g, k) + d /\ Lines(u)[j].next = g[k] + d + 1
    BY <1>6, <2>2, <2>3
  <2>9. /\ Lines(t)[k].at = From(g, k) /\ Lines(t)[k].next = g[k] + 1
        /\ Lines(t)[k].says = SubSeq(t, From(g, k), Until(t, g[k]))
    BY <1>8
  <2>10. g[k] + d + 1 = g[k] + 1 + d
    BY <1>1, <2>2
  <2> HIDE DEF u
  <2> QED
    BY <2>1, <2>6, <2>7, <2>8, <2>9, <2>10
<1> QED
  BY <1>5, <1>6, <1>7, <1>8, <1>9, <1>10 DEF LinesFollow, u, d

-----------------------------------------------------------------------------
(* Fences: whether one is open after a line depends on the line before,    *)
(* and on what this line says.                                             *)
FenceAfter(l, before, k) ==
    IF InFrontmatter(l, k) THEN FALSE
    ELSE IF before THEN l[k].says # <<Fence>>
         ELSE l[k].says # <<>> /\ l[k].says[1] = Fence

Fencing(l, n, f) == /\ f[0] = FALSE
                    /\ \A k \in 1..n : f[k] = FenceAfter(l, f[k - 1], k)

LEMMA FencingExists ==
  ASSUME NEW l, NEW n \in Nat PROVE \E f : Fencing(l, n, f)
<1> DEFINE T == {m \in Nat : \E f : Fencing(l, m, f)}
<1>1. 0 \in T
  <2> DEFINE f == [k \in 0..0 |-> FALSE]
  <2>1. Fencing(l, 0, f)
    BY DEF Fencing
  <2> QED
    BY <2>1
<1>2. ASSUME NEW k \in 1..n, k - 1 \in T PROVE k \in T
  <2>1. PICK f : Fencing(l, k - 1, f)
    BY <1>2
  <2> DEFINE last == FenceAfter(l, f[k - 1], k)
             g == [j \in 0..k |-> IF j = k THEN last ELSE f[j]]
  <2>2. g[0] = FALSE
    <3>1. f[0] = FALSE /\ 0 \in 0..k /\ 0 # k
      BY <2>1 DEF Fencing
    <3> HIDE DEF last
    <3> QED
      BY <3>1, Zenon
  <2>3. ASSUME NEW j \in 1..k PROVE g[j] = FenceAfter(l, g[j - 1], j)
    <3>1. j \in 0..k /\ j - 1 \in 0..k /\ j - 1 # k
      OBVIOUS
    <3>2. g[j - 1] = f[j - 1]
      BY <3>1, Zenon
    <3>3. CASE j = k
      <4>1. g[j] = FenceAfter(l, f[j - 1], j)
        BY <3>1, <3>3, Zenon
      <4> HIDE DEF g
      <4> QED
        BY <3>2, <4>1, Zenon
    <3>4. CASE j # k
      <4>1. j \in 1..(k - 1)
        BY <3>4
      <4>2. f[j] = FenceAfter(l, f[j - 1], j)
        BY <2>1, <4>1 DEF Fencing
      <4>3. g[j] = f[j]
        BY <3>1, <3>4, Zenon
      <4> HIDE DEF g
      <4> QED
        BY <3>2, <4>2, <4>3, Zenon
    <3> QED
      BY <3>3, <3>4
  <2> HIDE DEF g
  <2>4. Fencing(l, k, g)
    BY <2>2, <2>3 DEF Fencing
  <2> QED
    BY <2>4
<1>3. n \in T
  <2> HIDE DEF T
  <2>1. \A k \in 0..n : k \in T
    BY <1>1, <1>2, UpTo
  <2> QED
    BY <2>1
<1> QED
  BY <1>3

Fenced(l, f) ==
    f = [k \in 0..Len(l) |->
           IF k = 0 \/ InFrontmatter(l, k) THEN FALSE
           ELSE IF f[k - 1] THEN l[k].says # <<Fence>>
                ELSE l[k].says # <<>> /\ l[k].says[1] = Fence]

LEMMA FencesAre ==
  ASSUME NEW l, Len(l) \in Nat
  PROVE  /\ Fencing(l, Len(l), OpenFence(l))
         /\ \A k \in 0..Len(l) : OpenFence(l)[k] \in BOOLEAN
<1> DEFINE n == Len(l)
           c == CHOOSE f : Fenced(l, f)
           Body(g, k) == IF k = 0 \/ InFrontmatter(l, k) THEN FALSE
                         ELSE IF g[k - 1] THEN l[k].says # <<Fence>>
                              ELSE l[k].says # <<>> /\ l[k].says[1] = Fence
<1>1. OpenFence(l) = c
  BY Zenon DEF OpenFence, Fenced
<1>2. PICK f : Fencing(l, n, f)
  BY FencingExists
<1>3. ASSUME NEW g, NEW k \in 1..n PROVE Body(g, k) = FenceAfter(l, g[k - 1], k)
  <2>1. k # 0
    OBVIOUS
  <2>2. CASE InFrontmatter(l, k)
    BY <2>2, Zenon DEF FenceAfter
  <2>3. CASE ~InFrontmatter(l, k)
    BY <2>1, <2>3, Zenon DEF FenceAfter
  <2> QED
    BY <2>2, <2>3
<1>4. ASSUME NEW g PROVE Body(g, 0) = FALSE
  BY Zenon
<1>5. \A g : Fenced(l, g) <=> g = [k \in 0..n |-> Body(g, k)]
  BY Zenon DEF Fenced
<1> HIDE DEF Body
<1> DEFINE g == [k \in 0..n |-> f[k]]
<1>6. ASSUME NEW k \in 0..n PROVE f[k] = Body(g, k)
  <2>1. CASE k = 0
    BY <1>2, <1>4, <2>1 DEF Fencing
  <2>2. CASE k # 0
    <3>1. k \in 1..n /\ k - 1 \in 0..n
      BY <2>2
    <3>2. g[k - 1] = f[k - 1]
      BY <3>1, Zenon
    <3>3. f[k] = FenceAfter(l, f[k - 1], k)
      BY <1>2, <3>1 DEF Fencing
    <3> HIDE DEF g
    <3> QED
      BY <1>3, <3>1, <3>2, <3>3, Zenon
  <2> QED
    BY <2>1, <2>2
<1>7. g = [k \in 0..n |-> Body(g, k)]
  <2> HIDE DEF g
  <2>1. g = [k \in 0..n |-> f[k]]
    BY Zenon DEF g
  <2> QED
    BY <1>6, <2>1, Zenon
<1>8. Fenced(l, c)
  <2> HIDE DEF g
  <2>1. Fenced(l, g)
    BY <1>5, <1>7, Zenon
  <2> QED
    BY <2>1, Zenon
<1> HIDE DEF c
<1>9. \A k \in 0..n : c[k] = Body(c, k)
  <2>1. c = [k \in 0..n |-> Body(c, k)]
    BY <1>5, <1>8, Zenon
  <2> QED
    BY <2>1
<1>10. c[0] = FALSE
  <2>1. 0 \in 0..n
    OBVIOUS
  <2> QED
    BY <1>4, <1>9, <2>1, Zenon
<1>11. ASSUME NEW k \in 1..n PROVE c[k] = FenceAfter(l, c[k - 1], k)
  <2>1. k \in 0..n
    OBVIOUS
  <2> QED
    BY <1>3, <1>9, <2>1, Zenon
<1>12. ASSUME NEW k \in 0..n PROVE c[k] \in BOOLEAN
  <2>1. CASE k = 0
    BY <1>10, <2>1
  <2>2. CASE k # 0
    <3>1. k \in 1..n
      BY <2>2
    <3>2. FenceAfter(l, c[k - 1], k) \in BOOLEAN
      BY Zenon DEF FenceAfter
    <3> QED
      BY <1>11, <3>1, <3>2, Zenon
  <2> QED
    BY <2>1, <2>2
<1>13. Fencing(l, n, c)
  BY <1>10, <1>11 DEF Fencing
<1> QED
  BY <1>1, <1>12, <1>13

-----------------------------------------------------------------------------
(* The kinds of lines that HeadingsIn tells apart.                         *)
Seen(l, k) == ~InFrontmatter(l, k) /\ ~OpenFence(l)[k - 1]

IsAtx(l, k) == Seen(l, k) /\ Level(l[k].says) > 0

IsText(l, k) == Paragraphs(l, OpenFence(l))[k]

IsUnder(l, k) == /\ k > 1 /\ Seen(l, k) /\ l[k].says \in Underlines
                 /\ IsText(l, k - 1)

Marks(l, k) == IsAtx(l, k) \/ IsUnder(l, k)

SameKind(l, i, m, j) == /\ Seen(l, i) <=> Seen(m, j)
                        /\ IsAtx(l, i) <=> IsAtx(m, j)
                        /\ IsText(l, i) <=> IsText(m, j)
                        /\ l[i].says = m[j].says

LEMMA TextIs ==
  ASSUME NEW l, Len(l) \in Nat
  PROVE  /\ ~IsText(l, 0)
         /\ \A k \in 1..Len(l) :
               IsText(l, k) <=> TextAfter(l, OpenFence(l), IsText(l, k - 1), k)
<1> DEFINE open == OpenFence(l)
           said == Paragraphs(l, open)
<1>1. Texting(l, open, Len(l), said)
  BY TextsAre
<1>2. said[0] = FALSE
  BY <1>1, Zenon DEF Texting
<1>3. ASSUME NEW k \in 1..Len(l) PROVE said[k] = TextAfter(l, open, said[k - 1], k)
  BY <1>1, Zenon DEF Texting
<1>4. \A k : IsText(l, k) = said[k]
  BY Zenon DEF IsText
<1> HIDE DEF said
<1> QED
  BY <1>2, <1>3, <1>4, Zenon

LEMMA TextSays ==
  ASSUME NEW l, Len(l) \in Nat, NEW k \in 1..Len(l), IsText(l, k)
  PROVE  /\ Seen(l, k) /\ ~OpenFence(l)[k]
         /\ l[k].says # <<>> /\ l[k].says # <<Rule>> /\ Level(l[k].says) = 0
         /\ ~(l[k].says = <<Equals>> /\ IsText(l, k - 1))
<1>1. TextAfter(l, OpenFence(l), IsText(l, k - 1), k)
  BY TextIs, Zenon
<1> QED
  BY <1>1, Zenon DEF TextAfter, Seen

(* A line is of a paragraph as another is, if what is before them is alike.*)
LEMMA TextAlike ==
  ASSUME NEW l, Len(l) \in Nat, NEW i \in 1..Len(l),
         NEW m, Len(m) \in Nat, NEW j \in 1..Len(m),
         Seen(l, i) <=> Seen(m, j), OpenFence(l)[i] = OpenFence(m)[j],
         l[i].says = m[j].says,
         (l[i].says = <<Equals>> /\ IsText(l, i - 1))
            <=> (m[j].says = <<Equals>> /\ IsText(m, j - 1))
  PROVE  IsText(l, i) <=> IsText(m, j)
<1>1. IsText(l, i) <=> TextAfter(l, OpenFence(l), IsText(l, i - 1), i)
  BY TextIs, Zenon
<1>2. IsText(m, j) <=> TextAfter(m, OpenFence(m), IsText(m, j - 1), j)
  BY TextIs, Zenon
<1>3. TextAfter(l, OpenFence(l), IsText(l, i - 1), i)
         <=> TextAfter(m, OpenFence(m), IsText(m, j - 1), j)
  BY Zenon DEF TextAfter, Seen
<1> QED
  BY <1>1, <1>2, <1>3, Zenon

LEMMA KindIs ==
  ASSUME NEW l, NEW i, NEW m, NEW j,
         InFrontmatter(l, i) <=> InFrontmatter(m, j),
         OpenFence(l)[i - 1] = OpenFence(m)[j - 1], l[i].says = m[j].says
  PROVE  /\ Seen(l, i) <=> Seen(m, j)
         /\ IsAtx(l, i) <=> IsAtx(m, j)
<1>1. Seen(l, i) <=> Seen(m, j)
  BY Zenon DEF Seen
<1>2. IsAtx(l, i) <=> IsAtx(m, j)
  BY <1>1, Zenon DEF IsAtx
<1> QED
  BY <1>1, <1>2

(* The frontmatter is left once.                                           *)
LEMMA OnceOut ==
  ASSUME NEW l, NEW j \in Nat \ {0}, NEW k \in Nat, j <= k, ~InFrontmatter(l, j)
  PROVE  ~InFrontmatter(l, k)
<1>1. CASE l[1].says # <<Rule>>
  BY <1>1 DEF InFrontmatter
<1>2. CASE l[1].says = <<Rule>>
  <2>1. j # 1 /\ ~(\A i \in 2..(j - 1) : l[i].says # <<Rule>>)
    BY <1>2 DEF InFrontmatter
  <2>2. PICK i \in 2..(j - 1) : l[i].says = <<Rule>>
    BY <2>1
  <2>3. k # 1 /\ i \in 2..(k - 1)
    BY <2>1
  <2> QED
    BY <2>2, <2>3 DEF InFrontmatter
<1> QED
  BY <1>1, <1>2

(* After line n there is neither frontmatter nor an open fence.            *)
Clear(l, n) == ~InFrontmatter(l, n + 1) /\ OpenFence(l)[n] = FALSE

(* Lines l begin with the lines of a.                                      *)
StartsAs(l, a) == /\ Len(l) \in Nat /\ Len(a) \in Nat
               /\ 1 <= Len(a) /\ Len(a) <= Len(l)
               /\ \A k \in 1..Len(a) : l[k].says = a[k].says

LEMMA StartKinds ==
  ASSUME NEW l, NEW a, StartsAs(l, a)
  PROVE  /\ \A k \in 1..Len(a) : SameKind(l, k, a, k)
         /\ \A k \in 0..Len(a) : OpenFence(l)[k] = OpenFence(a)[k]
         /\ \A k \in 1..(Len(a) + 1) : InFrontmatter(l, k) <=> InFrontmatter(a, k)
<1> DEFINE n == Len(a)
           f == OpenFence(l)
           g == OpenFence(a)
           T == {k \in 0..n : f[k] = g[k]}
<1>1. /\ Len(l) \in Nat /\ n \in Nat /\ 1 <= n /\ n <= Len(l)
      /\ \A k \in 1..n : l[k].says = a[k].says
  BY DEF StartsAs
<1>2. Fencing(l, Len(l), f) /\ Fencing(a, n, g)
  BY <1>1, FencesAre
<1> HIDE DEF n, f, g
<1>3. ASSUME NEW k \in 1..(n + 1) PROVE InFrontmatter(l, k) <=> InFrontmatter(a, k)
  <2>1. /\ 1 \in 1..n /\ \A j \in 2..(k - 1) : j \in 1..n
    BY <1>1
  <2>2. l[1].says = a[1].says /\ \A j \in 2..(k - 1) : l[j].says = a[j].says
    BY <1>1, <2>1
  <2> QED
    BY <2>2 DEF InFrontmatter
<1>4. 0 \in T
  <2>1. f[0] = FALSE /\ g[0] = FALSE
    BY <1>2, Zenon DEF Fencing
  <2>2. 0 \in 0..n
    BY <1>1
  <2> QED
    BY <2>1, <2>2, Zenon
<1>5. ASSUME NEW k \in 1..n, k - 1 \in T PROVE k \in T
  <2>1. k \in 1..Len(l) /\ k \in 0..n /\ k \in 1..(n + 1)
    BY <1>1
  <2>2. f[k] = FenceAfter(l, f[k - 1], k) /\ g[k] = FenceAfter(a, g[k - 1], k)
    BY <1>2, <2>1 DEF Fencing
  <2>3. InFrontmatter(l, k) <=> InFrontmatter(a, k)
    BY <1>3, <2>1
  <2>4. l[k].says = a[k].says
    BY <1>1
  <2>5. FenceAfter(l, g[k - 1], k) = FenceAfter(a, g[k - 1], k)
    BY <2>3, <2>4, Zenon DEF FenceAfter
  <2>6. f[k - 1] = g[k - 1]
    BY <1>5
  <2> QED
    BY <2>1, <2>2, <2>5, <2>6
<1>6. \A k \in 0..n : f[k] = g[k]
  <2>1. \A k \in 0..n : k \in T
    <3> HIDE DEF T
    <3> QED
      BY <1>1, <1>4, <1>5, UpTo
  <2> QED
    BY <2>1
<1>7. ASSUME NEW k \in 1..n
      PROVE  /\ f[k] = g[k] /\ l[k].says = a[k].says
             /\ Seen(l, k) <=> Seen(a, k)
             /\ IsAtx(l, k) <=> IsAtx(a, k)
  <2>1. k \in 0..n /\ k - 1 \in 0..n /\ k \in 1..(n + 1)
    BY <1>1
  <2>2. f[k] = g[k] /\ f[k - 1] = g[k - 1] /\ l[k].says = a[k].says
    BY <1>1, <1>6, <2>1
  <2>3. InFrontmatter(l, k) <=> InFrontmatter(a, k)
    BY <1>3, <2>1
  <2> QED
    BY <2>2, <2>3, KindIs DEF f, g
<1> DEFINE U == {k \in 0..n : IsText(l, k) <=> IsText(a, k)}
<1>8. 0 \in U
  <2>1. ~IsText(l, 0) /\ ~IsText(a, 0)
    BY <1>1, TextIs DEF n
  <2>2. 0 \in 0..n
    BY <1>1
  <2> QED
    BY <2>1, <2>2
<1>9. ASSUME NEW k \in 1..n, k - 1 \in U PROVE k \in U
  <2>1. k \in 1..Len(l) /\ k \in 0..n /\ Len(l) \in Nat /\ n \in Nat
    BY <1>1
  <2>2. IsText(l, k - 1) <=> IsText(a, k - 1)
    BY <1>9
  <2>3. IsText(l, k) <=> IsText(a, k)
    BY <1>7, <2>1, <2>2, TextAlike DEF f, g, n
  <2> QED
    BY <2>1, <2>3
<1>10. ASSUME NEW k \in 1..n PROVE SameKind(l, k, a, k)
  <2>1. \A j \in 0..n : j \in U
    <3> HIDE DEF U
    <3> QED
      BY <1>1, <1>8, <1>9, UpTo
  <2>2. k \in 0..n
    OBVIOUS
  <2>3. IsText(l, k) <=> IsText(a, k)
    BY <2>1, <2>2
  <2> QED
    BY <1>7, <2>3, Zenon DEF SameKind
<1> QED
  BY <1>3, <1>6, <1>10 DEF n, f, g

(* The last c lines of l, after line n, say what the last c of m say,      *)
(* after line q; both begin in the clear.                                  *)
Alongside(l, n, m, q, c) ==
    /\ n \in Nat \ {0} /\ q \in Nat \ {0} /\ c \in Nat
    /\ Len(l) = n + c /\ Len(m) = q + c
    /\ Clear(l, n) /\ Clear(m, q)
    /\ \A k \in 1..c : l[n + k].says = m[q + k].says

LEMMA TailFences ==
  ASSUME NEW l, NEW n, NEW m, NEW q, NEW c, Alongside(l, n, m, q, c)
  PROVE  /\ \A k \in 1..c : /\ Seen(l, n + k) <=> Seen(m, q + k)
                            /\ IsAtx(l, n + k) <=> IsAtx(m, q + k)
         /\ \A k \in 0..c : OpenFence(l)[n + k] = OpenFence(m)[q + k]
         /\ \A k \in 1..(c + 1) : ~InFrontmatter(l, n + k)
<1> DEFINE f == OpenFence(l)
           g == OpenFence(m)
           T == {k \in 0..c : f[n + k] = g[q + k]}
<1>1. /\ n \in Nat /\ n >= 1 /\ q \in Nat /\ q >= 1 /\ c \in Nat
      /\ Len(l) = n + c /\ Len(m) = q + c
      /\ ~InFrontmatter(l, n + 1) /\ ~InFrontmatter(m, q + 1)
      /\ f[n] = FALSE /\ g[q] = FALSE
      /\ \A k \in 1..c : l[n + k].says = m[q + k].says
  BY DEF Alongside, Clear
<1>2. Fencing(l, Len(l), f) /\ Fencing(m, Len(m), g)
  <2>1. Len(l) \in Nat /\ Len(m) \in Nat
    BY <1>1
  <2> QED
    BY <2>1, FencesAre
<1> HIDE DEF f, g
<1>3. ASSUME NEW k \in 1..(c + 1)
      PROVE  ~InFrontmatter(l, n + k) /\ ~InFrontmatter(m, q + k)
  <2>1. /\ n + 1 \in Nat \ {0} /\ n + k \in Nat /\ n + 1 <= n + k
        /\ q + 1 \in Nat \ {0} /\ q + k \in Nat /\ q + 1 <= q + k
    BY <1>1
  <2> QED
    BY <1>1, <2>1, OnceOut
<1>4. 0 \in T
  <2>1. n + 0 = n /\ q + 0 = q /\ 0 \in 0..c
    BY <1>1
  <2> QED
    BY <1>1, <2>1
<1>5. ASSUME NEW k \in 1..c, k - 1 \in T PROVE k \in T
  <2>1. PICK i \in 1..Len(l), j \in 1..Len(m) : i = n + k /\ j = q + k
    BY <1>1
  <2>2. k \in 0..c /\ i - 1 = n + (k - 1) /\ j - 1 = q + (k - 1)
    BY <1>1, <2>1
  <2>3. /\ f[i] = FenceAfter(l, f[i - 1], i)
        /\ g[j] = FenceAfter(m, g[j - 1], j)
    BY <1>2, Zenon DEF Fencing
  <2>4. ~InFrontmatter(l, i) /\ ~InFrontmatter(m, j)
    <3>1. k \in 1..(c + 1)
      BY <1>1
    <3> QED
      BY <1>3, <2>1, <3>1
  <2>5. l[i].says = m[j].says
    BY <1>1, <2>1
  <2>6. f[i - 1] = g[j - 1]
    BY <1>5, <2>2
  <2>7. FenceAfter(l, g[j - 1], i) = FenceAfter(m, g[j - 1], j)
    BY <2>4, <2>5, Zenon DEF FenceAfter
  <2>8. f[i] = g[j]
    BY <2>3, <2>6, <2>7, Zenon
  <2> QED
    BY <2>1, <2>2, <2>8
<1>6. \A k \in 0..c : f[n + k] = g[q + k]
  <2>1. \A k \in 0..c : k \in T
    <3> HIDE DEF T
    <3> QED
      BY <1>1, <1>4, <1>5, UpTo
  <2> QED
    BY <2>1
<1>7. ASSUME NEW k \in 1..c
      PROVE  /\ Seen(l, n + k) <=> Seen(m, q + k)
             /\ IsAtx(l, n + k) <=> IsAtx(m, q + k)
  <2>1. PICK i, j : i = n + k /\ j = q + k
    OBVIOUS
  <2>2. /\ k \in 0..c /\ k - 1 \in 0..c /\ k \in 1..(c + 1)
        /\ i - 1 = n + (k - 1) /\ j - 1 = q + (k - 1)
    BY <1>1, <2>1
  <2>3. f[i - 1] = g[j - 1]
    BY <1>6, <2>2
  <2>4. InFrontmatter(l, i) <=> InFrontmatter(m, j)
    BY <1>3, <2>1, <2>2
  <2>5. l[i].says = m[j].says
    BY <1>1, <2>1
  <2>6. (Seen(l, i) <=> Seen(m, j)) /\ (IsAtx(l, i) <=> IsAtx(m, j))
    BY <2>3, <2>4, <2>5, KindIs DEF f, g
  <2> QED
    BY <2>1, <2>6
<1> QED
  BY <1>3, <1>6, <1>7 DEF f, g

(* No paragraph goes on from line n to the next line.                      *)
Breaks(l, n) == \/ ~IsText(l, n)
                \/ l[n + 1].says \notin Underlines /\ ~IsText(l, n + 1)

LEMMA TailKinds ==
  ASSUME NEW l, NEW n, NEW m, NEW q, NEW c, Alongside(l, n, m, q, c),
         Breaks(l, n), Breaks(m, q)
  PROVE  \A k \in 1..c : SameKind(l, n + k, m, q + k)
<1> DEFINE T == {k \in 0..c : k = 0 \/ (IsText(l, n + k) <=> IsText(m, q + k))}
<1>1. /\ n \in Nat /\ n >= 1 /\ q \in Nat /\ q >= 1 /\ c \in Nat
      /\ Len(l) = n + c /\ Len(m) = q + c
      /\ Len(l) \in Nat /\ Len(m) \in Nat
      /\ \A k \in 1..c : l[n + k].says = m[q + k].says
  BY DEF Alongside
<1>2. 0 \in T
  BY <1>1
<1>3. ASSUME NEW k \in 1..c, k - 1 \in T PROVE k \in T
  <2>1. PICK i \in 1..Len(l), j \in 1..Len(m) : i = n + k /\ j = q + k
    BY <1>1
  <2>2. k \in 0..c /\ i - 1 = n + (k - 1) /\ j - 1 = q + (k - 1)
    BY <1>1, <2>1
  <2>3. l[i].says = m[j].says
    BY <1>1, <2>1
  <2>4. /\ Seen(l, i) <=> Seen(m, j)
        /\ OpenFence(l)[i] = OpenFence(m)[j]
    BY <2>1, <2>2, TailFences
  <2>5. (l[i].says = <<Equals>> /\ IsText(l, i - 1))
           <=> (m[j].says = <<Equals>> /\ IsText(m, j - 1))
    <3>1. CASE k = 1
      <4>1. i = n + 1 /\ i - 1 = n /\ j = q + 1 /\ j - 1 = q
        BY <1>1, <2>1, <3>1
      <4>2. ~(l[i].says = <<Equals>> /\ IsText(l, i - 1))
        BY <4>1, Zenon DEF Breaks, Underlines
      <4>3. ~(m[j].says = <<Equals>> /\ IsText(m, j - 1))
        BY <4>1, Zenon DEF Breaks, Underlines
      <4> QED
        BY <4>2, <4>3, Zenon
    <3>2. CASE k # 1
      <4>1. k - 1 # 0
        BY <3>2
      <4>2. IsText(l, i - 1) <=> IsText(m, j - 1)
        BY <1>3, <2>2, <4>1
      <4> QED
        BY <2>3, <4>2, Zenon
    <3> QED
      BY <3>1, <3>2
  <2>6. IsText(l, i) <=> IsText(m, j)
    BY <1>1, <2>3, <2>4, <2>5, TextAlike
  <2> QED
    BY <2>1, <2>2, <2>6
<1>4. \A k \in 0..c : k \in T
  <2> HIDE DEF T
  <2> QED
    BY <1>1, <1>2, <1>3, UpTo
<1>5. ASSUME NEW k \in 1..c PROVE SameKind(l, n + k, m, q + k)
  <2>1. k \in 0..c /\ k # 0
    OBVIOUS
  <2>2. IsText(l, n + k) <=> IsText(m, q + k)
    BY <1>4, <2>1
  <2>3. l[n + k].says = m[q + k].says
    BY <1>1
  <2>4. (Seen(l, n + k) <=> Seen(m, q + k)) /\ (IsAtx(l, n + k) <=> IsAtx(m, q + k))
    BY TailFences
  <2> QED
    BY <2>2, <2>3, <2>4, Zenon DEF SameKind
<1> QED
  BY <1>5

TextFrom(l, j, k) == \A i \in j..(k - 1) : IsText(l, i)

FirstOf(l, k) == Min({j \in 1..(k - 1) : TextFrom(l, j, k)})

(* The line on which the heading that line k makes begins.                 *)
StartLine(l, k) == IF IsAtx(l, k) THEN k ELSE FirstOf(l, k)

LEMMA StartLineIs ==
  ASSUME NEW l, NEW k \in Nat \ {0}, Marks(l, k)
  PROVE  /\ StartLine(l, k) \in 1..k /\ TextFrom(l, StartLine(l, k), k)
         /\ ~IsAtx(l, k) =>
               /\ StartLine(l, k) \in 1..(k - 1)
               /\ \A j \in 1..(k - 1) : TextFrom(l, j, k) => StartLine(l, k) <= j
<1>1. CASE IsAtx(l, k)
  <2>1. StartLine(l, k) = k
    BY <1>1 DEF StartLine
  <2>2. k \in 1..k /\ \A i \in k..(k - 1) : FALSE
    OBVIOUS
  <2> QED
    BY <1>1, <2>1, <2>2 DEF TextFrom
<1>2. CASE ~IsAtx(l, k)
  <2> DEFINE B == {j \in 1..(k - 1) : TextFrom(l, j, k)}
  <2>1. StartLine(l, k) = Min(B)
    BY <1>2 DEF StartLine, FirstOf
  <2>2. k > 1 /\ IsText(l, k - 1)
    BY <1>2 DEF Marks, IsUnder
  <2>3. k - 1 \in 1..(k - 1) /\ \A i \in (k - 1)..(k - 1) : i = k - 1
    BY <2>2
  <2>4. TextFrom(l, k - 1, k)
    BY <2>2, <2>3 DEF TextFrom
  <2>5. B \subseteq Nat /\ B # {}
    BY <2>3, <2>4
  <2>6. Min(B) \in B /\ \A j \in B : Min(B) <= j
    <3> HIDE DEF B
    <3> QED
      BY <2>5, MinIsLeast
  <2>7. /\ Min(B) \in 1..(k - 1) /\ TextFrom(l, Min(B), k)
        /\ \A j \in 1..(k - 1) : TextFrom(l, j, k) => Min(B) <= j
    BY <2>6
  <2> HIDE DEF B
  <2>8. Min(B) \in 1..k
    BY <2>7
  <2> QED
    BY <2>1, <2>7, <2>8
<1> QED
  BY <1>1, <1>2

LEMMA StartMarks ==
  ASSUME NEW l, NEW a, StartsAs(l, a), NEW k \in 1..Len(a)
  PROVE  /\ Marks(l, k) <=> Marks(a, k)
         /\ IsAtx(l, k) <=> IsAtx(a, k)
         /\ StartLine(l, k) = StartLine(a, k)
<1>1. \A i \in 1..Len(a) : SameKind(l, i, a, i)
  BY StartKinds
<1>2. Len(a) \in Nat
  BY DEF StartsAs
<1>3. /\ Seen(l, k) <=> Seen(a, k)
      /\ IsAtx(l, k) <=> IsAtx(a, k)
      /\ l[k].says = a[k].says
  BY <1>1 DEF SameKind
<1>4. \A i \in 1..Len(a) : IsText(l, i) <=> IsText(a, i)
  BY <1>1 DEF SameKind
<1>5. IsUnder(l, k) <=> IsUnder(a, k)
  <2>1. k > 1 => k - 1 \in 1..Len(a)
    BY <1>2
  <2>2. k > 1 => (IsText(l, k - 1) <=> IsText(a, k - 1))
    BY <1>4, <2>1
  <2> QED
    BY <1>3, <2>2, Zenon DEF IsUnder
<1>6. \A j \in 1..(k - 1) : TextFrom(l, j, k) <=> TextFrom(a, j, k)
  <2>1. ASSUME NEW j \in 1..(k - 1), NEW i \in j..(k - 1)
        PROVE  IsText(l, i) <=> IsText(a, i)
    <3>1. i \in 1..Len(a)
      BY <1>2
    <3> QED
      BY <1>4, <3>1
  <2> QED
    BY <2>1 DEF TextFrom
<1>7. {j \in 1..(k - 1) : TextFrom(l, j, k)} = {j \in 1..(k - 1) : TextFrom(a, j, k)}
  BY <1>6
<1>8. FirstOf(l, k) = FirstOf(a, k)
  BY <1>7, Zenon DEF FirstOf
<1> QED
  BY <1>3, <1>5, <1>8, Zenon DEF Marks, StartLine

LEMMA StartsAfter ==
  ASSUME NEW l, NEW n \in Nat \ {0}, Breaks(l, n), NEW k \in Nat, n < k,
         Marks(l, k), ~IsAtx(l, k)
  PROVE  /\ n + 1 < k /\ StartLine(l, k) \in (n + 1)..(k - 1)
         /\ TextFrom(l, StartLine(l, k), k)
<1> DEFINE x == StartLine(l, k)
<1>1. k \in Nat \ {0}
  OBVIOUS
<1>2. x \in 1..(k - 1) /\ TextFrom(l, x, k)
  BY <1>1, StartLineIs
<1>3. l[k].says \in Underlines /\ IsText(l, k - 1)
  BY Zenon DEF Marks, IsUnder
<1> HIDE DEF x
<1>4. n + 1 < k
  <2>1. SUFFICES ASSUME k = n + 1 PROVE FALSE
    OBVIOUS
  <2>2. k - 1 = n
    BY <2>1
  <2>3. l[n + 1].says \in Underlines /\ IsText(l, n)
    BY <1>3, <2>1, <2>2, Zenon
  <2> QED
    BY <2>3, Zenon DEF Breaks
<1>5. ~(x <= n)
  <2>1. SUFFICES ASSUME x <= n PROVE FALSE
    OBVIOUS
  <2>2. n \in x..(k - 1) /\ n + 1 \in x..(k - 1)
    BY <1>2, <1>4, <2>1
  <2>3. IsText(l, n) /\ IsText(l, n + 1)
    BY <1>2, <2>2, Zenon DEF TextFrom
  <2> QED
    BY <2>3, Zenon DEF Breaks
<1>6. x \in (n + 1)..(k - 1)
  BY <1>2, <1>5
<1> QED
  BY <1>2, <1>4, <1>6 DEF x

LEMMA TurnedAround ==
  ASSUME NEW l, NEW n, NEW m, NEW q, NEW c, Alongside(l, n, m, q, c)
  PROVE  Alongside(m, q, l, n, c)
  BY DEF Alongside

LEMMA NotLater ==
  ASSUME NEW l, NEW n, NEW m, NEW q, NEW c, Alongside(l, n, m, q, c),
         Breaks(l, n), Breaks(m, q), NEW k \in 1..c,
         NEW i, i = n + k, NEW j, j = q + k,
         Marks(l, i), ~IsAtx(l, i), Marks(m, j), ~IsAtx(m, j)
  PROVE  StartLine(m, j) - q <= StartLine(l, i) - n
<1> DEFINE x == StartLine(l, i)
           y == StartLine(m, j)
<1>1. /\ n \in Nat \ {0} /\ q \in Nat \ {0} /\ c \in Nat
      /\ i \in Nat /\ n < i /\ j \in Nat \ {0}
  BY DEF Alongside
<1>2. x \in (n + 1)..(i - 1) /\ TextFrom(l, x, i)
  BY <1>1, StartsAfter
<1>3. /\ y \in 1..(j - 1)
      /\ \A z \in 1..(j - 1) : TextFrom(m, z, j) => y <= z
  BY <1>1, StartLineIs
<1> HIDE DEF x, y
<1>4. PICK z \in 1..(j - 1) : z = x - n + q
  BY <1>1, <1>2
<1>5. ASSUME NEW v \in z..(j - 1) PROVE IsText(m, v)
  <2>1. v - q \in 1..c /\ v - q + n \in x..(i - 1)
    BY <1>1, <1>2, <1>4
  <2>2. PICK u \in 1..c, w \in x..(i - 1) : v = q + u /\ w = n + u
    <3>1. v = q + (v - q) /\ v - q + n = n + (v - q)
      BY <1>1, <2>1
    <3> QED
      BY <2>1, <3>1
  <2>3. IsText(l, w)
    BY <1>2, Zenon DEF TextFrom
  <2>4. SameKind(l, n + u, m, q + u)
    BY TailKinds
  <2>5. SameKind(l, w, m, v)
    BY <2>2, <2>4
  <2> QED
    BY <2>3, <2>5 DEF SameKind
<1>6. y <= z
  <2>1. TextFrom(m, z, j)
    BY <1>5 DEF TextFrom
  <2> QED
    BY <1>3, <2>1
<1>7. y - q <= x - n
  BY <1>1, <1>2, <1>3, <1>4, <1>6
<1> QED
  BY <1>7 DEF x, y

LEMMA TailMarks ==
  ASSUME NEW l, NEW n, NEW m, NEW q, NEW c, Alongside(l, n, m, q, c),
         Breaks(l, n), Breaks(m, q), NEW k \in 1..c,
         NEW i, i = n + k, NEW j, j = q + k
  PROVE  /\ Marks(l, i) <=> Marks(m, j)
         /\ IsAtx(l, i) <=> IsAtx(m, j)
         /\ Marks(l, i) => \E f \in 1..k : /\ StartLine(l, i) = n + f
                                           /\ StartLine(m, j) = q + f
<1>1. /\ n \in Nat \ {0} /\ q \in Nat \ {0} /\ c \in Nat /\ k \in Nat \ {0}
      /\ i \in Nat /\ n < i /\ j \in Nat /\ q < j
  BY DEF Alongside
<1>2. \A v \in 1..c : SameKind(l, n + v, m, q + v)
  BY TailKinds
<1>3. /\ Seen(l, i) <=> Seen(m, j)
      /\ IsAtx(l, i) <=> IsAtx(m, j)
      /\ l[i].says = m[j].says
  BY <1>2 DEF SameKind
<1>4. IsUnder(l, i) <=> IsUnder(m, j)
  <2>1. CASE k = 1
    <3>1. i = n + 1 /\ i - 1 = n /\ j = q + 1 /\ j - 1 = q
      BY <1>1, <2>1
    <3>2. ~(l[i].says \in Underlines /\ IsText(l, i - 1))
      BY <3>1, Zenon DEF Breaks
    <3>3. ~(m[j].says \in Underlines /\ IsText(m, j - 1))
      BY <3>1, Zenon DEF Breaks
    <3> QED
      BY <3>2, <3>3, Zenon DEF IsUnder
  <2>2. CASE k # 1
    <3>1. /\ k - 1 \in 1..c /\ i - 1 = n + (k - 1) /\ j - 1 = q + (k - 1)
          /\ i > 1 /\ j > 1
      BY <1>1, <2>2
    <3>2. SameKind(l, i - 1, m, j - 1)
      BY <1>2, <3>1
    <3>3. IsText(l, i - 1) <=> IsText(m, j - 1)
      BY <3>2 DEF SameKind
    <3> QED
      BY <1>3, <3>1, <3>3, Zenon DEF IsUnder
  <2> QED
    BY <2>1, <2>2
<1>5. Marks(l, i) <=> Marks(m, j)
  BY <1>3, <1>4 DEF Marks
<1>6. ASSUME Marks(l, i)
      PROVE  \E f \in 1..k : StartLine(l, i) = n + f /\ StartLine(m, j) = q + f
  <2>1. CASE IsAtx(l, i)
    <3>1. StartLine(l, i) = n + k /\ StartLine(m, j) = q + k /\ k \in 1..k
      BY <1>1, <1>3, <2>1 DEF StartLine
    <3> QED
      BY <3>1
  <2>2. CASE ~IsAtx(l, i)
    <3> DEFINE x == StartLine(l, i)
               y == StartLine(m, j)
    <3>1. Marks(m, j) /\ ~IsAtx(m, j)
      BY <1>3, <1>5, <1>6, <2>2
    <3>2. x \in (n + 1)..(i - 1) /\ y \in (q + 1)..(j - 1)
      BY <1>1, <1>6, <2>2, <3>1, StartsAfter
    <3>3. y - q <= x - n
      BY <1>6, <2>2, <3>1, NotLater
    <3>4. x - n <= y - q
      BY <1>6, <2>2, <3>1, NotLater, TurnedAround
    <3> HIDE DEF x, y
    <3>5. x - n \in 1..k /\ x = n + (x - n) /\ y = q + (x - n)
      BY <1>1, <3>2, <3>3, <3>4
    <3>6. \E f \in 1..k : x = n + f /\ y = q + f
      BY <3>5
    <3> QED
      BY <3>6 DEF x, y
  <2> QED
    BY <2>1, <2>2
<1> QED
  BY <1>3, <1>5, <1>6

-----------------------------------------------------------------------------
(* Headings, line by line.                                                 *)
UnderLevel(c) == IF c = <<Equals>> THEN 1 ELSE 2

HeadingAt(s, l, k) ==
    IF IsAtx(l, k)
    THEN [level |-> Level(l[k].says), title |-> Tail(l[k].says),
          start |-> l[k].at, body |-> l[k].next, setext |-> FALSE]
    ELSE [level |-> UnderLevel(l[k].says),
          title |-> SubSeq(s, l[FirstOf(l, k)].at, l[k].at - 2),
          start |-> l[FirstOf(l, k)].at, body |-> l[k].next, setext |-> TRUE]

Where(l) == Only(Upto(Len(l)), {k \in 1..Len(l) : Marks(l, k)})

LEMMA HeadingsAt ==
  ASSUME NEW s \in Seq(Tokens)
  PROVE  Headings(s) = [i \in DOMAIN Where(Lines(s)) |->
                           HeadingAt(s, Lines(s), Where(Lines(s))[i])]
<1> DEFINE l == Lines(s)
           B == {k \in 1..Len(l) : \/ Seen(l, k) /\ Level(l[k].says) > 0
                                   \/ /\ Seen(l, k) /\ l[k].says \in Underlines
                                      /\ IsText(l, k - 1)}
           w == Only(Upto(Len(l)), B)
<1>1. Headings(s) = [i \in DOMAIN w |-> HeadingAt(s, l, w[i])]
  BY Zenon DEF Headings, HeadingsIn, HeadingAt, IsAtx, IsText, Seen, FirstOf,
               TextFrom, UnderLevel
<1>2. Len(l) \in Nat
  BY LinesAre DEF LinesShape
<1> HIDE DEF l
<1>3. ASSUME NEW k \in 1..Len(l), IsText(l, k - 1) PROVE k > 1
  <2>1. ~IsText(l, 0)
    BY <1>2, TextIs
  <2>2. k = 1 => k - 1 = 0
    OBVIOUS
  <2>3. k # 1
    BY <1>3, <2>1, <2>2, Zenon
  <2> QED
    BY <2>3
<1>4. ASSUME NEW k \in 1..Len(l)
      PROVE  Marks(l, k) <=> \/ Seen(l, k) /\ Level(l[k].says) > 0
                             \/ /\ Seen(l, k) /\ l[k].says \in Underlines
                                /\ IsText(l, k - 1)
  BY <1>3, Zenon DEF Marks, IsAtx, IsUnder
<1>5. B = {k \in 1..Len(l) : Marks(l, k)}
  BY <1>4
<1>6. w = Where(l)
  BY <1>5, Zenon DEF Where
<1> HIDE DEF w
<1> QED
  BY <1>1, <1>6, Zenon DEF l

LEMMA WhereIs ==
  ASSUME NEW l, Len(l) \in Nat
  PROVE  /\ Where(l) \in Seq(Int) /\ Ascends(Where(l))
         /\ \A x : x \in Elems(Where(l)) <=> x \in 1..Len(l) /\ Marks(l, x)
         /\ Len(Where(l)) \in Nat /\ DOMAIN Where(l) = 1..Len(Where(l))
         /\ \A i \in 1..Len(Where(l)) :
               Where(l)[i] \in 1..Len(l) /\ Marks(l, Where(l)[i])
<1> DEFINE B == {k \in 1..Len(l) : Marks(l, k)}
<1>1. /\ Upto(Len(l)) \in Seq(Int) /\ Ascends(Upto(Len(l)))
      /\ \A x : x \in Elems(Upto(Len(l))) <=> x \in 1..Len(l)
  BY UptoIs
<1>2. Where(l) = Only(Upto(Len(l)), B) /\ \A x \in B : x \in 1..Len(l)
  BY DEF Where
<1>3. \A x : x \in B <=> x \in 1..Len(l) /\ Marks(l, x)
  OBVIOUS
<1> HIDE DEF B
<1>4. /\ Where(l) \in Seq(Int) /\ Ascends(Where(l))
      /\ \A x : x \in Elems(Where(l)) <=> x \in 1..Len(l) /\ Marks(l, x)
  BY <1>1, <1>2, <1>3, OnlyIs
<1>5. /\ Len(Where(l)) \in Nat /\ DOMAIN Where(l) = 1..Len(Where(l))
  BY <1>4, LenProperties
<1>6. \A i \in 1..Len(Where(l)) : Where(l)[i] \in Elems(Where(l))
  BY DEF Elems
<1> QED
  BY <1>4, <1>5, <1>6

LEMMA HeadingsLen ==
  ASSUME NEW s \in Seq(Tokens)
  PROVE  /\ Len(Headings(s)) = Len(Where(Lines(s))) /\ Len(Headings(s)) \in Nat
         /\ DOMAIN Headings(s) = 1..Len(Headings(s))
         /\ \A i \in 1..Len(Headings(s)) :
               Headings(s)[i] = HeadingAt(s, Lines(s), Where(Lines(s))[i])
<1> DEFINE w == Where(Lines(s))
           h == Headings(s)
<1>1. Len(Lines(s)) \in Nat
  BY LinesAre DEF LinesShape
<1>2. Len(w) \in Nat /\ DOMAIN w = 1..Len(w)
  BY <1>1, WhereIs
<1>3. h = [i \in 1..Len(w) |-> HeadingAt(s, Lines(s), w[i])]
  BY <1>2, HeadingsAt
<1> HIDE DEF w, h
<1>4. /\ DOMAIN h = 1..Len(w) /\ h = [i \in 1..Len(w) |-> h[i]]
      /\ \A i \in 1..Len(w) : h[i] = HeadingAt(s, Lines(s), w[i])
  BY <1>3
<1>5. Len(h) = Len(w)
  BY <1>2, <1>4, FunIsSeq
<1> QED
  BY <1>2, <1>4, <1>5 DEF w, h

(* A heading that has been moved by d tokens.                              *)
Moved(x, y, d) == /\ x.level = y.level /\ x.title = y.title
                  /\ x.setext = y.setext
                  /\ x.start = y.start + d /\ x.body = y.body + d

HeadsFollow(h, f, g, d) ==
    /\ Len(h) = Len(f) + Len(g)
    /\ \A i \in 1..Len(f) : h[i] = f[i]
    /\ \A j \in 1..Len(g) : Moved(h[Len(f) + j], g[j], d)

LEMMA HeadingAtIs ==
  ASSUME NEW s, NEW l, NEW k
  PROVE  /\ HeadingAt(s, l, k).start = l[StartLine(l, k)].at
         /\ HeadingAt(s, l, k).body = l[k].next
         /\ HeadingAt(s, l, k).level =
               IF IsAtx(l, k) THEN Level(l[k].says) ELSE UnderLevel(l[k].says)
         /\ HeadingAt(s, l, k).setext = ~IsAtx(l, k)
         /\ HeadingAt(s, l, k).title =
               IF IsAtx(l, k) THEN Tail(l[k].says)
               ELSE SubSeq(s, l[StartLine(l, k)].at, l[k].at - 2)
<1>1. CASE IsAtx(l, k)
  BY <1>1 DEF HeadingAt, StartLine
<1>2. CASE ~IsAtx(l, k)
  BY <1>2 DEF HeadingAt, StartLine
<1> QED
  BY <1>1, <1>2

LEMMA LinesStart ==
  ASSUME NEW s \in Seq(Tokens), NEW t \in Seq(Tokens), EndsLine(s)
  PROVE  /\ StartsAs(Lines(s \o t), Lines(s))
         /\ Len(Lines(s)) \in Nat \ {0} /\ Len(Lines(t)) \in Nat
         /\ Len(Lines(s \o t)) = Len(Lines(s)) + Len(Lines(t))
<1>1. LinesFollow(Lines(s \o t), Lines(s), Lines(t), Len(s))
  BY LinesJoin
<1>2. Len(Lines(s)) \in Nat /\ Len(Lines(t)) \in Nat
  BY LinesAre DEF LinesShape
<1>3. Len(Lines(s)) >= 1
  BY LinesAt, LastEnd DEF EndsLine
<1> QED
  BY <1>1, <1>2, <1>3 DEF StartsAs, LinesFollow

LEMMA HeadLeft ==
  ASSUME NEW s \in Seq(Tokens), NEW t \in Seq(Tokens), EndsLine(s),
         NEW k \in 1..Len(Lines(s)), Marks(Lines(s), k)
  PROVE  HeadingAt(s \o t, Lines(s \o t), k) = HeadingAt(s, Lines(s), k)
<1> DEFINE l == Lines(s \o t)
           a == Lines(s)
<1>1. StartsAs(l, a) /\ Len(a) \in Nat
  BY LinesStart
<1>2. \A j \in 1..Len(a) : /\ l[j].at = a[j].at /\ l[j].next = a[j].next
                           /\ l[j].says = a[j].says
  BY LinesJoin DEF LinesFollow
<1>3. IsAtx(l, k) <=> IsAtx(a, k)
  BY <1>1, StartMarks
<1>4. StartLine(l, k) = StartLine(a, k)
  BY <1>1, StartMarks
<1>5. StartLine(a, k) \in 1..k
  <2>1. k \in Nat \ {0}
    BY <1>1
  <2> QED
    BY <2>1, StartLineIs
<1>6. Len(s) \in Nat /\ \A j \in 1..Len(a) : a[j].at \in 1..Len(s)
  BY LinesAre DEF LinesShape
<1> HIDE DEF l, a
<1>7. CASE IsAtx(a, k)
  BY <1>2, <1>3, <1>7 DEF HeadingAt, l, a
<1>8. CASE ~IsAtx(a, k)
  <2>1. FirstOf(l, k) = FirstOf(a, k) /\ FirstOf(a, k) \in 1..k
    BY <1>3, <1>4, <1>5, <1>8 DEF StartLine
  <2> DEFINE f == FirstOf(a, k)
  <2> HIDE DEF f
  <2>2. f \in 1..Len(a) /\ FirstOf(l, k) = f /\ FirstOf(a, k) = f
    BY <1>1, <2>1 DEF f, a
  <2>3. /\ l[f].at = a[f].at /\ l[k].at = a[k].at /\ l[k].next = a[k].next
        /\ l[k].says = a[k].says
    BY <1>2, <2>2 DEF a
  <2>4. /\ a[f].at \in Int /\ a[f].at >= 1 /\ a[k].at - 2 \in Int
        /\ a[k].at - 2 <= Len(s)
    BY <1>6, <2>2 DEF a
  <2>5. SubSeq(s \o t, a[f].at, a[k].at - 2) = SubSeq(s, a[f].at, a[k].at - 2)
    BY <2>4, SubSeqLeft
  <2> QED
    BY <1>3, <1>8, <2>2, <2>3, <2>5 DEF HeadingAt, l, a
<1> QED
  BY <1>7, <1>8

(* A text after which a line begins that is neither frontmatter nor code.  *)
Settled(s) == EndsLine(s) /\ Clear(Lines(s), Len(Lines(s)))

LEMMA SettledClear ==
  ASSUME NEW s \in Seq(Tokens), NEW t \in Seq(Tokens), Settled(s)
  PROVE  Clear(Lines(s \o t), Len(Lines(s)))
<1> DEFINE l == Lines(s \o t)
           a == Lines(s)
           n == Len(a)
<1>1. StartsAs(l, a) /\ n \in Nat
  BY LinesStart DEF Settled
<1>2. /\ \A k \in 0..n : OpenFence(l)[k] = OpenFence(a)[k]
      /\ \A k \in 1..(n + 1) : InFrontmatter(l, k) <=> InFrontmatter(a, k)
  BY <1>1, StartKinds
<1>3. n \in 0..n /\ n + 1 \in 1..(n + 1)
  BY <1>1
<1>4. OpenFence(l)[n] = OpenFence(a)[n]
  BY <1>2, <1>3
<1>5. InFrontmatter(l, n + 1) <=> InFrontmatter(a, n + 1)
  BY <1>2, <1>3
<1> QED
  BY <1>4, <1>5, Zenon DEF Settled, Clear

LEMMA SideBySide ==
  ASSUME NEW s \in Seq(Tokens), NEW r \in Seq(Tokens), NEW t \in Seq(Tokens),
         Settled(s), Settled(r)
  PROVE  Alongside(Lines(s \o t), Len(Lines(s)), Lines(r \o t), Len(Lines(r)),
                   Len(Lines(t)))
<1> DEFINE l == Lines(s \o t)
           m == Lines(r \o t)
           n == Len(Lines(s))
           q == Len(Lines(r))
           c == Len(Lines(t))
<1>1. EndsLine(s) /\ EndsLine(r)
  BY DEF Settled
<1>2. n \in Nat \ {0} /\ c \in Nat /\ Len(l) = n + c
  BY <1>1, LinesStart
<1>3. q \in Nat \ {0} /\ Len(m) = q + c
  BY <1>1, LinesStart
<1>4. Clear(l, n) /\ Clear(m, q)
  BY SettledClear
<1>5. \A k \in 1..c : l[n + k].says = Lines(t)[k].says
  BY <1>1, LinesJoin DEF LinesFollow
<1>6. \A k \in 1..c : m[q + k].says = Lines(t)[k].says
  BY <1>1, LinesJoin DEF LinesFollow
<1> HIDE DEF l, m, n, q, c
<1>7. \A k \in 1..c : l[n + k].says = m[q + k].says
  BY <1>5, <1>6
<1>8. Alongside(l, n, m, q, c)
  BY <1>2, <1>3, <1>4, <1>7 DEF Alongside
<1> QED
  BY <1>8 DEF l, m, n, q, c

(* The title that is read off the lines of the second of two texts.        *)
LEMMA TitleRight ==
  ASSUME NEW s \in Seq(Tokens), NEW t \in Seq(Tokens), EndsLine(s),
         NEW f \in 1..Len(Lines(t)), NEW k \in 1..Len(Lines(t))
  PROVE  SubSeq(s \o t, Lines(s \o t)[Len(Lines(s)) + f].at,
                        Lines(s \o t)[Len(Lines(s)) + k].at - 2)
            = SubSeq(t, Lines(t)[f].at, Lines(t)[k].at - 2)
<1> DEFINE l == Lines(s \o t)
           b == Lines(t)
           n == Len(Lines(s))
           d == Len(s)
<1>1. l[n + f].at = b[f].at + d /\ l[n + k].at = b[k].at + d
  BY LinesJoin DEF LinesFollow
<1>2. b[f].at \in 1..Len(t) /\ b[k].at \in 1..Len(t) /\ Len(t) \in Nat
  BY LinesAre DEF LinesShape
<1>3. d \in Nat
  BY LenProperties
<1>4. PICK i, j : i = b[f].at /\ j = b[k].at - 2
  OBVIOUS
<1>5. i \in Int /\ j \in Int /\ i >= 1 /\ j <= Len(t)
  BY <1>2, <1>4
<1>6. SubSeq(s \o t, i + d, j + d) = SubSeq(t, i, j)
  BY <1>5, SubSeqRight
<1>7. l[n + f].at = i + d /\ l[n + k].at - 2 = j + d
  BY <1>1, <1>2, <1>3, <1>4
<1> QED
  BY <1>4, <1>6, <1>7

LEMMA Distance ==
  ASSUME NEW u \in Int, NEW d \in Int, NEW e \in Int
  PROVE  u + d = u + e + (d - e)
  OBVIOUS

LEMMA MovedBy ==
  ASSUME NEW x, NEW y, NEW u \in Int, NEW v \in Int, NEW d \in Int, NEW e \in Int,
         x.level = y.level, x.title = y.title, x.setext = y.setext,
         x.start = u + d, x.body = v + d, y.start = u + e, y.body = v + e, u >= 1
  PROVE  Moved(x, y, d - e) /\ y.start > e
<1>1. u + d = u + e + (d - e) /\ v + d = v + e + (d - e)
  BY Distance
<1>2. x.start = y.start + (d - e) /\ x.body = y.body + (d - e)
  BY <1>1, Zenon
<1>3. u + e > e
  OBVIOUS
<1>4. y.start > e
  BY <1>3, Zenon
<1> QED
  BY <1>2, <1>4, Zenon DEF Moved

LEMMA HeadRight ==
  ASSUME NEW s \in Seq(Tokens), NEW r \in Seq(Tokens), NEW t \in Seq(Tokens),
         Settled(s), Settled(r),
         Breaks(Lines(s \o t), Len(Lines(s))),
         Breaks(Lines(r \o t), Len(Lines(r))),
         NEW k \in 1..Len(Lines(t)), NEW i, i = Len(Lines(s)) + k,
         NEW j, j = Len(Lines(r)) + k, Marks(Lines(s \o t), i)
  PROVE  /\ Moved(HeadingAt(s \o t, Lines(s \o t), i),
                  HeadingAt(r \o t, Lines(r \o t), j), Len(s) - Len(r))
         /\ HeadingAt(r \o t, Lines(r \o t), j).start > Len(r)
<1> DEFINE l == Lines(s \o t)
           m == Lines(r \o t)
           b == Lines(t)
           n == Len(Lines(s))
           q == Len(Lines(r))
           c == Len(b)
           x == HeadingAt(s \o t, l, i)
           y == HeadingAt(r \o t, m, j)
<1>1. Alongside(l, n, m, q, c)
  BY SideBySide
<1>17. /\ Breaks(l, n) /\ Breaks(m, q) /\ k \in 1..c
       /\ i = n + k /\ j = q + k /\ Marks(l, i)
  OBVIOUS
<1> HIDE DEF l, m, n, q, c
<1>2. /\ IsAtx(l, i) <=> IsAtx(m, j)
      /\ \E f \in 1..k : StartLine(l, i) = n + f /\ StartLine(m, j) = q + f
  BY <1>1, <1>17, TailMarks
<1>3. PICK f \in 1..k : StartLine(l, i) = n + f /\ StartLine(m, j) = q + f
  BY <1>2
<1> USE DEF l, m, n, q, c
<1>4. c \in Nat /\ n \in Nat /\ q \in Nat
  BY <1>1 DEF Alongside
<1>5. f \in 1..c
  BY <1>3, <1>4
<1>6. EndsLine(s) /\ EndsLine(r)
  BY DEF Settled
<1>7. /\ l[n + f].at = b[f].at + Len(s)
      /\ l[n + k].next = b[k].next + Len(s) /\ l[n + k].says = b[k].says
  BY <1>5, <1>6, LinesJoin DEF LinesFollow
<1>8. /\ m[q + f].at = b[f].at + Len(r)
      /\ m[q + k].next = b[k].next + Len(r) /\ m[q + k].says = b[k].says
  BY <1>5, <1>6, LinesJoin DEF LinesFollow
<1>9. /\ SubSeq(s \o t, l[n + f].at, l[n + k].at - 2)
            = SubSeq(t, b[f].at, b[k].at - 2)
      /\ SubSeq(r \o t, m[q + f].at, m[q + k].at - 2)
            = SubSeq(t, b[f].at, b[k].at - 2)
  BY <1>5, <1>6, TitleRight
<1>10. /\ b[f].at \in 1..Len(t) /\ b[k].next \in 1..(Len(t) + 1)
       /\ Len(t) \in Nat
  BY <1>5, LinesAre DEF LinesShape
<1>11. Len(s) \in Nat /\ Len(r) \in Nat
  BY LenProperties
<1>12. /\ x.start = l[n + f].at /\ x.body = l[n + k].next
       /\ x.level = (IF IsAtx(l, i) THEN Level(l[n + k].says)
                                    ELSE UnderLevel(l[n + k].says))
       /\ x.setext = ~IsAtx(l, i)
       /\ x.title = IF IsAtx(l, i) THEN Tail(l[n + k].says)
                    ELSE SubSeq(s \o t, l[n + f].at, l[n + k].at - 2)
  BY <1>3, HeadingAtIs
<1>13. /\ y.start = m[q + f].at /\ y.body = m[q + k].next
       /\ y.level = (IF IsAtx(m, j) THEN Level(m[q + k].says)
                                    ELSE UnderLevel(m[q + k].says))
       /\ y.setext = ~IsAtx(m, j)
       /\ y.title = IF IsAtx(m, j) THEN Tail(m[q + k].says)
                    ELSE SubSeq(r \o t, m[q + f].at, m[q + k].at - 2)
  BY <1>3, HeadingAtIs
<1> HIDE DEF l, m, b, n, q, c, x, y
<1>14. x.level = y.level /\ x.title = y.title /\ x.setext = y.setext
  <2>1. CASE IsAtx(l, i)
    BY <1>2, <1>7, <1>8, <1>12, <1>13, <2>1
  <2>2. CASE ~IsAtx(l, i)
    BY <1>2, <1>7, <1>8, <1>9, <1>12, <1>13, <2>2
  <2> QED
    BY <2>1, <2>2
<1>15. /\ x.start = b[f].at + Len(s) /\ x.body = b[k].next + Len(s)
       /\ y.start = b[f].at + Len(r) /\ y.body = b[k].next + Len(r)
  BY <1>7, <1>8, <1>12, <1>13
<1>16. /\ b[f].at \in Int /\ b[f].at >= 1 /\ b[k].next \in Int
       /\ Len(s) \in Int /\ Len(r) \in Int
  BY <1>10, <1>11
<1>18. Moved(x, y, Len(s) - Len(r)) /\ y.start > Len(r)
  BY <1>14, <1>15, <1>16, MovedBy
<1> QED
  BY <1>18 DEF l, m, b, n, q, c, x, y

(* The lines after line n that make headings, counted from there.          *)
Further(l, n, c) == Only(Upto(c), {k \in 1..c : Marks(l, n + k)})

LEMMA FurtherIs ==
  ASSUME NEW l, NEW n, NEW c \in Nat
  PROVE  /\ Further(l, n, c) \in Seq(Int) /\ Ascends(Further(l, n, c))
         /\ \A x : x \in Elems(Further(l, n, c)) <=>
                      x \in 1..c /\ Marks(l, n + x)
         /\ Len(Further(l, n, c)) \in Nat
         /\ \A i \in 1..Len(Further(l, n, c)) :
               /\ Further(l, n, c)[i] \in 1..c
               /\ Marks(l, n + Further(l, n, c)[i])
<1> DEFINE B == {k \in 1..c : Marks(l, n + k)}
           v == Further(l, n, c)
<1>1. /\ Upto(c) \in Seq(Int) /\ Ascends(Upto(c))
      /\ \A x : x \in Elems(Upto(c)) <=> x \in 1..c
  BY UptoIs
<1>2. v = Only(Upto(c), B)
  BY DEF Further
<1>3. \A x : x \in B <=> x \in 1..c /\ Marks(l, n + x)
  OBVIOUS
<1> HIDE DEF B, v
<1>4. /\ v \in Seq(Int) /\ Ascends(v)
      /\ \A x : x \in Elems(v) <=> x \in 1..c /\ Marks(l, n + x)
  BY <1>1, <1>2, <1>3, OnlyIs
<1>5. Len(v) \in Nat
  BY <1>4, LenProperties
<1>6. \A i \in 1..Len(v) : v[i] \in Elems(v)
  BY DEF Elems
<1>7. \A i \in 1..Len(v) : v[i] \in 1..c /\ Marks(l, n + v[i])
  BY <1>4, <1>6
<1> QED
  BY <1>4, <1>5, <1>7 DEF v

LEMMA WhereJoin ==
  ASSUME NEW s \in Seq(Tokens), NEW t \in Seq(Tokens), EndsLine(s)
  PROVE  Joins(Where(Lines(s \o t)), Where(Lines(s)),
               Further(Lines(s \o t), Len(Lines(s)), Len(Lines(t))),
               Len(Lines(s)))
<1> DEFINE l == Lines(s \o t)
           a == Lines(s)
           n == Len(a)
           c == Len(Lines(t))
           v == Further(l, n, c)
<1>1. StartsAs(l, a) /\ n \in Nat /\ c \in Nat /\ Len(l) = n + c
  BY LinesStart
<1>2. \A k \in 1..n : Marks(l, k) <=> Marks(a, k)
  BY <1>1, StartMarks
<1> HIDE DEF l, a, c
<1>3. /\ Where(a) \in Seq(Int) /\ Ascends(Where(a))
      /\ \A x : x \in Elems(Where(a)) <=> x \in 1..n /\ Marks(a, x)
  BY <1>1, WhereIs
<1> HIDE DEF n
<1>4. /\ Where(l) \in Seq(Int) /\ Ascends(Where(l))
      /\ \A x : x \in Elems(Where(l)) <=> x \in 1..Len(l) /\ Marks(l, x)
  <2>1. Len(l) \in Nat
    BY <1>1
  <2> QED
    BY <2>1, WhereIs
<1>5. /\ v \in Seq(Int) /\ Ascends(v)
      /\ \A x : x \in Elems(v) <=> x \in 1..c /\ Marks(l, n + x)
  BY <1>1, FurtherIs
<1> HIDE DEF v
<1>6. Mixes(Where(l), Where(a), v, n)
  <2>1. (\A x \in Elems(Where(a)) : x <= n) /\ (\A x \in Elems(v) : x >= 1)
    BY <1>1, <1>3, <1>5
  <2>2. ASSUME NEW x \in Elems(Where(l)), x \notin Elems(Where(a))
        PROVE  \E y \in Elems(v) : x = y + n
    <3>1. x \in 1..(n + c) /\ Marks(l, x)
      BY <1>1, <1>4
    <3>2. x \notin 1..n
      BY <1>2, <1>3, <2>2, <3>1
    <3>3. PICK y \in 1..c : x = n + y
      <4>1. x - n \in 1..c /\ x = n + (x - n)
        BY <1>1, <3>1, <3>2
      <4> QED
        BY <4>1
    <3>4. y \in Elems(v)
      BY <1>5, <3>1, <3>3
    <3>5. x = y + n
      BY <1>1, <3>3
    <3> QED
      BY <3>4, <3>5
  <2>3. ASSUME NEW x \in Elems(Where(a)) PROVE x \in Elems(Where(l))
    <3>1. x \in 1..n /\ Marks(l, x)
      BY <1>2, <1>3
    <3>2. x \in 1..Len(l)
      BY <1>1, <3>1
    <3> QED
      BY <1>4, <3>1, <3>2
  <2>4. ASSUME NEW y \in Elems(v) PROVE y + n \in Elems(Where(l))
    <3>1. y \in 1..c /\ Marks(l, n + y)
      BY <1>5
    <3>2. PICK x \in 1..Len(l) : x = n + y /\ x = y + n
      BY <1>1, <3>1
    <3> QED
      BY <1>4, <3>1, <3>2
  <2>5. ASSUME NEW x
        PROVE  x \in Elems(Where(l)) <=> \/ x \in Elems(Where(a))
                                         \/ \E y \in Elems(v) : x = y + n
    BY <2>2, <2>3, <2>4
  <2> QED
    BY <2>1, <2>5, Zenon DEF Mixes
<1>7. Joins(Where(l), Where(a), v, n)
  BY <1>1, <1>3, <1>4, <1>5, <1>6, Joining
<1> QED
  BY <1>7 DEF l, a, n, c, v

(* An empty line has no heading, and whatever follows it is on its own.    *)
LEMMA EmptyLine ==
  /\ <<Newline>> \in Seq(Tokens) /\ Len(<<Newline>>) = 1
  /\ Settled(<<Newline>>) /\ Len(Lines(<<Newline>>)) = 1
  /\ Lines(<<Newline>>)[1].says = <<>>
  /\ Len(Where(Lines(<<Newline>>))) = 0
<1> DEFINE s == <<Newline>>
           l == Lines(s)
<1>1. s \in Seq(Tokens) /\ Len(s) = 1 /\ s[1] = Newline
  BY NotesAssumption DEF NotesAssumption
<1> HIDE DEF s
<1>2. /\ Len(Ends(s)) \in Nat /\ Ascends(Ends(s))
      /\ \A k \in 1..Len(Ends(s)) : Ends(s)[k] \in EndsIn(s)
  BY <1>1, EndsAre
<1>3. Len(Ends(s)) >= 1 /\ Ends(s)[Len(Ends(s))] = 1
  <2>1. Len(s) >= 1
    BY <1>1
  <2>2. Len(Ends(s)) >= 1 /\ Ends(s)[Len(Ends(s))] = Len(s)
    BY <1>1, <2>1, LastEnd
  <2> QED
    BY <1>1, <2>2
<1>4. Len(Ends(s)) = 1
  <2> DEFINE e == Ends(s)
             n == Len(e)
  <2>1. n \in Nat /\ n >= 1 /\ e[n] = 1
    BY <1>2, <1>3
  <2>2. /\ \A i, j \in 1..n : i < j => e[i] < e[j]
        /\ \A k \in 1..n : e[k] \in 1..1
    BY <1>1, <1>2 DEF Ascends, EndsIn
  <2> HIDE DEF n, e
  <2>3. n = 1
    <3>1. SUFFICES ASSUME n > 1 PROVE FALSE
      BY <2>1
    <3>2. 1 \in 1..n /\ n \in 1..n
      BY <2>1
    <3>3. e[1] < e[n] /\ e[1] \in 1..1
      BY <2>2, <3>1, <3>2
    <3> QED
      BY <2>1, <3>3
  <2> QED
    BY <2>3 DEF n, e
<1>5. Len(l) = 1 /\ l[1].says = SubSeq(s, 1, 0)
  <2>1. 1 \in 1..Len(Ends(s)) /\ Ends(s)[1] = 1
    BY <1>3, <1>4
  <2>2. From(Ends(s), 1) = 1 /\ Until(s, Ends(s)[1]) = 0
    BY <1>1, <2>1 DEF From, Until
  <2> QED
    BY <1>1, <1>4, <2>1, <2>2, LinesAt
<1>6. l[1].says = <<>>
  BY <1>5, SubSeqEmpty
<1> HIDE DEF l
<1>7. <<>> # <<Rule>>
  OBVIOUS
<1>8. ~InFrontmatter(l, 1) /\ ~InFrontmatter(l, 2)
  BY <1>6, <1>7, Zenon DEF InFrontmatter
<1>9. OpenFence(l)[0] = FALSE /\ OpenFence(l)[1] = FALSE
  <2>1. Fencing(l, 1, OpenFence(l))
    <3>1. Len(l) \in Nat
      BY <1>5
    <3>2. Fencing(l, Len(l), OpenFence(l))
      BY <3>1, FencesAre
    <3> QED
      BY <1>5, <3>2
  <2>2. 1 \in 1..1 /\ 1 - 1 = 0
    OBVIOUS
  <2>3. /\ OpenFence(l)[0] = FALSE
        /\ OpenFence(l)[1] = FenceAfter(l, OpenFence(l)[1 - 1], 1)
    BY <2>1, <2>2, Zenon DEF Fencing
  <2>4. FenceAfter(l, FALSE, 1) = FALSE
    BY <1>6, <1>8, Zenon DEF FenceAfter
  <2>5. OpenFence(l)[1 - 1] = FALSE
    BY <2>2, <2>3
  <2> QED
    BY <2>3, <2>4, <2>5, Zenon
<1>10. Settled(s)
  <2>1. Clear(l, 1)
    BY <1>8, <1>9 DEF Clear
  <2> QED
    BY <1>1, <1>5, <2>1 DEF Settled, EndsLine, l
<1>11. Len(Where(l)) = 0
  <2>1. /\ Len(Where(l)) \in Nat
        /\ \A i \in 1..Len(Where(l)) : Where(l)[i] \in 1..1 /\ Marks(l, Where(l)[i])
    <3>1. Len(l) \in Nat
      BY <1>5
    <3>2. /\ Len(Where(l)) \in Nat
          /\ \A i \in 1..Len(Where(l)) :
                Where(l)[i] \in 1..Len(l) /\ Marks(l, Where(l)[i])
      BY <3>1, WhereIs
    <3> QED
      BY <1>5, <3>2
  <2>2. SUFFICES ASSUME Len(Where(l)) # 0 PROVE FALSE
    OBVIOUS
  <2>3. 1 \in 1..Len(Where(l))
    BY <2>1, <2>2
  <2>4. Marks(l, 1)
    BY <2>1, <2>3
  <2>5. ~IsUnder(l, 1)
    BY DEF IsUnder
  <2>6. Level(l[1].says) > 0
    BY <2>4, <2>5 DEF Marks, IsAtx
  <2>7. Level(<<>>) = 0
    BY LevelRange
  <2> QED
    BY <1>6, <2>6, <2>7
<1> QED
  BY <1>1, <1>5, <1>6, <1>10, <1>11 DEF s, l

LEMMA EmptyBreaks ==
  ASSUME NEW t \in Seq(Tokens)
  PROVE  Breaks(Lines(<<Newline>> \o t), Len(Lines(<<Newline>>)))
<1> DEFINE r == <<Newline>>
           m == Lines(r \o t)
<1>1. /\ r \in Seq(Tokens) /\ EndsLine(r) /\ Len(Lines(r)) = 1
      /\ Lines(r)[1].says = <<>>
  BY EmptyLine DEF Settled
<1> HIDE DEF r
<1>2. \A k \in 1..Len(Lines(r)) : m[k].says = Lines(r)[k].says
  BY <1>1, LinesJoin DEF LinesFollow
<1>3. m[1].says = <<>>
  BY <1>1, <1>2
<1>4. Len(m) \in Nat /\ 1 \in 1..Len(m)
  <2>1. StartsAs(m, Lines(r))
    BY <1>1, LinesStart
  <2> QED
    BY <2>1 DEF StartsAs
<1>5. ~IsText(m, 1)
  BY <1>3, <1>4, TextSays, Zenon
<1> QED
  BY <1>1, <1>5, Zenon DEF Breaks, r

(* The headings of a text as they are when it stands after a line that     *)
(* leaves nothing open.                                                    *)
Inside(t) == Headings(<<Newline>> \o t)

(* If no paragraph goes on over the seam, the headings of the whole are    *)
(* those of the parts.                                                     *)
LEMMA EitherWay ==
  ASSUME NEW x \in Int, NEW y \in Int PROVE x + y = y + x
  OBVIOUS

LEMMA HeadingsJoin ==
  ASSUME NEW s \in Seq(Tokens), NEW t \in Seq(Tokens), Settled(s),
         Breaks(Lines(s \o t), Len(Lines(s)))
  PROVE  /\ HeadsFollow(Headings(s \o t), Headings(s), Inside(t), Len(s) - 1)
         /\ \A j \in 1..Len(Inside(t)) : Inside(t)[j].start >= 2
<1> DEFINE r == <<Newline>>
           l == Lines(s \o t)
           m == Lines(r \o t)
           n == Len(Lines(s))
           q == Len(Lines(r))
           c == Len(Lines(t))
           v == Further(l, n, c)
           h == Headings(s \o t)
           f == Headings(s)
           g == Headings(r \o t)
           a == Where(Lines(s))
<1>1. /\ r \in Seq(Tokens) /\ Len(r) = 1 /\ Settled(r)
      /\ Len(Where(Lines(r))) = 0
  BY EmptyLine
<1>2. Breaks(m, q)
  BY EmptyBreaks
<1> HIDE DEF r
<1>3. EndsLine(s) /\ EndsLine(r) /\ s \o t \in Seq(Tokens) /\ r \o t \in Seq(Tokens)
  BY <1>1, ConcatProperties DEF Settled
<1>4. Alongside(l, n, m, q, c)
  BY <1>1, SideBySide
<1>5. n \in Nat /\ q \in Nat /\ c \in Nat
  BY <1>4 DEF Alongside
<1>6. ASSUME NEW k \in 1..c PROVE Marks(l, n + k) <=> Marks(m, q + k)
  <2>1. Breaks(l, n)
    OBVIOUS
  <2> HIDE DEF l, m, n, q, c
  <2>2. PICK i, j : i = n + k /\ j = q + k
    OBVIOUS
  <2>3. Marks(l, i) <=> Marks(m, j)
    BY <1>2, <1>4, <2>1, <2>2, TailMarks
  <2> QED
    BY <2>2, <2>3
<1>7. Further(m, q, c) = v
  <2> HIDE DEF l, m, n, q, c
  <2>1. {k \in 1..c : Marks(m, q + k)} = {k \in 1..c : Marks(l, n + k)}
    BY <1>6
  <2> QED
    BY <2>1, Zenon DEF Further
<1>8. /\ v \in Seq(Int) /\ Len(v) \in Nat
      /\ \A i \in 1..Len(v) : v[i] \in 1..c /\ Marks(l, n + v[i])
  <2> HIDE DEF l, n, c
  <2> QED
    BY <1>5, FurtherIs
<1>9. Joins(Where(l), a, v, n)
  BY <1>3, WhereJoin
<1>10. Joins(Where(m), Where(Lines(r)), v, q)
  <2>1. Joins(Where(m), Where(Lines(r)), Further(m, q, c), q)
    BY <1>1, <1>3, WhereJoin
  <2> HIDE DEF v, m, q, c
  <2> QED
    BY <1>7, <2>1
<1>11. /\ Len(h) = Len(Where(l)) /\ Len(h) \in Nat
       /\ \A i \in 1..Len(h) : h[i] = HeadingAt(s \o t, l, Where(l)[i])
  BY <1>3, HeadingsLen
<1>12. /\ Len(f) = Len(a) /\ Len(f) \in Nat
       /\ \A i \in 1..Len(f) : f[i] = HeadingAt(s, Lines(s), a[i])
  BY HeadingsLen
<1>13. /\ Len(g) = Len(Where(m)) /\ Len(g) \in Nat
       /\ \A i \in 1..Len(g) : g[i] = HeadingAt(r \o t, m, Where(m)[i])
  BY <1>3, HeadingsLen
<1>14. \A i \in 1..Len(a) : a[i] \in 1..n /\ Marks(Lines(s), a[i])
  BY <1>5, WhereIs
<1>15. \A k \in 1..n : Marks(Lines(s), k) =>
                          HeadingAt(s \o t, l, k) = HeadingAt(s, Lines(s), k)
  BY <1>3, HeadLeft
<1>16. ASSUME NEW k \in 1..c, Marks(l, n + k)
       PROVE  /\ Moved(HeadingAt(s \o t, l, n + k), HeadingAt(r \o t, m, q + k),
                       Len(s) - Len(r))
              /\ HeadingAt(r \o t, m, q + k).start > Len(r)
  <2>1. PICK i, j : i = n + k /\ j = q + k
    OBVIOUS
  <2>2. Marks(l, i)
    BY <1>16, <2>1
  <2>3. /\ Moved(HeadingAt(s \o t, l, i), HeadingAt(r \o t, m, j),
                 Len(s) - Len(r))
        /\ HeadingAt(r \o t, m, j).start > Len(r)
    BY <1>1, <1>2, <2>1, <2>2, HeadRight
  <2> HIDE DEF l, m, n, q
  <2> QED
    BY <2>1, <2>3
<1> HIDE DEF l, m, n, q, c, v, h, f, g, a
<1>17. /\ Len(Where(l)) = Len(a) + Len(v)
       /\ \A i \in 1..Len(a) : Where(l)[i] = a[i]
       /\ \A i \in 1..Len(v) : Where(l)[Len(a) + i] = v[i] + n
  BY <1>9 DEF Joins
<1>18. /\ Len(Where(m)) = Len(v)
       /\ \A i \in 1..Len(v) : Where(m)[i] = v[i] + q
  <2>1. /\ Len(Where(m)) = 0 + Len(v)
        /\ \A i \in 1..Len(v) : Where(m)[0 + i] = v[i] + q
    BY <1>1, <1>10 DEF Joins
  <2>2. 0 + Len(v) = Len(v) /\ \A i \in 1..Len(v) : 0 + i = i
    BY <1>8
  <2> QED
    BY <2>1, <2>2
<1>19. Len(h) = Len(f) + Len(g)
  BY <1>11, <1>12, <1>13, <1>17, <1>18
<1>20. ASSUME NEW i \in 1..Len(f) PROVE h[i] = f[i]
  <2>1. i \in 1..Len(h) /\ i \in 1..Len(a)
    BY <1>12, <1>13, <1>19
  <2>2. h[i] = HeadingAt(s \o t, l, a[i]) /\ f[i] = HeadingAt(s, Lines(s), a[i])
    BY <1>11, <1>12, <1>17, <2>1
  <2> QED
    BY <1>14, <1>15, <2>1, <2>2
<1>21. ASSUME NEW j \in 1..Len(g)
       PROVE  /\ Moved(h[Len(f) + j], g[j], Len(s) - Len(r))
              /\ g[j].start > Len(r)
  <2>1. j \in 1..Len(v) /\ Len(f) + j \in 1..Len(h)
    BY <1>12, <1>13, <1>18, <1>19
  <2>2. v[j] \in 1..c /\ Marks(l, n + v[j]) /\ v[j] + n = n + v[j] /\ v[j] + q = q + v[j]
    <3>1. v[j] \in 1..c /\ Marks(l, n + v[j])
      BY <1>8, <2>1
    <3>2. v[j] \in Int /\ n \in Int /\ q \in Int
      BY <1>5, <3>1
    <3> QED
      BY <3>1, <3>2, EitherWay
  <2>3. h[Len(f) + j] = HeadingAt(s \o t, l, n + v[j])
    BY <1>11, <1>12, <1>17, <2>1, <2>2
  <2>4. g[j] = HeadingAt(r \o t, m, q + v[j])
    BY <1>13, <1>18, <2>1, <2>2
  <2> QED
    BY <1>16, <2>2, <2>3, <2>4
<1>22. HeadsFollow(h, f, g, Len(s) - 1)
  BY <1>1, <1>19, <1>20, <1>21 DEF HeadsFollow
<1>23. \A j \in 1..Len(g) : g[j].start >= 2
  <2>1. s \o t \in Seq(Tokens) /\ HeadingShape(r \o t, g)
    BY <1>3, HeadingsAre DEF g
  <2>2. \A j \in 1..Len(g) : g[j].start \in Int
    BY <2>1 DEF HeadingShape
  <2> QED
    BY <1>1, <1>21, <2>2
<1> QED
  BY <1>22, <1>23 DEF h, f, g, r, Inside

-----------------------------------------------------------------------------
(* A text that gets the newline its last line lacks: the lines say what    *)
(* they did, and the last one ends a token later.                          *)
Unended(s) == Len(s) >= 1 /\ s[Len(s)] # Newline

EndsLater(e, f, n) ==
    /\ Len(e) = Len(f)
    /\ \A k \in 1..Len(f) :
          /\ k # Len(f) => e[k] = f[k] /\ f[k] < n
          /\ k = Len(f) => e[k] = n + 1 /\ f[k] = n

LEMMA FinishEnds ==
  ASSUME NEW s \in Seq(Tokens), Unended(s),
         NEW u \in Seq(Tokens), Len(u) = Len(s) + 1,
         \A i \in 1..Len(s) : u[i] = s[i]
  PROVE  EndsLater(Ends(u), Ends(s), Len(s))
<1> DEFINE n == Len(s)
           f == Ends(s)
           p == Len(f)
           v == [k \in 1..p |-> IF k = p THEN n + 1 ELSE f[k]]
<1>1. n \in Nat /\ n >= 1 /\ s[n] # Newline
  BY LenProperties DEF Unended
<1>2. /\ p \in Nat /\ \A i, j \in 1..p : i < j => f[i] < f[j]
      /\ \A x : x \in Elems(f) <=> x \in EndsIn(s)
      /\ \A k \in 1..p : f[k] \in 1..n
  BY EndsAre DEF Ascends, EndsIn
<1>3. p >= 1 /\ f[p] = n
  BY <1>1, LastEnd
<1>4. \A x : x \in EndsIn(s) <=> \E k \in 1..p : x = f[k]
  BY <1>2 DEF Elems
<1>5. Len(u) = n + 1 /\ \A i \in 1..n : u[i] = s[i]
  OBVIOUS
<1> HIDE DEF n, f, p
<1>6. ASSUME NEW k \in 1..p, k # p PROVE f[k] < n /\ f[k] \in 1..n
  BY <1>1, <1>2, <1>3, <1>6
<1>7. /\ DOMAIN v = 1..p /\ v = [k \in 1..p |-> v[k]]
      /\ \A k \in 1..p : v[k] = IF k = p THEN n + 1 ELSE f[k]
  OBVIOUS
<1> HIDE DEF v
<1>8. Len(v) = p /\ v \in Seq(Int)
  <2>1. \A k \in 1..p : v[k] \in Int
    BY <1>1, <1>6, <1>7
  <2>2. v \in [1..p -> Int]
    BY <1>7, <2>1
  <2> QED
    BY <1>2, <1>7, <2>2, FunIsSeq, FunInSeq
<1>9. Ascends(v)
  <2>1. ASSUME NEW i \in 1..p, NEW j \in 1..p, i < j PROVE v[i] < v[j]
    <3>1. i # p /\ v[i] = f[i] /\ f[i] < n /\ f[i] \in 1..n
      BY <1>2, <1>6, <1>7, <2>1
    <3>2. CASE j = p
      <4>1. v[j] = n + 1
        BY <1>7, <3>2
      <4> QED
        BY <1>1, <3>1, <4>1
    <3>3. CASE j # p
      <4>1. v[j] = f[j]
        BY <1>7, <3>3
      <4> QED
        BY <1>2, <2>1, <3>1, <4>1
    <3> QED
      BY <3>2, <3>3
  <2> QED
    BY <1>8, <2>1 DEF Ascends
<1>10. ASSUME NEW x PROVE x \in EndsIn(u) <=> \E k \in 1..p : x = v[k]
  <2>1. ASSUME NEW k \in 1..p PROVE v[k] \in EndsIn(u)
    <3>1. CASE k = p
      <4>1. v[k] = n + 1 /\ n + 1 \in 1..Len(u)
        BY <1>1, <1>5, <1>7, <3>1
      <4> QED
        BY <1>5, <4>1 DEF EndsIn
    <3>2. CASE k # p
      <4>1. v[k] = f[k] /\ f[k] < n /\ f[k] \in 1..n /\ f[k] \in EndsIn(s)
        BY <1>4, <1>6, <1>7, <3>2
      <4>2. f[k] # n /\ f[k] \in 1..Len(u)
        BY <1>1, <1>5, <4>1
      <4>3. s[f[k]] = Newline
        BY <4>1, <4>2 DEF EndsIn, n
      <4>4. u[f[k]] = Newline
        BY <1>5, <4>1, <4>3
      <4> QED
        BY <4>1, <4>2, <4>4 DEF EndsIn
    <3> QED
      BY <3>1, <3>2
  <2>2. ASSUME x \in EndsIn(u) PROVE \E k \in 1..p : x = v[k]
    <3>1. x \in 1..(n + 1) /\ (u[x] = Newline \/ x = n + 1)
      BY <1>5, <2>2 DEF EndsIn
    <3>2. CASE x = n + 1
      <4>1. p \in 1..p
        BY <1>2, <1>3
      <4> QED
        BY <1>7, <3>2, <4>1
    <3>3. CASE x # n + 1
      <4>1. x \in 1..n
        BY <1>1, <3>1, <3>3
      <4>2. s[x] = Newline
        BY <1>5, <3>1, <3>3, <4>1
      <4>3. x # n
        BY <1>1, <4>2
      <4>4. x \in EndsIn(s)
        BY <4>1, <4>2 DEF EndsIn, n
      <4>5. PICK k \in 1..p : x = f[k]
        BY <1>4, <4>4
      <4>6. k # p
        BY <1>3, <4>3, <4>5
      <4> QED
        BY <1>7, <4>5, <4>6
    <3> QED
      BY <3>2, <3>3
  <2> QED
    BY <2>1, <2>2
<1>11. Ends(u) = v
  <2>1. /\ Ends(u) \in Seq(Int) /\ Ascends(Ends(u))
        /\ \A x : x \in Elems(Ends(u)) <=> x \in EndsIn(u)
    BY EndsAre
  <2>2. \A x : x \in Elems(v) <=> \E k \in 1..p : x = v[k]
    BY <1>8 DEF Elems
  <2>3. \A x : x \in Elems(Ends(u)) <=> x \in Elems(v)
    BY <1>10, <2>1, <2>2
  <2> QED
    BY <1>8, <1>9, <2>1, <2>3, SameElems
<1>12. EndsLater(v, f, n)
  <2>1. \A k \in 1..p : k # p => v[k] = f[k] /\ f[k] < n
    BY <1>6, <1>7
  <2>2. \A k \in 1..p : k = p => v[k] = n + 1 /\ f[k] = n
    BY <1>3, <1>7
  <2> QED
    BY <1>8, <2>1, <2>2 DEF EndsLater, p
<1> QED
  BY <1>11, <1>12 DEF n, f

(* The lines l are the lines a, but for where the last one ends.           *)
LinesFinish(l, a, n) ==
    /\ Len(l) = Len(a)
    /\ \A k \in 1..Len(a) :
          /\ l[k].at = a[k].at /\ l[k].says = a[k].says
          /\ \/ a[k].next # n + 1 /\ l[k].next = a[k].next /\ k # Len(a)
             \/ a[k].next = n + 1 /\ l[k].next = n + 2 /\ k = Len(a)

LEMMA AppendIs ==
  ASSUME NEW s \in Seq(Tokens)
  PROVE  /\ Append(s, Newline) = s \o <<Newline>>
         /\ Append(s, Newline) \in Seq(Tokens)
         /\ Len(Append(s, Newline)) = Len(s) + 1
         /\ \A i \in 1..Len(s) : Append(s, Newline)[i] = s[i]
         /\ Append(s, Newline)[Len(s) + 1] = Newline
         /\ EndsLine(Append(s, Newline))
<1>1. Newline \in Tokens
  BY NotesAssumption DEF NotesAssumption
<1>2. /\ Append(s, Newline) \in Seq(Tokens)
      /\ Len(Append(s, Newline)) = Len(s) + 1
      /\ \A i \in 1..Len(s) : Append(s, Newline)[i] = s[i]
      /\ Append(s, Newline)[Len(s) + 1] = Newline
  BY <1>1, AppendProperties
<1>3. Append(s, Newline) = s \o <<Newline>>
  BY <1>1, AppendIsConcat
<1>4. Len(s) \in Nat
  BY LenProperties
<1>5. EndsLine(Append(s, Newline))
  BY <1>2, <1>4 DEF EndsLine
<1> QED
  BY <1>2, <1>3, <1>5

LEMMA FinishLines ==
  ASSUME NEW s \in Seq(Tokens), Unended(s)
  PROVE  LinesFinish(Lines(Append(s, Newline)), Lines(s), Len(s))
<1> DEFINE n == Len(s)
           u == Append(s, Newline)
           e == Ends(u)
           f == Ends(s)
           p == Len(f)
<1>1. /\ u = s \o <<Newline>> /\ u \in Seq(Tokens) /\ Len(u) = n + 1
      /\ \A i \in 1..n : u[i] = s[i]
      /\ u[n + 1] = Newline
  BY AppendIs
<1>2. <<Newline>> \in Seq(Tokens) /\ n \in Nat /\ n >= 1 /\ s[n] # Newline
  BY EmptyLine, LenProperties DEF Unended
<1> HIDE DEF u
<1>3. EndsLater(e, f, n)
  BY <1>1, FinishEnds
<1>4. /\ Len(Lines(u)) = Len(e)
      /\ \A k \in 1..Len(e) :
            /\ Lines(u)[k].at = From(e, k) /\ Lines(u)[k].next = e[k] + 1
            /\ Lines(u)[k].says = SubSeq(u, From(e, k), Until(u, e[k]))
  BY <1>1, LinesAt
<1>5. /\ Len(Lines(s)) = p
      /\ \A k \in 1..p :
            /\ Lines(s)[k].at = From(f, k) /\ Lines(s)[k].next = f[k] + 1
            /\ Lines(s)[k].says = SubSeq(s, From(f, k), Until(s, f[k]))
  BY LinesAt
<1>6. p \in Nat /\ \A k \in 1..p : f[k] \in 1..n
  BY EndsAre DEF EndsIn
<1> HIDE DEF e, f
<1>7. /\ Len(e) = p
      /\ \A k \in 1..p : /\ k # p => e[k] = f[k] /\ f[k] < n
                         /\ k = p => e[k] = n + 1 /\ f[k] = n
  BY <1>3 DEF EndsLater
<1> HIDE DEF p, n
<1>8. ASSUME NEW k \in 1..p
      PROVE  /\ From(e, k) = From(f, k)
             /\ From(f, k) \in Int /\ From(f, k) >= 1
             /\ Until(u, e[k]) = Until(s, f[k])
             /\ Until(s, f[k]) \in Int /\ Until(s, f[k]) <= n
  <2>1. From(e, k) = From(f, k) /\ From(f, k) \in Int /\ From(f, k) >= 1
    <3>1. CASE k = 1
      BY <3>1 DEF From
    <3>2. CASE k # 1
      <4>1. k - 1 \in 1..p /\ k - 1 # p
        BY <1>6, <3>2
      <4>2. e[k - 1] = f[k - 1] /\ f[k - 1] \in 1..n
        BY <1>6, <1>7, <4>1
      <4> QED
        BY <3>2, <4>2 DEF From
    <3> QED
      BY <3>1, <3>2
  <2>2. CASE k # p
    <3>1. e[k] = f[k] /\ f[k] \in 1..n
      BY <1>6, <1>7, <2>2
    <3>2. u[f[k]] = s[f[k]]
      BY <1>1, <3>1
    <3>3. Until(u, e[k]) = Until(s, f[k]) /\ Until(s, f[k]) \in Int
          /\ Until(s, f[k]) <= n
      BY <1>2, <3>1, <3>2 DEF Until
    <3> QED
      BY <2>1, <3>3
  <2>3. CASE k = p
    <3>1. e[k] = n + 1 /\ f[k] = n
      BY <1>7, <2>3
    <3>2. Until(u, e[k]) = n + 1 - 1 /\ Until(s, f[k]) = n
      BY <1>1, <1>2, <3>1 DEF Until
    <3>3. n + 1 - 1 = n
      BY <1>2
    <3> QED
      BY <1>2, <2>1, <3>2, <3>3
  <2> QED
    BY <2>2, <2>3
<1>9. ASSUME NEW k \in 1..p
      PROVE  /\ Lines(u)[k].at = Lines(s)[k].at
             /\ Lines(u)[k].says = Lines(s)[k].says
  <2>1. SubSeq(s \o <<Newline>>, From(f, k), Until(s, f[k]))
           = SubSeq(s, From(f, k), Until(s, f[k]))
    <3>1. /\ From(f, k) \in Int /\ From(f, k) >= 1
          /\ Until(s, f[k]) \in Int /\ Until(s, f[k]) <= Len(s)
      BY <1>8 DEF n
    <3> QED
      BY <1>2, <3>1, SubSeqLeft
  <2>2. Lines(u)[k].says = SubSeq(s \o <<Newline>>, From(f, k), Until(s, f[k]))
    BY <1>1, <1>4, <1>7, <1>8
  <2> QED
    BY <1>4, <1>5, <1>7, <1>8, <2>1, <2>2
<1>10. ASSUME NEW k \in 1..p
       PROVE  \/ /\ Lines(s)[k].next # n + 1 /\ k # p
                 /\ Lines(u)[k].next = Lines(s)[k].next
              \/ Lines(s)[k].next = n + 1 /\ Lines(u)[k].next = n + 2 /\ k = p
  <2>1. Lines(u)[k].next = e[k] + 1 /\ Lines(s)[k].next = f[k] + 1
    BY <1>4, <1>5, <1>7
  <2>2. CASE k # p
    <3>1. e[k] = f[k] /\ f[k] < n /\ f[k] \in 1..n
      BY <1>6, <1>7, <2>2
    <3>2. f[k] + 1 # n + 1
      BY <1>2, <3>1
    <3> QED
      BY <2>1, <2>2, <3>1, <3>2
  <2>3. CASE k = p
    <3>1. e[k] = n + 1 /\ f[k] = n /\ n + 1 + 1 = n + 2
      BY <1>2, <1>7, <2>3
    <3> QED
      BY <2>1, <2>3, <3>1
  <2> QED
    BY <2>2, <2>3
<1>11. Len(Lines(u)) = p /\ Len(Lines(s)) = p
  BY <1>4, <1>5, <1>7
<1>12. LinesFinish(Lines(u), Lines(s), n)
  BY <1>9, <1>10, <1>11 DEF LinesFinish
<1> QED
  BY <1>12 DEF u, n

(* Headings that differ in no more than where their bodies begin.          *)
Same(x, y) == /\ x.level = y.level /\ x.title = y.title
              /\ x.setext = y.setext /\ x.start = y.start

Alike(h, g, n) ==
    /\ Len(h) = Len(g)
    /\ \A i \in 1..Len(g) :
          /\ Same(h[i], g[i])
          /\ h[i].body = IF g[i].body = n + 1 THEN n + 2 ELSE g[i].body

LEMMA Finish ==
  ASSUME NEW s \in Seq(Tokens), Unended(s)
  PROVE  Alike(Headings(Append(s, Newline)), Headings(s), Len(s))
<1> DEFINE n == Len(s)
           u == Append(s, Newline)
           l == Lines(u)
           a == Lines(s)
           h == Headings(u)
           g == Headings(s)
           w == Where(a)
<1>1. u = s \o <<Newline>> /\ u \in Seq(Tokens)
  BY AppendIs
<1>2. <<Newline>> \in Seq(Tokens) /\ n \in Nat /\ n >= 1
  BY EmptyLine, LenProperties DEF Unended
<1>3. LinesFinish(l, a, n)
  BY FinishLines
<1>4. /\ Len(a) \in Nat /\ Len(a) >= 1
      /\ \A k \in 1..Len(a) : a[k].at \in 1..n
  <2>1. Len(a) \in Nat /\ \A k \in 1..Len(a) : a[k].at \in 1..n
    BY LinesAre DEF LinesShape
  <2>2. Len(a) >= 1
    BY <1>2, LinesAt, LastEnd
  <2> QED
    BY <2>1, <2>2
<1> HIDE DEF u
<1>5. Len(h) = Len(Where(l)) /\ \A i \in 1..Len(h) : h[i] = HeadingAt(u, l, Where(l)[i])
  BY <1>1, HeadingsLen
<1>6. Len(g) = Len(w) /\ \A i \in 1..Len(g) : g[i] = HeadingAt(s, a, w[i])
  BY HeadingsLen
<1>7. \A i \in 1..Len(w) : w[i] \in 1..Len(a) /\ Marks(a, w[i])
  BY <1>4, WhereIs
<1> HIDE DEF l, a, h, g, n, w
<1>8. StartsAs(l, a)
  BY <1>3, <1>4 DEF LinesFinish, StartsAs
<1>9. \A k \in 1..Len(a) : /\ Marks(l, k) <=> Marks(a, k)
                           /\ IsAtx(l, k) <=> IsAtx(a, k)
                           /\ StartLine(l, k) = StartLine(a, k)
  BY <1>8, StartMarks
<1>10. Where(l) = w
  <2>1. Len(l) = Len(a)
    BY <1>3 DEF LinesFinish
  <2>2. {k \in 1..Len(l) : Marks(l, k)} = {k \in 1..Len(a) : Marks(a, k)}
    BY <1>9, <2>1
  <2> QED
    BY <2>1, <2>2 DEF Where, w
<1>11. ASSUME NEW k \in 1..Len(a), Marks(a, k)
       PROVE  /\ Same(HeadingAt(u, l, k), HeadingAt(s, a, k))
              /\ HeadingAt(u, l, k).body =
                    IF HeadingAt(s, a, k).body = n + 1 THEN n + 2
                    ELSE HeadingAt(s, a, k).body
  <2> DEFINE j == StartLine(a, k)
             x == HeadingAt(u, l, k)
             y == HeadingAt(s, a, k)
  <2>1. j \in 1..Len(a)
    <3>1. k \in Nat \ {0}
      OBVIOUS
    <3>2. j \in 1..k
      BY <1>11, <3>1, StartLineIs
    <3> QED
      BY <1>4, <3>2
  <2>2. StartLine(l, k) = j /\ (IsAtx(l, k) <=> IsAtx(a, k))
    BY <1>9
  <2>3. /\ x.start = l[j].at /\ x.body = l[k].next
        /\ x.level = (IF IsAtx(l, k) THEN Level(l[k].says)
                                     ELSE UnderLevel(l[k].says))
        /\ x.setext = ~IsAtx(l, k)
        /\ x.title = IF IsAtx(l, k) THEN Tail(l[k].says)
                     ELSE SubSeq(u, l[j].at, l[k].at - 2)
    BY <2>2, HeadingAtIs
  <2>4. /\ y.start = a[j].at /\ y.body = a[k].next
        /\ y.level = (IF IsAtx(a, k) THEN Level(a[k].says)
                                     ELSE UnderLevel(a[k].says))
        /\ y.setext = ~IsAtx(a, k)
        /\ y.title = IF IsAtx(a, k) THEN Tail(a[k].says)
                     ELSE SubSeq(s, a[j].at, a[k].at - 2)
    BY HeadingAtIs
  <2> HIDE DEF j, x, y
  <2>5. l[j].at = a[j].at /\ l[k].at = a[k].at /\ l[k].says = a[k].says
    BY <1>3, <2>1 DEF LinesFinish
  <2>6. SubSeq(u, a[j].at, a[k].at - 2) = SubSeq(s, a[j].at, a[k].at - 2)
    <3>1. PICK b, c : b = a[j].at /\ c = a[k].at - 2
      OBVIOUS
    <3>2. b \in Int /\ c \in Int /\ b >= 1 /\ c <= Len(s)
      BY <1>2, <1>4, <2>1, <3>1 DEF n
    <3>3. SubSeq(s \o <<Newline>>, b, c) = SubSeq(s, b, c)
      BY <1>2, <3>2, SubSeqLeft
    <3> QED
      BY <1>1, <3>1, <3>3
  <2>7. x.level = y.level /\ x.title = y.title /\ x.setext = y.setext
    <3>1. CASE IsAtx(a, k)
      BY <2>2, <2>3, <2>4, <2>5, <3>1
    <3>2. CASE ~IsAtx(a, k)
      BY <2>2, <2>3, <2>4, <2>5, <2>6, <3>2
    <3> QED
      BY <3>1, <3>2
  <2>8. \/ a[k].next # n + 1 /\ l[k].next = a[k].next
        \/ a[k].next = n + 1 /\ l[k].next = n + 2
    BY <1>3 DEF LinesFinish
  <2>9. x.body = IF y.body = n + 1 THEN n + 2 ELSE y.body
    BY <2>3, <2>4, <2>8
  <2> QED
    BY <2>3, <2>4, <2>5, <2>7, <2>9 DEF Same, x, y
<1>12. Alike(h, g, n)
  <2>1. Len(h) = Len(g)
    BY <1>5, <1>6, <1>10
  <2>2. ASSUME NEW i \in 1..Len(g)
        PROVE  /\ Same(h[i], g[i])
               /\ h[i].body = IF g[i].body = n + 1 THEN n + 2 ELSE g[i].body
    BY <1>5, <1>6, <1>7, <1>10, <1>11, <2>1
  <2> QED
    BY <2>1, <2>2 DEF Alike
<1> QED
  BY <1>12 DEF h, g, n, u

-----------------------------------------------------------------------------
(* A note is cut after a heading, and before one.                          *)
LEMMA LastLine ==
  ASSUME NEW s \in Seq(Tokens), Len(s) >= 1
  PROVE  /\ Len(Lines(s)) \in Nat \ {0}
         /\ Lines(s)[Len(Lines(s))].next = Len(s) + 1
<1> DEFINE e == Ends(s)
           n == Len(e)
<1>1. n \in Nat /\ n >= 1 /\ e[n] = Len(s)
  BY EndsAre, LastEnd
<1>2. /\ Len(Lines(s)) = n
      /\ \A k \in 1..n : Lines(s)[k].next = e[k] + 1
  BY LinesAt
<1> HIDE DEF n, e
<1>3. n \in 1..n
  BY <1>1
<1>4. Lines(s)[n].next = Len(s) + 1
  BY <1>1, <1>2, <1>3
<1> QED
  BY <1>1, <1>2, <1>4

LEMMA OneLine ==
  ASSUME NEW s \in Seq(Tokens), NEW j \in 1..Len(Lines(s)),
         NEW k \in 1..Len(Lines(s)), Lines(s)[j].next = Lines(s)[k].next
  PROVE  j = k
<1> DEFINE l == Lines(s)
           n == Len(l)
<1>1. /\ Len(s) \in Nat /\ n \in Nat
      /\ \A i \in 1..n : /\ l[i].at \in 1..Len(s)
                         /\ l[i].next \in 1..(Len(s) + 1)
                         /\ l[i].at < l[i].next
      /\ \A h, i \in 1..n : h < i => l[h].next <= l[i].at
  BY LinesAre DEF LinesShape
<1>2. l[j].next = l[k].next /\ j \in 1..n /\ k \in 1..n
  OBVIOUS
<1> HIDE DEF l, n
<1>3. ~(j < k)
  <2>1. SUFFICES ASSUME j < k PROVE FALSE
    OBVIOUS
  <2>2. l[j].next <= l[k].at /\ l[k].at < l[k].next
    BY <1>1, <1>2, <2>1
  <2>3. l[j].next \in Int /\ l[k].at \in Int /\ l[k].next \in Int
    BY <1>1, <1>2
  <2> QED
    BY <1>2, <2>2, <2>3
<1>4. ~(k < j)
  <2>1. SUFFICES ASSUME k < j PROVE FALSE
    OBVIOUS
  <2>2. l[k].next <= l[j].at /\ l[j].at < l[j].next
    BY <1>1, <1>2, <2>1
  <2>3. l[k].next \in Int /\ l[j].at \in Int /\ l[j].next \in Int
    BY <1>1, <1>2
  <2> QED
    BY <1>2, <2>2, <2>3
<1> QED
  BY <1>1, <1>2, <1>3, <1>4

(* The line of the whole that ends where the first part does.              *)
LEMMA SeamLine ==
  ASSUME NEW s \in Seq(Tokens), NEW t \in Seq(Tokens), EndsLine(s),
         NEW k \in 1..Len(Lines(s \o t)),
         Lines(s \o t)[k].next = Len(s) + 1
  PROVE  k = Len(Lines(s))
<1> DEFINE n == Len(Lines(s))
<1>1. s \o t \in Seq(Tokens)
  BY ConcatProperties
<1>2. n \in Nat \ {0} /\ Lines(s)[n].next = Len(s) + 1
  BY LastLine DEF EndsLine
<1>3. n \in 1..n /\ n \in 1..Len(Lines(s \o t))
  BY <1>2, LinesStart
<1>4. Lines(s \o t)[n].next = Lines(s)[n].next
  BY <1>3, LinesJoin DEF LinesFollow
<1>5. Lines(s \o t)[n].next = Lines(s \o t)[k].next
  BY <1>2, <1>4
<1> HIDE DEF n
<1>6. k = n
  <2> DEFINE u == s \o t
  <2>1. u \in Seq(Tokens) /\ k \in 1..Len(Lines(u)) /\ n \in 1..Len(Lines(u))
    BY <1>1, <1>3
  <2>2. Lines(u)[k].next = Lines(u)[n].next
    BY <1>5
  <2> HIDE DEF u
  <2> QED
    BY <2>1, <2>2, OneLine
<1> QED
  BY <1>6 DEF n

(* A text after which no paragraph goes on.                                *)
Stops(s) == Settled(s) /\ ~IsText(Lines(s), Len(Lines(s)))

LEMMA StopsBreaks ==
  ASSUME NEW s \in Seq(Tokens), NEW t \in Seq(Tokens), Stops(s)
  PROVE  Breaks(Lines(s \o t), Len(Lines(s)))
<1> DEFINE l == Lines(s \o t)
           a == Lines(s)
           n == Len(a)
<1>1. StartsAs(l, a) /\ n \in Nat \ {0}
  BY LinesStart DEF Stops, Settled
<1>2. n \in 1..n
  BY <1>1
<1>3. SameKind(l, n, a, n)
  BY <1>1, <1>2, StartKinds
<1>4. IsText(l, n) <=> IsText(a, n)
  BY <1>3 DEF SameKind
<1> QED
  BY <1>4, Zenon DEF Breaks, Stops

LEMMA Strings ==
  /\ Rule # Fence /\ Equals # Fence /\ Rule # Equals
  /\ \A n \in 1..6 : Hashes[n] # Fence /\ Hashes[n] # Rule /\ Hashes[n] # Equals
<1>1. Rule # Fence /\ Equals # Fence /\ Rule # Equals
  BY DEF Fence, Rule, Equals
<1>2. ASSUME NEW n \in 1..6
      PROVE  Hashes[n] \in {"#", "##", "###", "####", "#####", "######"}
  BY DEF Hashes
<1>3. \A x \in {"#", "##", "###", "####", "#####", "######"} :
         x # Fence /\ x # Rule /\ x # Equals
  BY DEF Fence, Rule, Equals
<1> QED
  BY <1>1, <1>2, <1>3

LEMMA LevelIs ==
  ASSUME NEW c, Level(c) > 0
  PROVE  c # <<>> /\ c[1] # Fence /\ c \notin Underlines
<1>1. c # <<>> /\ \E n \in 1..6 : c[1] = Hashes[n]
  <2>1. Level(c) # 0
    OBVIOUS
  <2> QED
    BY <2>1, Zenon DEF Level
<1>2. c[1] # Fence /\ c[1] # Rule /\ c[1] # Equals
  BY <1>1, Strings
<1>3. c # <<Rule>> /\ c # <<Equals>>
  BY <1>2
<1> QED
  BY <1>1, <1>2, <1>3 DEF Underlines

LEMMA MarkStops ==
  ASSUME NEW l, NEW n \in Nat \ {0}, Len(l) = n, Marks(l, n)
  PROVE  Clear(l, n) /\ ~IsText(l, n)
<1>1. /\ Seen(l, n)
      /\ \/ Level(l[n].says) > 0
         \/ l[n].says \in Underlines /\ IsText(l, n - 1)
  BY Zenon DEF Marks, IsAtx, IsUnder
<1>2. ~InFrontmatter(l, n) /\ ~OpenFence(l)[n - 1]
  BY <1>1 DEF Seen
<1>3. ~InFrontmatter(l, n + 1)
  <2>1. n + 1 \in Nat /\ n <= n + 1
    OBVIOUS
  <2> QED
    BY <1>2, <2>1, OnceOut
<1>4. ~(l[n].says # <<>> /\ l[n].says[1] = Fence)
  <2>1. CASE Level(l[n].says) > 0
    BY <2>1, LevelIs
  <2>2. CASE l[n].says \in Underlines
    <3>1. l[n].says[1] = Rule \/ l[n].says[1] = Equals
      BY <2>2 DEF Underlines
    <3> QED
      BY <3>1, Strings
  <2> QED
    BY <1>1, <2>1, <2>2
<1>5. OpenFence(l)[n] = FALSE
  <2>1. Len(l) \in Nat
    OBVIOUS
  <2>2. Fencing(l, Len(l), OpenFence(l))
    BY <2>1, FencesAre
  <2>3. n \in 1..Len(l)
    OBVIOUS
  <2>4. OpenFence(l)[n] = FenceAfter(l, OpenFence(l)[n - 1], n)
    BY <2>2, <2>3, Zenon DEF Fencing
  <2>5. FenceAfter(l, OpenFence(l)[n - 1], n) = FALSE
    BY <1>2, <1>4, Zenon DEF FenceAfter
  <2> QED
    BY <2>4, <2>5
<1>6. ~IsText(l, n)
  <2>1. SUFFICES ASSUME IsText(l, n) PROVE FALSE
    OBVIOUS
  <2>2. Len(l) \in Nat /\ n \in 1..Len(l)
    OBVIOUS
  <2>3. /\ l[n].says # <<Rule>> /\ Level(l[n].says) = 0
        /\ ~(l[n].says = <<Equals>> /\ IsText(l, n - 1))
    BY <2>1, <2>2, TextSays
  <2>4. ~(Level(l[n].says) > 0)
    BY <2>3
  <2> QED
    BY <1>1, <2>3, <2>4, Zenon DEF Underlines
<1> QED
  BY <1>3, <1>5, <1>6 DEF Clear

LEMMA MarkedStops ==
  ASSUME NEW s \in Seq(Tokens), EndsLine(s), Marks(Lines(s), Len(Lines(s)))
  PROVE  Stops(s)
<1>1. Len(Lines(s)) \in Nat \ {0}
  BY LastLine DEF EndsLine
<1>2. Clear(Lines(s), Len(Lines(s))) /\ ~IsText(Lines(s), Len(Lines(s)))
  <2> DEFINE l == Lines(s)
             n == Len(l)
  <2>1. n \in Nat \ {0} /\ Marks(l, n)
    BY <1>1
  <2> HIDE DEF l
  <2>2. Clear(l, n) /\ ~IsText(l, n)
    BY <2>1, MarkStops
  <2> QED
    BY <2>2 DEF l
<1> QED
  BY <1>2 DEF Stops, Settled

(* Heading k is on a line of its own.                                      *)
LEMMA HeadingLine ==
  ASSUME NEW s \in Seq(Tokens), NEW k \in 1..Len(Headings(s))
  PROVE  \E m \in 1..Len(Lines(s)) :
            /\ Marks(Lines(s), m)
            /\ Headings(s)[k].body = Lines(s)[m].next
            /\ Headings(s)[k].start = Lines(s)[StartLine(Lines(s), m)].at
            /\ Headings(s)[k].setext = ~IsAtx(Lines(s), m)
<1> DEFINE l == Lines(s)
           m == Where(l)[k]
<1>1. Len(l) \in Nat
  BY LinesAre DEF LinesShape
<1>2. k \in 1..Len(Where(l)) /\ Headings(s)[k] = HeadingAt(s, l, m)
  BY HeadingsLen
<1> HIDE DEF l
<1>3. m \in 1..Len(l) /\ Marks(l, m)
  BY <1>1, <1>2, WhereIs
<1>4. /\ HeadingAt(s, l, m).start = l[StartLine(l, m)].at
      /\ HeadingAt(s, l, m).body = l[m].next
      /\ HeadingAt(s, l, m).setext = ~IsAtx(l, m)
  BY HeadingAtIs
<1> HIDE DEF m
<1> QED
  BY <1>2, <1>3, <1>4 DEF l

LEMMA SplitAt ==
  ASSUME NEW s \in Seq(Tokens), NEW m \in 0..Len(s)
  PROVE  /\ SubSeq(s, 1, m) \in Seq(Tokens) /\ Len(SubSeq(s, 1, m)) = m
         /\ \A i \in 1..m : SubSeq(s, 1, m)[i] = s[i]
         /\ SubSeq(s, m + 1, Len(s)) \in Seq(Tokens)
         /\ Len(SubSeq(s, m + 1, Len(s))) = Len(s) - m
         /\ SubSeq(s, 1, m) \o SubSeq(s, m + 1, Len(s)) = s
<1>1. Len(s) \in Nat /\ m \in Int /\ Len(s) \in Int /\ m + 1 \in Int /\ m <= Len(s)
  BY LenProperties
<1>2. /\ 1 \in 1..(Len(s) + 1) /\ m \in (1 - 1)..Len(s) /\ Len(s) \in m..Len(s)
      /\ m \in 0..Len(s) /\ m + 1 \in 1..(Len(s) + 1) /\ Len(s) \in 0..Len(s)
  BY <1>1
<1>3. SubSeq(s, 1, m) \in Seq(Tokens) /\ SubSeq(s, m + 1, Len(s)) \in Seq(Tokens)
  BY <1>2, SubSeqIs
<1>4. \A i \in 1..m : i \in 1..Len(s)
  BY <1>1
<1>5. \A i \in (m + 1)..Len(s) : i \in 1..Len(s)
  BY <1>1
<1>6. (\A i \in 1..m : s[i] \in Tokens) /\ (\A i \in (m + 1)..Len(s) : s[i] \in Tokens)
  BY <1>4, <1>5, ElementOfSeq
<1>7. /\ Len(SubSeq(s, 1, m)) = IF 1 <= m THEN m - 1 + 1 ELSE 0
      /\ \A i \in 1..(m - 1 + 1) : SubSeq(s, 1, m)[i] = s[1 + i - 1]
  BY <1>1, <1>6, SubSeqProperties
<1>8. Len(SubSeq(s, m + 1, Len(s))) =
         IF m + 1 <= Len(s) THEN Len(s) - (m + 1) + 1 ELSE 0
  BY <1>1, <1>6, SubSeqProperties
<1>9. Len(SubSeq(s, 1, m)) = m /\ Len(SubSeq(s, m + 1, Len(s))) = Len(s) - m
  BY <1>1, <1>7, <1>8
<1>10. ASSUME NEW i \in 1..m PROVE SubSeq(s, 1, m)[i] = s[i]
  <2>1. i \in 1..(m - 1 + 1) /\ 1 + i - 1 = i
    BY <1>1
  <2> QED
    BY <1>7, <2>1
<1>11. SubSeq(s, 1, m) \o SubSeq(s, m + 1, Len(s)) = SubSeq(s, 1, Len(s))
  BY <1>2, ConcatAdjacentSubSeq
<1>12. SubSeq(s, 1, Len(s)) = s
  BY SubSeqFull
<1> QED
  BY <1>3, <1>9, <1>10, <1>11, <1>12

(* The headings f are the first k of h, wherever their bodies begin.       *)
Upon(f, h, k) == Len(f) = k /\ \A i \in 1..k : Same(f[i], h[i])

LEMMA CutEnded ==
  ASSUME NEW p \in Seq(Tokens), NEW r \in Seq(Tokens), EndsLine(p),
         NEW k \in 1..Len(Headings(p \o r)),
         Headings(p \o r)[k].body = Len(p) + 1
  PROVE  /\ Stops(p) /\ Upon(Headings(p), Headings(p \o r), k)
         /\ Headings(p)[k].body = Len(p) + 1
<1> DEFINE s == p \o r
           l == Lines(s)
           n == Len(Lines(p))
           h == Headings(s)
           f == Headings(p)
           g == Inside(r)
<1>1. s \in Seq(Tokens) /\ k \in 1..Len(h) /\ h[k].body = Len(p) + 1
  BY ConcatProperties
<1> HIDE DEF h, s
<1>2. PICK m \in 1..Len(l) : Marks(l, m) /\ h[k].body = l[m].next
  BY <1>1, HeadingLine DEF h
<1>3. m = n
  BY <1>1, <1>2, SeamLine DEF s
<1>4. StartsAs(l, Lines(p)) /\ n \in Nat \ {0}
  BY LinesStart DEF s
<1>5. Stops(p)
  <2>1. n \in 1..n
    BY <1>4
  <2>2. Marks(Lines(p), n)
    BY <1>2, <1>3, <1>4, <2>1, StartMarks
  <2> QED
    BY <2>2, MarkedStops
<1>6. /\ HeadsFollow(h, f, g, Len(p) - 1)
      /\ \A j \in 1..Len(g) : g[j].start >= 2
  <2>1. Settled(p) /\ Breaks(Lines(p \o r), Len(Lines(p)))
    BY <1>5, StopsBreaks DEF Stops
  <2> QED
    BY <2>1, HeadingsJoin DEF h, s
<1>7. Len(p) \in Nat /\ Len(p) >= 1
  BY LenProperties DEF EndsLine
<1>8. HeadingShape(s, h) /\ HeadingShape(p, f)
  BY <1>1, HeadingsAre DEF h
<1>9. HeadingShape(<<Newline>> \o r, g)
  <2>1. <<Newline>> \o r \in Seq(Tokens)
    BY EmptyLine, ConcatProperties
  <2> QED
    BY <2>1, HeadingsAre DEF Inside
<1> HIDE DEF f, g
<1>10. /\ Len(h) \in Nat
       /\ \A i \in 1..Len(h) : /\ h[i].start \in Int /\ h[i].body \in Int
                               /\ h[i].start < h[i].body
       /\ \A i, j \in 1..Len(h) : i < j => h[i].body <= h[j].start
  BY <1>8 DEF HeadingShape, Levelled
<1>11. Len(f) \in Nat /\ \A i \in 1..Len(f) : f[i].start \in 1..Len(p)
  BY <1>8 DEF HeadingShape, Levelled
<1>12. Len(g) \in Nat /\ \A i \in 1..Len(g) : g[i].start \in Int
  BY <1>9 DEF HeadingShape, Levelled
<1>13. /\ Len(h) = Len(f) + Len(g) /\ \A i \in 1..Len(f) : h[i] = f[i]
       /\ \A j \in 1..Len(g) : h[Len(f) + j].start = g[j].start + (Len(p) - 1)
  BY <1>6 DEF HeadsFollow, Moved
<1>14. ~(k > Len(f))
  <2>1. SUFFICES ASSUME k > Len(f) PROVE FALSE
    OBVIOUS
  <2>2. PICK j \in 1..Len(g) : k = Len(f) + j
    <3>1. k - Len(f) \in 1..Len(g) /\ k = Len(f) + (k - Len(f))
      BY <1>1, <1>11, <1>12, <1>13, <2>1
    <3> QED
      BY <3>1
  <2>3. h[k].start = g[j].start + (Len(p) - 1) /\ g[j].start >= 2 /\ g[j].start \in Int
    BY <1>6, <1>12, <1>13, <2>2
  <2>4. h[k].start < Len(p) + 1
    BY <1>1, <1>10
  <2> QED
    BY <1>7, <2>3, <2>4
<1>15. ~(k < Len(f))
  <2>1. SUFFICES ASSUME k < Len(f) PROVE FALSE
    OBVIOUS
  <2>2. PICK i \in 1..Len(f) : i = k + 1
    BY <1>1, <1>11, <2>1
  <2>3. i \in 1..Len(h) /\ k < i
    BY <1>1, <1>11, <1>12, <1>13, <2>2
  <2>4. Len(p) + 1 <= h[i].start
    BY <1>1, <1>10, <2>3
  <2>5. h[i].start \in 1..Len(p)
    BY <1>11, <1>13
  <2> QED
    BY <1>7, <2>4, <2>5
<1>16. Len(f) = k
  BY <1>1, <1>11, <1>14, <1>15
<1>17. Upon(f, h, k)
  BY <1>13, <1>16 DEF Upon, Same
<1>18. f[k].body = Len(p) + 1
  <2>1. k \in 1..Len(f)
    BY <1>1, <1>16
  <2> QED
    BY <1>1, <1>13, <2>1
<1> QED
  BY <1>5, <1>17, <1>18 DEF h, f, s

LEMMA CutUnended ==
  ASSUME NEW s \in Seq(Tokens), Unended(s), NEW k \in 1..Len(Headings(s)),
         Headings(s)[k].body = Len(s) + 1
  PROVE  /\ k = Len(Headings(s)) /\ Stops(Append(s, Newline))
         /\ Upon(Headings(Append(s, Newline)), Headings(s), k)
         /\ Headings(Append(s, Newline))[k].body = Len(Append(s, Newline)) + 1
<1> DEFINE u == Append(s, Newline)
           l == Lines(u)
           a == Lines(s)
           h == Headings(s)
           f == Headings(u)
<1>1. u \in Seq(Tokens) /\ Len(u) = Len(s) + 1 /\ EndsLine(u)
  BY AppendIs
<1>2. LinesFinish(l, a, Len(s)) /\ Alike(f, h, Len(s))
  BY FinishLines, Finish
<1>3. /\ Len(s) \in Nat
      /\ Len(h) \in Nat
      /\ \A i \in 1..Len(h) : h[i].start \in 1..Len(s)
      /\ \A i, j \in 1..Len(h) : i < j => h[i].body <= h[j].start
  BY HeadingsAre DEF HeadingShape, Levelled
<1>4. k \in 1..Len(h) /\ h[k].body = Len(s) + 1
  OBVIOUS
<1>5. PICK m \in 1..Len(a) : Marks(a, m) /\ h[k].body = a[m].next
  BY HeadingLine
<1>13. Len(a) \in Nat \ {0}
  BY LastLine DEF Unended
<1> HIDE DEF u, h, f, l, a
<1>6. k = Len(h)
  <2>1. SUFFICES ASSUME k # Len(h) PROVE FALSE
    OBVIOUS
  <2>2. PICK i \in 1..Len(h) : i = k + 1
    BY <1>3, <1>4, <2>1
  <2>3. k < i
    BY <1>4, <2>2
  <2>4. Len(s) + 1 <= h[i].start /\ h[i].start \in 1..Len(s)
    BY <1>3, <1>4, <2>3
  <2> QED
    BY <1>3, <2>4
<1>7. m = Len(a) /\ Len(l) = Len(a)
  BY <1>2, <1>4, <1>5 DEF LinesFinish
<1>8. StartsAs(l, a)
  BY <1>2, <1>13 DEF LinesFinish, StartsAs
<1>9. Marks(l, Len(l))
  <2>1. m \in 1..Len(a)
    OBVIOUS
  <2>2. Marks(l, m) <=> Marks(a, m)
    BY <1>8, <2>1, StartMarks
  <2> QED
    BY <1>5, <1>7, <2>2
<1>10. Stops(u)
  BY <1>1, <1>9, MarkedStops DEF l
<1>11. Upon(f, h, k)
  BY <1>2, <1>6 DEF Alike, Upon
<1>12. f[k].body = Len(u) + 1
  <2>1. f[k].body = Len(s) + 2
    BY <1>2, <1>4 DEF Alike
  <2> QED
    BY <1>1, <1>3, <2>1
<1> QED
  BY <1>6, <1>10, <1>11, <1>12 DEF u, h, f

(* The text p is the note s up to the body of section k.                    *)
IsCut(s, k, p) ==
    /\ p \in Seq(Tokens) /\ Upon(Headings(p), Headings(s), k)
    /\ Headings(p)[k].body = Len(p) + 1
    /\ Ended(p) \in Seq(Tokens) /\ Stops(Ended(p))
    /\ Upon(Headings(Ended(p)), Headings(s), k)
    /\ Headings(Ended(p))[k].body = Len(Ended(p)) + 1
    /\ Ended(p) = p \/ k = Len(Headings(s))

LEMMA CutAfter ==
  ASSUME NEW s \in Seq(Tokens), NEW k \in 1..Len(Headings(s)),
         NEW p, p = SubSeq(s, 1, Headings(s)[k].body - 1)
  PROVE  IsCut(s, k, p)
<1> DEFINE h == Headings(s)
           m == h[k].body - 1
           r == SubSeq(s, m + 1, Len(s))
<1>1. Len(s) \in Nat /\ HeadingShape(s, h)
  BY HeadingsAre
<1>2. /\ h[k].start \in 1..Len(s) /\ h[k].body \in 1..(Len(s) + 1)
      /\ h[k].start < h[k].body
  BY <1>1 DEF HeadingShape
<1>3. m \in 0..Len(s) /\ m >= 1 /\ h[k].body = m + 1
  BY <1>1, <1>2
<1>4. p = SubSeq(s, 1, m) /\ k \in 1..Len(h)
  OBVIOUS
<1> HIDE DEF m, h
<1>5. /\ p \in Seq(Tokens) /\ Len(p) = m /\ \A i \in 1..m : p[i] = s[i]
      /\ r \in Seq(Tokens) /\ p \o r = s
  <2>1. m \in 0..Len(s)
    BY <1>3
  <2>2. /\ SubSeq(s, 1, m) \in Seq(Tokens) /\ Len(SubSeq(s, 1, m)) = m
        /\ \A i \in 1..m : SubSeq(s, 1, m)[i] = s[i]
        /\ r \in Seq(Tokens) /\ SubSeq(s, 1, m) \o r = s
    BY <2>1, SplitAt
  <2> HIDE DEF r
  <2> QED
    BY <1>4, <2>2
<1> HIDE DEF r
<1>6. m \in 1..m /\ m \in Nat
  BY <1>3
<1>7. Ended(p) = IF p[m] = Newline THEN p ELSE Append(p, Newline)
  BY <1>5 DEF Ended, Last
<1>8. CASE p[m] = Newline
  <2>1. EndsLine(p)
    BY <1>3, <1>5, <1>8 DEF EndsLine
  <2>2. /\ Stops(p) /\ Upon(Headings(p), Headings(p \o r), k)
        /\ Headings(p)[k].body = Len(p) + 1
    <3>1. k \in 1..Len(Headings(p \o r)) /\ Headings(p \o r)[k].body = Len(p) + 1
      BY <1>3, <1>4, <1>5 DEF h
    <3> QED
      BY <1>5, <2>1, <3>1, CutEnded
  <2>3. Ended(p) = p
    BY <1>7, <1>8
  <2>4. Upon(Headings(p), Headings(s), k)
    BY <1>5, <2>2
  <2> QED
    BY <1>5, <2>2, <2>3, <2>4 DEF IsCut
<1>9. CASE p[m] # Newline
  <2>1. s[m] # Newline
    BY <1>5, <1>6, <1>9
  <2>2. m = Len(s)
    <3>1. PICK j \in 1..Len(Lines(s)) : h[k].body = Lines(s)[j].next
      BY HeadingLine DEF h
    <3>2. Lines(s)[j].next = Ends(s)[j] + 1 /\ Ends(s)[j] \in EndsIn(s)
      BY LinesAt, EndsAre
    <3>3. Ends(s)[j] \in Int
      BY <1>1, <3>2 DEF EndsIn
    <3>4. Ends(s)[j] = m
      BY <1>3, <1>6, <3>1, <3>2, <3>3
    <3> QED
      BY <2>1, <3>2, <3>4 DEF EndsIn
  <2>3. p = s
    <3>1. SubSeq(s, 1, Len(s)) = s
      BY SubSeqFull
    <3> QED
      BY <1>4, <2>2, <3>1
  <2>4. Unended(s)
    BY <1>3, <2>1, <2>2 DEF Unended
  <2>5. /\ k = Len(h) /\ Stops(Append(s, Newline))
        /\ Upon(Headings(Append(s, Newline)), h, k)
        /\ Headings(Append(s, Newline))[k].body = Len(Append(s, Newline)) + 1
    <3>1. k \in 1..Len(Headings(s)) /\ Headings(s)[k].body = Len(s) + 1
      BY <1>3, <1>4, <2>2 DEF h
    <3> QED
      BY <2>4, <3>1, CutUnended DEF h
  <2>6. Upon(h, h, k)
    BY <2>5 DEF Upon, Same
  <2>7. Ended(p) = Append(s, Newline) /\ Append(s, Newline) \in Seq(Tokens)
    BY <1>7, <1>9, <2>3, AppendIs
  <2>8. Headings(p)[k].body = Len(p) + 1
    BY <1>3, <2>2, <2>3 DEF h
  <2> QED
    BY <1>5, <2>3, <2>5, <2>6, <2>7, <2>8 DEF IsCut, h
<1> QED
  BY <1>8, <1>9

Like(x, y) == x.level = y.level /\ x.title = y.title

(* The headings of r are those of h after the first n.                     *)
Rests(r, h, n) == /\ Len(h) = n + Len(r) /\ Len(r) >= 1
                  /\ \A j \in 1..Len(r) : Like(h[n + j], r[j])
                  /\ r[1].start = 2

LEMMA SplitLine ==
  ASSUME NEW s \in Seq(Tokens), NEW x \in 1..Len(Lines(s)), Lines(s)[x].at > 1
  PROVE  /\ x > 1 /\ x - 1 \in 1..Len(Lines(s))
         /\ Lines(s)[x - 1].next = Lines(s)[x].at
         /\ s[Lines(s)[x].at - 1] = Newline
<1> DEFINE e == Ends(s)
           n == Len(e)
<1>1. /\ n \in Nat /\ \A k \in 1..n : e[k] \in EndsIn(s)
      /\ \A i, j \in 1..n : i < j => e[i] < e[j]
  BY EndsAre DEF Ascends
<1>2. /\ Len(Lines(s)) = n
      /\ \A k \in 1..n : Lines(s)[k].at = From(e, k) /\ Lines(s)[k].next = e[k] + 1
  BY LinesAt
<1> HIDE DEF n, e
<1>3. x \in 1..n /\ From(e, x) > 1
  BY <1>2
<1>4. x # 1
  BY <1>3 DEF From
<1>5. PICK y \in 1..n : y = x - 1
  BY <1>1, <1>3, <1>4
<1>6. From(e, x) = e[y] + 1
  BY <1>4, <1>5 DEF From
<1>7. e[y] < e[x] /\ e[y] \in EndsIn(s) /\ e[x] \in EndsIn(s)
  BY <1>1, <1>3, <1>5
<1>8. e[y] \in 1..Len(s) /\ e[x] \in 1..Len(s) /\ Len(s) \in Nat
  BY <1>7, LenProperties DEF EndsIn
<1>9. e[y] # Len(s) /\ e[y] + 1 - 1 = e[y]
  BY <1>7, <1>8
<1>10. s[e[y]] = Newline
  BY <1>7, <1>9 DEF EndsIn
<1>11. Lines(s)[x].at = e[y] + 1 /\ Lines(s)[y].next = e[y] + 1
  BY <1>2, <1>3, <1>5, <1>6
<1>12. x > 1 /\ y \in 1..Len(Lines(s)) /\ y = x - 1
  BY <1>2, <1>3, <1>4, <1>5
<1>13. Lines(s)[x - 1].next = Lines(s)[x].at
  BY <1>11, <1>12
<1>14. s[Lines(s)[x].at - 1] = Newline
  <2>1. PICK z : z = Lines(s)[x].at
    OBVIOUS
  <2>2. z = e[y] + 1 /\ e[y] \in Int
    BY <1>8, <1>11, <2>1
  <2>3. z - 1 = e[y]
    BY <2>2
  <2>4. s[z - 1] = Newline
    BY <1>10, <2>3
  <2> QED
    BY <2>1, <2>4
<1> QED
  BY <1>12, <1>13, <1>14

(* Where a heading begins, nothing is open, and no paragraph goes on.      *)
LEMMA StartIsFree ==
  ASSUME NEW l, Len(l) \in Nat, NEW m \in 1..Len(l), Marks(l, m),
         NEW x, x = StartLine(l, m), x > 1
  PROVE  /\ Clear(l, x - 1) /\ Breaks(l, x - 1)
         /\ IsAtx(l, m) => Level(l[x].says) > 0
<1>1. /\ x \in 1..m /\ TextFrom(l, x, m)
      /\ ~IsAtx(l, m) => /\ x \in 1..(m - 1)
                         /\ \A j \in 1..(m - 1) : TextFrom(l, j, m) => x <= j
  <2>1. m \in Nat \ {0}
    OBVIOUS
  <2> QED
    BY <2>1, StartLineIs
<1>2. PICK y \in 1..Len(l) : y = x - 1 /\ y + 1 = x
  BY <1>1
<1>3. ASSUME Seen(l, x) PROVE Clear(l, y)
  <2>1. OpenFence(l)[y] \in BOOLEAN
    <3>1. y \in 0..Len(l)
      OBVIOUS
    <3> QED
      BY <3>1, FencesAre
  <2>2. ~InFrontmatter(l, y + 1) /\ ~OpenFence(l)[y]
    BY <1>2, <1>3 DEF Seen
  <2>3. OpenFence(l)[y] = FALSE
    BY <2>1, <2>2
  <2> QED
    BY <2>2, <2>3, Zenon DEF Clear
<1>4. CASE IsAtx(l, m)
  <2>1. x = m
    BY <1>4 DEF StartLine
  <2>2. Seen(l, x) /\ Level(l[x].says) > 0
    BY <1>4, <2>1 DEF IsAtx
  <2>3. l[x].says \notin Underlines /\ ~IsText(l, x)
    <3>1. Level(l[x].says) # 0
      BY <2>2
    <3>2. l[x].says \notin Underlines
      BY <2>2, LevelIs
    <3> QED
      BY <2>1, <3>1, <3>2, TextSays, Zenon
  <2>4. Breaks(l, y)
    BY <1>2, <2>3, Zenon DEF Breaks
  <2>5. Clear(l, y)
    BY <1>3, <2>2
  <2> QED
    BY <1>2, <2>2, <2>4, <2>5
<1>5. CASE ~IsAtx(l, m)
  <2>1. /\ x \in 1..(m - 1) /\ TextFrom(l, x, m)
        /\ \A j \in 1..(m - 1) : TextFrom(l, j, m) => x <= j
    BY <1>1, <1>5
  <2>2. IsText(l, x)
    <3>1. x \in x..(m - 1)
      BY <2>1
    <3> QED
      BY <2>1, <3>1, Zenon DEF TextFrom
  <2>3. Clear(l, y)
    <3>1. x \in 1..Len(l)
      BY <2>1
    <3>2. Seen(l, x)
      BY <2>2, <3>1, TextSays
    <3> QED
      BY <1>3, <3>2
  <2>4. ~IsText(l, y)
    <3>1. SUFFICES ASSUME IsText(l, y) PROVE FALSE
      OBVIOUS
    <3>2. y \in 1..(m - 1) /\ y < x
      BY <1>2, <2>1
    <3>3. ASSUME NEW i \in y..(m - 1) PROVE IsText(l, i)
      <4>1. i = y \/ i \in x..(m - 1)
        BY <1>2, <2>1
      <4> QED
        BY <2>1, <3>1, <4>1 DEF TextFrom
    <3>4. TextFrom(l, y, m)
      BY <3>3 DEF TextFrom
    <3>5. x <= y
      BY <2>1, <3>2, <3>4
    <3> QED
      BY <2>1, <3>2, <3>5
  <2>5. Breaks(l, y)
    BY <2>4, Zenon DEF Breaks
  <2> QED
    BY <1>2, <1>5, <2>3, <2>5
<1> QED
  BY <1>4, <1>5

LEMMA OneBefore ==
  ASSUME NEW n \in Nat, NEW b \in 1..n, b > 1
  PROVE  b - 1 \in 0..n /\ b - 1 >= 1 /\ b = b - 1 + 1 /\ n - (b - 1) >= 1
  OBVIOUS

LEMMA TheOneBefore ==
  ASSUME NEW n \in Nat, NEW k \in 1..n, k > 1
  PROVE  \E j \in 1..n : j = k - 1 /\ j < k
<1>1. k - 1 \in 1..n /\ k - 1 < k
  OBVIOUS
<1> QED
  BY <1>1

(* A heading that starts where an earlier one's body ends, or later, starts  *)
(* after the first token (section.start and body, sections.go:25-27).        *)
LEMMA StartsLater ==
  ASSUME NEW n \in Nat, NEW x \in 1..n, NEW y \in Int, NEW z \in Int, x < y, y <= z
  PROVE  x < z /\ z > 1
  OBVIOUS

LEMMA CutBefore ==
  ASSUME NEW s \in Seq(Tokens), NEW k \in 1..Len(Headings(s)), k > 1,
         NEW r, r = SubSeq(s, Headings(s)[k].start, Len(s))
  PROVE  /\ r \in Seq(Tokens) /\ Len(r) >= 1
         /\ Rests(Inside(r), Headings(s), k - 1)
         /\ ~Headings(s)[k].setext => Level(Lines(r)[1].says) > 0
<1> DEFINE h == Headings(s)
           d == h[k].start - 1
           q == SubSeq(s, 1, d)
           f == Headings(q)
           g == Inside(r)
           l == Lines(s)
           n == Len(Lines(q))
<1>1. /\ Len(s) \in Nat /\ Len(h) \in Nat
      /\ \A i \in 1..Len(h) : /\ h[i].start \in 1..Len(s)
                              /\ h[i].body \in Int /\ h[i].start < h[i].body
      /\ \A i, j \in 1..Len(h) : i < j => h[i].body <= h[j].start
  BY HeadingsAre DEF HeadingShape, Levelled
<1>2. k \in 1..Len(h) /\ k > 1 /\ r = SubSeq(s, h[k].start, Len(s))
  OBVIOUS
<1>3. PICK m \in 1..Len(l) : /\ Marks(l, m) /\ h[k].start = l[StartLine(l, m)].at
                             /\ h[k].setext = ~IsAtx(l, m)
  BY HeadingLine
<1>4. Len(l) \in Nat /\ \A i \in 1..Len(l) : l[i].at \in Int
  BY LinesAre DEF LinesShape
<1> HIDE DEF l, h
<1>5. PICK j \in 1..Len(h) : j = k - 1 /\ h[j].body <= h[k].start
  <2>1. PICK j \in 1..Len(h) : j = k - 1 /\ j < k
    BY <1>1, <1>2, TheOneBefore
  <2>2. h[j].body <= h[k].start
    BY <1>1, <1>2, <2>1
  <2> QED
    BY <2>1, <2>2, Zenon
<1>6. h[j].start < h[k].start /\ h[j].start \in 1..Len(s) /\ h[k].start > 1
  <2>1. /\ h[j].start \in 1..Len(s) /\ h[k].start \in 1..Len(s)
        /\ h[j].body \in Int /\ h[j].start < h[j].body
    BY <1>1, <1>2
  <2>2. h[j].body <= h[k].start
    BY <1>5
  <2>3. h[k].start \in Int /\ Len(s) \in Nat
    BY <1>1, <2>1
  <2> QED
    BY <2>1, <2>2, <2>3, StartsLater
<1>7. PICK x : x = StartLine(l, m)
  OBVIOUS
<1>8. x \in 1..Len(l) /\ l[x].at = h[k].start /\ l[x].at > 1
  <2>1. x \in 1..m
    <3>1. m \in Nat \ {0}
      BY <1>4
    <3> QED
      BY <1>3, <1>7, <3>1, StartLineIs
  <2> QED
    BY <1>3, <1>4, <1>6, <1>7, <2>1
<1>9. /\ x > 1 /\ x - 1 \in 1..Len(l) /\ l[x - 1].next = h[k].start
      /\ s[h[k].start - 1] = Newline
  BY <1>8, SplitLine DEF l
<1>10. /\ d \in 0..Len(s) /\ d >= 1 /\ h[k].start = d + 1 /\ s[d] = Newline
       /\ r = SubSeq(s, d + 1, Len(s)) /\ Len(s) - d >= 1
  <2>1. PICK b \in 1..Len(s) : b = h[k].start /\ b > 1
    BY <1>1, <1>2, <1>6
  <2>4. b - 1 \in 0..Len(s) /\ b - 1 >= 1 /\ b = b - 1 + 1 /\ Len(s) - (b - 1) >= 1
    BY <1>1, <2>1, OneBefore
  <2>2. d \in 0..Len(s) /\ d >= 1 /\ h[k].start = d + 1 /\ Len(s) - d >= 1
    BY <2>1, <2>4
  <2>3. s[d] = Newline
    BY <1>9
  <2> HIDE DEF d
  <2> QED
    BY <1>2, <2>2, <2>3
<1> HIDE DEF d
<1>11. /\ q \in Seq(Tokens) /\ Len(q) = d /\ q[d] = Newline
       /\ r \in Seq(Tokens) /\ Len(r) >= 1 /\ q \o r = s
  <2>1. /\ SubSeq(s, 1, d) \in Seq(Tokens) /\ Len(SubSeq(s, 1, d)) = d
        /\ \A i \in 1..d : SubSeq(s, 1, d)[i] = s[i]
        /\ SubSeq(s, d + 1, Len(s)) \in Seq(Tokens)
        /\ Len(SubSeq(s, d + 1, Len(s))) = Len(s) - d
        /\ SubSeq(s, 1, d) \o SubSeq(s, d + 1, Len(s)) = s
    BY <1>10, SplitAt
  <2>2. d \in 1..d
    BY <1>10
  <2> QED
    BY <1>10, <2>1, <2>2
<1> HIDE DEF q
<1>12. EndsLine(q)
  BY <1>10, <1>11 DEF EndsLine
<1>13. StartsAs(l, Lines(q)) /\ n \in Nat \ {0}
  <2>1. StartsAs(Lines(q \o r), Lines(q)) /\ n \in Nat \ {0}
    BY <1>11, <1>12, LinesStart
  <2> QED
    BY <1>11, <2>1 DEF l
<1>14. x - 1 = n
  <2>1. PICK y \in 1..Len(l) : y = x - 1
    BY <1>9
  <2>2. l[y].next = Len(q) + 1
    BY <1>9, <1>10, <1>11, <2>1
  <2>3. y \in 1..Len(Lines(q \o r)) /\ Lines(q \o r)[y].next = Len(q) + 1
    BY <1>11, <2>2 DEF l
  <2>4. y = n
    BY <1>11, <1>12, <2>3, SeamLine
  <2> QED
    BY <2>1, <2>4
<1>15. /\ Clear(l, x - 1) /\ Breaks(l, x - 1)
       /\ IsAtx(l, m) => Level(l[x].says) > 0
  BY <1>3, <1>4, <1>7, <1>9, StartIsFree
<1>16. Clear(l, n) /\ Breaks(l, n)
  BY <1>14, <1>15
<1>17. Settled(q)
  <2>1. /\ OpenFence(l)[n] = OpenFence(Lines(q))[n]
        /\ InFrontmatter(l, n + 1) <=> InFrontmatter(Lines(q), n + 1)
    <3>1. n \in 0..n /\ n + 1 \in 1..(n + 1)
      BY <1>13
    <3> QED
      BY <1>13, <3>1, StartKinds
  <2>2. Clear(Lines(q), n)
    BY <1>16, <2>1, Zenon DEF Clear
  <2> QED
    BY <1>12, <2>2 DEF Settled
<1>18. /\ HeadsFollow(h, f, g, Len(q) - 1)
       /\ \A i \in 1..Len(g) : g[i].start >= 2
  <2>1. Breaks(Lines(q \o r), Len(Lines(q)))
    BY <1>11, <1>16 DEF l
  <2>2. /\ HeadsFollow(Headings(q \o r), f, g, Len(q) - 1)
        /\ \A i \in 1..Len(g) : g[i].start >= 2
    BY <1>11, <1>17, <2>1, HeadingsJoin
  <2> QED
    BY <1>11, <2>2 DEF h
<1>19. Len(f) \in Nat /\ \A i \in 1..Len(f) : f[i].start \in 1..Len(q)
  BY <1>11, HeadingsAre DEF HeadingShape, Levelled
<1>20. Len(g) \in Nat /\ \A i \in 1..Len(g) : g[i].start \in Int
  <2>1. <<Newline>> \o r \in Seq(Tokens)
    BY <1>11, EmptyLine, ConcatProperties
  <2>2. HeadingShape(<<Newline>> \o r, g)
    BY <2>1, HeadingsAre DEF Inside
  <2> QED
    BY <2>2 DEF HeadingShape, Levelled
<1> HIDE DEF f, g
<1>21. /\ Len(h) = Len(f) + Len(g) /\ \A i \in 1..Len(f) : h[i] = f[i]
       /\ \A i \in 1..Len(g) :
             /\ h[Len(f) + i].start = g[i].start + (d - 1)
             /\ Like(h[Len(f) + i], g[i])
  BY <1>11, <1>18 DEF HeadsFollow, Moved, Like
<1>22. d \in Nat
  BY <1>10
<1>23. ~(Len(f) >= k)
  <2>1. SUFFICES ASSUME Len(f) >= k PROVE FALSE
    OBVIOUS
  <2>2. k \in 1..Len(f)
    BY <1>2, <1>19, <2>1
  <2>3. h[k].start \in 1..d
    BY <1>11, <1>19, <1>21, <2>2
  <2> QED
    BY <1>10, <1>22, <2>3
<1>24. ~(Len(f) < k - 1)
  <2>1. SUFFICES ASSUME Len(f) < k - 1 PROVE FALSE
    OBVIOUS
  <2>2. PICK i \in 1..Len(g) : j = Len(f) + i
    <3>1. j - Len(f) \in 1..Len(g) /\ j = Len(f) + (j - Len(f))
      BY <1>2, <1>5, <1>19, <1>20, <1>21, <2>1
    <3> QED
      BY <3>1
  <2>3. h[j].start = g[i].start + (d - 1) /\ g[i].start >= 2 /\ g[i].start \in Int
    BY <1>18, <1>20, <1>21, <2>2
  <2>4. h[j].start < d + 1
    BY <1>6, <1>10
  <2> QED
    BY <1>22, <2>3, <2>4
<1>25. Len(f) = k - 1
  BY <1>2, <1>19, <1>23, <1>24
<1>26. Rests(g, h, k - 1)
  <2>1. Len(g) >= 1 /\ Len(h) = k - 1 + Len(g)
    BY <1>2, <1>1, <1>20, <1>21, <1>25
  <2>2. \A i \in 1..Len(g) : Like(h[k - 1 + i], g[i])
    BY <1>21, <1>25
  <2>3. g[1].start = 2
    <3>1. 1 \in 1..Len(g)
      BY <1>20, <2>1
    <3>2. h[k - 1 + 1].start = g[1].start + (d - 1) /\ g[1].start \in Int
      BY <1>20, <1>21, <1>25, <3>1
    <3>3. k - 1 + 1 = k
      BY <1>2
    <3>4. d + 1 = g[1].start + (d - 1)
      BY <1>10, <3>2, <3>3
    <3> QED
      BY <1>22, <3>2, <3>4
  <2> QED
    BY <2>1, <2>2, <2>3 DEF Rests
<1>27. ~h[k].setext => Level(Lines(r)[1].says) > 0
  <2>1. Len(Lines(r)) \in Nat \ {0}
    BY <1>11, LastLine
  <2>2. 1 \in 1..Len(Lines(r))
    BY <2>1
  <2>3. Lines(q \o r)[n + 1].says = Lines(r)[1].says
    BY <1>11, <1>12, <2>2, LinesJoin DEF LinesFollow
  <2>4. n + 1 = x
    BY <1>8, <1>14
  <2>5. l[x].says = Lines(r)[1].says
    BY <1>11, <2>3, <2>4 DEF l
  <2> QED
    BY <1>3, <1>15, <2>5
<1> QED
  BY <1>11, <1>26, <1>27 DEF h, g

-----------------------------------------------------------------------------
(* What is put in the place of a section: the content, and newlines.       *)
LEMMA SaysNothing ==
  ASSUME NEW l, Len(l) \in Nat, NEW k \in 1..Len(l), l[k].says = <<>>
  PROVE  ~Marks(l, k) /\ ~IsText(l, k)
<1>1. Level(l[k].says) = 0
  BY LevelRange, Zenon
<1>2. ~(Level(l[k].says) > 0)
  BY <1>1
<1>3. <<>> # <<Rule>> /\ <<>> # <<Equals>>
  OBVIOUS
<1>4. l[k].says \notin Underlines
  BY <1>3, Zenon DEF Underlines
<1>5. ~Marks(l, k)
  BY <1>2, <1>4, Zenon DEF Marks, IsAtx, IsUnder
<1>6. ~IsText(l, k)
  BY TextSays, Zenon
<1> QED
  BY <1>5, <1>6

LEMMA NoneInside == Len(Inside(<<Newline>>)) = 0 /\ Len(Inside(<<>>)) = 0
<1> DEFINE r == <<Newline>>
           m == Lines(r \o r)
           w == Where(m)
<1>1. /\ r \in Seq(Tokens) /\ EndsLine(r) /\ Len(Lines(r)) = 1
      /\ Lines(r)[1].says = <<>> /\ Len(Where(Lines(r))) = 0
  BY EmptyLine DEF Settled
<1> HIDE DEF r
<1>2. r \o r \in Seq(Tokens)
  BY <1>1, ConcatProperties
<1>3. LinesFollow(m, Lines(r), Lines(r), Len(r))
  BY <1>1, LinesJoin
<1>4. /\ Len(m) = 2 /\ m[1].says = <<>> /\ m[2].says = <<>>
  <2>1. 1 \in 1..1 /\ 1 + 1 = 2
    OBVIOUS
  <2> HIDE DEF m
  <2>2. /\ Len(m) = 1 + 1 /\ m[1].says = Lines(r)[1].says
        /\ m[1 + 1].says = Lines(r)[1].says
    BY <1>1, <1>3, <2>1 DEF LinesFollow
  <2> QED
    BY <1>1, <2>1, <2>2
<1> HIDE DEF m
<1>5. /\ Len(w) \in Nat
      /\ \A i \in 1..Len(w) : w[i] \in 1..2 /\ Marks(m, w[i])
  <2>1. Len(m) \in Nat
    BY <1>4
  <2>2. /\ Len(w) \in Nat
        /\ \A i \in 1..Len(w) : w[i] \in 1..Len(m) /\ Marks(m, w[i])
    BY <2>1, WhereIs
  <2> HIDE DEF w
  <2> QED
    BY <1>4, <2>2
<1> HIDE DEF w
<1>6. Len(w) = 0
  <2>1. SUFFICES ASSUME Len(w) # 0 PROVE FALSE
    OBVIOUS
  <2>2. 1 \in 1..Len(w)
    BY <1>5, <2>1
  <2>3. w[1] \in 1..2 /\ Marks(m, w[1])
    BY <1>5, <2>2
  <2>4. m[w[1]].says = <<>> /\ Len(m) \in Nat /\ w[1] \in 1..Len(m)
    BY <1>4, <2>3
  <2> QED
    BY <2>3, <2>4, SaysNothing
<1>7. Len(Inside(r)) = 0
  BY <1>2, <1>6, HeadingsLen DEF Inside, r, w, m
<1>8. Len(Inside(<<>>)) = 0
  <2>1. r \o <<>> = r
    BY <1>1, ConcatEmptySeq
  <2>2. Inside(<<>>) = Headings(r)
    BY <2>1 DEF Inside, r
  <2> QED
    BY <1>1, <2>2, HeadingsLen
<1> QED
  BY <1>7, <1>8 DEF r

LEMMA JoinEnds ==
  ASSUME NEW s \in Seq(Tokens), NEW t \in Seq(Tokens), EndsLine(t)
  PROVE  EndsLine(s \o t)
<1>1. /\ Len(s) \in Nat /\ Len(t) \in Nat /\ Len(s \o t) = Len(s) + Len(t)
      /\ \A i \in 1..(Len(s) + Len(t)) : (s \o t)[i] =
            IF i <= Len(s) THEN s[i] ELSE t[i - Len(s)]
  BY LenProperties, ConcatProperties
<1>2. Len(t) >= 1 /\ t[Len(t)] = Newline
  BY DEF EndsLine
<1>3. PICK i \in 1..(Len(s) + Len(t)) :
            i = Len(s) + Len(t) /\ ~(i <= Len(s)) /\ i - Len(s) = Len(t)
  BY <1>1, <1>2
<1>4. (s \o t)[i] = Newline
  BY <1>1, <1>2, <1>3
<1>5. Len(s \o t) = i /\ i >= 1
  BY <1>1, <1>3
<1> QED
  BY <1>4, <1>5 DEF EndsLine

LEMMA ClosedSettled ==
  ASSUME NEW t \in Seq(Tokens), EndsLine(t), Closed(t)
  PROVE  Settled(<<Newline>> \o t)
<1> DEFINE r == <<Newline>>
           u == r \o t
           m == Lines(u)
           n == Len(m)
<1>1. /\ r \in Seq(Tokens) /\ Len(Lines(r)) = 1 /\ Lines(r)[1].says = <<>>
      /\ EndsLine(r)
  BY EmptyLine DEF Settled
<1>2. ~OpenFence(m)[n]
  BY DEF Closed
<1> HIDE DEF r
<1>3. u \in Seq(Tokens) /\ EndsLine(u)
  BY <1>1, ConcatProperties, JoinEnds
<1>4. m[1].says = <<>>
  <2>1. \A k \in 1..Len(Lines(r)) : m[k].says = Lines(r)[k].says
    BY <1>1, LinesJoin DEF LinesFollow
  <2> HIDE DEF m
  <2> QED
    BY <1>1, <2>1
<1>5. n \in Nat
  <2>1. LinesShape(u, m)
    BY <1>3, LinesAre
  <2> QED
    BY <2>1 DEF LinesShape
<1> HIDE DEF m
<1>6. OpenFence(m)[n] = FALSE
  <2>1. n \in 0..n
    BY <1>5
  <2>2. OpenFence(m)[n] \in BOOLEAN
    BY <1>5, <2>1, FencesAre
  <2> QED
    BY <1>2, <2>2
<1>7. ~InFrontmatter(m, n + 1)
  <2>1. <<>> # <<Rule>>
    OBVIOUS
  <2> QED
    BY <1>4, <2>1, Zenon DEF InFrontmatter
<1>8. Clear(m, n)
  BY <1>6, <1>7 DEF Clear
<1> QED
  BY <1>3, <1>8 DEF Settled, m, u, r

(* The same headings, wherever they are.                                   *)
AllLike(f, g) == Len(f) = Len(g) /\ \A i \in 1..Len(g) : Like(f[i], g[i])

(* The text u has the headings of t, ends with a newline, and is closed.   *)
Stands(u, t) == /\ u \in Seq(Tokens) /\ EndsLine(u) /\ Closed(u)
                /\ AllLike(Inside(u), Inside(t))

LEMMA ToTheRight ==
  ASSUME NEW t \in Seq(Tokens), NEW s \in Seq(Tokens)
  PROVE  /\ s \o Append(t, Newline) = Append(s \o t, Newline)
         /\ Append(s \o t, Newline) = (s \o t) \o <<Newline>>
<1>1. /\ Append(t, Newline) = t \o <<Newline>> /\ s \o t \in Seq(Tokens)
      /\ <<Newline>> \in Seq(Tokens)
  BY AppendIs, EmptyLine, ConcatProperties
<1>2. Append(s \o t, Newline) = (s \o t) \o <<Newline>>
  BY <1>1, AppendIs
<1>3. (s \o t) \o <<Newline>> = s \o (t \o <<Newline>>)
  BY <1>1, ConcatAssociative
<1> QED
  BY <1>1, <1>2, <1>3

LEMMA EndedStands ==
  ASSUME NEW t \in Seq(Tokens), Len(t) >= 1, Closed(t)
  PROVE  Stands(Ended(t), t)
<1> DEFINE r == <<Newline>>
           n == Len(t)
<1>1. r \in Seq(Tokens) /\ Len(r) = 1 /\ n \in Nat
  BY EmptyLine, LenProperties
<1>2. Ended(t) = IF t[n] = Newline THEN t ELSE Append(t, Newline)
  BY DEF Ended, Last
<1>3. CASE t[n] = Newline
  <2>1. EndsLine(t)
    BY <1>3 DEF EndsLine
  <2>2. AllLike(Inside(t), Inside(t))
    BY DEF AllLike, Like
  <2> QED
    BY <1>2, <1>3, <2>1, <2>2 DEF Stands
<1>4. CASE t[n] # Newline
  <2> DEFINE s == r \o t
             u == Append(s, Newline)
             v == Append(t, Newline)
  <2> HIDE DEF r
  <2>1. r \o v = u /\ v \in Seq(Tokens) /\ EndsLine(v)
    BY <1>1, AppendIs, ToTheRight
  <2>2. s \in Seq(Tokens) /\ Unended(s)
    <3>1. /\ s \in Seq(Tokens) /\ Len(s) = Len(r) + n
          /\ \A i \in 1..(Len(r) + n) : s[i] = IF i <= Len(r) THEN r[i] ELSE t[i - Len(r)]
      BY <1>1, ConcatProperties
    <3> HIDE DEF s, n
    <3>2. PICK i \in 1..(Len(r) + n) : i = 1 + n /\ ~(i <= Len(r)) /\ i - Len(r) = n
      <4>1. n >= 1
        BY DEF n
      <4> QED
        BY <1>1, <4>1
    <3>3. s[i] = t[n] /\ Len(s) = i /\ i >= 1
      BY <1>1, <3>1, <3>2
    <3> QED
      BY <1>4, <3>1, <3>3 DEF Unended
  <2> HIDE DEF s, v
  <2>3. Alike(Headings(u), Headings(s), Len(s)) /\ LinesFinish(Lines(u), Lines(s), Len(s))
    BY <2>2, Finish, FinishLines
  <2>4. Inside(v) = Headings(u) /\ Inside(t) = Headings(s)
    BY <2>1 DEF Inside, s, r
  <2>5. AllLike(Inside(v), Inside(t))
    BY <2>3, <2>4 DEF AllLike, Alike, Like, Same
  <2>6. Len(Lines(s)) \in Nat \ {0}
    BY <2>2, LastLine DEF Unended
  <2>7. StartsAs(Lines(u), Lines(s)) /\ Len(Lines(u)) = Len(Lines(s))
    BY <2>3, <2>6 DEF LinesFinish, StartsAs
  <2>8. OpenFence(Lines(u))[Len(Lines(s))] = OpenFence(Lines(s))[Len(Lines(s))]
    <3>1. Len(Lines(s)) \in 0..Len(Lines(s))
      BY <2>6
    <3> QED
      BY <2>7, <3>1, StartKinds
  <2>9. ~OpenFence(Lines(s))[Len(Lines(s))]
    BY DEF Closed, s, r
  <2>10. Closed(v)
    BY <2>1, <2>7, <2>8, <2>9 DEF Closed, r
  <2>11. Ended(t) = v
    BY <1>2, <1>4 DEF v
  <2> QED
    BY <2>1, <2>5, <2>10, <2>11 DEF Stands
<1> QED
  BY <1>3, <1>4

LEMMA BlankStands ==
  ASSUME NEW u \in Seq(Tokens), NEW t, Stands(u, t)
  PROVE  Stands(Append(u, Newline), t)
<1> DEFINE r == <<Newline>>
           s == r \o u
           v == Append(u, Newline)
           l == Lines(s \o r)
           n == Len(Lines(s))
<1>1. /\ r \in Seq(Tokens) /\ Len(Lines(r)) = 1 /\ Lines(r)[1].says = <<>>
  BY EmptyLine
<1>2. EndsLine(u) /\ Closed(u) /\ AllLike(Inside(u), Inside(t))
  BY DEF Stands
<1>3. Settled(s)
  BY <1>2, ClosedSettled
<1>4. Len(Inside(r)) = 0
  BY NoneInside
<1>5. r \o v = s \o r /\ v \in Seq(Tokens) /\ EndsLine(v)
  BY <1>1, AppendIs, ToTheRight
<1>6. Inside(u) = Headings(s) /\ Inside(v) = Headings(s \o r)
  BY <1>5 DEF Inside
<1> HIDE DEF r, v
<1>7. s \in Seq(Tokens)
  BY <1>1, ConcatProperties
<1> HIDE DEF s
<1>8. LinesFollow(l, Lines(s), Lines(r), Len(s)) /\ n \in Nat \ {0}
  <2>1. EndsLine(s)
    BY <1>3 DEF Settled
  <2> QED
    BY <1>1, <1>7, <2>1, LinesJoin, LinesStart
<1>9. Clear(l, n)
  BY <1>1, <1>3, <1>7, SettledClear
<1> HIDE DEF l, n
<1>10. Len(l) = n + 1 /\ l[n + 1].says = <<>>
  <2>1. 1 \in 1..1
    OBVIOUS
  <2> QED
    BY <1>1, <1>8, <2>1 DEF LinesFollow, n
<1>11. Breaks(l, n)
  <2>1. l[n + 1].says \notin Underlines
    BY <1>10 DEF Underlines
  <2>2. Len(l) \in Nat /\ n + 1 \in 1..Len(l)
    BY <1>8, <1>10
  <2>3. ~IsText(l, n + 1)
    BY <1>10, <2>2, SaysNothing
  <2> QED
    BY <2>1, <2>3, Zenon DEF Breaks
<1>12. HeadsFollow(Headings(s \o r), Headings(s), Inside(r), Len(s) - 1)
  BY <1>1, <1>3, <1>7, <1>11, HeadingsJoin DEF l, n
<1>13. Len(Headings(s)) \in Nat
  BY <1>7, HeadingsLen
<1>14. AllLike(Headings(s \o r), Headings(s))
  <2>1. Len(Headings(s \o r)) = Len(Headings(s))
    BY <1>4, <1>12, <1>13 DEF HeadsFollow
  <2> QED
    BY <1>12, <2>1 DEF HeadsFollow, AllLike, Like
<1>15. AllLike(Inside(v), Inside(t))
  BY <1>2, <1>6, <1>14 DEF AllLike, Like
<1>16. ~OpenFence(l)[n + 1]
  <2>1. PICK j : j = n + 1
    OBVIOUS
  <2>2. Len(l) \in Nat /\ j \in 1..Len(l) /\ j - 1 = n
    BY <1>8, <1>10, <2>1
  <2>3. Fencing(l, Len(l), OpenFence(l))
    BY <2>2, FencesAre
  <2>4. OpenFence(l)[j] = FenceAfter(l, OpenFence(l)[j - 1], j)
    BY <2>2, <2>3, Zenon DEF Fencing
  <2>5. OpenFence(l)[j - 1] = FALSE
    BY <1>9, <2>2 DEF Clear
  <2>6. FenceAfter(l, FALSE, j) = FALSE
    BY <1>10, <2>1, Zenon DEF FenceAfter
  <2>7. OpenFence(l)[j] = FALSE
    BY <2>4, <2>5, <2>6, Zenon
  <2> QED
    BY <2>1, <2>7
<1>17. Closed(v)
  BY <1>5, <1>10, <1>16 DEF Closed, l, r
<1> QED
  BY <1>5, <1>15, <1>17 DEF Stands, v

(* A text whose last line is blank.                                        *)
BlankEnds(v) ==
    \E w \in Seq(Tokens) : EndsLine(w) /\ v = Append(w, Newline)

LEMMA TwoOf ==
  ASSUME NEW x, \A i \in 1..2 : x[i] \in Tokens
  PROVE  SubSeq(x, 1, 2)[1] = x[1] /\ SubSeq(x, 1, 2)[2] = x[2]
<1>1. 1 \in Int /\ 2 \in Int
  OBVIOUS
<1>2. \A i \in 1..(2 - 1 + 1) : SubSeq(x, 1, 2)[i] = x[1 + i - 1]
  BY <1>1, SubSeqProperties
<1>3. /\ 1 \in 1..(2 - 1 + 1) /\ 2 \in 1..(2 - 1 + 1)
      /\ 1 + 1 - 1 = 1 /\ 1 + 2 - 1 = 2
  OBVIOUS
<1> QED
  BY <1>2, <1>3

LEMMA SuffixIs ==
  ASSUME NEW u \in Seq(Tokens), IsSuffix(<<Newline, Newline>>, u)
  PROVE  BlankEnds(u)
<1> DEFINE b == <<Newline, Newline>>
           x == Reverse(b)
           y == Reverse(u)
           n == Len(u)
           w == SubSeq(u, 1, n - 1)
<1>1. n \in Nat /\ \A i \in 1..n : u[i] \in Tokens
  BY LenProperties, ElementOfSeq
<1>2. Newline \in Tokens
  BY NotesAssumption DEF NotesAssumption
<1>3. y = [i \in 1..n |-> u[(n - i) + 1]]
  BY DEF Reverse
<1>4. x = [i \in 1..2 |-> b[(2 - i) + 1]]
  <2>1. Len(b) = 2
    OBVIOUS
  <2> QED
    BY <2>1 DEF Reverse
<1> HIDE DEF y, n
<1>5. Len(y) = n
  <2>1. DOMAIN y = 1..n /\ y = [i \in 1..n |-> y[i]]
    BY <1>3
  <2> QED
    BY <1>1, <2>1, FunIsSeq
<1>6. Len(x) = 2 /\ x[1] = Newline /\ x[2] = Newline
  <2>1. b[1] = Newline /\ b[2] = Newline
    OBVIOUS
  <2> HIDE DEF x, b
  <2>2. x[1] = b[(2 - 1) + 1] /\ x[2] = b[(2 - 2) + 1]
    BY <1>4
  <2>3. (2 - 1) + 1 = 2 /\ (2 - 2) + 1 = 1
    OBVIOUS
  <2>4. DOMAIN x = 1..2 /\ x = [i \in 1..2 |-> x[i]]
    BY <1>4
  <2>5. Len(x) = 2
    <3>1. 2 \in Nat
      OBVIOUS
    <3> QED
      BY <2>4, <3>1, FunIsSeq
  <2> QED
    BY <2>1, <2>2, <2>3, <2>5
<1>7. n >= 2 /\ SubSeq(x, 1, 2) = SubSeq(y, 1, 2)
  <2>1. Len(x) <= Len(y) /\ SubSeq(x, 1, Len(x)) = SubSeq(y, 1, Len(x))
    BY Zenon DEF IsSuffix, IsPrefix, y
  <2> HIDE DEF x
  <2> QED
    BY <1>1, <1>5, <1>6, <2>1
<1> HIDE DEF x
<1>8. y[1] = u[n] /\ y[2] = u[n - 1]
  <2>1. 1 \in 1..n /\ 2 \in 1..n /\ (n - 1) + 1 = n /\ (n - 2) + 1 = n - 1
    BY <1>1, <1>7
  <2> QED
    BY <1>3, <2>1
<1>9. n \in 1..n /\ n - 1 \in 1..n
  BY <1>1, <1>7
<1>10. SubSeq(x, 1, 2)[1] = x[1] /\ SubSeq(x, 1, 2)[2] = x[2]
  <2>1. \A i \in 1..2 : x[i] \in Tokens
    BY <1>2, <1>6
  <2> QED
    BY <2>1, TwoOf
<1>11. SubSeq(y, 1, 2)[1] = y[1] /\ SubSeq(y, 1, 2)[2] = y[2]
  <2>1. y[1] \in Tokens /\ y[2] \in Tokens
    BY <1>1, <1>8, <1>9
  <2>2. \A i \in 1..2 : y[i] \in Tokens
    BY <2>1
  <2> QED
    BY <2>2, TwoOf
<1>12. u[n] = Newline /\ u[n - 1] = Newline
  BY <1>6, <1>7, <1>8, <1>10, <1>11
<1>13. w \in Seq(Tokens) /\ Len(w) = n - 1 /\ \A i \in 1..(n - 1) : w[i] = u[i]
  <2>1. PICK m \in 0..n : m = n - 1
    BY <1>1, <1>7
  <2>2. /\ SubSeq(u, 1, m) \in Seq(Tokens) /\ Len(SubSeq(u, 1, m)) = m
        /\ \A i \in 1..m : SubSeq(u, 1, m)[i] = u[i]
    BY <2>1, SplitAt DEF n
  <2> QED
    BY <2>1, <2>2
<1> HIDE DEF w
<1>14. EndsLine(w)
  <2>1. n - 1 \in 1..(n - 1) /\ n - 1 >= 1
    BY <1>1, <1>7
  <2> QED
    BY <1>12, <1>13, <2>1 DEF EndsLine
<1>15. Append(w, Newline) = u
  <2> DEFINE v == Append(w, Newline)
  <2>1. /\ v \in Seq(Tokens) /\ Len(v) = Len(w) + 1
        /\ \A i \in 1..Len(w) : v[i] = w[i]
        /\ v[Len(w) + 1] = Newline
    BY <1>13, AppendIs
  <2> HIDE DEF v
  <2>2. Len(v) = Len(u) /\ Len(w) + 1 = n /\ Len(w) \in Nat
    BY <1>1, <1>7, <1>13, <2>1 DEF n
  <2>3. ASSUME NEW i \in 1..Len(v) PROVE v[i] = u[i]
    <3>1. CASE i = n
      BY <1>12, <2>1, <2>2, <3>1
    <3>2. CASE i # n
      <4>1. i \in 1..(n - 1)
        BY <1>1, <2>1, <2>2, <3>2
      <4> QED
        BY <1>13, <2>1, <4>1
    <3> QED
      BY <3>1, <3>2
  <2>4. v = u
    BY <2>1, <2>2, <2>3, SeqEqual
  <2> QED
    BY <2>4 DEF v
<1> QED
  BY <1>13, <1>14, <1>15 DEF BlankEnds

LEMMA ApartStands ==
  ASSUME NEW u \in Seq(Tokens), NEW t, Stands(u, t)
  PROVE  /\ Stands(Apart(u), t) /\ BlankEnds(Apart(u))
         /\ Apart(u) = u \/ Apart(u) = Append(u, Newline)
<1>1. CASE IsSuffix(<<Newline, Newline>>, u)
  <2>1. Apart(u) = u
    BY <1>1 DEF Apart
  <2> QED
    BY <1>1, <2>1, SuffixIs
<1>2. CASE ~IsSuffix(<<Newline, Newline>>, u)
  <2>1. Apart(u) = Append(u, Newline)
    BY <1>2 DEF Apart
  <2>2. EndsLine(u)
    BY DEF Stands
  <2>3. BlankEnds(Append(u, Newline))
    BY <2>2 DEF BlankEnds
  <2>4. Stands(Append(u, Newline), t)
    BY BlankStands
  <2> QED
    BY <2>1, <2>3, <2>4
<1> QED
  BY <1>1, <1>2

(* What stands after a text that stops: nothing is left open.              *)
LEMMA StandsSettled ==
  ASSUME NEW e \in Seq(Tokens), Settled(e), NEW m \in Seq(Tokens),
         EndsLine(m), Closed(m)
  PROVE  Settled(e \o m)
<1> DEFINE r == <<Newline>>
           l == Lines(e \o m)
           b == Lines(r \o m)
           n == Len(Lines(e))
           q == Len(Lines(r))
           c == Len(Lines(m))
<1>1. r \in Seq(Tokens) /\ Settled(r)
  BY EmptyLine
<1>2. ~OpenFence(b)[Len(b)]
  BY DEF Closed
<1> HIDE DEF r
<1>3. Alongside(l, n, b, q, c)
  BY <1>1, SideBySide
<1>4. EndsLine(e \o m)
  BY JoinEnds
<1> HIDE DEF l, b, n, q, c
<1>5. /\ \A k \in 0..c : OpenFence(l)[n + k] = OpenFence(b)[q + k]
      /\ \A k \in 1..(c + 1) : ~InFrontmatter(l, n + k)
  BY <1>3, TailFences
<1>6. n \in Nat /\ q \in Nat /\ c \in Nat /\ Len(l) = n + c /\ Len(b) = q + c
  BY <1>3 DEF Alongside
<1>7. OpenFence(l)[Len(l)] = OpenFence(b)[Len(b)]
  <2>1. c \in 0..c
    BY <1>6
  <2> QED
    BY <1>5, <1>6, <2>1
<1>8. ~InFrontmatter(l, Len(l) + 1)
  <2>1. c + 1 \in 1..(c + 1) /\ n + (c + 1) = Len(l) + 1
    BY <1>6
  <2> QED
    BY <1>5, <2>1
<1>9. OpenFence(l)[Len(l)] = FALSE
  <2>1. Len(l) \in Nat /\ Len(l) \in 0..Len(l)
    BY <1>6
  <2>2. OpenFence(l)[Len(l)] \in BOOLEAN
    BY <2>1, FencesAre
  <2> QED
    BY <1>2, <1>7, <2>2
<1>10. Clear(l, Len(l))
  BY <1>8, <1>9 DEF Clear
<1> QED
  BY <1>4, <1>10 DEF Settled, l

LEMMA BlankStops ==
  ASSUME NEW e \in Seq(Tokens), NEW m \in Seq(Tokens), BlankEnds(m)
  PROVE  ~IsText(Lines(e \o m), Len(Lines(e \o m)))
<1> DEFINE r == <<Newline>>
<1>1. PICK w \in Seq(Tokens) : EndsLine(w) /\ m = Append(w, Newline)
  BY DEF BlankEnds
<1> DEFINE s == e \o w
           l == Lines(s \o r)
           n == Len(Lines(s))
<1>2. /\ r \in Seq(Tokens) /\ Len(Lines(r)) = 1 /\ Lines(r)[1].says = <<>>
  BY EmptyLine
<1>3. e \o m = s \o r
  BY <1>1, ToTheRight
<1>4. s \in Seq(Tokens) /\ EndsLine(s)
  BY <1>1, ConcatProperties, JoinEnds
<1> HIDE DEF s, r
<1>5. LinesFollow(l, Lines(s), Lines(r), Len(s))
  BY <1>2, <1>4, LinesJoin
<1> HIDE DEF l
<1>6. Len(l) = n + 1 /\ l[n + 1].says = <<>>
  <2>1. 1 \in 1..1
    OBVIOUS
  <2> QED
    BY <1>2, <1>5, <2>1 DEF LinesFollow
<1>7. ~IsText(l, Len(l))
  <2>1. n \in Nat
    BY <1>4, LastLine DEF EndsLine
  <2>2. Len(l) \in Nat /\ Len(l) \in 1..Len(l) /\ l[Len(l)].says = <<>>
    BY <1>6, <2>1
  <2> QED
    BY <2>2, SaysNothing
<1> QED
  BY <1>3, <1>7 DEF l

-----------------------------------------------------------------------------
(* What ReplaceSection makes: the headings hn are the first k of h, then g, *)
(* then those of h after the first n.                                      *)
Rebuilt(hn, h, k, n, g) ==
    /\ Len(hn) = k + Len(g) + (Len(h) - n)
    /\ \A i \in 1..k : Same(hn[i], h[i])
    /\ \A j \in 1..Len(g) : Like(hn[k + j], g[j])
    /\ \A j \in 1..(Len(h) - n) : Like(hn[k + Len(g) + j], h[n + j])

LEMMA InsideIs ==
  ASSUME NEW t \in Seq(Tokens)
  PROVE  /\ Len(Inside(t)) \in Nat /\ DOMAIN Inside(t) = 1..Len(Inside(t))
         /\ \A i \in 1..Len(Inside(t)) :
               Inside(t)[i].start \in Int /\ Inside(t)[i].level \in Nat
<1>1. <<Newline>> \o t \in Seq(Tokens)
  BY EmptyLine, ConcatProperties
<1>2. HeadingShape(<<Newline>> \o t, Inside(t))
  BY <1>1, HeadingsAre DEF Inside
<1> QED
  BY <1>2 DEF HeadingShape, Levelled

LEMMA LevelBreaks ==
  ASSUME NEW s \in Seq(Tokens), NEW t \in Seq(Tokens), EndsLine(s),
         Len(t) >= 1, Level(Lines(t)[1].says) > 0
  PROVE  Breaks(Lines(s \o t), Len(Lines(s)))
<1> DEFINE l == Lines(s \o t)
           n == Len(Lines(s))
<1>1. Len(Lines(t)) \in Nat \ {0}
  BY LastLine
<1>2. 1 \in 1..Len(Lines(t))
  BY <1>1
<1>3. l[n + 1].says = Lines(t)[1].says
  BY <1>2, LinesJoin DEF LinesFollow
<1>4. Len(l) \in Nat /\ n + 1 \in 1..Len(l)
  BY <1>1, LinesStart
<1> HIDE DEF l, n
<1>5. Level(l[n + 1].says) > 0
  BY <1>3
<1>6. l[n + 1].says \notin Underlines
  BY <1>5, LevelIs
<1>7. ~IsText(l, n + 1)
  <2>1. Level(l[n + 1].says) # 0
    BY <1>5
  <2> QED
    BY <1>4, <2>1, TextSays, Zenon
<1> QED
  BY <1>6, <1>7, Zenon DEF Breaks, l, n

(* Nothing is written, and something follows.                              *)
LEMMA MadeOfTwo ==
  ASSUME NEW e \in Seq(Tokens), Stops(e), NEW r \in Seq(Tokens),
         NEW h, Len(h) \in Nat, NEW k \in Nat \ {0}, NEW n \in Nat,
         Upon(Headings(e), h, k), Rests(Inside(r), h, n)
  PROVE  /\ Rebuilt(Headings(e \o r), h, k, n, Inside(<<>>))
         /\ Headings(e \o r)[k] = Headings(e)[k]
         /\ Headings(e \o r)[k + Len(Inside(<<>>)) + 1].start = Len(e) + 1
<1> DEFINE f == Headings(e)
           b == Inside(r)
           hn == Headings(e \o r)
           g == Inside(<<>>)
<1>1. HeadsFollow(hn, f, b, Len(e) - 1)
  BY StopsBreaks, HeadingsJoin DEF Stops
<1>2. Len(g) = 0
  BY NoneInside
<1>3. Len(b) \in Nat /\ Len(e) \in Nat
  BY InsideIs, LenProperties
<1> HIDE DEF f, b, hn, g
<1>4. Len(f) = k /\ \A i \in 1..k : Same(f[i], h[i])
  BY DEF Upon, f
<1>5. /\ Len(h) = n + Len(b) /\ Len(b) >= 1 /\ b[1].start = 2
      /\ \A j \in 1..Len(b) : Like(h[n + j], b[j])
  BY DEF Rests, b
<1>6. /\ Len(hn) = k + Len(b) /\ \A i \in 1..k : hn[i] = f[i]
      /\ \A j \in 1..Len(b) : /\ Like(hn[k + j], b[j])
                              /\ hn[k + j].start = b[j].start + (Len(e) - 1)
  BY <1>1, <1>4 DEF HeadsFollow, Moved, Like
<1>7. Len(h) - n = Len(b) /\ k + Len(g) = k
  BY <1>2, <1>3, <1>5
<1>8. Rebuilt(hn, h, k, n, g)
  <2>1. Len(hn) = k + Len(g) + (Len(h) - n)
    BY <1>6, <1>7
  <2>2. \A i \in 1..k : Same(hn[i], h[i])
    BY <1>4, <1>6
  <2>3. \A j \in 1..Len(g) : Like(hn[k + j], g[j])
    BY <1>2
  <2>4. \A j \in 1..(Len(h) - n) : Like(hn[k + Len(g) + j], h[n + j])
    BY <1>5, <1>6, <1>7 DEF Like
  <2> QED
    BY <2>1, <2>2, <2>3, <2>4 DEF Rebuilt
<1>9. hn[k + Len(g) + 1].start = Len(e) + 1
  <2>1. 1 \in 1..Len(b)
    BY <1>3, <1>5
  <2>2. hn[k + 1].start = 2 + (Len(e) - 1)
    BY <1>5, <1>6, <2>1
  <2>3. 2 + (Len(e) - 1) = Len(e) + 1
    BY <1>3
  <2> QED
    BY <1>7, <2>2, <2>3
<1>10. k \in 1..k
  OBVIOUS
<1> QED
  BY <1>6, <1>8, <1>9, <1>10 DEF hn, f, g

(* Something is written, and nothing follows.                              *)
LEMMA MadeAtEnd ==
  ASSUME NEW e \in Seq(Tokens), Stops(e), NEW c \in Seq(Tokens),
         NEW h, Len(h) \in Nat, NEW k \in Nat \ {0},
         Upon(Headings(e), h, k)
  PROVE  /\ Rebuilt(Headings(e \o c), h, k, Len(h), Inside(c))
         /\ Headings(e \o c)[k] = Headings(e)[k]
<1> DEFINE f == Headings(e)
           g == Inside(c)
           hn == Headings(e \o c)
<1>1. HeadsFollow(hn, f, g, Len(e) - 1)
  BY StopsBreaks, HeadingsJoin DEF Stops
<1>2. Len(g) \in Nat
  BY InsideIs
<1> HIDE DEF f, g, hn
<1>3. Len(f) = k /\ \A i \in 1..k : Same(f[i], h[i])
  BY DEF Upon, f
<1>4. /\ Len(hn) = k + Len(g) /\ \A i \in 1..k : hn[i] = f[i]
      /\ \A j \in 1..Len(g) : Like(hn[k + j], g[j])
  BY <1>1, <1>3 DEF HeadsFollow, Moved, Like
<1>5. Len(h) - Len(h) = 0 /\ k + Len(g) + 0 = k + Len(g)
  BY <1>2
<1>6. Rebuilt(hn, h, k, Len(h), g)
  <2>1. Len(hn) = k + Len(g) + (Len(h) - Len(h))
    BY <1>4, <1>5
  <2>2. \A i \in 1..k : Same(hn[i], h[i])
    BY <1>3, <1>4
  <2>3. \A j \in 1..(Len(h) - Len(h)) : FALSE
    BY <1>5
  <2> QED
    BY <1>4, <2>1, <2>2, <2>3 DEF Rebuilt
<1>7. k \in 1..k
  OBVIOUS
<1> QED
  BY <1>4, <1>6, <1>7 DEF hn, f, g

(* Something is written, and something follows.                            *)
LEMMA MadeOfThree ==
  ASSUME NEW e \in Seq(Tokens), Stops(e), NEW c \in Seq(Tokens),
         NEW m, Stands(m, c), NEW r \in Seq(Tokens), Len(r) >= 1,
         BlankEnds(m) \/ Level(Lines(r)[1].says) > 0,
         NEW h, Len(h) \in Nat, NEW k \in Nat \ {0}, NEW n \in Nat,
         Upon(Headings(e), h, k), Rests(Inside(r), h, n)
  PROVE  /\ Rebuilt(Headings((e \o m) \o r), h, k, n, Inside(c))
         /\ Headings((e \o m) \o r)[k] = Headings(e)[k]
         /\ Headings((e \o m) \o r)[k + Len(Inside(c)) + 1].start
               = Len(e) + Len(m) + 1
<1> DEFINE u == e \o m
           f == Headings(e)
           v == Headings(u)
           a == Inside(m)
           b == Inside(r)
           hn == Headings(u \o r)
           g == Inside(c)
<1>1. m \in Seq(Tokens) /\ EndsLine(m) /\ Closed(m) /\ AllLike(a, g)
  BY DEF Stands
<1>2. u \in Seq(Tokens) /\ Len(u) = Len(e) + Len(m)
  BY <1>1, ConcatProperties
<1>3. Settled(u)
  BY <1>1, StandsSettled DEF Stops
<1>4. HeadsFollow(v, f, a, Len(e) - 1)
  BY <1>1, StopsBreaks, HeadingsJoin DEF Stops
<1>5. Breaks(Lines(u \o r), Len(Lines(u)))
  <2>1. CASE BlankEnds(m)
    <3>1. ~IsText(Lines(u), Len(Lines(u)))
      BY <1>1, <2>1, BlankStops
    <3>2. Stops(u)
      BY <1>3, <3>1 DEF Stops
    <3> HIDE DEF u
    <3> QED
      BY <1>2, <3>2, StopsBreaks
  <2>2. CASE Level(Lines(r)[1].says) > 0
    <3>1. EndsLine(u)
      BY <1>3 DEF Settled
    <3> HIDE DEF u
    <3> QED
      BY <1>2, <2>2, <3>1, LevelBreaks
  <2> QED
    BY <2>1, <2>2
<1>6. HeadsFollow(hn, v, b, Len(u) - 1)
  <2> HIDE DEF u
  <2> QED
    BY <1>2, <1>3, <1>5, HeadingsJoin
<1>7. /\ Len(a) \in Nat /\ Len(g) \in Nat /\ Len(b) \in Nat
      /\ Len(e) \in Nat /\ Len(m) \in Nat
  BY <1>1, InsideIs, LenProperties
<1> HIDE DEF u, f, v, a, b, hn, g
<1>8. Len(f) = k /\ \A i \in 1..k : Same(f[i], h[i])
  BY DEF Upon, f
<1>9. /\ Len(h) = n + Len(b) /\ Len(b) >= 1 /\ b[1].start = 2
      /\ \A j \in 1..Len(b) : Like(h[n + j], b[j])
  BY DEF Rests, b
<1>10. Len(a) = Len(g) /\ \A j \in 1..Len(g) : Like(a[j], g[j])
  BY <1>1 DEF AllLike
<1>11. /\ Len(v) = k + Len(g) /\ \A i \in 1..k : v[i] = f[i]
       /\ \A j \in 1..Len(g) : Like(v[k + j], g[j])
  BY <1>4, <1>8, <1>10 DEF HeadsFollow, Moved, Like
<1>12. /\ Len(hn) = k + Len(g) + Len(b)
       /\ \A i \in 1..(k + Len(g)) : hn[i] = v[i]
       /\ \A j \in 1..Len(b) :
             /\ Like(hn[k + Len(g) + j], b[j])
             /\ hn[k + Len(g) + j].start = b[j].start + (Len(u) - 1)
  BY <1>6, <1>11 DEF HeadsFollow, Moved, Like
<1>13. Len(h) - n = Len(b)
  BY <1>7, <1>9
<1>14. \A i \in 1..k : hn[i] = f[i]
  <2>1. \A i \in 1..k : i \in 1..(k + Len(g))
    BY <1>7
  <2> QED
    BY <1>11, <1>12, <2>1
<1>15. Rebuilt(hn, h, k, n, g)
  <2>1. Len(hn) = k + Len(g) + (Len(h) - n)
    BY <1>12, <1>13
  <2>2. \A i \in 1..k : Same(hn[i], h[i])
    BY <1>8, <1>14
  <2>3. \A j \in 1..Len(g) : Like(hn[k + j], g[j])
    <3>1. \A j \in 1..Len(g) : k + j \in 1..(k + Len(g))
      BY <1>7
    <3> QED
      BY <1>11, <1>12, <3>1
  <2>4. \A j \in 1..(Len(h) - n) : Like(hn[k + Len(g) + j], h[n + j])
    BY <1>9, <1>12, <1>13 DEF Like
  <2> QED
    BY <2>1, <2>2, <2>3, <2>4 DEF Rebuilt
<1>16. hn[k + Len(g) + 1].start = Len(e) + Len(m) + 1
  <2>1. 1 \in 1..Len(b)
    BY <1>7, <1>9
  <2>2. hn[k + Len(g) + 1].start = 2 + (Len(u) - 1)
    BY <1>9, <1>12, <2>1
  <2>3. 2 + (Len(u) - 1) = Len(e) + Len(m) + 1
    BY <1>2, <1>7
  <2> QED
    BY <2>2, <2>3
<1>17. k \in 1..k
  OBVIOUS
<1> QED
  BY <1>14, <1>15, <1>16, <1>17 DEF hn, f, g, u

LEMMA Pads ==
  ASSUME NEW s \in Seq(Tokens)
  PROVE  /\ Padded(s, s) /\ Padded(s, Append(s, Newline))
         /\ Padded(s, Append(Append(s, Newline), Newline))
<1> DEFINE Pad(n) == [k \in 1..n |-> Newline]
           t == Append(s, Newline)
           u == Append(t, Newline)
<1>1. Newline \in Tokens
  BY NotesAssumption DEF NotesAssumption
<1>2. ASSUME NEW n \in Nat
      PROVE  /\ Pad(n) \in Seq(Tokens) /\ Len(Pad(n)) = n
             /\ \A i \in 1..n : Pad(n)[i] = Newline
  <2>1. Pad(n) \in [1..n -> Tokens] /\ \A i \in 1..n : Pad(n)[i] = Newline
    BY <1>1
  <2>2. DOMAIN Pad(n) = 1..n /\ Pad(n) = [i \in 1..n |-> Pad(n)[i]]
    OBVIOUS
  <2> HIDE DEF Pad
  <2> QED
    BY <2>1, <2>2, FunIsSeq, FunInSeq
<1>3. /\ Append(s, Newline) \in Seq(Tokens) /\ Len(Append(s, Newline)) = Len(s) + 1
      /\ \A i \in 1..Len(s) : Append(s, Newline)[i] = s[i]
      /\ Append(s, Newline)[Len(s) + 1] = Newline
  BY AppendIs
<1>4. /\ u \in Seq(Tokens) /\ Len(u) = Len(t) + 1
      /\ \A i \in 1..Len(t) : u[i] = t[i]
      /\ u[Len(t) + 1] = Newline
  BY <1>3, AppendIs
<1>5. Pad(0) \o s = s
  <2>1. 0 \in Nat
    OBVIOUS
  <2>2. Pad(0) \in Seq(Tokens) /\ Len(Pad(0)) = 0
    BY <1>2, <2>1
  <2> HIDE DEF Pad
  <2>3. Pad(0) = <<>>
    BY <2>2, EmptySeq
  <2> QED
    BY <2>3, ConcatEmptySeq
<1>6. Len(s) \in Nat
  BY LenProperties
<1> HIDE DEF Pad, t, u
<1>7. ASSUME NEW n \in Nat, NEW v \in Seq(Tokens), Len(v) = Len(s) + n,
             \A i \in 1..Len(s) : v[i] = s[i],
             \A i \in 1..n : v[Len(s) + i] = Newline
      PROVE  s \o Pad(n) = v
  <2> DEFINE w == s \o Pad(n)
  <2>1. /\ w \in Seq(Tokens) /\ Len(w) = Len(s) + n
        /\ \A i \in 1..(Len(s) + n) : w[i] =
              IF i <= Len(s) THEN s[i] ELSE Pad(n)[i - Len(s)]
    <3> DEFINE q == Pad(n)
    <3>1. q \in Seq(Tokens) /\ Len(q) = n
      BY <1>2
    <3> HIDE DEF q
    <3>2. /\ s \o q \in Seq(Tokens) /\ Len(s \o q) = Len(s) + Len(q)
          /\ \A i \in 1..(Len(s) + Len(q)) : (s \o q)[i] =
                IF i <= Len(s) THEN s[i] ELSE q[i - Len(s)]
      BY <3>1, ConcatProperties
    <3> QED
      BY <3>1, <3>2 DEF q
  <2> HIDE DEF w
  <2>2. ASSUME NEW i \in 1..Len(w) PROVE w[i] = v[i]
    <3>1. i \in 1..(Len(s) + n)
      BY <2>1
    <3>2. CASE i <= Len(s)
      <4>1. i \in 1..Len(s)
        BY <1>6, <3>1, <3>2
      <4> QED
        BY <1>7, <2>1, <3>1, <3>2, <4>1
    <3>3. CASE ~(i <= Len(s))
      <4>1. PICK j \in 1..n : i = Len(s) + j /\ i - Len(s) = j
        BY <1>6, <3>1, <3>3
      <4>2. w[i] = Pad(n)[j]
        BY <2>1, <3>1, <3>3, <4>1
      <4>3. Pad(n)[j] = Newline
        BY <1>2
      <4>4. v[i] = Newline
        BY <1>7, <4>1
      <4> QED
        BY <4>2, <4>3, <4>4
    <3> QED
      BY <3>2, <3>3
  <2>3. w = v
    BY <1>7, <2>1, <2>2, SeqEqual
  <2> QED
    BY <2>3 DEF w
<1>8. s \o Pad(0) = s
  <2>1. 0 \in Nat /\ Len(s) = Len(s) + 0 /\ \A i \in 1..0 : FALSE
    BY <1>6
  <2> QED
    BY <1>7, <2>1
<1>9. s \o Pad(1) = t
  <2>1. 1 \in Nat /\ \A i \in 1..1 : i = 1
    OBVIOUS
  <2>2. \A i \in 1..1 : t[Len(s) + i] = Newline
    BY <1>3, <2>1 DEF t
  <2> QED
    BY <1>3, <1>7, <2>1, <2>2 DEF t
<1>10. s \o Pad(2) = u
  <2>1. t \in Seq(Tokens) /\ Len(t) = Len(s) + 1 /\ t[Len(s) + 1] = Newline
    BY <1>3 DEF t
  <2>2. Len(u) = Len(s) + 2 /\ Len(t) + 1 = Len(s) + 2
    BY <1>4, <1>6, <2>1
  <2>3. ASSUME NEW i \in 1..Len(s) PROVE u[i] = s[i]
    <3>1. i \in 1..Len(t)
      BY <1>6, <2>1
    <3> QED
      BY <1>3, <1>4, <3>1 DEF t
  <2>4. ASSUME NEW i \in 1..2 PROVE u[Len(s) + i] = Newline
    <3>1. CASE i = 1
      <4>1. Len(s) + 1 \in 1..Len(t)
        BY <1>6, <2>1
      <4> QED
        BY <1>4, <2>1, <3>1, <4>1
    <3>2. CASE i = 2
      BY <1>4, <2>2, <3>2
    <3> QED
      BY <3>1, <3>2
  <2>5. 2 \in Nat
    OBVIOUS
  <2> QED
    BY <1>4, <1>7, <2>2, <2>3, <2>4, <2>5
<1>11. 0 \in 0..2 /\ 1 \in 0..2 /\ 2 \in 0..2
  OBVIOUS
<1>12. ASSUME NEW n \in 0..2, NEW v, s \o Pad(n) = v PROVE Padded(s, v)
  <2>1. (Pad(0) \o s) \o Pad(n) = v
    BY <1>5, <1>12
  <2> QED
    BY <1>11, <2>1 DEF Padded, Pad
<1> QED
  BY <1>8, <1>9, <1>10, <1>11, <1>12 DEF t, u

LEMMA MiddleOf ==
  ASSUME NEW e \in Seq(Tokens), NEW m \in Seq(Tokens), NEW r \in Seq(Tokens)
  PROVE  SubSeq((e \o m) \o r, Len(e) + 1, Len(e) + Len(m)) = m
<1>1. /\ Len(e) \in Nat /\ Len(m) \in Nat /\ e \o m \in Seq(Tokens)
      /\ Len(e \o m) = Len(e) + Len(m)
  BY LenProperties, ConcatProperties
<1>2. PICK i \in Int, j \in Int : i = Len(e) + 1 /\ j = Len(e) + Len(m)
  BY <1>1
<1>3. i >= 1 /\ j <= Len(e \o m)
  BY <1>1, <1>2
<1>4. SubSeq((e \o m) \o r, i, j) = SubSeq(e \o m, i, j)
  BY <1>1, <1>3, SubSeqLeft
<1>5. SubSeq(e \o m, 1 + Len(e), Len(m) + Len(e)) = SubSeq(m, 1, Len(m))
  <2>1. 1 \in Int /\ Len(m) \in Int /\ 1 >= 1 /\ Len(m) <= Len(m)
    BY <1>1
  <2> QED
    BY <2>1, SubSeqRight
<1>6. SubSeq(m, 1, Len(m)) = m
  BY SubSeqFull
<1>7. i = 1 + Len(e) /\ j = Len(m) + Len(e)
  BY <1>1, <1>2
<1> QED
  BY <1>2, <1>4, <1>5, <1>6, <1>7

(* The last heading before the end of section k.                           *)
LastIn(h, k) == IF Later(h, k) = {} THEN Len(h) ELSE Min(Later(h, k)) - 1

LEMMA LastInIs ==
  ASSUME NEW s, NEW h, HeadingShape(s, h), NEW k \in 1..Len(h)
  PROVE  /\ LastIn(h, k) \in k..Len(h)
         /\ EndUnder(s, h, k) = IF LastIn(h, k) = Len(h) THEN Len(s) + 1
                                ELSE h[LastIn(h, k) + 1].start
         /\ NextSetext(h, k) <=> /\ LastIn(h, k) # Len(h)
                                 /\ h[LastIn(h, k) + 1].setext
         /\ \A j \in (k + 1)..LastIn(h, k) : h[j].level > h[k].level
         /\ LastIn(h, k) # Len(h) => h[LastIn(h, k) + 1].level <= h[k].level
<1>1. Len(h) \in Nat /\ Levelled(h) /\ \A i \in 1..Len(h) : h[i].level \in Int
  <2>1. Levelled(h)
    BY DEF HeadingShape
  <2>2. Len(h) \in Nat /\ \A i \in 1..Len(h) : h[i].level \in Nat
    BY <2>1 DEF Levelled
  <2> QED
    BY <2>1, <2>2
<1>2. /\ Off(h, k) = {} <=> Later(h, k) = {}
      /\ Later(h, k) # {} => Min(Off(h, k)) = Min(Later(h, k))
  BY <1>1, OffIs
<1>3. CASE Later(h, k) = {}
  <2>1. LastIn(h, k) = Len(h) /\ Off(h, k) = {}
    BY <1>2, <1>3 DEF LastIn
  <2>2. Len(h) \in k..Len(h)
    BY <1>1
  <2>3. ASSUME NEW j \in (k + 1)..Len(h) PROVE h[j].level > h[k].level
    <3>1. ~(h[j].level <= h[k].level)
      BY <1>3 DEF Later
    <3>2. j \in 1..Len(h)
      BY <1>1
    <3>3. h[j].level \in Int /\ h[k].level \in Int
      BY <1>1, <3>2
    <3> QED
      BY <3>1, <3>3
  <2>4. EndUnder(s, h, k) = Len(s) + 1 /\ ~NextSetext(h, k)
    BY <2>1 DEF EndUnder, NextSetext
  <2> QED
    BY <2>1, <2>2, <2>3, <2>4
<1>4. CASE Later(h, k) # {}
  <2>1. Later(h, k) \subseteq Nat
    BY <1>1 DEF Later
  <2>2. PICK m : m = Min(Later(h, k))
    OBVIOUS
  <2>3. m \in Later(h, k) /\ \A y \in Later(h, k) : m <= y
    BY <1>4, <2>1, <2>2, MinIsLeast
  <2>4. m \in (k + 1)..Len(h) /\ h[m].level <= h[k].level
    BY <2>3 DEF Later
  <2>5. PICK n \in k..Len(h) : n = m - 1 /\ n + 1 = m /\ n # Len(h)
    BY <1>1, <2>4
  <2>6. LastIn(h, k) = n
    BY <1>4, <2>2, <2>5 DEF LastIn
  <2>7. Off(h, k) # {} /\ Min(Off(h, k)) = m
    BY <1>2, <1>4, <2>2
  <2>8. EndUnder(s, h, k) = h[m].start /\ (NextSetext(h, k) <=> h[m].setext)
    BY <2>7 DEF EndUnder, NextSetext
  <2>9. ASSUME NEW j \in (k + 1)..n PROVE h[j].level > h[k].level
    <3>1. j \in (k + 1)..Len(h) /\ j \in 1..Len(h) /\ ~(m <= j)
      BY <1>1, <2>4, <2>5
    <3>2. ~(h[j].level <= h[k].level)
      BY <2>3, <3>1 DEF Later
    <3>3. h[j].level \in Int /\ h[k].level \in Int
      BY <1>1, <3>1
    <3> QED
      BY <3>2, <3>3
  <2> QED
    BY <2>4, <2>5, <2>6, <2>8, <2>9
<1> QED
  BY <1>3, <1>4

(* The body of section k of the text that is made is c, with no more than  *)
(* newlines added to it: it ends where the next of the headings after the  *)
(* content begins, or at the end.                                          *)
Reads(new, h, k, n, c) ==
    Padded(c, SubSeq(new, Headings(new)[k].body,
                     (IF n = Len(h) THEN Len(new) + 1
                      ELSE Headings(new)[k + Len(Inside(c)) + 1].start) - 1))

LEMMA IsThere ==
  ASSUME NEW s \in Seq(Tokens), Len(s) >= 1 PROVE s # <<>>
  BY EmptySeq

LEMMA IsLong ==
  ASSUME NEW s \in Seq(Tokens), s # <<>> PROVE Len(s) >= 1
  BY EmptySeq

LEMMA OneMore ==
  ASSUME NEW i \in Int PROVE i + 1 \in Int /\ i < i + 1 /\ i + 1 - 1 = i
  OBVIOUS

LEMMA IsBelow ==
  ASSUME NEW k \in Nat, NEW l \in Nat, NEW n \in k..l, n # l PROVE k # l
  OBVIOUS

LEMMA NoneBetween ==
  ASSUME NEW t, NEW i \in Int PROVE SubSeq(t, i + 1, i) = <<>>
<1>1. PICK j \in Int : j = i + 1 /\ i < j
  BY OneMore
<1>2. SubSeq(t, j, i) = <<>>
  BY <1>1, SubSeqEmpty
<1> QED
  BY <1>1, <1>2

LEMMA ReadsAtEnd ==
  ASSUME NEW new, NEW h, NEW k, NEW c, NEW i, NEW j \in Int,
         Headings(new)[k].body = i, Len(new) = j, Padded(c, SubSeq(new, i, j))
  PROVE  Reads(new, h, k, Len(h), c)
<1> DEFINE x == Headings(new)[k + Len(Inside(c)) + 1].start
<1>1. j + 1 - 1 = j
  BY OneMore
<1>2. (IF Len(h) = Len(h) THEN Len(new) + 1 ELSE x) = j + 1
  OBVIOUS
<1>3. (IF Len(h) = Len(h) THEN Len(new) + 1 ELSE x) - 1 = j
  BY <1>1, <1>2
<1> QED
  BY <1>3, Zenon DEF Reads

LEMMA ReadsBetween ==
  ASSUME NEW new, NEW h, NEW k, NEW n, n # Len(h), NEW c, NEW i, NEW j \in Int,
         Headings(new)[k].body = i,
         Headings(new)[k + Len(Inside(c)) + 1].start = j + 1,
         Padded(c, SubSeq(new, i, j))
  PROVE  Reads(new, h, k, n, c)
<1> DEFINE x == Headings(new)[k + Len(Inside(c)) + 1].start
<1>1. j + 1 - 1 = j
  BY OneMore
<1>2. (IF n = Len(h) THEN Len(new) + 1 ELSE x) = j + 1
  OBVIOUS
<1>3. (IF n = Len(h) THEN Len(new) + 1 ELSE x) - 1 = j
  BY <1>1, <1>2
<1> QED
  BY <1>3, Zenon DEF Reads

LEMMA NothingAtEnd ==
  ASSUME NEW p \in Seq(Tokens), NEW h, Len(h) \in Nat, NEW k \in Nat \ {0},
         Upon(Headings(p), h, k), Headings(p)[k].body = Len(p) + 1
  PROVE  /\ Rebuilt(Headings(p), h, k, Len(h), Inside(<<>>))
         /\ Reads(p, h, k, Len(h), <<>>)
<1>1. Len(Inside(<<>>)) = 0
  BY NoneInside
<1>2. Len(Headings(p)) = k /\ \A i \in 1..k : Same(Headings(p)[i], h[i])
  BY DEF Upon
<1>3. k = k + 0 + (Len(h) - Len(h)) /\ Len(h) - Len(h) = 0
  OBVIOUS
<1>4. Rebuilt(Headings(p), h, k, Len(h), Inside(<<>>))
  <2>1. \A j \in 1..0 : FALSE
    OBVIOUS
  <2> QED
    BY <1>1, <1>2, <1>3, <2>1 DEF Rebuilt
<1>5. Len(p) \in Int /\ <<>> \in Seq(Tokens)
  BY LenProperties, EmptySeq
<1>6. SubSeq(p, Len(p) + 1, Len(p)) = <<>>
  BY <1>5, NoneBetween
<1>7. Padded(<<>>, <<>>)
  BY <1>5, Pads
<1>8. Reads(p, h, k, Len(h), <<>>)
  <2>1. Padded(<<>>, SubSeq(p, Len(p) + 1, Len(p)))
    BY <1>6, <1>7
  <2> QED
    BY <1>5, <2>1, ReadsAtEnd
<1> QED
  BY <1>4, <1>8

LEMMA AddedAtEnd ==
  ASSUME NEW e \in Seq(Tokens), Stops(e), NEW c \in Seq(Tokens),
         NEW h, Len(h) \in Nat, NEW k \in Nat \ {0},
         Upon(Headings(e), h, k), Headings(e)[k].body = Len(e) + 1
  PROVE  /\ Rebuilt(Headings(e \o c), h, k, Len(h), Inside(c))
         /\ Reads(e \o c, h, k, Len(h), c)
<1>1. /\ Rebuilt(Headings(e \o c), h, k, Len(h), Inside(c))
      /\ Headings(e \o c)[k] = Headings(e)[k]
  BY MadeAtEnd
<1>2. /\ Len(e \o c) = Len(e) + Len(c) /\ Len(e) + Len(c) \in Int
      /\ e \o c \in Seq(Tokens) /\ <<>> \in Seq(Tokens)
  BY ConcatProperties, LenProperties, EmptySeq
<1>3. SubSeq(e \o c, Len(e) + 1, Len(e) + Len(c)) = c
  <2>1. SubSeq((e \o c) \o <<>>, Len(e) + 1, Len(e) + Len(c)) = c
    BY <1>2, MiddleOf
  <2>2. (e \o c) \o <<>> = e \o c
    BY <1>2, ConcatEmptySeq
  <2> QED
    BY <2>1, <2>2
<1>4. Padded(c, SubSeq(e \o c, Len(e) + 1, Len(e) + Len(c)))
  BY <1>3, Pads
<1>5. Headings(e \o c)[k].body = Len(e) + 1
  BY <1>1
<1>6. Reads(e \o c, h, k, Len(h), c)
  BY <1>2, <1>4, <1>5, ReadsAtEnd
<1> QED
  BY <1>1, <1>6

LEMMA NothingBetween ==
  ASSUME NEW p \in Seq(Tokens), Stops(p), NEW r \in Seq(Tokens),
         NEW h, Len(h) \in Nat, NEW k \in Nat \ {0}, NEW n \in Nat, n # Len(h),
         Upon(Headings(p), h, k), Rests(Inside(r), h, n),
         Headings(p)[k].body = Len(p) + 1
  PROVE  /\ Rebuilt(Headings(p \o r), h, k, n, Inside(<<>>))
         /\ Reads(p \o r, h, k, n, <<>>)
<1>1. /\ Rebuilt(Headings(p \o r), h, k, n, Inside(<<>>))
      /\ Headings(p \o r)[k] = Headings(p)[k]
      /\ Headings(p \o r)[k + Len(Inside(<<>>)) + 1].start = Len(p) + 1
  BY MadeOfTwo
<1>2. Len(p) \in Int /\ <<>> \in Seq(Tokens)
  BY LenProperties, EmptySeq
<1>3. SubSeq(p \o r, Len(p) + 1, Len(p)) = <<>>
  BY <1>2, NoneBetween
<1>4. Padded(<<>>, <<>>)
  BY <1>2, Pads
<1>5. Padded(<<>>, SubSeq(p \o r, Len(p) + 1, Len(p)))
  BY <1>3, <1>4
<1>6. Headings(p \o r)[k].body = Len(p) + 1
  BY <1>1
<1>7. Reads(p \o r, h, k, n, <<>>)
  BY <1>1, <1>2, <1>5, <1>6, ReadsBetween
<1> QED
  BY <1>1, <1>7

LEMMA AddedBetween ==
  ASSUME NEW p \in Seq(Tokens), Stops(p), NEW c \in Seq(Tokens),
         NEW m, Stands(m, c), Padded(c, m), NEW r \in Seq(Tokens), Len(r) >= 1,
         BlankEnds(m) \/ Level(Lines(r)[1].says) > 0,
         NEW h, Len(h) \in Nat, NEW k \in Nat \ {0}, NEW n \in Nat, n # Len(h),
         Upon(Headings(p), h, k), Rests(Inside(r), h, n),
         Headings(p)[k].body = Len(p) + 1
  PROVE  /\ Rebuilt(Headings((p \o m) \o r), h, k, n, Inside(c))
         /\ Reads((p \o m) \o r, h, k, n, c)
<1>1. /\ Rebuilt(Headings((p \o m) \o r), h, k, n, Inside(c))
      /\ Headings((p \o m) \o r)[k] = Headings(p)[k]
      /\ Headings((p \o m) \o r)[k + Len(Inside(c)) + 1].start
            = Len(p) + Len(m) + 1
  BY MadeOfThree
<1>2. m \in Seq(Tokens)
  BY DEF Stands
<1>3. Len(p) + Len(m) \in Int
  BY <1>2, LenProperties
<1>4. SubSeq((p \o m) \o r, Len(p) + 1, Len(p) + Len(m)) = m
  BY <1>2, MiddleOf
<1>5. Padded(c, SubSeq((p \o m) \o r, Len(p) + 1, Len(p) + Len(m)))
  BY <1>4
<1>6. Headings((p \o m) \o r)[k].body = Len(p) + 1
  BY <1>1
<1>7. Reads((p \o m) \o r, h, k, n, c)
  BY <1>1, <1>3, <1>5, <1>6, ReadsBetween
<1> QED
  BY <1>1, <1>7

LEMMA AtEndReads ==
  ASSUME NEW s \in Seq(Tokens), NEW c \in Seq(Tokens),
         NEW k \in 1..Len(Headings(s)),
         NEW p, p = SubSeq(s, 1, Headings(s)[k].body - 1),
         NEW new, new = IF c = <<>> THEN p \o <<>>
                        ELSE (Ended(p) \o c) \o <<>>
  PROVE  /\ Rebuilt(Headings(new), Headings(s), k, Len(Headings(s)), Inside(c))
         /\ Reads(new, Headings(s), k, Len(Headings(s)), c)
<1> DEFINE h == Headings(s)
           e == Ended(p)
<1>1. /\ p \in Seq(Tokens) /\ Upon(Headings(p), h, k)
      /\ Headings(p)[k].body = Len(p) + 1
      /\ e \in Seq(Tokens) /\ Stops(e) /\ Upon(Headings(e), h, k)
      /\ Headings(e)[k].body = Len(e) + 1
  <2>1. IsCut(s, k, p)
    BY CutAfter
  <2> QED
    BY <2>1 DEF IsCut
<1>2. Len(h) \in Nat /\ k \in Nat \ {0}
  BY HeadingsLen
<1>3. /\ c = <<>> => new = p \o <<>>
      /\ c # <<>> => new = (e \o c) \o <<>>
  OBVIOUS
<1> SUFFICES /\ Rebuilt(Headings(new), h, k, Len(h), Inside(c))
             /\ Reads(new, h, k, Len(h), c)
  OBVIOUS
<1> HIDE DEF h, e
<1>4. CASE c = <<>>
  <2>1. new = p
    BY <1>1, <1>3, <1>4, ConcatEmptySeq
  <2>2. /\ Rebuilt(Headings(p), h, k, Len(h), Inside(<<>>))
        /\ Reads(p, h, k, Len(h), <<>>)
    BY <1>1, <1>2, NothingAtEnd
  <2> QED
    BY <1>4, <2>1, <2>2, Zenon
<1>5. CASE c # <<>>
  <2>1. e \o c \in Seq(Tokens)
    BY <1>1, ConcatProperties
  <2>2. new = e \o c
    BY <1>3, <1>5, <2>1, ConcatEmptySeq
  <2>3. /\ Rebuilt(Headings(e \o c), h, k, Len(h), Inside(c))
        /\ Reads(e \o c, h, k, Len(h), c)
    BY <1>1, <1>2, AddedAtEnd
  <2> QED
    BY <2>2, <2>3, Zenon
<1> QED
  BY <1>4, <1>5

LEMMA CutBetween ==
  ASSUME NEW s \in Seq(Tokens), NEW k \in 1..Len(Headings(s)),
         NEW n \in k..Len(Headings(s)), n # Len(Headings(s)),
         NEW p, p = SubSeq(s, 1, Headings(s)[k].body - 1)
  PROVE  /\ p \in Seq(Tokens) /\ Ended(p) = p /\ Stops(p)
         /\ Upon(Headings(p), Headings(s), k)
         /\ Headings(p)[k].body = Len(p) + 1
<1>1. IsCut(s, k, p)
  BY CutAfter
<1>2. Len(Headings(s)) \in Nat /\ k \in Nat
  BY HeadingsLen
<1>3. k # Len(Headings(s))
  BY <1>2, IsBelow
<1>4. Ended(p) = p
  BY <1>1, <1>3, Zenon DEF IsCut
<1>5. Stops(Ended(p)) /\ p \in Seq(Tokens) /\ Upon(Headings(p), Headings(s), k)
  BY <1>1, Zenon DEF IsCut
<1>6. Headings(p)[k].body = Len(p) + 1
  BY <1>1, Zenon DEF IsCut
<1> QED
  BY <1>4, <1>5, <1>6, Zenon

LEMMA BetweenReads ==
  ASSUME NEW s \in Seq(Tokens), NEW c \in Seq(Tokens), Closed(c),
         NEW k \in 1..Len(Headings(s)), NEW n \in k..Len(Headings(s)),
         n # Len(Headings(s)),
         NEW p, p = SubSeq(s, 1, Headings(s)[k].body - 1),
         NEW r, r = SubSeq(s, Headings(s)[n + 1].start, Len(s)),
         NEW m, m = IF Headings(s)[n + 1].setext THEN Apart(Ended(c)) ELSE Ended(c),
         NEW new, new = IF c = <<>> THEN p \o r ELSE (Ended(p) \o m) \o r
  PROVE  /\ Rebuilt(Headings(new), Headings(s), k, n, Inside(c))
         /\ Reads(new, Headings(s), k, n, c)
<1> DEFINE h == Headings(s)
<1>1. Len(h) \in Nat /\ k \in Nat \ {0} /\ n \in Nat
  BY HeadingsLen
<1>2. /\ p \in Seq(Tokens) /\ Ended(p) = p /\ Stops(p)
      /\ Upon(Headings(p), h, k) /\ Headings(p)[k].body = Len(p) + 1
  BY CutBetween
<1>3. PICK j \in 1..Len(h) : j = n + 1 /\ j > 1 /\ n = j - 1
  BY <1>1
<1>4. /\ r \in Seq(Tokens) /\ Len(r) >= 1 /\ Rests(Inside(r), h, j - 1)
      /\ ~h[j].setext => Level(Lines(r)[1].says) > 0
  <2>1. r = SubSeq(s, Headings(s)[j].start, Len(s))
    BY <1>3
  <2> QED
    BY <1>3, <2>1, CutBefore
<1>5. /\ c = <<>> => new = p \o r
      /\ c # <<>> => new = (Ended(p) \o m) \o r
      /\ m = IF h[j].setext THEN Apart(Ended(c)) ELSE Ended(c)
      /\ n # Len(h) /\ n \in k..Len(h) /\ k \in 1..Len(h)
  BY <1>3
<1> SUFFICES Rebuilt(Headings(new), h, k, n, Inside(c)) /\ Reads(new, h, k, n, c)
  OBVIOUS
<1> HIDE DEF h
<1>6. Rests(Inside(r), h, n)
  BY <1>3, <1>4, Zenon
<1>7. CASE c = <<>>
  <2>1. new = p \o r
    BY <1>5, <1>7
  <2>2. /\ Rebuilt(Headings(p \o r), h, k, n, Inside(<<>>))
        /\ Reads(p \o r, h, k, n, <<>>)
    BY <1>1, <1>2, <1>4, <1>5, <1>6, NothingBetween
  <2> QED
    BY <1>7, <2>1, <2>2, Zenon
<1>8. CASE c # <<>>
  <2>1. new = (p \o m) \o r
    BY <1>2, <1>5, <1>8
  <2>2. Stands(Ended(c), c)
    BY <1>8, IsLong, EndedStands
  <2>3. Ended(c) \in Seq(Tokens)
    BY <2>2 DEF Stands
  <2>4. /\ Stands(Apart(Ended(c)), c) /\ BlankEnds(Apart(Ended(c)))
        /\ \/ Apart(Ended(c)) = Ended(c)
           \/ Apart(Ended(c)) = Append(Ended(c), Newline)
    BY <2>2, <2>3, ApartStands
  <2>5. Stands(m, c) /\ (BlankEnds(m) \/ Level(Lines(r)[1].says) > 0)
    <3>1. CASE h[j].setext
      BY <1>5, <2>4, <3>1
    <3>2. CASE ~h[j].setext
      BY <1>4, <1>5, <2>2, <3>2
    <3> QED
      BY <3>1, <3>2
  <2>6. m = Ended(c) \/ m = Append(Ended(c), Newline)
    BY <1>5, <2>4
  <2>7. Padded(c, m)
    <3>1. Ended(c) = c \/ Ended(c) = Append(c, Newline)
      BY DEF Ended
    <3>2. /\ Padded(c, c) /\ Padded(c, Append(c, Newline))
          /\ Padded(c, Append(Append(c, Newline), Newline))
      BY Pads
    <3> QED
      BY <2>6, <3>1, <3>2
  <2>8. /\ Rebuilt(Headings((p \o m) \o r), h, k, n, Inside(c))
        /\ Reads((p \o m) \o r, h, k, n, c)
    BY <1>1, <1>2, <1>4, <1>5, <1>6, <2>5, <2>7, AddedBetween
  <2> QED
    BY <2>1, <2>8, Zenon
<1> QED
  BY <1>7, <1>8

LEMMA Replacing ==
  ASSUME NEW s \in Seq(Tokens), NEW c \in Seq(Tokens), Closed(c),
         NEW k \in 1..Len(Headings(s)),
         NEW n, n = LastIn(Headings(s), k),
         NEW new, new = ReplaceSection(s, SectionAt(s, Headings(s), k), c)
  PROVE  /\ Rebuilt(Headings(new), Headings(s), k, n, Inside(c))
         /\ Reads(new, Headings(s), k, n, c)
<1> DEFINE h == Headings(s)
           p == SubSeq(s, 1, h[k].body - 1)
           r == SubSeq(s, EndUnder(s, h, k), Len(s))
           ended == IF r = <<>> THEN c ELSE Ended(c)
           m == IF r # <<>> /\ NextSetext(h, k) THEN Apart(ended) ELSE ended
<1>1. HeadingShape(s, h) /\ Len(s) \in Nat
  BY HeadingsAre
<1>2. Len(h) \in Nat /\ k \in 1..Len(h)
  BY HeadingsLen
<1>3. new = IF c = <<>> THEN p \o r ELSE (Ended(p) \o m) \o r
  <2>1. /\ SectionAt(s, h, k).body = h[k].body
        /\ SectionAt(s, h, k).end = EndUnder(s, h, k)
        /\ SectionAt(s, h, k).nextSetext = NextSetext(h, k)
    BY DEF SectionAt
  <2> HIDE DEF h
  <2>2. new = IF c = <<>> THEN p \o r ELSE (Ended(p) \o m) \o r
    BY <2>1 DEF ReplaceSection, h
  <2> QED
    BY <2>2
<1>4. p = SubSeq(s, 1, Headings(s)[k].body - 1)
  OBVIOUS
<1>5. n = LastIn(h, k)
  OBVIOUS
<1> SUFFICES Rebuilt(Headings(new), h, k, n, Inside(c)) /\ Reads(new, h, k, n, c)
  OBVIOUS
<1> HIDE DEF h
<1>6. /\ n \in k..Len(h)
      /\ EndUnder(s, h, k) = IF n = Len(h) THEN Len(s) + 1 ELSE h[n + 1].start
      /\ NextSetext(h, k) <=> n # Len(h) /\ h[n + 1].setext
  BY <1>1, <1>2, <1>5, LastInIs
<1> HIDE DEF p
<1>7. CASE n = Len(h)
  <2>1. r = <<>>
    <3>1. EndUnder(s, h, k) = Len(s) + 1
      BY <1>6, <1>7
    <3>2. SubSeq(s, Len(s) + 1, Len(s)) = <<>>
      BY <1>1, NoneBetween
    <3> QED
      BY <3>1, <3>2, Zenon
  <2> HIDE DEF r
  <2>2. m = c
    BY <2>1
  <2> HIDE DEF m
  <2>3. new = IF c = <<>> THEN p \o <<>> ELSE (Ended(p) \o c) \o <<>>
    BY <1>3, <2>1, <2>2, Zenon
  <2>4. /\ Rebuilt(Headings(new), Headings(s), k, Len(Headings(s)), Inside(c))
        /\ Reads(new, Headings(s), k, Len(Headings(s)), c)
    BY <1>4, <2>3, AtEndReads
  <2> QED
    BY <1>7, <2>4, Zenon DEF h
<1>8. CASE n # Len(h)
  <2>1. r = SubSeq(s, h[n + 1].start, Len(s))
    BY <1>6, <1>8
  <2> HIDE DEF r
  <2>2. r # <<>>
    <3>1. PICK j \in 1..Len(h) : j = n + 1 /\ j > 1
      BY <1>2, <1>6, <1>8
    <3>2. j \in 1..Len(Headings(s)) /\ j > 1 /\ r = SubSeq(s, Headings(s)[j].start, Len(s))
      BY <2>1, <3>1 DEF h
    <3>3. r \in Seq(Tokens) /\ Len(r) >= 1
      BY <3>2, CutBefore
    <3> QED
      BY <3>3, IsThere
  <2>3. m = IF h[n + 1].setext THEN Apart(Ended(c)) ELSE Ended(c)
    <3>1. NextSetext(h, k) <=> h[n + 1].setext
      BY <1>6, <1>8
    <3>2. ended = Ended(c)
      BY <2>2
    <3> QED
      BY <2>2, <3>1, <3>2
  <2> HIDE DEF m
  <2>4. n \in k..Len(Headings(s)) /\ n # Len(Headings(s))
    BY <1>6, <1>8 DEF h
  <2>5. /\ r = SubSeq(s, Headings(s)[n + 1].start, Len(s))
        /\ m = IF Headings(s)[n + 1].setext THEN Apart(Ended(c)) ELSE Ended(c)
    BY <2>1, <2>3 DEF h
  <2>6. /\ Rebuilt(Headings(new), Headings(s), k, n, Inside(c))
        /\ Reads(new, Headings(s), k, n, c)
    BY <1>3, <1>4, <2>4, <2>5, BetweenReads
  <2> QED
    BY <2>6 DEF h
<1> QED
  BY <1>7, <1>8

-----------------------------------------------------------------------------
(* The headings before the end of a section's own, and those after it.     *)
Before(h, x) == Cardinality({j \in DOMAIN h : h[j].start <= x})

After(h, x) == Cardinality({j \in DOMAIN h : h[j].start >= x})

LEMMA Counted ==
  ASSUME NEW s, NEW h, HeadingShape(s, h), Len(s) \in Nat, NEW k \in 1..Len(h),
         NEW n, n = LastIn(h, k), NEW sec, sec = SectionAt(s, h, k)
  PROVE  Before(h, sec.start) = k /\ After(h, sec.end) = Len(h) - n
<1> DEFINE x == EndUnder(s, h, k)
<1>1. /\ n \in k..Len(h)
      /\ x = IF n = Len(h) THEN Len(s) + 1 ELSE h[n + 1].start
  BY LastInIs
<1>2. /\ Len(h) \in Nat /\ DOMAIN h = 1..Len(h)
      /\ \A i \in 1..Len(h) : h[i].start \in 1..Len(s) /\ h[i].body \in Int
      /\ \A i \in 1..Len(h) : h[i].start < h[i].body
      /\ \A i, j \in 1..Len(h) : i < j => h[i].body <= h[j].start
  BY DEF HeadingShape, Levelled
<1>3. sec.start = h[k].start /\ sec.end = x
  BY DEF SectionAt
<1> HIDE DEF x
<1>4. ASSUME NEW i \in 1..Len(h), NEW j \in 1..Len(h), i < j
      PROVE  h[i].start < h[j].start
  <2>1. h[i].start < h[i].body /\ h[i].body <= h[j].start
    BY <1>2, <1>4
  <2>2. h[i].start \in Int /\ h[i].body \in Int /\ h[j].start \in Int
    BY <1>2
  <2> QED
    BY <2>1, <2>2
<1>5. ASSUME NEW i \in 1..Len(h), NEW j \in 1..Len(h)
      PROVE  h[i].start <= h[j].start <=> i <= j
  <2>1. h[i].start \in Int /\ h[j].start \in Int /\ i \in Int /\ j \in Int
    BY <1>2
  <2>2. (i < j => h[i].start < h[j].start) /\ (j < i => h[j].start < h[i].start)
    BY <1>4
  <2>3. i = j => h[i].start = h[j].start
    OBVIOUS
  <2> QED
    BY <2>1, <2>2, <2>3
<1>6. {j \in DOMAIN h : h[j].start <= sec.start} = 1..k
  <2>1. \A j : j \in 1..k <=> j \in 1..Len(h) /\ j <= k
    BY <1>2
  <2>2. \A j \in 1..Len(h) : h[j].start <= h[k].start <=> j <= k
    BY <1>5
  <2> QED
    BY <1>2, <1>3, <2>1, <2>2
<1>7. {j \in DOMAIN h : h[j].start >= sec.end} = (n + 1)..Len(h)
  <2>1. CASE n = Len(h)
    <3>1. \A j \in 1..Len(h) : ~(h[j].start >= x)
      <4>1. x = Len(s) + 1
        BY <1>1, <2>1
      <4> QED
        BY <1>2, <4>1
    <3>2. \A j : j \notin (n + 1)..Len(h)
      BY <1>2, <2>1
    <3> QED
      BY <1>2, <1>3, <3>1, <3>2
  <2>2. CASE n # Len(h)
    <3>1. PICK m \in 1..Len(h) : m = n + 1
      BY <1>1, <1>2, <2>2
    <3>2. x = h[m].start
      BY <1>1, <2>2, <3>1
    <3>3. \A j \in 1..Len(h) : h[j].start >= x <=> m <= j
      <4>1. \A j \in 1..Len(h) : h[m].start <= h[j].start <=> m <= j
        BY <1>5
      <4>2. \A j \in 1..Len(h) : h[j].start \in Int
        BY <1>2
      <4> QED
        BY <3>2, <4>1, <4>2
    <3>4. \A j : j \in m..Len(h) <=> j \in 1..Len(h) /\ m <= j
      BY <1>2
    <3> QED
      BY <1>2, <1>3, <3>1, <3>3, <3>4
  <2> QED
    BY <2>1, <2>2
<1>8. Cardinality(1..k) = k
  <2>1. 1 \in Int /\ k \in Int /\ ~(1 > k) /\ k - 1 + 1 = k
    BY <1>2
  <2> QED
    BY <2>1, FS_Interval
<1>9. Cardinality((n + 1)..Len(h)) = Len(h) - n
  <2>1. PICK m \in Int : m = n + 1
    BY <1>1, <1>2
  <2>2. Cardinality(m..Len(h)) = IF m > Len(h) THEN 0 ELSE Len(h) - m + 1
    <3>1. m \in Int /\ Len(h) \in Int
      BY <1>2
    <3> QED
      BY <3>1, FS_Interval
  <2>3. (IF m > Len(h) THEN 0 ELSE Len(h) - m + 1) = Len(h) - n
    BY <1>1, <1>2, <2>1
  <2> QED
    BY <2>1, <2>2, <2>3
<1> QED
  BY <1>6, <1>7, <1>8, <1>9 DEF Before, After

(* A part of a sequence.                                                   *)
LEMMA PartOf ==
  ASSUME NEW E, NEW a \in Seq(E), NEW m \in 0..Len(a), NEW n \in m..Len(a)
  PROVE  /\ SubSeq(a, m + 1, n) \in Seq(E) /\ Len(SubSeq(a, m + 1, n)) = n - m
         /\ \A i \in 1..(n - m) : SubSeq(a, m + 1, n)[i] = a[m + i]
<1>1. Len(a) \in Nat /\ \A i \in 1..Len(a) : a[i] \in E
  BY LenProperties, ElementOfSeq
<1>2. PICK j \in Int : j = m + 1
  BY <1>1
<1>3. n \in Int /\ \A i \in j..n : i \in 1..Len(a)
  BY <1>1, <1>2
<1>4. \A i \in j..n : a[i] \in E
  BY <1>1, <1>3
<1>5. /\ SubSeq(a, j, n) \in Seq(E)
      /\ Len(SubSeq(a, j, n)) = IF j <= n THEN n - j + 1 ELSE 0
      /\ \A i \in 1..(n - j + 1) : SubSeq(a, j, n)[i] = a[j + i - 1]
  BY <1>3, <1>4, SubSeqProperties
<1>6. /\ n - j + 1 = n - m
      /\ (IF j <= n THEN n - j + 1 ELSE 0) = n - m
      /\ \A i \in 1..(n - m) : j + i - 1 = m + i
  BY <1>1, <1>2, <1>3
<1> QED
  BY <1>2, <1>5, <1>6

LEMMA Beyond ==
  ASSUME NEW b \in Nat, NEW d \in Nat, NEW i \in 1..(b + d), ~(i <= b)
  PROVE  \E j \in 1..d : i = b + j /\ i - b = j
<1>1. i - b \in 1..d /\ i = b + (i - b)
  OBVIOUS
<1> QED
  BY <1>1

(* The first k of a, then g, then what a has after the first n.            *)
Parted(w, a, g, k, n) ==
    /\ Len(w) = k + Len(g) + (Len(a) - n)
    /\ \A i \in 1..k : w[i] = a[i]
    /\ \A j \in 1..Len(g) : w[k + j] = g[j]
    /\ \A j \in 1..(Len(a) - n) : w[k + Len(g) + j] = a[n + j]

LEMMA ThreeParts ==
  ASSUME NEW E, NEW w \in Seq(E), NEW a \in Seq(E), NEW g \in Seq(E),
         NEW k \in 0..Len(a), NEW n \in k..Len(a), Parted(w, a, g, k, n)
  PROVE  w = (SubSeq(a, 1, k) \o g) \o SubSeq(a, n + 1, Len(a))
<1> DEFINE p == SubSeq(a, 1, k)
           r == SubSeq(a, n + 1, Len(a))
           u == p \o g
           z == u \o r
<1>1. Len(a) \in Nat /\ Len(g) \in Nat /\ Len(w) \in Nat
  BY LenProperties
<1>2. /\ Len(w) = k + Len(g) + (Len(a) - n)
      /\ \A i \in 1..k : w[i] = a[i]
      /\ \A j \in 1..Len(g) : w[k + j] = g[j]
      /\ \A j \in 1..(Len(a) - n) : w[k + Len(g) + j] = a[n + j]
  BY DEF Parted
<1>3. /\ p \in Seq(E) /\ Len(p) = k /\ \A i \in 1..k : p[i] = a[i]
  <2>1. 0 \in 0..Len(a) /\ k \in 0..Len(a) /\ 0 + 1 = 1 /\ k - 0 = k
    BY <1>1
  <2>2. /\ SubSeq(a, 0 + 1, k) \in Seq(E) /\ Len(SubSeq(a, 0 + 1, k)) = k - 0
        /\ \A i \in 1..(k - 0) : SubSeq(a, 0 + 1, k)[i] = a[0 + i]
    BY <2>1, PartOf
  <2>3. \A i \in 1..k : 0 + i = i
    OBVIOUS
  <2> QED
    BY <2>1, <2>2, <2>3
<1>4. /\ r \in Seq(E) /\ Len(r) = Len(a) - n
      /\ \A i \in 1..(Len(a) - n) : r[i] = a[n + i]
  <2>1. n \in 0..Len(a) /\ Len(a) \in n..Len(a)
    BY <1>1
  <2> QED
    BY <2>1, PartOf
<1> HIDE DEF p, r
<1>5. /\ u \in Seq(E) /\ Len(u) = k + Len(g)
      /\ \A i \in 1..(k + Len(g)) : u[i] = IF i <= k THEN p[i] ELSE g[i - k]
  <2>1. /\ u \in Seq(E) /\ Len(u) = Len(p) + Len(g)
        /\ \A i \in 1..(Len(p) + Len(g)) : u[i] =
              IF i <= Len(p) THEN p[i] ELSE g[i - Len(p)]
    BY <1>3, ConcatProperties
  <2> HIDE DEF u
  <2> QED
    BY <1>3, <2>1
<1> HIDE DEF u
<1>6. /\ z \in Seq(E) /\ Len(z) = k + Len(g) + (Len(a) - n)
      /\ \A i \in 1..(k + Len(g) + (Len(a) - n)) :
            z[i] = IF i <= k + Len(g) THEN u[i] ELSE r[i - (k + Len(g))]
  <2>1. /\ z \in Seq(E) /\ Len(z) = Len(u) + Len(r)
        /\ \A i \in 1..(Len(u) + Len(r)) : z[i] =
              IF i <= Len(u) THEN u[i] ELSE r[i - Len(u)]
    BY <1>4, <1>5, ConcatProperties
  <2> HIDE DEF z
  <2> QED
    BY <1>4, <1>5, <2>1
<1> HIDE DEF z
<1>7. ASSUME NEW i \in 1..Len(w) PROVE w[i] = z[i]
  <2>1. i \in 1..(k + Len(g) + (Len(a) - n))
    BY <1>2
  <2>2. CASE i <= k
    <3>1. i \in 1..k /\ i <= k + Len(g) /\ i \in 1..(k + Len(g))
      BY <1>1, <2>1, <2>2
    <3> QED
      BY <1>3, <1>5, <1>6, <1>2, <2>1, <2>2, <3>1
  <2>3. CASE ~(i <= k) /\ i <= k + Len(g)
    <3>1. PICK j \in 1..Len(g) : i = k + j /\ i - k = j
      BY <1>1, <2>1, <2>3
    <3>2. i \in 1..(k + Len(g))
      BY <1>1, <2>1, <2>3
    <3>3. z[i] = g[j]
      BY <1>5, <1>6, <2>1, <2>3, <3>1, <3>2
    <3> QED
      BY <1>2, <3>1, <3>3
  <2>4. CASE ~(i <= k + Len(g))
    <3>1. PICK j \in 1..(Len(a) - n) : i = k + Len(g) + j /\ i - (k + Len(g)) = j
      <4>1. k + Len(g) \in Nat /\ Len(a) - n \in Nat
        BY <1>1
      <4> QED
        BY <2>1, <2>4, <4>1, Beyond
    <3>2. z[i] = r[j]
      BY <1>6, <2>1, <2>4, <3>1
    <3> QED
      BY <1>4, <1>2, <3>1, <3>2
  <2> QED
    BY <2>2, <2>3, <2>4
<1>8. Len(w) = Len(z)
  BY <1>6, <1>2
<1>9. w = z
  BY <1>6, <1>7, <1>8, SeqEqual
<1> QED
  BY <1>9 DEF z, u, p, r

LEMMA OutlineIs ==
  ASSUME NEW s \in Seq(Tokens)
  PROVE  /\ DOMAIN Outline(s) = 1..Len(Headings(s))
         /\ Len(Outline(s)) = Len(Headings(s)) /\ Len(Headings(s)) \in Nat
         /\ \A i \in 1..Len(Headings(s)) : Outline(s)[i] =
               <<Headings(s)[i].level, Headings(s)[i].title>>
         /\ Outline(s) = [i \in 1..Len(Headings(s)) |-> Outline(s)[i]]
<1> DEFINE h == Headings(s)
           f == [i \in DOMAIN h |-> <<h[i].level, h[i].title>>]
<1>1. HeadingShape(s, h)
  BY HeadingsAre
<1> HIDE DEF h
<1>2. DOMAIN h = 1..Len(h) /\ Len(h) \in Nat
  BY <1>1 DEF HeadingShape, Levelled
<1>3. /\ DOMAIN f = 1..Len(h) /\ f = [i \in 1..Len(h) |-> f[i]]
      /\ \A i \in 1..Len(h) : f[i] = <<h[i].level, h[i].title>>
  BY <1>2
<1>4. Outline(s) = f
  BY DEF Outline, h
<1> HIDE DEF f
<1>5. Len(f) = Len(h)
  BY <1>2, <1>3, FunIsSeq
<1> QED
  BY <1>2, <1>3, <1>4, <1>5 DEF h

LEMMA OutlineIn ==
  ASSUME NEW s \in Seq(Tokens), NEW E,
         \A i \in 1..Len(Headings(s)) : Outline(s)[i] \in E
  PROVE  Outline(s) \in Seq(E)
<1>1. /\ DOMAIN Outline(s) = 1..Len(Headings(s)) /\ Len(Headings(s)) \in Nat
      /\ Outline(s) = [i \in 1..Len(Headings(s)) |-> Outline(s)[i]]
  BY OutlineIs
<1>2. Outline(s) \in [1..Len(Headings(s)) -> E]
  BY <1>1
<1> QED
  BY <1>1, <1>2, SeqDef

(* Where the m - n things after the n-th of m lie, once k + c stand before   *)
(* them.                                                                     *)
LEMMA PlacesAfter ==
  ASSUME NEW m \in Nat, NEW c \in Nat, NEW k \in 1..m, NEW n \in k..m
  PROVE  \A j \in 1..(m - n) : k + c + j \in 1..(k + c + (m - n)) /\ n + j \in 1..m
  OBVIOUS

LEMMA OutlineKept ==
  ASSUME NEW s \in Seq(Tokens), NEW c \in Seq(Tokens), NEW new \in Seq(Tokens),
         NEW k \in 1..Len(Headings(s)), NEW n \in k..Len(Headings(s)),
         Rebuilt(Headings(new), Headings(s), k, n, Inside(c))
  PROVE  Outline(new) = (SubSeq(Outline(s), 1, k) \o OutlineInside(c))
                           \o SubSeq(Outline(s), n + 1, Len(Headings(s)))
<1> DEFINE t == <<Newline>> \o c
           h == Headings(s)
           hn == Headings(new)
           g == Headings(t)
           w == Outline(new)
           a == Outline(s)
           b == Outline(t)
           E == {w[i] : i \in 1..Len(hn)} \cup {a[i] : i \in 1..Len(h)}
                   \cup {b[i] : i \in 1..Len(g)}
<1>1. t \in Seq(Tokens)
  BY EmptyLine, ConcatProperties
<1> HIDE DEF t
<1>2. w \in Seq(E) /\ a \in Seq(E) /\ b \in Seq(E)
  <2>1. /\ \A i \in 1..Len(hn) : w[i] \in E
        /\ \A i \in 1..Len(h) : a[i] \in E
        /\ \A i \in 1..Len(g) : b[i] \in E
    OBVIOUS
  <2> HIDE DEF E
  <2> QED
    BY <1>1, <2>1, OutlineIn
<1> HIDE DEF E
<1>3. /\ Len(w) = Len(hn) /\ Len(a) = Len(h) /\ Len(b) = Len(g)
      /\ Len(hn) \in Nat /\ Len(h) \in Nat /\ Len(g) \in Nat
  BY <1>1, OutlineIs
<1>4. /\ \A i \in 1..Len(hn) : w[i] = <<hn[i].level, hn[i].title>>
      /\ \A i \in 1..Len(h) : a[i] = <<h[i].level, h[i].title>>
      /\ \A i \in 1..Len(g) : b[i] = <<g[i].level, g[i].title>>
  BY <1>1, OutlineIs
<1>5. k \in 1..Len(h) /\ n \in k..Len(h) /\ Inside(c) = g
  BY DEF Inside, t
<1>6. Rebuilt(hn, h, k, n, g)
  BY <1>5
<1> HIDE DEF h, hn, g, w, a, b
<1>7. /\ Len(hn) = k + Len(g) + (Len(h) - n)
      /\ \A i \in 1..k : Like(hn[i], h[i])
      /\ \A j \in 1..Len(g) : Like(hn[k + j], g[j])
      /\ \A j \in 1..(Len(h) - n) : Like(hn[k + Len(g) + j], h[n + j])
  BY <1>6 DEF Rebuilt, Same, Like
<1>8. \A i \in 1..k : w[i] = a[i]
  <2>1. \A i \in 1..k : i \in 1..Len(hn) /\ i \in 1..Len(h)
    BY <1>3, <1>5, <1>7
  <2>2. ASSUME NEW i \in 1..k PROVE w[i] = a[i]
    <3>1. w[i] = <<hn[i].level, hn[i].title>> /\ a[i] = <<h[i].level, h[i].title>>
      BY <1>4, <2>1
    <3>2. hn[i].level = h[i].level /\ hn[i].title = h[i].title
      BY <1>7 DEF Like
    <3> QED
      BY <3>1, <3>2, Zenon
  <2> QED
    BY <2>2
<1>9. \A j \in 1..Len(g) : w[k + j] = b[j]
  <2>1. \A j \in 1..Len(g) : k + j \in 1..Len(hn)
    BY <1>3, <1>5, <1>7
  <2>2. ASSUME NEW j \in 1..Len(g) PROVE w[k + j] = b[j]
    <3>1. /\ w[k + j] = <<hn[k + j].level, hn[k + j].title>>
          /\ b[j] = <<g[j].level, g[j].title>>
      BY <1>4, <2>1
    <3>2. hn[k + j].level = g[j].level /\ hn[k + j].title = g[j].title
      BY <1>7 DEF Like
    <3> QED
      BY <3>1, <3>2, Zenon
  <2> QED
    BY <2>2
<1>10. \A j \in 1..(Len(h) - n) : w[k + Len(g) + j] = a[n + j]
  <2>1. \A j \in 1..(Len(h) - n) : k + Len(g) + j \in 1..Len(hn) /\ n + j \in 1..Len(h)
    BY <1>3, <1>5, <1>7, PlacesAfter, Zenon
  <2>2. ASSUME NEW j \in 1..(Len(h) - n), NEW x, x = k + Len(g) + j,
               NEW y, y = n + j
        PROVE  w[x] = a[y]
    <3>1. x \in 1..Len(hn) /\ y \in 1..Len(h)
      BY <2>1, <2>2
    <3>2. w[x] = <<hn[x].level, hn[x].title>> /\ a[y] = <<h[y].level, h[y].title>>
      BY <1>4, <3>1
    <3>3. Like(hn[k + Len(g) + j], h[n + j])
      BY <1>7, <2>2
    <3>4. hn[x].level = h[y].level /\ hn[x].title = h[y].title
      BY <2>2, <3>3 DEF Like
    <3> QED
      BY <3>2, <3>4, Zenon
  <2> QED
    BY <2>2
<1>11. k \in 0..Len(a) /\ n \in k..Len(a)
  BY <1>3, <1>5
<1>12. w = (SubSeq(a, 1, k) \o b) \o SubSeq(a, n + 1, Len(a))
  <2>1. Parted(w, a, b, k, n)
    BY <1>3, <1>7, <1>8, <1>9, <1>10 DEF Parted
  <2> QED
    BY <1>2, <1>11, <2>1, ThreeParts
<1>13. OutlineInside(c) = b
  BY DEF OutlineInside, b, t
<1> QED
  BY <1>3, <1>12, <1>13 DEF w, a, h

(* A section of a note, and the headings it has.                           *)
LEMMA SectionOf ==
  ASSUME NEW s \in Seq(Tokens), NEW sec \in ToSet(markdownSections(s))
  PROVE  \E k \in 1..Len(Headings(s)) : sec = SectionAt(s, Headings(s), k)
<1> DEFINE h == Headings(s)
<1>1. HeadingShape(s, h)
  BY HeadingsAre
<1>2. markdownSections(s) = [k \in DOMAIN h |-> SectionAt(s, h, k)]
  BY SectionsAre
<1> HIDE DEF h
<1>3. DOMAIN h = 1..Len(h)
  BY <1>1 DEF HeadingShape
<1>4. PICK k \in 1..Len(h) : sec = SectionAt(s, h, k)
  BY <1>2, <1>3 DEF ToSet
<1> QED
  BY <1>4 DEF h

LEMMA OutsideIsKept ==
  ASSUME NEW s \in Seq(Tokens), NEW c \in Seq(Tokens), Closed(c),
         NEW sec \in ToSet(markdownSections(s))
  PROVE  Outline(ReplaceSection(s, sec, c)) =
            (SubSeq(Outline(s), 1, Before(Headings(s), sec.start))
               \o OutlineInside(c))
               \o SubSeq(Outline(s),
                         Len(Headings(s)) - After(Headings(s), sec.end) + 1,
                         Len(Headings(s)))
<1>1. PICK k \in 1..Len(Headings(s)) : sec = SectionAt(s, Headings(s), k)
  BY SectionOf
<1> DEFINE h == Headings(s)
           new == ReplaceSection(s, sec, c)
           n == LastIn(Headings(s), k)
<1>2. HeadingShape(s, h) /\ Len(s) \in Nat /\ Len(h) \in Nat
  BY HeadingsAre, HeadingsLen
<1>3. new \in Seq(Tokens)
  BY ReplacedIsNote
<1>4. Rebuilt(Headings(new), Headings(s), k, n, Inside(c))
  BY <1>1, Replacing
<1>5. n \in k..Len(h)
  BY <1>2, LastInIs
<1>6. Before(h, sec.start) = k /\ After(h, sec.end) = Len(h) - n
  BY <1>1, <1>2, Counted
<1> HIDE DEF new, n
<1>7. Outline(new) = (SubSeq(Outline(s), 1, k) \o OutlineInside(c))
                        \o SubSeq(Outline(s), n + 1, Len(h))
  BY <1>3, <1>4, <1>5, OutlineKept
<1> HIDE DEF h
<1>8. Len(h) - (Len(h) - n) + 1 = n + 1
  BY <1>2, <1>5
<1>9. Outline(new) =
         (SubSeq(Outline(s), 1, Before(h, sec.start)) \o OutlineInside(c))
            \o SubSeq(Outline(s), Len(h) - After(h, sec.end) + 1, Len(h))
  BY <1>6, <1>7, <1>8
<1> QED
  BY <1>9 DEF new, h

-----------------------------------------------------------------------------
(* Two headings that follow the same ones have the same path.              *)
LEMMA SamePath ==
  ASSUME NEW f, Levelled(f), NEW h, Levelled(h),
         NEW k \in 1..Len(f), k \in 1..Len(h), \A i \in 1..k : Same(f[i], h[i])
  PROVE  PathAt(f, k) = PathAt(h, k)
<1> DEFINE r == Stacks(h)[k]
<1>1. Len(f) \in Nat /\ Len(h) \in Nat
  BY DEF Levelled
<1>2. \A i \in 1..k : f[i].level = h[i].level /\ f[i].title = h[i].title
  BY DEF Same
<1>3. Stacks(f)[k] = r
  <2> DEFINE B(g) == {j \in 1..k : \A i \in (j + 1)..k : g[i].level > g[j].level}
  <2>1. ASSUME NEW j \in 1..k
        PROVE  (\A i \in (j + 1)..k : f[i].level > f[j].level)
                  <=> (\A i \in (j + 1)..k : h[i].level > h[j].level)
    <3>1. \A i \in (j + 1)..k : i \in 1..k
      BY <1>1
    <3> QED
      BY <1>2, <3>1
  <2>2. B(f) = B(h)
    BY <2>1
  <2>3. OpenAt(f, k) = Only(Upto(k), B(f)) /\ OpenAt(h, k) = Only(Upto(k), B(h))
    BY DEF OpenAt
  <2> HIDE DEF B
  <2>4. OpenAt(f, k) = OpenAt(h, k)
    BY <2>2, <2>3, Zenon
  <2>5. Stacks(f)[k] = OpenAt(f, k) /\ Stacks(h)[k] = OpenAt(h, k)
    BY StackIsOpenAt
  <2> QED
    BY <2>4, <2>5
<1>4. r \in Seq(Int) /\ \A x : x \in Elems(r) <=> x \in Open(h, k)
  BY StackIsOpen
<1> HIDE DEF r
<1>5. \A i \in DOMAIN r : r[i] \in 1..k
  <2>1. DOMAIN r = 1..Len(r)
    BY <1>4, LenProperties
  <2>2. \A i \in 1..Len(r) : r[i] \in Elems(r)
    BY DEF Elems
  <2> QED
    BY <1>4, <2>1, <2>2 DEF Open
<1>6. \A i \in DOMAIN r : f[r[i]].title = h[r[i]].title
  BY <1>2, <1>5
<1>7. /\ PathAt(f, k) = [i \in DOMAIN r |-> f[r[i]].title]
      /\ PathAt(h, k) = [i \in DOMAIN r |-> h[r[i]].title]
  BY <1>3 DEF PathAt, r
<1> QED
  BY <1>6, <1>7

(* Where section k ends that has the headings g in it.                     *)
LEMMA LastIsInside ==
  ASSUME NEW s, NEW f, HeadingShape(s, f), NEW t, NEW h, HeadingShape(t, h),
         NEW g, Len(g) \in Nat, NEW k \in 1..Len(h), NEW n, n = LastIn(h, k),
         Rebuilt(f, h, k, n, g), \A i \in 1..Len(g) : g[i].level > h[k].level
  PROVE  /\ k \in 1..Len(f) /\ LastIn(f, k) = k + Len(g)
         /\ n = Len(h) <=> k + Len(g) = Len(f)
<1> DEFINE q == LastIn(f, k)
           x == k + Len(g)
<1>1. /\ Len(f) \in Nat /\ Len(h) \in Nat
      /\ \A i \in 1..Len(f) : f[i].level \in Int
      /\ \A i \in 1..Len(h) : h[i].level \in Int
  <2>1. /\ Len(f) \in Nat /\ Len(h) \in Nat
        /\ \A i \in 1..Len(f) : f[i].level \in Nat
        /\ \A i \in 1..Len(h) : h[i].level \in Nat
    BY DEF HeadingShape, Levelled
  <2> QED
    BY <2>1
<1>2. /\ n \in k..Len(h)
      /\ n # Len(h) => h[n + 1].level <= h[k].level
  BY LastInIs
<1>3. /\ Len(f) = k + Len(g) + (Len(h) - n)
      /\ \A i \in 1..k : f[i].level = h[i].level
      /\ \A j \in 1..Len(g) : f[k + j].level = g[j].level
      /\ \A j \in 1..(Len(h) - n) : f[k + Len(g) + j].level = h[n + j].level
  BY DEF Rebuilt, Same, Like
<1>4. k \in 1..Len(f) /\ (n = Len(h) <=> k + Len(g) = Len(f)) /\ x \in k..Len(f)
  BY <1>1, <1>2, <1>3
<1>5. /\ q \in k..Len(f) /\ \A j \in (k + 1)..q : f[j].level > f[k].level
      /\ q # Len(f) => f[q + 1].level <= f[k].level
  BY <1>4, LastInIs
<1>6. f[k].level = h[k].level
  <2>1. k \in 1..k
    BY <1>1
  <2> QED
    BY <1>3, <2>1
<1>7. ASSUME NEW j \in (k + 1)..x PROVE f[j].level > f[k].level
  <2>1. PICK i \in 1..Len(g) : j = k + i
    <3>1. j - k \in 1..Len(g) /\ j = k + (j - k)
      BY <1>1
    <3> QED
      BY <3>1
  <2> QED
    BY <1>3, <1>6, <2>1
<1> HIDE DEF q
<1>8. ~(q < x)
  <2> SUFFICES ASSUME q < x PROVE FALSE
    OBVIOUS
  <2>1. PICK j \in (k + 1)..x : j = q + 1 /\ j \in 1..Len(f)
    BY <1>1, <1>4, <1>5
  <2>2. q # Len(f)
    BY <1>1, <1>4, <1>5
  <2>3. f[j].level <= f[k].level
    BY <1>5, <2>1, <2>2
  <2>4. f[j].level > f[k].level
    BY <1>7
  <2>5. f[j].level \in Int /\ f[k].level \in Int
    BY <1>1, <1>4, <2>1
  <2> QED
    BY <2>3, <2>4, <2>5
<1>9. ~(q > x)
  <2> SUFFICES ASSUME q > x PROVE FALSE
    OBVIOUS
  <2>1. n # Len(h) /\ 1 \in 1..(Len(h) - n)
    BY <1>1, <1>2, <1>3, <1>4, <1>5
  <2>2. f[x + 1].level = h[n + 1].level
    BY <1>3, <2>1
  <2>3. PICK j \in (k + 1)..q : j = x + 1 /\ j \in 1..Len(f)
    BY <1>1, <1>4, <1>5
  <2>4. f[j].level > f[k].level
    BY <1>5
  <2>5. f[j].level <= f[k].level
    BY <1>2, <1>6, <2>1, <2>2, <2>3
  <2>6. f[j].level \in Int /\ f[k].level \in Int
    BY <1>1, <1>4, <2>3
  <2> QED
    BY <2>4, <2>5, <2>6
<1>10. q = x
  BY <1>1, <1>4, <1>5, <1>8, <1>9
<1> QED
  BY <1>4, <1>10 DEF q

LEMMA ReadBack ==
  ASSUME NEW s \in Seq(Tokens), NEW c \in Seq(Tokens), Closed(c),
         NEW sec \in ToSet(markdownSections(s)),
         \A i \in 1..Len(Inside(c)) : Inside(c)[i].level > sec.level,
         NEW new, new = ReplaceSection(s, sec, c)
  PROVE  \E now \in ToSet(markdownSections(new)) :
            /\ now.start = sec.start
            /\ now.path = sec.path
            /\ Padded(c, SubSeq(new, now.body, now.end - 1))
<1>1. PICK k \in 1..Len(Headings(s)) : sec = SectionAt(s, Headings(s), k)
  BY SectionOf
<1> DEFINE h == Headings(s)
           f == Headings(new)
           g == Inside(c)
           n == LastIn(Headings(s), k)
           now == SectionAt(new, f, k)
<1>2. HeadingShape(s, h) /\ Len(s) \in Nat /\ k \in 1..Len(h)
  BY HeadingsAre
<1>3. new \in Seq(Tokens)
  BY ReplacedIsNote
<1>4. HeadingShape(new, f) /\ Len(new) \in Nat
  BY <1>3, HeadingsAre
<1>5. Rebuilt(f, h, k, n, g) /\ Reads(new, h, k, n, c)
  BY <1>1, Replacing
<1>6. Len(g) \in Nat
  BY InsideIs
<1>7. /\ sec.start = h[k].start /\ sec.path = PathAt(h, k)
      /\ sec.level = h[k].level
  BY <1>1 DEF SectionAt
<1>8. n = LastIn(h, k) /\ \A i \in 1..Len(g) : g[i].level > h[k].level
  BY <1>7
<1>9. now \in ToSet(markdownSections(new)) \/ k \notin 1..Len(f)
  <2>1. DOMAIN f = 1..Len(f)
    BY <1>4 DEF HeadingShape
  <2>2. markdownSections(new) = [i \in DOMAIN f |-> SectionAt(new, f, i)]
    BY SectionsAre
  <2> HIDE DEF f
  <2> QED
    BY <2>1, <2>2 DEF ToSet
<1>10. Reads(new, h, k, n, c) <=>
          Padded(c, SubSeq(new, f[k].body,
                           (IF n = Len(h) THEN Len(new) + 1
                            ELSE f[k + Len(g) + 1].start) - 1))
  BY Zenon DEF Reads
<1>11. /\ now.start = f[k].start /\ now.path = PathAt(f, k)
       /\ now.body = f[k].body /\ now.end = EndUnder(new, f, k)
  BY DEF SectionAt
<1> HIDE DEF f, h, g, n, now
<1>12. /\ k \in 1..Len(f) /\ LastIn(f, k) = k + Len(g)
       /\ n = Len(h) <=> k + Len(g) = Len(f)
  BY <1>2, <1>4, <1>5, <1>6, <1>8, LastIsInside
<1>13. EndUnder(new, f, k) = IF LastIn(f, k) = Len(f) THEN Len(new) + 1
                             ELSE f[LastIn(f, k) + 1].start
  BY <1>4, <1>12, LastInIs
<1>14. EndUnder(new, f, k) = IF n = Len(h) THEN Len(new) + 1
                             ELSE f[k + Len(g) + 1].start
  BY <1>12, <1>13
<1>15. Padded(c, SubSeq(new, now.body, now.end - 1))
  BY <1>5, <1>10, <1>11, <1>14
<1>16. \A i \in 1..k : Same(f[i], h[i])
  BY <1>5 DEF Rebuilt
<1>17. now.start = sec.start
  <2>1. k \in 1..k
    BY <1>2
  <2> QED
    BY <1>7, <1>11, <1>16, <2>1 DEF Same
<1>18. now.path = sec.path
  <2>1. Levelled(f) /\ Levelled(h)
    BY <1>2, <1>4 DEF HeadingShape
  <2>2. PathAt(f, k) = PathAt(h, k)
    BY <1>2, <1>12, <1>16, <2>1, SamePath
  <2> QED
    BY <1>7, <1>11, <2>2
<1>19. now \in ToSet(markdownSections(new))
  BY <1>9, <1>12
<1> QED
  BY <1>15, <1>17, <1>18, <1>19

(* Whatever section of whatever note gets whatever content that closes its *)
(* fences, the note has the headings before the section, those of the      *)
(* content and those after it: nothing at either seam has turned into      *)
(* another line.                                                           *)
THEOREM HeadingsSurvive == Spec => []StructureKept
<1>1. Inv => StructureKept
  <2>1. SUFFICES ASSUME note \in Seq(Tokens), NEW sec \in Unique(note),
                        NEW c \in Contents, Closed(c)
                 PROVE  Outline(ReplaceSection(note, sec, c)) =
                           SubSeq(Outline(note), 1, Before(Headings(note), sec.start))
                              \o OutlineInside(c)
                              \o SubSeq(Outline(note),
                                        Len(Headings(note))
                                           - After(Headings(note), sec.end) + 1,
                                        Len(Headings(note)))
    BY DEF Inv, TypeOK, StructureKept, Before, After
  <2>2. c \in Seq(Tokens) /\ sec \in ToSet(markdownSections(note))
    BY NotesAssumption DEF NotesAssumption, Unique
  <2> QED
    BY <2>1, <2>2, OutsideIsKept
<1> QED
  BY <1>1, AlwaysInv, PTL

(* The section that was written has the same place and path in the new     *)
(* note, and what is read there is the content with no more than newlines  *)
(* added to it, unless a heading in it ends the section.                   *)
THEOREM WhatIsWrittenIsRead == Spec => []ReplacedIsRead
<1>1. Inv => ReplacedIsRead
  <2>1. SUFFICES ASSUME note \in Seq(Tokens), NEW sec \in Unique(note),
                        NEW c \in Contents, Closed(c),
                        \A i \in DOMAIN OutlineInside(c) :
                           OutlineInside(c)[i][1] > sec.level
                 PROVE  \E now \in ToSet(markdownSections(
                                            ReplaceSection(note, sec, c))) :
                           /\ now.start = sec.start
                           /\ now.path = sec.path
                           /\ Padded(c, SubSeq(ReplaceSection(note, sec, c),
                                               now.body, now.end - 1))
    BY DEF Inv, TypeOK, ReplacedIsRead
  <2>2. c \in Seq(Tokens) /\ sec \in ToSet(markdownSections(note))
    BY NotesAssumption DEF NotesAssumption, Unique
  <2>3. \A i \in 1..Len(Inside(c)) : Inside(c)[i].level > sec.level
    <3> DEFINE t == <<Newline>> \o c
    <3>1. t \in Seq(Tokens)
      BY <2>2, EmptyLine, ConcatProperties
    <3>2. OutlineInside(c) = Outline(t) /\ Inside(c) = Headings(t)
      BY DEF OutlineInside, Inside
    <3> HIDE DEF t
    <3>3. /\ DOMAIN Outline(t) = 1..Len(Headings(t))
          /\ \A i \in 1..Len(Headings(t)) : Outline(t)[i] =
                <<Headings(t)[i].level, Headings(t)[i].title>>
      BY <3>1, OutlineIs
    <3>4. \A i \in 1..Len(Headings(t)) : Outline(t)[i][1] > sec.level
      BY <2>1, <3>2, <3>3
    <3>5. \A i \in 1..Len(Headings(t)) : Outline(t)[i][1] = Headings(t)[i].level
      BY <3>3
    <3> QED
      BY <3>2, <3>4, <3>5
  <2> QED
    BY <2>1, <2>2, <2>3, ReadBack
<1> QED
  BY <1>1, AlwaysInv, PTL
=============================================================================
