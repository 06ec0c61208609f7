--------------------------- MODULE Search_proofs ---------------------------
(***************************************************************************)
(* Proofs about Search, for any vaults, requests and limits: that a result *)
(* is capped, and, from an invariant that says which of ripgrep's events   *)
(* it keeps, that it is in order, complete, and marked if it was cut.      *)
(*                                                                         *)
(*   - FlattenSeq: what it makes, and where each element of it comes from  *)
(*     (Placed);                                                           *)
(*   - Shape: what a whole run of ripgrep writes;                          *)
(*   - KeptIn: what the result has after m of those events;                *)
(*   - Progress: the inductive invariant.                                  *)
(***************************************************************************)
EXTENDS Search, FiniteSetTheorems, SequenceTheorems, NaturalsInduction,
        WellFoundedInduction, TLAPS

(* What TypeOK needs to know of the result: it is a record.                *)
Shaped == DOMAIN res = {"files", "total", "truncated"}

Inv == Shaped /\ TypeOK

LEMMA Limits == /\ MaxResultsCeiling \in Nat /\ MaxResultsCeiling >= 1
                /\ DefaultMaxResults \in 1..MaxResultsCeiling
                /\ Requested \subseteq Int
  BY LimitsAssumption DEF LimitsAssumption

(* maxResults: whatever is asked for, the limit is a number of matches.    *)
LEMMA CappedInRange ==
  ASSUME NEW r \in Int PROVE Capped(r) \in 1..MaxResultsCeiling
  BY Limits DEF Capped

LEMMA InitInv == Init => Inv
<1> SUFFICES ASSUME Init PROVE Inv
    OBVIOUS
<1>1. limit \in 1..MaxResultsCeiling
  BY Limits, CappedInRange DEF Init
<1> QED
  BY <1>1 DEF Init, Inv, Shaped, TypeOK

(* An event is counted only while there is room for it.                    *)
LEMMA AddLineInv == ASSUME Inv, NEW ev, AddLine(ev) PROVE Inv'
<1> DEFINE more == IF ev.type = "match" THEN 1 ELSE 0
<1>1. /\ limit \in 1..MaxResultsCeiling /\ res.total \in 0..limit
      /\ res.truncated \in BOOLEAN /\ limit \in Nat
  BY Limits DEF Inv, TypeOK
<1>2. res' = [res EXCEPT !.files = Added(ev), !.total = res.total + more]
  BY DEF AddLine
<1>3. /\ DOMAIN res' = {"files", "total", "truncated"}
      /\ res'.total = res.total + more /\ res'.truncated = res.truncated
  BY <1>2 DEF Inv, Shaped
<1>4. ev.type = "match" => res.total < limit
  BY <1>1 DEF AddLine, OverLimit
<1>5. res.total + more \in 0..limit
  BY <1>1, <1>4
<1>6. limit' = limit /\ status' = status
  BY DEF AddLine, Reads
<1> QED
  BY <1>1, <1>3, <1>5, <1>6 DEF Inv, Shaped, TypeOK

LEMMA ParseInv == ASSUME Inv, NEW ev, Parse(ev) PROVE Inv'
<1>1. CASE SkipEvent(ev)
  BY <1>1 DEF SkipEvent, Reads, Inv, Shaped, TypeOK
<1>2. CASE BadEvent(ev)
  BY <1>2 DEF BadEvent, Reads, Inv, Shaped, TypeOK
<1>3. CASE AddLine(ev)
  BY <1>3, AddLineInv
<1>4. CASE Truncate(ev)
  <2>1. res' = [res EXCEPT !.truncated = TRUE] /\ status' = "done" /\ limit' = limit
    BY <1>4 DEF Truncate, Stops, Reads
  <2>2. /\ DOMAIN res' = {"files", "total", "truncated"}
        /\ res'.total = res.total /\ res'.truncated = TRUE
    BY <2>1 DEF Inv, Shaped
  <2> QED
    BY <2>1, <2>2 DEF Inv, Shaped, TypeOK
<1> QED
  BY <1>1, <1>2, <1>3, <1>4 DEF Parse

LEMMA RunRgInv == ASSUME Inv, RunRg PROVE Inv'
<1>1. UNCHANGED <<limit, res>>
  BY DEF RunRg
<1>2. \E code, events : Exit(code, events)
  BY Zenon DEF RunRg
<1>3. status' \in {"failed", "parsing"}
  BY <1>2 DEF Exit
<1> QED
  BY <1>1, <1>3 DEF Inv, Shaped, TypeOK

(* However many lines ripgrep writes, and whatever the client asks for, no *)
(* result has more matches than the limit, nor the limit than the ceiling. *)
THEOREM ResultIsCapped == Spec => []TypeOK
<1>1. Inv /\ [Next]_vars => Inv'
  <2> SUFFICES ASSUME Inv, [Next]_vars PROVE Inv'
      OBVIOUS
  <2>1. CASE CannotRun \/ EndOfOutput \/ UNCHANGED vars
    BY <2>1 DEF CannotRun, EndOfOutput, vars, Inv, Shaped, TypeOK
  <2> QED
    BY <2>1, RunRgInv, ParseInv DEF Next
<1>2. Inv => TypeOK
  BY DEF Inv
<1> QED
  BY InitInv, <1>1, <1>2, PTL DEF Spec

-----------------------------------------------------------------------------
(* Induction up to a number, for sets.                                      *)
Less == {p \in Nat \X Nat : p[1] < p[2]}

LEMMA LessIsWellFounded == IsWellFoundedOn(Less, Nat)
  BY NatLessThanWellFounded, Zenon DEF OpToRel, Less

LEMMA Least ==
  ASSUME NEW T, T \subseteq Nat, T # {}
  PROVE  \E x \in T : \A y \in T : x <= y
<1>1. PICK x \in T : \A y \in T : <<y, x>> \notin Less
  BY LessIsWellFounded, WFMin
<1>2. ASSUME NEW y \in T PROVE x <= y
  <2>1. x \in Nat /\ y \in Nat
    OBVIOUS
  <2>2. ~(y < x)
    BY <1>1, <2>1 DEF Less
  <2> QED
    BY <2>1, <2>2
<1> QED
  BY <1>2

(* A set with 0 and every successor in it, up to n.                        *)
LEMMA UpTo ==
  ASSUME NEW n \in Nat, NEW T, 0 \in T,
         \A k \in 1..n : k - 1 \in T => k \in T
  PROVE  \A k \in 0..n : k \in T
<1> DEFINE U == (0..n) \ T
<1>1. SUFFICES ASSUME U # {} PROVE FALSE
  OBVIOUS
<1>2. PICK x \in U : \A y \in U : x <= y
  <2>1. U \subseteq Nat
    OBVIOUS
  <2> HIDE DEF U
  <2> QED
    BY <1>1, <2>1, Least
<1>3. x \in 1..n /\ x - 1 \in 0..n /\ ~(x <= x - 1)
  BY <1>2
<1> QED
  BY <1>2, <1>3

-----------------------------------------------------------------------------
(* FlattenSeq: f[k] is what the first k sequences make together.           *)
Joins(ss, n, f) == /\ f[0] = <<>>
                   /\ \A k \in 1..n : f[k] = f[k - 1] \o ss[k]

LEMMA JoinsExist == ASSUME NEW ss, NEW n \in Nat PROVE \E f : Joins(ss, n, f)
<1> DEFINE T == {m \in Nat : \E f : Joins(ss, m, f)}
<1>1. 0 \in T
  <2> DEFINE f == [k \in 0..0 |-> <<>>]
  <2>1. Joins(ss, 0, f)
    BY DEF Joins
  <2> QED
    BY <2>1
<1>2. ASSUME NEW k \in 1..n, k - 1 \in T PROVE k \in T
  <2>1. PICK f : Joins(ss, k - 1, f)
    BY <1>2
  <2> DEFINE g == [j \in 0..k |-> IF j = k THEN f[k - 1] \o ss[k] ELSE f[j]]
  <2>2. g[0] = <<>>
    BY <2>1 DEF Joins
  <2>3. ASSUME NEW j \in 1..k PROVE g[j] = g[j - 1] \o ss[j]
    <3>1. j - 1 \in 0..k /\ j - 1 # k
      OBVIOUS
    <3>2. g[j - 1] = f[j - 1]
      BY <3>1
    <3>3. CASE j = k
      BY <3>2, <3>3
    <3>4. CASE j # k
      <4>1. j \in 1..(k - 1) /\ j \in 0..k
        BY <3>4
      <4>2. f[j] = f[j - 1] \o ss[j]
        BY <2>1, <4>1 DEF Joins
      <4> QED
        BY <3>2, <3>4, <4>1, <4>2
    <3> QED
      BY <3>3, <3>4
  <2> HIDE DEF g
  <2>4. Joins(ss, k, g)
    BY <2>2, <2>3 DEF Joins
  <2> QED
    BY <2>4
<1>3. n \in T
  <2> HIDE DEF T
  <2>1. \A k \in 0..n : k \in T
    BY <1>1, <1>2, UpTo
  <2> QED
    BY <2>1
<1> QED
  BY <1>3

LEMMA JoinsAgree ==
  ASSUME NEW n \in Nat, NEW ss, NEW f, Joins(ss, n, f),
         NEW tt, NEW g, Joins(tt, n, g), \A k \in 1..n : ss[k] = tt[k]
  PROVE  \A k \in 0..n : f[k] = g[k]
<1> DEFINE T == {k \in 0..n : f[k] = g[k]}
<1>1. 0 \in T
  BY DEF Joins
<1>2. ASSUME NEW k \in 1..n, k - 1 \in T PROVE k \in T
  <2>1. f[k - 1] = g[k - 1] /\ ss[k] = tt[k]
    BY <1>2
  <2>2. f[k] = f[k - 1] \o ss[k] /\ g[k] = g[k - 1] \o tt[k]
    BY DEF Joins
  <2>3. f[k] = g[k]
    BY <2>1, <2>2
  <2> QED
    BY <2>3
<1> HIDE DEF T
<1>3. \A k \in 0..n : k \in T
  BY <1>1, <1>2, UpTo
<1> QED
  BY <1>3 DEF T

LEMMA JoinsAreSeqs ==
  ASSUME NEW E, NEW n \in Nat, NEW ss, NEW f, Joins(ss, n, f),
         \A k \in 1..n : ss[k] \in Seq(E)
  PROVE  \A k \in 0..n : f[k] \in Seq(E)
<1> DEFINE T == {k \in 0..n : f[k] \in Seq(E)}
<1>1. 0 \in T
  <2>1. f[0] = <<>> /\ <<>> \in Seq(E)
    BY EmptySeq DEF Joins
  <2>2. f[0] \in Seq(E) /\ 0 \in 0..n
    BY <2>1
  <2> QED
    BY <2>2
<1>2. ASSUME NEW k \in 1..n, k - 1 \in T PROVE k \in T
  <2>1. f[k - 1] \in Seq(E) /\ ss[k] \in Seq(E)
    BY <1>2
  <2>2. f[k] = f[k - 1] \o ss[k]
    BY DEF Joins
  <2>3. f[k] \in Seq(E)
    BY <2>1, <2>2, ConcatProperties
  <2> QED
    BY <2>3
<1> HIDE DEF T
<1>3. \A k \in 0..n : k \in T
  BY <1>1, <1>2, UpTo
<1> QED
  BY <1>3 DEF T

Flattens(ss, f) == f = [i \in 1..Len(ss) |->
                          IF i = 1 THEN ss[i] ELSE f[i - 1] \o ss[i]]

LEMMA FlattenIs ==
  ASSUME NEW E, NEW ss \in Seq(Seq(E)), NEW f, Joins(ss, Len(ss), f)
  PROVE  FlattenSeq(ss) = f[Len(ss)]
<1> DEFINE n == Len(ss)
           c == CHOOSE g : Flattens(ss, g)
           h == [i \in 1..n |-> f[i]]
<1>1. n \in Nat /\ (\A k \in 1..n : ss[k] \in Seq(E))
  BY LenProperties, ElementOfSeq
<1>2. CASE n = 0
  <2>1. FlattenSeq(ss) = ss
    BY <1>2 DEF FlattenSeq
  <2>2. ss = <<>>
    BY <1>2, EmptySeq
  <2> QED
    BY <1>2, <2>1, <2>2 DEF Joins
<1>3. CASE n # 0
  <2>1. FlattenSeq(ss) = c[n]
    BY <1>3 DEF FlattenSeq, Flattens
  <2>2. ASSUME NEW i \in 1..n
        PROVE  f[i] = IF i = 1 THEN ss[i] ELSE f[i - 1] \o ss[i]
    <3>1. f[i] = f[i - 1] \o ss[i]
      BY DEF Joins
    <3>2. <<>> \o ss[i] = ss[i]
      BY <1>1, ConcatEmptySeq
    <3>3. i = 1 => f[i - 1] = <<>>
      BY DEF Joins
    <3> QED
      BY <3>1, <3>2, <3>3
  <2>3. \A i \in 1..n : i # 1 => h[i - 1] = f[i - 1]
    BY <1>1
  <2>4. \E g : Flattens(ss, g)
    <3>1. h = [i \in 1..n |-> IF i = 1 THEN ss[i] ELSE h[i - 1] \o ss[i]]
      BY <2>2, <2>3
    <3> QED
      BY <3>1 DEF Flattens
  <2>5. Flattens(ss, c)
    BY <2>4
  <2> HIDE DEF c
  <2> DEFINE T == {k \in 0..n : k = 0 \/ c[k] = f[k]}
  <2>6. 0 \in T
    BY <1>1
  <2>7. ASSUME NEW k \in 1..n, k - 1 \in T PROVE k \in T
    <3>1. c[k] = IF k = 1 THEN ss[k] ELSE c[k - 1] \o ss[k]
      BY <2>5 DEF Flattens
    <3>2. k # 1 => c[k - 1] = f[k - 1]
      BY <2>7
    <3> QED
      BY <2>2, <3>1, <3>2
  <2> HIDE DEF T
  <2>8. \A k \in 0..n : k \in T
    BY <1>1, <2>6, <2>7, UpTo
  <2>9. n \in T
    BY <1>1, <2>8
  <2> QED
    BY <1>3, <2>1, <2>9 DEF T
<1> QED
  BY <1>2, <1>3

LEMMA FlattenIsSeq ==
  ASSUME NEW E, NEW ss \in Seq(Seq(E))
  PROVE  /\ FlattenSeq(ss) \in Seq(E)
         /\ \E f : /\ Joins(ss, Len(ss), f) /\ FlattenSeq(ss) = f[Len(ss)]
                   /\ \A k \in 0..Len(ss) : f[k] \in Seq(E)
<1>1. Len(ss) \in Nat /\ \A k \in 1..Len(ss) : ss[k] \in Seq(E)
  BY LenProperties, ElementOfSeq
<1>2. PICK f : Joins(ss, Len(ss), f)
  BY <1>1, JoinsExist
<1>3. \A k \in 0..Len(ss) : f[k] \in Seq(E)
  BY <1>1, <1>2, JoinsAreSeqs
<1>4. FlattenSeq(ss) = f[Len(ss)]
  BY <1>2, FlattenIs
<1>5. f[Len(ss)] \in Seq(E)
  BY <1>1, <1>3
<1> QED
  BY <1>2, <1>3, <1>4, <1>5

LEMMA JoinsFewer ==
  ASSUME NEW n \in Nat, NEW m \in Nat, m <= n, NEW ss, NEW f, Joins(ss, n, f)
  PROVE  Joins(ss, m, f)
<1>1. \A k \in 1..m : k \in 1..n
  OBVIOUS
<1> QED
  BY <1>1 DEF Joins

LEMMA Sides ==
  ASSUME NEW E, NEW a \in Seq(E), NEW b \in Seq(E)
  PROVE  /\ a \o b \in Seq(E) /\ Len(a) \in Nat /\ Len(b) \in Nat
         /\ Len(a \o b) = Len(a) + Len(b)
         /\ \A i \in 1..Len(a) : (a \o b)[i] = a[i]
         /\ \A i \in 1..Len(b) : (a \o b)[Len(a) + i] = b[i]
<1> DEFINE c == a \o b
<1>1. Len(a) \in Nat /\ Len(b) \in Nat
  BY LenProperties
<1>2. /\ c \in Seq(E) /\ Len(c) = Len(a) + Len(b)
      /\ \A i \in 1..Len(a) + Len(b) :
            c[i] = IF i <= Len(a) THEN a[i] ELSE b[i - Len(a)]
  BY ConcatProperties
<1> HIDE DEF c
<1>3. ASSUME NEW i \in 1..Len(a) PROVE c[i] = a[i]
  BY <1>1, <1>2
<1>4. ASSUME NEW i \in 1..Len(b) PROVE c[Len(a) + i] = b[i]
  <2>1. /\ Len(a) + i \in 1..Len(a) + Len(b) /\ ~(Len(a) + i <= Len(a))
        /\ (Len(a) + i) - Len(a) = i
    BY <1>1
  <2> QED
    BY <1>2, <2>1
<1> QED
  BY <1>1, <1>2, <1>3, <1>4 DEF c

LEMMA ConcatAppend ==
  ASSUME NEW E, NEW a \in Seq(E), NEW s \in Seq(E), NEW e \in E
  PROVE  a \o Append(s, e) = Append(a \o s, e)
<1> DEFINE l == <<e>>
<1>1. Append(s, e) = s \o l /\ l \in Seq(E)
  BY AppendIsConcat
<1>2. a \o s \in Seq(E)
  BY ConcatProperties
<1>3. Append(a \o s, e) = (a \o s) \o l
  BY <1>2, AppendIsConcat
<1> HIDE DEF l
<1>4. (a \o s) \o l = a \o (s \o l)
  BY <1>1, ConcatAssociative
<1> QED
  BY <1>1, <1>3, <1>4

LEMMA FlattenEmpty == FlattenSeq(<<>>) = <<>>
  BY DEF FlattenSeq

(* What two sequences of sequences begin with, they both make.             *)
LEMMA FlattenStart ==
  ASSUME NEW E, NEW ss \in Seq(Seq(E)), NEW tt \in Seq(Seq(E)),
         Len(ss) <= Len(tt), \A k \in 1..Len(ss) : ss[k] = tt[k],
         NEW g, Joins(tt, Len(tt), g)
  PROVE  FlattenSeq(ss) = g[Len(ss)]
<1>1. Len(ss) \in Nat /\ Len(tt) \in Nat
  BY LenProperties
<1>2. PICK f : Joins(ss, Len(ss), f) /\ FlattenSeq(ss) = f[Len(ss)]
  BY FlattenIsSeq
<1>3. Joins(tt, Len(ss), g)
  BY <1>1, JoinsFewer
<1>4. \A k \in 0..Len(ss) : f[k] = g[k]
  BY <1>1, <1>2, <1>3, JoinsAgree
<1> QED
  BY <1>1, <1>2, <1>4

LEMMA FlattenAppend ==
  ASSUME NEW E, NEW ss \in Seq(Seq(E)), NEW s \in Seq(E)
  PROVE  FlattenSeq(Append(ss, s)) = FlattenSeq(ss) \o s
<1> DEFINE tt == Append(ss, s)
           n == Len(ss)
<1>1. /\ tt \in Seq(Seq(E)) /\ Len(tt) = n + 1 /\ n \in Nat
      /\ (\A k \in 1..n : ss[k] = tt[k]) /\ tt[n + 1] = s
  BY AppendProperties, LenProperties
<1> HIDE DEF tt
<1>2. PICK g : Joins(tt, Len(tt), g) /\ FlattenSeq(tt) = g[Len(tt)]
  BY <1>1, FlattenIsSeq
<1>3. FlattenSeq(ss) = g[n]
  <2>1. Len(ss) <= Len(tt)
    BY <1>1
  <2> QED
    BY <1>1, <1>2, <2>1, FlattenStart
<1>4. g[n + 1] = g[n] \o tt[n + 1]
  <2>1. n + 1 \in 1..Len(tt) /\ (n + 1) - 1 = n
    BY <1>1
  <2> QED
    BY <1>2, <2>1 DEF Joins
<1> QED
  BY <1>1, <1>2, <1>3, <1>4 DEF tt

(* The last sequence grows by one element, and so does what they make.     *)
LEMMA FlattenGrows ==
  ASSUME NEW E, NEW ss \in Seq(Seq(E)), ss # <<>>, NEW e \in E
  PROVE  FlattenSeq([ss EXCEPT ![Len(ss)] = Append(ss[Len(ss)], e)])
            = Append(FlattenSeq(ss), e)
<1> DEFINE n == Len(ss)
           s == ss[n]
           tt == [ss EXCEPT ![n] = Append(s, e)]
<1>1. n \in 1..n /\ n \in Nat /\ s \in Seq(E)
  BY EmptySeq, LenProperties, ElementOfSeq
<1>2. Append(s, e) \in Seq(E)
  BY <1>1, AppendProperties
<1>3. /\ tt \in Seq(Seq(E)) /\ Len(tt) = n /\ tt[n] = Append(s, e)
      /\ \A k \in 1..n : k # n => tt[k] = ss[k]
  BY <1>1, <1>2, ExceptSeq
<1> HIDE DEF tt
<1>4. PICK f : /\ Joins(ss, n, f) /\ FlattenSeq(ss) = f[n]
               /\ \A k \in 0..n : f[k] \in Seq(E)
  BY FlattenIsSeq
<1>5. PICK g : Joins(tt, n, g) /\ FlattenSeq(tt) = g[n]
  BY <1>3, FlattenIsSeq
<1>6. f[n - 1] = g[n - 1]
  <2>1. n - 1 \in Nat /\ n - 1 \in 0..(n - 1)
    BY <1>1
  <2>2. Joins(ss, n - 1, f) /\ Joins(tt, n - 1, g)
    BY <1>1, <1>4, <1>5, <2>1, JoinsFewer
  <2>3. \A k \in 1..(n - 1) : ss[k] = tt[k]
    BY <1>1, <1>3
  <2> HIDE DEF n
  <2>4. \A k \in 0..(n - 1) : f[k] = g[k]
    BY <2>1, <2>2, <2>3, JoinsAgree
  <2> QED
    BY <2>1, <2>4
<1>7. f[n] = f[n - 1] \o s /\ g[n] = f[n - 1] \o Append(s, e)
  BY <1>1, <1>3, <1>4, <1>5, <1>6 DEF Joins
<1>8. f[n - 1] \in Seq(E)
  BY <1>1, <1>4
<1>9. f[n - 1] \o Append(s, e) = Append(f[n - 1] \o s, e)
  <2> DEFINE p == f[n - 1]
  <2>1. p \in Seq(E) /\ s \in Seq(E)
    BY <1>1, <1>8
  <2> HIDE DEF s, n, p
  <2>2. p \o Append(s, e) = Append(p \o s, e)
    BY <2>1, ConcatAppend
  <2> QED
    BY <2>2 DEF p
<1> QED
  BY <1>4, <1>5, <1>7, <1>9 DEF tt

LEMMA FlattenPrefix ==
  ASSUME NEW E, NEW ss \in Seq(Seq(E)), NEW tt \in Seq(Seq(E)),
         Len(ss) <= Len(tt), \A k \in 1..Len(ss) : ss[k] = tt[k]
  PROVE  IsPrefix(FlattenSeq(ss), FlattenSeq(tt))
<1> DEFINE n == Len(tt)
           a == FlattenSeq(ss)
           Begins(s) == s \in Seq(E) /\ Len(a) <= Len(s)
                          /\ \A i \in 1..Len(a) : s[i] = a[i]
<1>1. Len(ss) \in Nat /\ n \in Nat /\ \A k \in 1..n : tt[k] \in Seq(E)
  BY LenProperties, ElementOfSeq
<1>2. PICK g : /\ Joins(tt, n, g) /\ FlattenSeq(tt) = g[n]
               /\ \A k \in 0..n : g[k] \in Seq(E)
  BY FlattenIsSeq
<1>3. a = g[Len(ss)] /\ a \in Seq(E) /\ Len(a) \in Nat
  BY <1>2, FlattenStart, FlattenIsSeq, LenProperties
<1> HIDE DEF a
<1> DEFINE T == {k \in 0..n : k >= Len(ss) => Begins(g[k])}
<1>4. ASSUME NEW k \in 1..n, k - 1 \in T PROVE k \in T
  <2>1. CASE k > Len(ss)
    <3>1. k - 1 >= Len(ss) /\ k - 1 \in 0..n /\ k \in 0..n
      BY <1>1, <2>1
    <3>2. Begins(g[k - 1])
      BY <1>4, <3>1
    <3>3. /\ g[k - 1] \in Seq(E) /\ g[k] \in Seq(E) /\ tt[k] \in Seq(E)
          /\ g[k] = g[k - 1] \o tt[k]
      BY <1>1, <1>2, <3>1 DEF Joins
    <3>4. /\ Len(g[k - 1]) \in Nat /\ Len(tt[k]) \in Nat
          /\ Len(g[k]) = Len(g[k - 1]) + Len(tt[k])
          /\ \A i \in 1..Len(g[k - 1]) : g[k][i] = g[k - 1][i]
      <4> DEFINE x == g[k - 1]
                 y == tt[k]
      <4>1. x \in Seq(E) /\ y \in Seq(E) /\ g[k] = x \o y
        BY <3>3
      <4> HIDE DEF x, y
      <4>2. /\ Len(x) \in Nat /\ Len(y) \in Nat
            /\ Len(x \o y) = Len(x) + Len(y)
            /\ \A i \in 1..Len(x) : (x \o y)[i] = x[i]
        BY <4>1, Sides
      <4> QED
        BY <4>1, <4>2 DEF x, y
    <3>5. Len(a) <= Len(g[k]) /\ \A i \in 1..Len(a) : i \in 1..Len(g[k - 1])
      <4> DEFINE x == Len(g[k - 1])
                 y == Len(g[k])
                 z == Len(a)
      <4>1. x \in Nat /\ z \in Nat /\ z <= x /\ y = x + Len(tt[k])
        BY <1>3, <3>2, <3>4
      <4>2. Len(tt[k]) \in Nat
        BY <3>4
      <4> HIDE DEF x, y, z
      <4>3. z <= y /\ \A i \in 1..z : i \in 1..x
        BY <4>1, <4>2
      <4> QED
        BY <4>3 DEF x, y, z
    <3>6. \A i \in 1..Len(a) : g[k][i] = a[i]
      BY <3>2, <3>4, <3>5
    <3>7. Begins(g[k])
      BY <3>3, <3>5, <3>6
    <3> QED
      BY <3>1, <3>7
  <2>2. CASE k = Len(ss)
    BY <1>1, <1>3, <2>2
  <2>3. CASE k < Len(ss)
    BY <1>1, <2>3
  <2> QED
    BY <1>1, <2>1, <2>2, <2>3
<1>5. 0 \in T
  <2>1. CASE Len(ss) = 0
    BY <1>1, <1>3, <2>1
  <2>2. CASE Len(ss) # 0
    BY <1>1, <2>2
  <2> QED
    BY <2>1, <2>2
<1> HIDE DEF T
<1>6. \A k \in 0..n : k \in T
  BY <1>1, <1>4, <1>5, UpTo
<1>7. Begins(g[n])
  <2>1. n \in T
    BY <1>1, <1>6
  <2> QED
    BY <1>1, <2>1 DEF T
<1>8. SubSeq(a, 1, Len(a)) = a
  BY <1>3, SubSeqFull
<1>9. SubSeq(g[n], 1, Len(a)) = a
  <2> DEFINE b == SubSeq(g[n], 1, Len(a))
  <2>1. \A i \in 1..Len(a) : g[n][i] \in E /\ g[n][i] = a[i]
    BY <1>3, <1>7, ElementOfSeq
  <2>2. /\ b \in Seq(E) /\ Len(b) = Len(a)
        /\ \A i \in 1..Len(a) : b[i] = g[n][i]
    <3>1. /\ b \in Seq(E)
          /\ Len(b) = IF 1 <= Len(a) THEN Len(a) - 1 + 1 ELSE 0
          /\ \A i \in 1..Len(a) - 1 + 1 : b[i] = g[n][1 + i - 1]
      BY <1>3, <2>1, SubSeqProperties
    <3> QED
      BY <1>3, <3>1
  <2> HIDE DEF b
  <2> QED
    BY <1>3, <2>1, <2>2, SeqEqual
<1> QED
  BY <1>2, <1>7, <1>8, <1>9 DEF IsPrefix, a

(* Where the elements of s come from, the first n sequences of ss in one:  *)
(* the element at p from place at[p] of sequence own[p], in that order.    *)
Placed(ss, n, s, own, at) ==
    /\ \A p \in 1..Len(s) :
          /\ own[p] \in 1..n /\ at[p] \in 1..Len(ss[own[p]])
          /\ s[p] = ss[own[p]][at[p]]
    /\ \A p, q \in 1..Len(s) :
          p < q => own[p] < own[q] \/ (own[p] = own[q] /\ at[p] < at[q])
    /\ \A i \in 1..n : \A a \in 1..Len(ss[i]) :
          \E p \in 1..Len(s) : own[p] = i /\ at[p] = a

LEMMA PlacedOneMore ==
  ASSUME NEW E, NEW ss, NEW k \in Nat \ {0}, ss[k] \in Seq(E),
         NEW s \in Seq(E), NEW own, NEW at, Placed(ss, k - 1, s, own, at)
  PROVE  \E o, a : Placed(ss, k, s \o ss[k], o, a)
<1> DEFINE t == ss[k]
           u == s \o t
           L == Len(s)
           o == [p \in 1..Len(u) |-> IF p <= L THEN own[p] ELSE k]
           a == [p \in 1..Len(u) |-> IF p <= L THEN at[p] ELSE p - L]
<1>1. t \in Seq(E)
  OBVIOUS
<1>2. /\ L \in Nat /\ Len(t) \in Nat /\ Len(u) = L + Len(t)
      /\ \A i \in 1..L : u[i] = s[i]
      /\ \A i \in 1..Len(t) : u[L + i] = t[i]
  BY <1>1, Sides
<1> HIDE DEF u, L
<1>3. ASSUME NEW p \in 1..Len(u), p <= L
      PROVE  p \in 1..L /\ o[p] = own[p] /\ a[p] = at[p] /\ u[p] = s[p]
  BY <1>2, <1>3
<1>4. ASSUME NEW p \in 1..Len(u), ~(p <= L)
      PROVE  /\ o[p] = k /\ a[p] = p - L /\ p - L \in 1..Len(t)
             /\ u[p] = t[p - L]
  <2>1. p - L \in 1..Len(t) /\ L + (p - L) = p
    BY <1>2, <1>4
  <2>2. u[L + (p - L)] = t[p - L]
    BY <1>2, <2>1
  <2> QED
    BY <1>4, <2>1, <2>2
<1> HIDE DEF o, a, t
<1>5. ASSUME NEW p \in 1..Len(u)
      PROVE  /\ o[p] \in 1..k /\ a[p] \in 1..Len(ss[o[p]])
             /\ u[p] = ss[o[p]][a[p]]
  <2>1. CASE p <= L
    <3>1. /\ own[p] \in 1..(k - 1) /\ at[p] \in 1..Len(ss[own[p]])
          /\ s[p] = ss[own[p]][at[p]]
      BY <1>3, <2>1 DEF Placed, L
    <3>2. own[p] \in 1..k
      BY <3>1
    <3> QED
      BY <1>3, <2>1, <3>1, <3>2
  <2>2. CASE ~(p <= L)
    <3>1. k \in 1..k
      OBVIOUS
    <3> QED
      BY <1>4, <2>2, <3>1 DEF t
  <2> QED
    BY <2>1, <2>2
<1>6. ASSUME NEW p \in 1..Len(u), NEW q \in 1..Len(u), p < q
      PROVE  o[p] < o[q] \/ (o[p] = o[q] /\ a[p] < a[q])
  <2>0. p \in Int /\ q \in Int /\ L \in Int
    BY <1>2
  <2>1. CASE q <= L
    <3>1. p <= L
      BY <1>6, <2>0, <2>1
    <3>2. own[p] < own[q] \/ (own[p] = own[q] /\ at[p] < at[q])
      BY <1>3, <1>6, <2>1, <3>1 DEF Placed, L
    <3> QED
      BY <1>3, <2>1, <3>1, <3>2
  <2>2. CASE ~(q <= L) /\ p <= L
    <3>1. o[q] = k /\ o[p] = own[p]
      BY <1>3, <1>4, <2>2
    <3>2. own[p] \in 1..(k - 1)
      BY <1>3, <2>2 DEF Placed, L
    <3>3. own[p] < k
      BY <3>2
    <3>4. o[p] < o[q]
      BY <3>1, <3>3, Zenon
    <3> QED
      BY <3>4
  <2>3. CASE ~(q <= L) /\ ~(p <= L)
    <3>1. o[q] = k /\ o[p] = k /\ a[p] = p - L /\ a[q] = q - L
      BY <1>4, <2>3
    <3> QED
      BY <1>6, <2>0, <3>1
  <2> QED
    BY <2>1, <2>2, <2>3
<1>7. ASSUME NEW i \in 1..k, NEW b \in 1..Len(ss[i])
      PROVE  \E p \in 1..Len(u) : o[p] = i /\ a[p] = b
  <2>1. CASE i = k
    <3>1. b \in 1..Len(t) /\ L + b \in 1..Len(u) /\ ~(L + b <= L) /\ (L + b) - L = b
      BY <1>2, <2>1 DEF t
    <3> QED
      BY <1>4, <2>1, <3>1
  <2>2. CASE i # k
    <3>1. i \in 1..(k - 1)
      BY <2>2
    <3>2. PICK p \in 1..L : own[p] = i /\ at[p] = b
      BY <3>1 DEF Placed, L
    <3>3. p \in 1..Len(u) /\ p <= L
      BY <1>2
    <3> QED
      BY <1>3, <3>2, <3>3
  <2> QED
    BY <2>1, <2>2
<1>8. Placed(ss, k, u, o, a)
  BY <1>5, <1>6, <1>7 DEF Placed
<1> QED
  BY <1>8 DEF u, t

LEMMA FlattenPlaced ==
  ASSUME NEW E, NEW ss \in Seq(Seq(E))
  PROVE  \E own, at : Placed(ss, Len(ss), FlattenSeq(ss), own, at)
<1> DEFINE n == Len(ss)
<1>1. n \in Nat /\ \A k \in 1..n : ss[k] \in Seq(E)
  BY LenProperties, ElementOfSeq
<1>2. PICK g : /\ Joins(ss, n, g) /\ FlattenSeq(ss) = g[n]
               /\ \A k \in 0..n : g[k] \in Seq(E)
  BY FlattenIsSeq
<1> DEFINE T == {k \in 0..n : \E own, at : Placed(ss, k, g[k], own, at)}
<1>3. 0 \in T
  <2>1. g[0] = <<>> /\ Len(<<>>) = 0 /\ 0 \in 0..n
    BY <1>1, <1>2 DEF Joins
  <2>2. (\A p \in 1..0 : FALSE)
    OBVIOUS
  <2>3. Placed(ss, 0, g[0], <<>>, <<>>)
    BY <2>1, <2>2 DEF Placed
  <2> QED
    BY <2>1, <2>3
<1>4. ASSUME NEW k \in 1..n, k - 1 \in T PROVE k \in T
  <2>1. PICK own, at : Placed(ss, k - 1, g[k - 1], own, at)
    BY <1>4
  <2>2. /\ k \in Nat \ {0} /\ k \in 0..n /\ k - 1 \in 0..n
    BY <1>1
  <2>3. g[k - 1] \in Seq(E) /\ ss[k] \in Seq(E) /\ g[k] = g[k - 1] \o ss[k]
    BY <1>1, <1>2, <2>2 DEF Joins
  <2>4. \E o, a : Placed(ss, k, g[k - 1] \o ss[k], o, a)
    BY <2>1, <2>2, <2>3, PlacedOneMore
  <2> QED
    BY <2>2, <2>3, <2>4
<1> HIDE DEF T
<1>5. n \in T
  <2>1. \A k \in 0..n : k \in T
    BY <1>1, <1>3, <1>4, UpTo
  <2> QED
    BY <1>1, <2>1
<1> QED
  BY <1>2, <1>5 DEF T

LEMMA FunIsSeq ==
  ASSUME NEW S, NEW n \in Nat, NEW f \in [1..n -> S]
  PROVE  f \in Seq(S) /\ Len(f) = n
<1>1. f \in Seq(S)
  BY SeqDef
<1> QED
  BY <1>1

LEMMA Wrapped ==
  ASSUME NEW E, NEW s \in Seq(E), NEW a \in E, NEW b \in E
  PROVE  LET w == <<a>> \o s \o <<b>>
         IN  /\ w \in Seq(E) /\ Len(s) \in Nat /\ Len(w) = Len(s) + 2
             /\ w[1] = a /\ w[Len(s) + 2] = b
             /\ \A p \in 1..Len(s) : w[p + 1] = s[p]
             /\ \A p \in 1..Len(w) : \/ w[p] = a
                                     \/ w[p] = b
                                     \/ (p - 1 \in 1..Len(s) /\ w[p] = s[p - 1])
<1> DEFINE x == <<a>>
           y == <<b>>
           u == x \o s
           w == u \o y
           n == Len(s)
<1>1. x \in Seq(E) /\ Len(x) = 1 /\ x[1] = a
  OBVIOUS
<1>2. y \in Seq(E) /\ Len(y) = 1 /\ y[1] = b
  OBVIOUS
<1> HIDE DEF x, y
<1>3. /\ u \in Seq(E) /\ n \in Nat /\ Len(u) = 1 + n
      /\ (\A i \in 1..1 : u[i] = x[i]) /\ \A i \in 1..n : u[1 + i] = s[i]
  <2>0. x \in Seq(E) /\ s \in Seq(E)
    BY <1>1
  <2>1. /\ u \in Seq(E) /\ Len(s) \in Nat /\ Len(u) = Len(x) + Len(s)
        /\ \A i \in 1..Len(x) : u[i] = x[i]
        /\ \A i \in 1..Len(s) : u[Len(x) + i] = s[i]
    BY <2>0, Sides
  <2> HIDE DEF u
  <2> QED
    BY <1>1, <2>1
<1> HIDE DEF u, n
<1>4. /\ w \in Seq(E) /\ Len(w) = Len(u) + 1
      /\ (\A i \in 1..Len(u) : w[i] = u[i])
      /\ (\A i \in 1..1 : w[Len(u) + i] = y[i])
  <2>0. u \in Seq(E) /\ y \in Seq(E)
    BY <1>2, <1>3
  <2>1. /\ w \in Seq(E) /\ Len(w) = Len(u) + Len(y)
        /\ \A i \in 1..Len(u) : w[i] = u[i]
        /\ \A i \in 1..Len(y) : w[Len(u) + i] = y[i]
    BY <2>0, Sides
  <2> HIDE DEF w
  <2> QED
    BY <1>2, <2>1
<1> HIDE DEF w
<1>5. w[1] = a
  <2>1. 1 \in 1..Len(u) /\ 1 \in 1..1
    BY <1>3
  <2> QED
    BY <1>1, <1>3, <1>4, <2>1
<1>6. w[n + 2] = b
  <2>1. Len(u) + 1 = n + 2 /\ 1 \in 1..1
    BY <1>3
  <2>2. w[Len(u) + 1] = y[1]
    BY <1>4, <2>1
  <2> QED
    BY <1>2, <2>1, <2>2
<1>7. ASSUME NEW p \in 1..n PROVE w[p + 1] = s[p]
  <2>1. p + 1 \in 1..Len(u) /\ p + 1 = 1 + p
    BY <1>3
  <2>2. w[p + 1] = u[p + 1] /\ u[1 + p] = s[p]
    BY <1>3, <1>4, <2>1
  <2> QED
    BY <2>1, <2>2
<1>8. ASSUME NEW p \in 1..Len(w)
      PROVE  \/ w[p] = a
             \/ w[p] = b
             \/ (p - 1 \in 1..n /\ w[p] = s[p - 1])
  <2>1. p = 1 \/ p = n + 2 \/ (p - 1 \in 1..n /\ (p - 1) + 1 = p)
    BY <1>3, <1>4
  <2> QED
    BY <1>5, <1>6, <1>7, <2>1
<1>9. Len(w) = n + 2
  BY <1>3, <1>4
<1> QED
  BY <1>3, <1>4, <1>5, <1>6, <1>7, <1>8, <1>9 DEF w, u, x, y, n

-----------------------------------------------------------------------------
(* What ripgrep writes about one note.                                     *)
Types == {"begin", "match", "context", "end"}

Events == {Event(t, i, n) : t \in Types, i \in DOMAIN vault, n \in Nat}

Searchable == vault \in Vaults /\ context \in Nat

LineEvents(i) ==
    [n \in DOMAIN vault[i] |->
        IF Near(vault[i], n)
        THEN <<Event(IF vault[i][n] THEN "match" ELSE "context", i, n)>>
        ELSE <<>>]

LEMMA NoteEventsAre ==
  ASSUME NEW i
  PROVE  NoteEvents(i) = IF FlattenSeq(LineEvents(i)) = <<>> THEN <<>>
                         ELSE <<Event("begin", i, 0)>> \o FlattenSeq(LineEvents(i))
                                \o <<Event("end", i, 0)>>
  BY DEF NoteEvents, LineEvents

LEMMA VaultIs ==
  ASSUME Searchable
  PROVE  /\ vault \in Seq(Seq(BOOLEAN)) /\ Len(vault) \in Nat
         /\ DOMAIN vault = 1..Len(vault)
         /\ \A i \in DOMAIN vault :
               /\ vault[i] \in Seq(BOOLEAN) /\ Len(vault[i]) \in Nat
               /\ DOMAIN vault[i] = 1..Len(vault[i])
               /\ \A j \in DOMAIN vault : PathText[i] = PathText[j] => i = j
<1>1. /\ vault \in Seq(Seq(BOOLEAN))
      /\ \A i, j \in DOMAIN vault : PathText[i] = PathText[j] => i = j
  BY NotesAssumption DEF NotesAssumption, Searchable
<1>2. Len(vault) \in Nat /\ DOMAIN vault = 1..Len(vault)
  BY <1>1, LenProperties
<1>3. ASSUME NEW i \in DOMAIN vault PROVE vault[i] \in Seq(BOOLEAN)
  BY <1>1, <1>2, ElementOfSeq
<1> QED
  BY <1>1, <1>2, <1>3, LenProperties

NoteShape(i, s) ==
    /\ s \in Seq(Events)
    /\ \A p \in 1..Len(s) : s[p].path = PathText[i] /\ s[p].type \in Types
    /\ \A p \in 1..Len(s) :
          IsLine(s[p]) => /\ s[p].n \in DOMAIN vault[i]
                          /\ (s[p].type = "match") <=> vault[i][s[p].n]
                          /\ \E q \in 1..Len(s) : s[q].type = "match"
    /\ \A p, q \in 1..Len(s) :
          (p < q /\ IsLine(s[p]) /\ IsLine(s[q])) => s[p].n < s[q].n
    /\ \A n \in DOMAIN vault[i] :
          vault[i][n] => \E p \in 1..Len(s) : s[p].type = "match" /\ s[p].n = n

LEMMA EventIs ==
  ASSUME NEW t \in Types, NEW i \in DOMAIN vault, NEW n \in Nat
  PROVE  /\ Event(t, i, n) \in Events /\ Event(t, i, n).type = t
         /\ Event(t, i, n).path = PathText[i] /\ Event(t, i, n).n = n
  BY DEF Events, Event

LEMMA LineEventsAre ==
  ASSUME Searchable, NEW i \in DOMAIN vault
  PROVE  /\ LineEvents(i) \in Seq(Seq(Events))
         /\ Len(LineEvents(i)) = Len(vault[i])
<1> DEFINE n == Len(vault[i])
<1>1. n \in Nat /\ DOMAIN vault[i] = 1..n
  BY VaultIs
<1>2. ASSUME NEW k \in 1..n
      PROVE  (IF Near(vault[i], k)
              THEN <<Event(IF vault[i][k] THEN "match" ELSE "context", i, k)>>
              ELSE <<>>) \in Seq(Events)
  <2>1. (IF vault[i][k] THEN "match" ELSE "context") \in Types /\ k \in Nat
    BY <1>1 DEF Types
  <2>2. Event(IF vault[i][k] THEN "match" ELSE "context", i, k) \in Events
    BY <2>1, EventIs
  <2> HIDE DEF Events
  <2>3. <<Event(IF vault[i][k] THEN "match" ELSE "context", i, k)>> \in Seq(Events)
    BY <2>2
  <2>4. <<>> \in Seq(Events)
    BY EmptySeq
  <2> QED
    BY <2>3, <2>4
<1>3. LineEvents(i) \in [1..n -> Seq(Events)]
  BY <1>1, <1>2 DEF LineEvents
<1> QED
  BY <1>1, <1>3, FunIsSeq

(* The lines found in a note, before "begin" and "end" are put around.     *)
LEMMA FoundShape ==
  ASSUME Searchable, NEW i \in DOMAIN vault
  PROVE  NoteShape(i, FlattenSeq(LineEvents(i)))
<1> DEFINE ss == LineEvents(i)
           s == FlattenSeq(ss)
           lines == vault[i]
           type(n) == IF lines[n] THEN "match" ELSE "context"
<1>1. ss \in Seq(Seq(Events)) /\ Len(ss) = Len(lines)
  BY LineEventsAre
<1>2. /\ Len(lines) \in Nat /\ DOMAIN lines = 1..Len(lines)
      /\ \A n \in DOMAIN lines : lines[n] \in BOOLEAN
  BY VaultIs, ElementOfSeq
<1>3. context \in Nat
  BY DEF Searchable
<1>4. ASSUME NEW n \in DOMAIN lines
      PROVE  /\ ~Near(lines, n) => ss[n] = <<>>
             /\ Near(lines, n) => ss[n] = <<Event(type(n), i, n)>>
             /\ type(n) \in Types /\ n \in Nat
  BY <1>2 DEF LineEvents, Types
<1>5. s \in Seq(Events)
  BY <1>1, FlattenIsSeq
<1> HIDE DEF ss, Events
<1>6. PICK own, at : Placed(ss, Len(ss), s, own, at)
  BY <1>1, FlattenPlaced
<1> HIDE DEF s
<1>7. ASSUME NEW p \in 1..Len(s)
      PROVE  /\ own[p] \in DOMAIN lines /\ Near(lines, own[p])
             /\ s[p] = Event(type(own[p]), i, own[p]) /\ at[p] = 1
  <2>1. /\ own[p] \in DOMAIN lines /\ at[p] \in 1..Len(ss[own[p]])
        /\ s[p] = ss[own[p]][at[p]]
    BY <1>1, <1>2, <1>6 DEF Placed
  <2>2. Near(lines, own[p])
    <3>1. ss[own[p]] # <<>>
      BY <2>1
    <3> QED
      BY <1>4, <2>1, <3>1
  <2>3. ss[own[p]] = <<Event(type(own[p]), i, own[p])>>
    BY <1>4, <2>1, <2>2
  <2>4. at[p] = 1
    BY <2>1, <2>3
  <2> QED
    BY <2>1, <2>2, <2>3, <2>4
<1>8. ASSUME NEW p \in 1..Len(s)
      PROVE  /\ s[p].path = PathText[i] /\ s[p].n = own[p]
             /\ s[p].type = type(own[p]) /\ s[p].type \in Types /\ IsLine(s[p])
  <2>1. type(own[p]) \in Types /\ own[p] \in Nat
    BY <1>4, <1>7
  <2>2. /\ s[p].path = PathText[i] /\ s[p].n = own[p]
        /\ s[p].type = type(own[p])
    BY <1>7, <2>1, EventIs
  <2> QED
    BY <2>1, <2>2 DEF IsLine
<1>9. ASSUME NEW n \in DOMAIN lines, lines[n]
      PROVE  \E p \in 1..Len(s) : s[p].type = "match" /\ s[p].n = n
  <2>1. Near(lines, n)
    <3>1. n \in (n - context)..(n + context)
      BY <1>3, <1>4
    <3> QED
      BY <1>9, <3>1 DEF Near
  <2>2. ss[n] = <<Event(type(n), i, n)>> /\ n \in 1..Len(ss)
    BY <1>1, <1>2, <1>4, <2>1
  <2>3. 1 \in 1..Len(ss[n])
    BY <2>2
  <2>4. PICK p \in 1..Len(s) : own[p] = n
    <3>1. \A b \in 1..Len(ss) : \A a \in 1..Len(ss[b]) :
            \E p \in 1..Len(s) : own[p] = b /\ at[p] = a
      BY <1>6 DEF Placed
    <3>2. \E p \in 1..Len(s) : own[p] = n /\ at[p] = 1
      BY <2>2, <2>3, <3>1, Zenon
    <3> QED
      BY <3>2
  <2>5. s[p].type = type(n) /\ s[p].n = n
    <3> HIDE DEF type
    <3>1. s[p].type = type(own[p]) /\ s[p].n = own[p]
      BY <1>8
    <3> QED
      BY <2>4, <3>1, Zenon
  <2>6. type(n) = "match"
    BY <1>9
  <2> QED
    BY <2>5, <2>6
<1>10. ASSUME NEW p \in 1..Len(s)
       PROVE  /\ s[p].n \in DOMAIN lines
              /\ (s[p].type = "match") <=> lines[s[p].n]
              /\ \E q \in 1..Len(s) : s[q].type = "match"
  <2>1. own[p] \in DOMAIN lines /\ lines[own[p]] \in BOOLEAN
    BY <1>2, <1>7
  <2>2. PICK m \in DOMAIN lines : lines[m]
    BY <1>7 DEF Near
  <2>3. \E q \in 1..Len(s) : s[q].type = "match"
    BY <1>9, <2>2
  <2>4. (s[p].type = "match") <=> lines[own[p]]
    BY <1>8, <2>1
  <2> QED
    BY <1>8, <2>1, <2>3, <2>4
<1>11. ASSUME NEW p \in 1..Len(s), NEW q \in 1..Len(s), p < q
       PROVE  s[p].n < s[q].n
  <2>1. own[p] < own[q] \/ (own[p] = own[q] /\ at[p] < at[q])
    BY <1>6, <1>11 DEF Placed
  <2>2. own[p] < own[q]
    BY <1>7, <2>1
  <2> QED
    BY <1>8, <2>2
<1>12. NoteShape(i, s)
  BY <1>5, <1>8, <1>9, <1>10, <1>11 DEF NoteShape
<1> QED
  BY <1>12 DEF s, ss

LEMMA NoteEventsShape ==
  ASSUME Searchable, NEW i \in DOMAIN vault
  PROVE  NoteShape(i, NoteEvents(i))
<1> DEFINE s == FlattenSeq(LineEvents(i))
           a == Event("begin", i, 0)
           b == Event("end", i, 0)
           w == <<a>> \o s \o <<b>>
<1>1. NoteShape(i, s)
  BY FoundShape
<1>2. NoteEvents(i) = IF s = <<>> THEN <<>> ELSE w
  BY NoteEventsAre
<1>3. CASE s = <<>>
  BY <1>1, <1>2, <1>3
<1>4. CASE s # <<>>
  <2>1. /\ a \in Events /\ a.type = "begin" /\ a.path = PathText[i]
        /\ b \in Events /\ b.type = "end" /\ b.path = PathText[i]
    <3>1. "begin" \in Types /\ "end" \in Types
      BY DEF Types
    <3> QED
      BY <3>1, EventIs
  <2>2. s \in Seq(Events)
    BY <1>1 DEF NoteShape
  <2> HIDE DEF s, a, b, Events
  <2>3. /\ w \in Seq(Events) /\ Len(s) \in Nat /\ Len(w) = Len(s) + 2
        /\ \A p \in 1..Len(s) : w[p + 1] = s[p]
        /\ \A p \in 1..Len(w) : \/ w[p] = a
                                \/ w[p] = b
                                \/ (p - 1 \in 1..Len(s) /\ w[p] = s[p - 1])
    BY <2>1, <2>2, Wrapped
  <2> HIDE DEF w
  <2>4. ~IsLine(a) /\ ~IsLine(b)
    BY <2>1 DEF IsLine
  <2>5. ASSUME NEW p \in 1..Len(w), IsLine(w[p])
        PROVE  p - 1 \in 1..Len(s) /\ w[p] = s[p - 1] /\ IsLine(s[p - 1])
    BY <2>3, <2>4, <2>5
  <2>6. ASSUME NEW p \in 1..Len(w)
        PROVE  w[p].path = PathText[i] /\ w[p].type \in Types
    <3>1. CASE w[p] = a \/ w[p] = b
      BY <2>1, <3>1 DEF Types
    <3>2. CASE p - 1 \in 1..Len(s) /\ w[p] = s[p - 1]
      BY <1>1, <3>2 DEF NoteShape
    <3> QED
      BY <2>3, <3>1, <3>2
  <2>7. ASSUME NEW q \in 1..Len(s)
        PROVE  q + 1 \in 1..Len(w) /\ w[q + 1] = s[q]
    BY <2>3
  <2>8. ASSUME NEW p \in 1..Len(w), IsLine(w[p])
        PROVE  /\ w[p].n \in DOMAIN vault[i]
               /\ (w[p].type = "match") <=> vault[i][w[p].n]
               /\ \E q \in 1..Len(w) : w[q].type = "match"
    <3>1. p - 1 \in 1..Len(s) /\ w[p] = s[p - 1] /\ IsLine(s[p - 1])
      BY <2>5, <2>8
    <3>2. /\ w[p].n \in DOMAIN vault[i]
          /\ (w[p].type = "match") <=> vault[i][w[p].n]
          /\ \E q \in 1..Len(s) : s[q].type = "match"
      BY <1>1, <3>1 DEF NoteShape
    <3> QED
      BY <2>7, <3>2
  <2>9. ASSUME NEW p \in 1..Len(w), NEW q \in 1..Len(w),
               p < q, IsLine(w[p]), IsLine(w[q])
        PROVE  w[p].n < w[q].n
    <3>1. /\ p - 1 \in 1..Len(s) /\ w[p] = s[p - 1] /\ IsLine(s[p - 1])
          /\ q - 1 \in 1..Len(s) /\ w[q] = s[q - 1] /\ IsLine(s[q - 1])
      BY <2>5, <2>9
    <3>2. p - 1 < q - 1
      BY <2>3, <2>9
    <3> QED
      BY <1>1, <3>1, <3>2 DEF NoteShape
  <2>10. ASSUME NEW n \in DOMAIN vault[i], vault[i][n]
         PROVE  \E p \in 1..Len(w) : w[p].type = "match" /\ w[p].n = n
    <3>1. PICK p \in 1..Len(s) : s[p].type = "match" /\ s[p].n = n
      BY <1>1, <2>10 DEF NoteShape
    <3> QED
      BY <2>7, <3>1
  <2>11. NoteShape(i, w)
    BY <2>3, <2>6, <2>8, <2>9, <2>10 DEF NoteShape
  <2> QED
    BY <1>2, <1>4, <2>11
<1> QED
  BY <1>3, <1>4

(* What a whole run of ripgrep writes: own[p] is the note of the event at  *)
(* p.  Notes, and the lines of a note, come in order; every match is there *)
(* and no note without one.                                                *)
Shape(rg, own) ==
    /\ rg \in Seq(Events)
    /\ \A p \in 1..Len(rg) : /\ own[p] \in DOMAIN vault
                             /\ rg[p].path = PathText[own[p]]
                             /\ rg[p].type \in Types
    /\ \A p, q \in 1..Len(rg) : p < q => own[p] <= own[q]
    /\ \A p \in 1..Len(rg) :
          IsLine(rg[p]) =>
             /\ rg[p].n \in DOMAIN vault[own[p]]
             /\ (rg[p].type = "match") <=> vault[own[p]][rg[p].n]
             /\ \E q \in 1..Len(rg) : own[q] = own[p] /\ rg[q].type = "match"
    /\ \A p, q \in 1..Len(rg) :
          (p < q /\ own[p] = own[q] /\ IsLine(rg[p]) /\ IsLine(rg[q])) =>
             rg[p].n < rg[q].n
    /\ \A i \in DOMAIN vault : \A n \in DOMAIN vault[i] :
          vault[i][n] => \E p \in 1..Len(rg) :
                            /\ own[p] = i /\ rg[p].type = "match"
                            /\ rg[p].n = n

LEMMA OutputShape == ASSUME Searchable PROVE \E own : Shape(RgOutput, own)
<1> DEFINE ss == [i \in DOMAIN vault |-> NoteEvents(i)]
           rg == FlattenSeq(ss)
<1>1. Len(vault) \in Nat /\ DOMAIN vault = 1..Len(vault)
  BY VaultIs
<1>2. ASSUME NEW i \in DOMAIN vault PROVE NoteShape(i, ss[i])
  BY <1>2, NoteEventsShape
<1>3. ss \in Seq(Seq(Events)) /\ Len(ss) = Len(vault)
  <2>1. ss \in [1..Len(vault) -> Seq(Events)]
    <3>1. ASSUME NEW i \in DOMAIN vault PROVE NoteEvents(i) \in Seq(Events)
      BY NoteEventsShape DEF NoteShape
    <3> QED
      BY <1>1, <3>1
  <2> HIDE DEF ss
  <2> QED
    BY <1>1, <2>1, FunIsSeq
<1>4. RgOutput = rg
  BY DEF RgOutput
<1> HIDE DEF ss, Events
<1>5. rg \in Seq(Events)
  BY <1>3, FlattenIsSeq
<1>6. PICK own, at : Placed(ss, Len(ss), rg, own, at)
  BY <1>3, FlattenPlaced
<1> HIDE DEF rg
<1>7. ASSUME NEW p \in 1..Len(rg)
      PROVE  /\ own[p] \in DOMAIN vault /\ at[p] \in 1..Len(ss[own[p]])
             /\ rg[p] = ss[own[p]][at[p]]
  BY <1>1, <1>3, <1>6 DEF Placed
<1>8. ASSUME NEW i \in DOMAIN vault, NEW a \in 1..Len(ss[i])
      PROVE  \E p \in 1..Len(rg) : own[p] = i /\ rg[p] = ss[i][a]
  <2>1. \E p \in 1..Len(rg) : own[p] = i /\ at[p] = a
    BY <1>1, <1>3, <1>6 DEF Placed
  <2> QED
    BY <1>7, <2>1
<1>9. ASSUME NEW p \in 1..Len(rg)
      PROVE  rg[p].path = PathText[own[p]] /\ rg[p].type \in Types
  BY <1>2, <1>7 DEF NoteShape
<1>10. ASSUME NEW p \in 1..Len(rg), NEW q \in 1..Len(rg), p < q
       PROVE  own[p] <= own[q]
  <2>1. own[p] < own[q] \/ (own[p] = own[q] /\ at[p] < at[q])
    BY <1>6, <1>10 DEF Placed
  <2>2. own[p] \in Int /\ own[q] \in Int
    BY <1>1, <1>7
  <2> QED
    BY <2>1, <2>2
<1>11. ASSUME NEW p \in 1..Len(rg), IsLine(rg[p])
       PROVE  /\ rg[p].n \in DOMAIN vault[own[p]]
              /\ (rg[p].type = "match") <=> vault[own[p]][rg[p].n]
              /\ \E q \in 1..Len(rg) : own[q] = own[p] /\ rg[q].type = "match"
  <2> DEFINE i == own[p]
             s == ss[i]
  <2>1. i \in DOMAIN vault /\ at[p] \in 1..Len(s) /\ rg[p] = s[at[p]]
    BY <1>7
  <2>2. NoteShape(i, s)
    BY <1>2, <2>1
  <2> HIDE DEF i, s
  <2>3. /\ rg[p].n \in DOMAIN vault[i]
        /\ (rg[p].type = "match") <=> vault[i][rg[p].n]
        /\ \E a \in 1..Len(s) : s[a].type = "match"
    BY <1>11, <2>1, <2>2 DEF NoteShape
  <2>4. PICK a \in 1..Len(s) : s[a].type = "match"
    BY <2>3
  <2>5. \E q \in 1..Len(rg) : own[q] = i /\ rg[q] = s[a]
    BY <1>8, <2>1 DEF s
  <2>6. \E q \in 1..Len(rg) : own[q] = i /\ rg[q].type = "match"
    BY <2>4, <2>5
  <2> QED
    BY <2>3, <2>6 DEF i
<1>12. ASSUME NEW p \in 1..Len(rg), NEW q \in 1..Len(rg), p < q,
              own[p] = own[q], IsLine(rg[p]), IsLine(rg[q])
       PROVE  rg[p].n < rg[q].n
  <2> DEFINE s == ss[own[p]]
  <2>1. /\ at[p] \in 1..Len(s) /\ rg[p] = s[at[p]]
        /\ at[q] \in 1..Len(s) /\ rg[q] = s[at[q]]
    BY <1>7, <1>12
  <2>2. own[p] \in Int /\ own[p] \in DOMAIN vault
    BY <1>1, <1>7
  <2>3. at[p] < at[q]
    <3>1. own[p] < own[q] \/ (own[p] = own[q] /\ at[p] < at[q])
      BY <1>6, <1>12 DEF Placed
    <3> QED
      BY <1>12, <2>2, <3>1
  <2>4. NoteShape(own[p], s)
    BY <1>2, <2>2
  <2> HIDE DEF s
  <2> QED
    BY <1>12, <2>1, <2>3, <2>4 DEF NoteShape
<1>13. ASSUME NEW i \in DOMAIN vault, NEW n \in DOMAIN vault[i], vault[i][n]
       PROVE  \E p \in 1..Len(rg) :
                 own[p] = i /\ rg[p].type = "match" /\ rg[p].n = n
  <2>1. PICK a \in 1..Len(ss[i]) : ss[i][a].type = "match" /\ ss[i][a].n = n
    BY <1>2, <1>13 DEF NoteShape
  <2>2. \E p \in 1..Len(rg) : own[p] = i /\ rg[p] = ss[i][a]
    BY <1>8
  <2> QED
    BY <2>1, <2>2
<1>14. Shape(rg, own)
  BY <1>5, <1>7, <1>9, <1>10, <1>11, <1>12, <1>13 DEF Shape
<1> QED
  BY <1>4, <1>14

-----------------------------------------------------------------------------
(* Counting matches.                                                       *)
Matched(rg, m) == {p \in 1..m : rg[p].type = "match"}

LEMMA MatchedIs ==
  ASSUME NEW rg, NEW m \in Nat
  PROVE  /\ IsFiniteSet(Matched(rg, m)) /\ Cardinality(Matched(rg, m)) \in Nat
         /\ Cardinality(Matched(rg, m + 1)) =
               Cardinality(Matched(rg, m))
                  + (IF rg[m + 1].type = "match" THEN 1 ELSE 0)
<1> DEFINE S == Matched(rg, m)
<1>1. IsFiniteSet(S)
  <2>1. IsFiniteSet(1..m)
    BY FS_Interval
  <2>2. S \in SUBSET (1..m)
    BY DEF Matched
  <2> HIDE DEF S
  <2> QED
    BY <2>1, <2>2, FS_Subset
<1>2. Cardinality(S) \in Nat
  BY <1>1, FS_CardinalityType
<1>3. m + 1 \notin S
  BY DEF Matched
<1>4. Matched(rg, m + 1) = IF rg[m + 1].type = "match" THEN S \cup {m + 1} ELSE S
  BY DEF Matched
<1> HIDE DEF S
<1>5. Cardinality(S \cup {m + 1}) = Cardinality(S) + 1
  BY <1>1, <1>3, FS_AddElement
<1> QED
  BY <1>1, <1>2, <1>4, <1>5 DEF S

LEMMA NoneMatched == ASSUME NEW rg PROVE Cardinality(Matched(rg, 0)) = 0
<1>1. Matched(rg, 0) = {}
  BY DEF Matched
<1> QED
  BY <1>1, FS_EmptySet

LEMMA MatchedGrows ==
  ASSUME NEW rg, NEW m \in Nat, NEW n \in Nat, m <= n
  PROVE  Cardinality(Matched(rg, m)) <= Cardinality(Matched(rg, n))
<1>1. Matched(rg, m) \in SUBSET Matched(rg, n)
  BY DEF Matched
<1>2. IsFiniteSet(Matched(rg, n))
  BY MatchedIs
<1> QED
  BY <1>1, <1>2, FS_Subset

(* ripgrep writes as many match events as the vault has matching lines.    *)
LEMMA MatchesCounted ==
  ASSUME Searchable, NEW rg, NEW own, Shape(rg, own)
  PROVE  NumberOfMatches = Cardinality(Matched(rg, Len(rg)))
<1> DEFINE S == Matched(rg, Len(rg))
           Found(i) == {<<i, n>> : n \in {m \in DOMAIN vault[i] : vault[i][m]}}
           T == UNION {Found(i) : i \in DOMAIN vault}
           f == [p \in S |-> <<own[p], rg[p].n>>]
<1>1. Len(rg) \in Nat
  BY LenProperties DEF Shape
<1>2. IsFiniteSet(S)
  BY <1>1, MatchedIs
<1>3. ASSUME NEW p \in S
      PROVE  /\ p \in 1..Len(rg) /\ rg[p].type = "match" /\ IsLine(rg[p])
             /\ own[p] \in DOMAIN vault /\ rg[p].n \in DOMAIN vault[own[p]]
             /\ vault[own[p]][rg[p].n]
  <2>1. p \in 1..Len(rg) /\ rg[p].type = "match"
    BY DEF Matched
  <2>2. IsLine(rg[p])
    BY <2>1 DEF IsLine
  <2>3. own[p] \in DOMAIN vault
    BY <2>1 DEF Shape
  <2>4. /\ rg[p].n \in DOMAIN vault[own[p]]
        /\ (rg[p].type = "match") <=> vault[own[p]][rg[p].n]
    BY <2>1, <2>2 DEF Shape
  <2> QED
    BY <2>1, <2>2, <2>3, <2>4
<1>4. ASSUME NEW p \in S PROVE <<own[p], rg[p].n>> \in T
  <2>1. <<own[p], rg[p].n>> \in Found(own[p])
    BY <1>3
  <2> HIDE DEF Found
  <2> QED
    BY <1>3, <2>1
<1>5. f \in [S -> T]
  <2> HIDE DEF S, T
  <2> QED
    BY <1>4
<1>6. ASSUME NEW p \in S, NEW q \in S, f[p] = f[q] PROVE p = q
  <2>1. own[p] = own[q] /\ rg[p].n = rg[q].n
    BY <1>6
  <2>2. p \in 1..Len(rg) /\ q \in 1..Len(rg) /\ IsLine(rg[p]) /\ IsLine(rg[q])
    BY <1>3
  <2>3. rg[p].n \in Nat
    <3>1. rg[p].n \in DOMAIN vault[own[p]] /\ own[p] \in DOMAIN vault
      BY <1>3
    <3>2. DOMAIN vault[own[p]] = 1..Len(vault[own[p]]) /\ Len(vault[own[p]]) \in Nat
      BY <3>1, VaultIs
    <3> QED
      BY <3>1, <3>2
  <2>4. p < q => rg[p].n < rg[q].n
    BY <2>1, <2>2 DEF Shape
  <2>5. q < p => rg[q].n < rg[p].n
    BY <2>1, <2>2 DEF Shape
  <2>6. ~(p < q) /\ ~(q < p)
    BY <2>1, <2>3, <2>4, <2>5
  <2> QED
    BY <1>1, <2>2, <2>6
<1>7. ASSUME NEW t \in T PROVE \E p \in S : f[p] = t
  <2>1. PICK i \in DOMAIN vault : t \in Found(i)
    OBVIOUS
  <2>2. PICK n \in DOMAIN vault[i] : vault[i][n] /\ t = <<i, n>>
    BY <2>1
  <2>3. PICK p \in 1..Len(rg) : own[p] = i /\ rg[p].type = "match" /\ rg[p].n = n
    BY <2>2 DEF Shape
  <2>4. p \in S
    BY <2>3 DEF Matched
  <2> QED
    BY <2>2, <2>3, <2>4
<1>8. NumberOfMatches = Cardinality(T)
  BY DEF NumberOfMatches
<1> HIDE DEF S, T, f
<1>9. ExistsBijection(S, T)
  <2>1. f \in Injection(S, T)
    BY <1>5, <1>6 DEF Injection, IsInjective
  <2>2. f \in Surjection(S, T)
    BY <1>5, <1>7 DEF Surjection
  <2> QED
    BY <2>1, <2>2 DEF Bijection, ExistsBijection
<1>10. Cardinality(T) = Cardinality(S)
  BY <1>2, <1>9, FS_Bijection
<1> QED
  BY <1>8, <1>10 DEF S

-----------------------------------------------------------------------------
(* The lines among the first m events.                                     *)
Paths == {PathText[i] : i \in DOMAIN vault}

OneLine(ev) == IF IsLine(ev) THEN <<<<ev.path, ev.n>>>> ELSE <<>>

LinesSeq(rg, m) == [k \in 1..m |-> OneLine(rg[k])]

LEMMA LinesToAre == \A m : LinesTo(m) = FlattenSeq(LinesSeq(RgOutput, m))
  BY DEF LinesTo, LinesSeq, OneLine

LEMMA LineIs ==
  ASSUME Searchable, NEW rg, NEW own, Shape(rg, own), NEW p \in 1..Len(rg)
  PROVE  /\ rg[p].path \in Paths
         /\ IsLine(rg[p]) => rg[p].n \in Nat
         /\ OneLine(rg[p]) \in Seq(Paths \X Nat)
<1>1. own[p] \in DOMAIN vault /\ rg[p].path = PathText[own[p]]
  BY DEF Shape
<1>2. rg[p].path \in Paths
  BY <1>1 DEF Paths
<1>3. ASSUME IsLine(rg[p]) PROVE rg[p].n \in Nat
  <2>1. rg[p].n \in DOMAIN vault[own[p]]
    BY <1>3 DEF Shape
  <2>2. DOMAIN vault[own[p]] = 1..Len(vault[own[p]]) /\ Len(vault[own[p]]) \in Nat
    BY <1>1, VaultIs
  <2> QED
    BY <2>1, <2>2
<1> HIDE DEF Paths
<1>4. OneLine(rg[p]) \in Seq(Paths \X Nat)
  <2>1. CASE IsLine(rg[p])
    <3>1. <<rg[p].path, rg[p].n>> \in Paths \X Nat
      BY <1>2, <1>3, <2>1
    <3> QED
      BY <2>1, <3>1 DEF OneLine
  <2>2. CASE ~IsLine(rg[p])
    BY <2>2, EmptySeq DEF OneLine
  <2> QED
    BY <2>1, <2>2
<1> QED
  BY <1>2, <1>3, <1>4

LEMMA LinesSeqIs ==
  ASSUME Searchable, NEW rg, NEW own, Shape(rg, own), NEW m \in 0..Len(rg)
  PROVE  LinesSeq(rg, m) \in Seq(Seq(Paths \X Nat)) /\ Len(LinesSeq(rg, m)) = m
<1>1. Len(rg) \in Nat
  BY LenProperties DEF Shape
<1>2. ASSUME NEW k \in 1..m PROVE OneLine(rg[k]) \in Seq(Paths \X Nat)
  <2>1. k \in 1..Len(rg)
    BY <1>1
  <2> QED
    BY <2>1, LineIs
<1>3. LinesSeq(rg, m) \in [1..m -> Seq(Paths \X Nat)]
  BY <1>2 DEF LinesSeq
<1> QED
  BY <1>1, <1>3, FunIsSeq

-----------------------------------------------------------------------------
(* The result, and what one line more makes of it.                         *)
Line == [n : Nat, match : BOOLEAN]

File == [path : Paths, lines : Seq(Line)]

LinesOf(file) == [k \in DOMAIN file.lines |-> <<file.path, file.lines[k].n>>]

ListedSeq(files) == [i \in DOMAIN files |-> LinesOf(files[i])]

LEMMA ListedIs == Listed = FlattenSeq(ListedSeq(res.files))
  BY DEF Listed, ListedSeq, LinesOf

LEMMA LinesOfAre ==
  ASSUME NEW file \in File
  PROVE  /\ LinesOf(file) \in Seq(Paths \X Nat)
         /\ Len(LinesOf(file)) = Len(file.lines) /\ Len(file.lines) \in Nat
         /\ DOMAIN file.lines = 1..Len(file.lines)
<1>1. /\ file.path \in Paths /\ file.lines \in Seq(Line)
  BY DEF File
<1> HIDE DEF Paths, Line
<1>2. Len(file.lines) \in Nat /\ DOMAIN file.lines = 1..Len(file.lines)
  BY <1>1, LenProperties
<1>3. ASSUME NEW k \in 1..Len(file.lines)
      PROVE  <<file.path, file.lines[k].n>> \in Paths \X Nat
  <2>1. file.lines[k] \in Line
    BY <1>1, ElementOfSeq
  <2>2. file.lines[k].n \in Nat
    BY <2>1 DEF Line
  <2> QED
    BY <1>1, <2>2
<1>4. LinesOf(file) \in [1..Len(file.lines) -> Paths \X Nat]
  BY <1>2, <1>3 DEF LinesOf
<1> QED
  BY <1>2, <1>4, FunIsSeq

LEMMA ListedSeqIs ==
  ASSUME NEW files \in Seq(File)
  PROVE  /\ ListedSeq(files) \in Seq(Seq(Paths \X Nat))
         /\ Len(ListedSeq(files)) = Len(files)
         /\ Len(files) \in Nat /\ DOMAIN files = 1..Len(files)
<1>1. Len(files) \in Nat /\ DOMAIN files = 1..Len(files)
  BY LenProperties
<1>2. ASSUME NEW i \in 1..Len(files)
      PROVE  LinesOf(files[i]) \in Seq(Paths \X Nat)
  BY <1>2, ElementOfSeq, LinesOfAre
<1>3. ListedSeq(files) \in [1..Len(files) -> Seq(Paths \X Nat)]
  BY <1>1, <1>2 DEF ListedSeq
<1> QED
  BY <1>1, <1>3, FunIsSeq

NewLine(ev) == [n |-> ev.n, match |-> ev.type = "match"]

(* new is files with ev's line, in its last entry.                         *)
Grown(files, new, ev) ==
    LET l == Len(new)
    IN  /\ new \in Seq(File) /\ l >= 1 /\ l \in {Len(files), Len(files) + 1}
        /\ \A i \in 1..(l - 1) : new[i] = files[i]
        /\ l = Len(files) =>
              /\ files[l].path = ev.path
              /\ \A k \in DOMAIN files[l].lines :
                    /\ k \in DOMAIN new[l].lines
                    /\ new[l].lines[k] = files[l].lines[k]
        /\ l # Len(files) => (files = <<>> \/ files[Len(files)].path # ev.path)
        /\ new[l].path = ev.path
        /\ \E k \in DOMAIN new[l].lines : new[l].lines[k].match = (ev.type = "match")
        /\ FlattenSeq(ListedSeq(new)) =
              Append(FlattenSeq(ListedSeq(files)), <<ev.path, ev.n>>)

LEMMA NewLineIs ==
  ASSUME NEW ev, ev.n \in Nat
  PROVE  NewLine(ev) \in Line /\ NewLine(ev).n = ev.n
         /\ NewLine(ev).match = (ev.type = "match")
  BY DEF NewLine, Line

LEMMA NewFileGrows ==
  ASSUME NEW files \in Seq(File), NEW ev, ev.path \in Paths, ev.n \in Nat,
         files = <<>> \/ files[Len(files)].path # ev.path
  PROVE  Grown(files, Append(files, [path |-> ev.path, lines |-> <<NewLine(ev)>>]),
               ev)
<1> DEFINE f == [path |-> ev.path, lines |-> <<NewLine(ev)>>]
           new == Append(files, f)
           l == Len(files) + 1
           E == Paths \X Nat
<1>1. NewLine(ev) \in Line /\ NewLine(ev).n = ev.n
      /\ NewLine(ev).match = (ev.type = "match")
  BY NewLineIs
<1>2. f \in File /\ f.path = ev.path /\ f.lines = <<NewLine(ev)>>
  <2>1. <<NewLine(ev)>> \in Seq(Line)
    BY <1>1
  <2> QED
    BY <2>1 DEF File
<1>3. /\ DOMAIN f.lines = 1..1 /\ f.lines[1] = NewLine(ev) /\ 1 \in 1..1
  BY <1>2
<1> HIDE DEF f
<1>4. /\ new \in Seq(File) /\ Len(new) = l /\ Len(files) \in Nat
      /\ (\A i \in 1..Len(files) : new[i] = files[i]) /\ new[l] = f
  BY <1>2, AppendProperties, LenProperties
<1> HIDE DEF new
<1>5. LinesOf(f) = <<<<ev.path, ev.n>>>>
  <2>1. /\ LinesOf(f) \in Seq(E) /\ Len(LinesOf(f)) = 1
    BY <1>2, <1>3, LinesOfAre
  <2> DEFINE x == <<ev.path, ev.n>>
             s == LinesOf(f)
  <2>2. s[1] = x
    BY <1>1, <1>2, <1>3 DEF LinesOf
  <2>3. x \in E
    OBVIOUS
  <2> HIDE DEF x, s, E
  <2>4. <<x>> \in Seq(E) /\ Len(<<x>>) = 1 /\ <<x>>[1] = x
    BY <2>3
  <2>5. s \in Seq(E) /\ Len(s) = 1
    BY <2>1 DEF s
  <2>6. \A i \in 1..1 : i = 1
    OBVIOUS
  <2>7. \A i \in 1..1 : s[i] = <<x>>[i]
    BY <2>2, <2>4, <2>6
  <2>8. s = <<x>>
    BY <2>4, <2>5, <2>7, SeqEqual
  <2> QED
    BY <2>8 DEF s, x
<1>6. ListedSeq(new) = Append(ListedSeq(files), LinesOf(f))
  <2> DEFINE ss == ListedSeq(files)
             tt == ListedSeq(new)
             a == Append(ss, LinesOf(f))
  <2>1. /\ ss \in Seq(Seq(E)) /\ Len(ss) = Len(files) /\ DOMAIN files = 1..Len(files)
        /\ tt \in Seq(Seq(E)) /\ Len(tt) = l /\ DOMAIN new = 1..l
    BY <1>4, ListedSeqIs
  <2>2. LinesOf(f) \in Seq(E)
    BY <1>2, LinesOfAre
  <2>3. \A i \in 1..l : tt[i] = LinesOf(new[i])
    BY <2>1 DEF ListedSeq
  <2>4. \A i \in 1..Len(files) : ss[i] = LinesOf(files[i])
    BY <2>1 DEF ListedSeq
  <2> HIDE DEF ss, tt, E
  <2>5. /\ a \in Seq(Seq(E)) /\ Len(a) = l /\ a[l] = LinesOf(f)
        /\ \A i \in 1..Len(files) : a[i] = ss[i]
    BY <2>1, <2>2, AppendProperties
  <2> HIDE DEF a
  <2>6. \A i \in 1..l : i \in 1..Len(files) \/ i = l
    BY <1>4
  <2>7. \A i \in 1..l : tt[i] = a[i]
    BY <1>4, <2>3, <2>4, <2>5, <2>6
  <2> QED
    BY <2>1, <2>5, <2>7, SeqEqual DEF ss, tt, a
<1>7. FlattenSeq(ListedSeq(new)) =
         Append(FlattenSeq(ListedSeq(files)), <<ev.path, ev.n>>)
  <2> DEFINE x == <<ev.path, ev.n>>
  <2>1. ListedSeq(files) \in Seq(Seq(E)) /\ x \in E
    BY ListedSeqIs
  <2> HIDE DEF E, x
  <2>2. <<x>> \in Seq(E)
    BY <2>1
  <2>3. FlattenSeq(Append(ListedSeq(files), <<x>>)) = FlattenSeq(ListedSeq(files)) \o <<x>>
    BY <2>1, <2>2, FlattenAppend
  <2>4. FlattenSeq(ListedSeq(files)) \in Seq(E)
    BY <2>1, FlattenIsSeq
  <2>5. FlattenSeq(ListedSeq(files)) \o <<x>> = Append(FlattenSeq(ListedSeq(files)), x)
    BY <2>1, <2>4, AppendIsConcat
  <2> QED
    BY <1>5, <1>6, <2>3, <2>5 DEF x
<1>8. \A i \in 1..(l - 1) : new[i] = files[i]
  BY <1>4
<1>9. l >= 1 /\ l # Len(files) /\ l \in {Len(files), Len(files) + 1}
  BY <1>4
<1>10. \E k \in DOMAIN new[l].lines : new[l].lines[k].match = (ev.type = "match")
  BY <1>1, <1>3, <1>4
<1>11. Grown(files, new, ev)
  BY <1>2, <1>4, <1>7, <1>8, <1>9, <1>10 DEF Grown
<1> QED
  BY <1>11 DEF new, f

LEMMA LinesReplaced ==
  ASSUME NEW old \in File, NEW a \in Seq(Line)
  PROVE  /\ [old EXCEPT !.lines = a] \in File
         /\ [old EXCEPT !.lines = a].lines = a
         /\ [old EXCEPT !.lines = a].path = old.path
  BY DEF File

LEMMA SameFileGrows ==
  ASSUME NEW files \in Seq(File), NEW ev, ev.path \in Paths, ev.n \in Nat,
         files # <<>>, files[Len(files)].path = ev.path
  PROVE  Grown(files, [files EXCEPT ![Len(files)].lines = Append(@, NewLine(ev))],
               ev)
<1> DEFINE l == Len(files)
           old == files[l]
           f == [old EXCEPT !.lines = Append(old.lines, NewLine(ev))]
           new == [files EXCEPT ![l] = f]
           E == Paths \X Nat
           m == Len(old.lines)
<1>1. NewLine(ev) \in Line /\ NewLine(ev).n = ev.n
      /\ NewLine(ev).match = (ev.type = "match")
  BY NewLineIs
<1>2. l \in 1..l /\ l >= 1 /\ l \in Nat /\ old \in File
  BY EmptySeq, LenProperties, ElementOfSeq
<1>3. old.lines \in Seq(Line) /\ old.path = ev.path
  BY <1>2 DEF File
<1> DEFINE a == Append(old.lines, NewLine(ev))
<1>4. /\ a \in Seq(Line) /\ Len(a) = m + 1 /\ m \in Nat
      /\ (\A k \in 1..m : a[k] = old.lines[k]) /\ a[m + 1] = NewLine(ev)
      /\ DOMAIN a = 1..(m + 1) /\ DOMAIN old.lines = 1..m
  BY <1>1, <1>3, AppendProperties, LenProperties
<1>5. f \in File /\ f.lines = a /\ f.path = ev.path
  <2>1. f = [old EXCEPT !.lines = a]
    OBVIOUS
  <2> HIDE DEF f, a, old
  <2>2. f \in File /\ f.lines = a /\ f.path = old.path
    BY <1>2, <1>4, <2>1, LinesReplaced
  <2> QED
    BY <1>3, <2>2
<1> HIDE DEF f, a
<1>6. /\ new \in Seq(File) /\ Len(new) = l /\ new[l] = f
      /\ \A i \in 1..l : i # l => new[i] = files[i]
  BY <1>2, <1>5, ExceptSeq
<1>7. new = [files EXCEPT ![l].lines = Append(@, NewLine(ev))]
  BY DEF f
<1> HIDE DEF new
<1>8. LinesOf(f) = Append(LinesOf(old), <<ev.path, ev.n>>)
  <2> DEFINE x == <<ev.path, ev.n>>
             s == LinesOf(f)
             r == LinesOf(old)
  <2>1. /\ s \in Seq(E) /\ Len(s) = m + 1 /\ r \in Seq(E) /\ Len(r) = m
    BY <1>2, <1>4, <1>5, LinesOfAre
  <2>2. s[m + 1] = x
    BY <1>1, <1>4, <1>5 DEF LinesOf
  <2>3. ASSUME NEW k \in 1..m PROVE s[k] = r[k]
    <3>1. k \in DOMAIN f.lines /\ f.lines[k] = old.lines[k] /\ k \in DOMAIN old.lines
      BY <1>4, <1>5
    <3>2. s[k] = <<f.path, f.lines[k].n>>
      BY <3>1 DEF LinesOf
    <3>3. r[k] = <<old.path, old.lines[k].n>>
      BY <3>1 DEF LinesOf
    <3> QED
      BY <1>3, <1>5, <3>1, <3>2, <3>3
  <2>4. x \in E
    OBVIOUS
  <2> HIDE DEF x, s, r, E
  <2>5. /\ Append(r, x) \in Seq(E) /\ Len(Append(r, x)) = m + 1
        /\ (\A k \in 1..m : Append(r, x)[k] = r[k]) /\ Append(r, x)[m + 1] = x
    BY <2>1, <2>4, AppendProperties
  <2>6. \A k \in 1..(m + 1) : k \in 1..m \/ k = m + 1
    BY <1>4
  <2>7. \A k \in 1..(m + 1) : s[k] = Append(r, x)[k]
    BY <2>2, <2>3, <2>5, <2>6
  <2>8. s = Append(r, x)
    BY <2>1, <2>5, <2>7, SeqEqual
  <2> QED
    BY <2>8 DEF s, r, x
<1>9. FlattenSeq(ListedSeq(new)) =
         Append(FlattenSeq(ListedSeq(files)), <<ev.path, ev.n>>)
  <2> DEFINE x == <<ev.path, ev.n>>
             ss == ListedSeq(files)
             tt == ListedSeq(new)
             g == [ss EXCEPT ![l] = Append(ss[l], x)]
  <2>1. /\ ss \in Seq(Seq(E)) /\ Len(ss) = l /\ DOMAIN files = 1..l
        /\ tt \in Seq(Seq(E)) /\ Len(tt) = l /\ DOMAIN new = 1..l
    BY <1>6, ListedSeqIs
  <2>2. \A i \in 1..l : tt[i] = LinesOf(new[i])
    BY <2>1 DEF ListedSeq
  <2>3. \A i \in 1..l : ss[i] = LinesOf(files[i])
    BY <2>1 DEF ListedSeq
  <2>4. x \in E
    OBVIOUS
  <2> HIDE DEF ss, tt, E, x
  <2>5. ss[l] \in Seq(E) /\ ss # <<>>
    <3>1. ss[l] \in Seq(E)
      BY <1>2, <2>1, ElementOfSeq
    <3>2. ss # <<>>
      BY <1>2, <2>1, EmptySeq
    <3> QED
      BY <3>1, <3>2
  <2>6. Append(ss[l], x) \in Seq(E)
    BY <2>4, <2>5, AppendProperties
  <2>7. /\ g \in Seq(Seq(E)) /\ Len(g) = l
        /\ \A i \in 1..l : g[i] = IF i = l THEN Append(ss[l], x) ELSE ss[i]
    BY <1>2, <2>1, <2>6, ExceptSeq
  <2>8. FlattenSeq(g) = Append(FlattenSeq(ss), x)
    BY <2>1, <2>4, <2>5, FlattenGrows
  <2> HIDE DEF g
  <2>9. ASSUME NEW i \in 1..l PROVE tt[i] = g[i]
    <3>1. CASE i = l
      <4>1. tt[i] = LinesOf(f) /\ g[i] = Append(ss[l], x) /\ ss[l] = LinesOf(old)
        BY <1>6, <2>2, <2>3, <2>7, <3>1
      <4> QED
        BY <1>8, <4>1 DEF x
    <3>2. CASE i # l
      BY <1>6, <2>2, <2>3, <2>7, <3>2
    <3> QED
      BY <3>1, <3>2
  <2>10. tt = g
    BY <2>1, <2>7, <2>9, SeqEqual
  <2> QED
    BY <2>8, <2>10 DEF tt, ss, x
<1>10. \A i \in 1..(l - 1) : new[i] = files[i]
  BY <1>2, <1>6
<1>11. \E k \in DOMAIN new[l].lines : new[l].lines[k].match = (ev.type = "match")
  <2>1. m + 1 \in DOMAIN a
    BY <1>4
  <2> QED
    BY <1>1, <1>4, <1>5, <1>6, <2>1
<1>12. \A k \in DOMAIN old.lines : /\ k \in DOMAIN new[l].lines
                                   /\ new[l].lines[k] = old.lines[k]
  BY <1>4, <1>5, <1>6
<1>13. Grown(files, new, ev)
  <2>1. l \in {Len(files), Len(files) + 1} /\ old.path = ev.path /\ new[l].path = ev.path
    BY <1>3, <1>5, <1>6
  <2> HIDE DEF m
  <2> QED
    BY <1>2, <1>6, <1>9, <1>10, <1>11, <1>12, <2>1 DEF Grown
<1> QED
  BY <1>7, <1>13

LEMMA AddedGrows ==
  ASSUME res.files \in Seq(File), NEW ev, ev.path \in Paths, ev.n \in Nat
  PROVE  Grown(res.files, Added(ev), ev)
<1> DEFINE files == res.files
<1>1. CASE SameFile(ev.path)
  <2>1. files # <<>> /\ files[Len(files)].path = ev.path
    BY <1>1 DEF SameFile, Last
  <2>2. Added(ev) = [files EXCEPT ![Len(files)].lines = Append(@, NewLine(ev))]
    BY <1>1 DEF Added, NewLine
  <2> HIDE DEF files
  <2>3. files \in Seq(File)
    BY DEF files
  <2>4. Grown(files, Added(ev), ev)
    BY <2>1, <2>2, <2>3, SameFileGrows
  <2> QED
    BY <2>4 DEF files
<1>2. CASE ~SameFile(ev.path)
  <2>1. files = <<>> \/ files[Len(files)].path # ev.path
    BY <1>2 DEF SameFile, Last
  <2>2. Added(ev) = Append(files, [path |-> ev.path, lines |-> <<NewLine(ev)>>])
    BY <1>2 DEF Added, NewLine
  <2> HIDE DEF files
  <2>3. files \in Seq(File)
    BY DEF files
  <2>4. Grown(files, Added(ev), ev)
    BY <2>1, <2>2, <2>3, NewFileGrows
  <2> QED
    BY <2>4 DEF files
<1> QED
  BY <1>1, <1>2

-----------------------------------------------------------------------------
(* What the result keeps of the first m events of rg: g[i] is the note of  *)
(* its i-th entry.                                                         *)
HasMatch(file) == \E k \in DOMAIN file.lines : file.lines[k].match

KeptIn(rg, own, m, g, r) ==
    /\ m \in 0..Len(rg)
    /\ r.files \in Seq(File)
    /\ FlattenSeq(ListedSeq(r.files)) = FlattenSeq(LinesSeq(rg, m))
    /\ r.total = Cardinality(Matched(rg, m))
    /\ \A i \in 1..Len(r.files) :
          /\ g[i] \in DOMAIN vault /\ r.files[i].path = PathText[g[i]]
          /\ \E p \in 1..m : own[p] = g[i] /\ IsLine(rg[p])
    /\ \A i, j \in 1..Len(r.files) : i < j => g[i] < g[j]
    /\ \A p \in Matched(rg, m) : \E i \in 1..Len(r.files) :
          g[i] = own[p] /\ HasMatch(r.files[i])

LEMMA NothingKept ==
  ASSUME NEW rg, NEW own, NEW r, Len(rg) \in Nat, r.files = <<>>, r.total = 0
  PROVE  KeptIn(rg, own, 0, <<>>, r)
<1>1. r.files \in Seq(File) /\ Len(r.files) = 0
  BY EmptySeq
<1>2. ListedSeq(r.files) = <<>> /\ LinesSeq(rg, 0) = <<>>
  <2>1. ListedSeq(r.files) = <<>>
    BY <1>1, ListedSeqIs, EmptySeq
  <2>2. LinesSeq(rg, 0) = <<>>
    BY DEF LinesSeq
  <2> QED
    BY <2>1, <2>2
<1>3. r.total = Cardinality(Matched(rg, 0)) /\ Matched(rg, 0) = {}
  BY NoneMatched DEF Matched
<1>4. 0 \in 0..Len(rg) /\ \A i \in 1..0 : FALSE
  OBVIOUS
<1> QED
  BY <1>1, <1>2, <1>3, <1>4 DEF KeptIn

LEMMA LinesSeqNext ==
  ASSUME Searchable, NEW rg, NEW own, Shape(rg, own), NEW m \in 0..(Len(rg) - 1)
  PROVE  FlattenSeq(LinesSeq(rg, m + 1))
            = FlattenSeq(LinesSeq(rg, m)) \o OneLine(rg[m + 1])
<1> DEFINE E == Paths \X Nat
<1>1. Len(rg) \in Nat
  BY LenProperties DEF Shape
<1> DEFINE ss == LinesSeq(rg, m)
           tt == LinesSeq(rg, m + 1)
           l == OneLine(rg[m + 1])
<1>2. m \in 0..Len(rg) /\ m + 1 \in 0..Len(rg) /\ m + 1 \in 1..Len(rg) /\ m \in Nat
  BY <1>1
<1>3. /\ ss \in Seq(Seq(E)) /\ Len(ss) = m
      /\ tt \in Seq(Seq(E)) /\ Len(tt) = m + 1
  BY <1>2, LinesSeqIs
<1>4. l \in Seq(E)
  BY <1>2, LineIs
<1>5. (\A k \in 1..m : tt[k] = ss[k]) /\ tt[m + 1] = l
  BY <1>2 DEF LinesSeq
<1> HIDE DEF ss, tt, l, E
<1>6. /\ Append(ss, l) \in Seq(Seq(E)) /\ Len(Append(ss, l)) = m + 1
      /\ (\A k \in 1..m : Append(ss, l)[k] = ss[k])
      /\ Append(ss, l)[m + 1] = l
  BY <1>3, <1>4, AppendProperties
<1>7. tt = Append(ss, l)
  <2>1. \A k \in 1..(m + 1) : k \in 1..m \/ k = m + 1
    BY <1>2
  <2>2. \A k \in 1..(m + 1) : tt[k] = Append(ss, l)[k]
    BY <1>5, <1>6, <2>1
  <2> QED
    BY <1>3, <1>6, <2>2, SeqEqual
<1>8. FlattenSeq(tt) = FlattenSeq(ss) \o l
  BY <1>3, <1>4, <1>7, FlattenAppend
<1> QED
  BY <1>8 DEF ss, tt, l

(* An event that is no line leaves the result as it is.                    *)
LEMMA SkippedKept ==
  ASSUME Searchable, NEW rg, NEW own, Shape(rg, own),
         NEW m, NEW g, NEW r, KeptIn(rg, own, m, g, r),
         m < Len(rg), ~IsLine(rg[m + 1])
  PROVE  KeptIn(rg, own, m + 1, g, r)
<1>1. Len(rg) \in Nat /\ m \in 0..Len(rg) /\ m \in Nat
  BY LenProperties DEF Shape, KeptIn
<1>2. m + 1 \in 0..Len(rg) /\ m \in 0..(Len(rg) - 1) /\ m \in 0..Len(rg)
  BY <1>1
<1>3. FlattenSeq(LinesSeq(rg, m + 1)) = FlattenSeq(LinesSeq(rg, m))
  <2> DEFINE E == Paths \X Nat
             a == FlattenSeq(LinesSeq(rg, m))
  <2>1. FlattenSeq(LinesSeq(rg, m + 1)) = a \o <<>>
    BY <1>2, LinesSeqNext DEF OneLine
  <2>2. LinesSeq(rg, m) \in Seq(Seq(E))
    BY <1>2, LinesSeqIs
  <2> HIDE DEF E
  <2>3. a \in Seq(E)
    BY <2>2, FlattenIsSeq
  <2> HIDE DEF a
  <2>4. a \o <<>> = a
    BY <2>3, ConcatEmptySeq
  <2> QED
    BY <2>1, <2>4 DEF a
<1>4. Matched(rg, m + 1) = Matched(rg, m)
  BY <1>1 DEF Matched, IsLine
<1>5. 1..m \subseteq 1..(m + 1)
  BY <1>1
<1>6. \A i \in 1..Len(r.files) :
          /\ g[i] \in DOMAIN vault /\ r.files[i].path = PathText[g[i]]
          /\ \E p \in 1..(m + 1) : own[p] = g[i] /\ IsLine(rg[p])
  BY <1>5 DEF KeptIn
<1> QED
  BY <1>2, <1>3, <1>4, <1>6 DEF KeptIn

LEMMA LineKept ==
  ASSUME Searchable, NEW rg, NEW own, Shape(rg, own),
         NEW m, NEW g, NEW r, KeptIn(rg, own, m, g, r),
         m < Len(rg), IsLine(rg[m + 1]),
         NEW r2, Grown(r.files, r2.files, rg[m + 1]),
         r2.total = r.total + (IF rg[m + 1].type = "match" THEN 1 ELSE 0)
  PROVE  \E h : KeptIn(rg, own, m + 1, h, r2)
<1> DEFINE old == r.files
           new == r2.files
           ev == rg[m + 1]
           o == own[m + 1]
           l == Len(new)
           h == [i \in 1..l |-> IF i < l THEN g[i] ELSE o]
<1>1. Len(rg) \in Nat /\ m \in Nat /\ m \in 0..Len(rg)
  BY LenProperties DEF Shape, KeptIn
<1>2. /\ m + 1 \in 0..Len(rg) /\ m + 1 \in 1..Len(rg) /\ m \in 0..(Len(rg) - 1)
      /\ m + 1 \in 1..(m + 1) /\ 1..m \subseteq 1..(m + 1) /\ 1..m \subseteq 1..Len(rg)
      /\ \A p \in 1..(m + 1) : p \in 1..m \/ p = m + 1
  BY <1>1
<1>3. o \in DOMAIN vault /\ ev.path = PathText[o] /\ ev.n \in Nat
  <2>1. o \in DOMAIN vault /\ ev.path = PathText[o]
    BY <1>2 DEF Shape
  <2>2. ev.n \in Nat
    BY <1>2, LineIs
  <2> QED
    BY <2>1, <2>2
<1>4. /\ old \in Seq(File) /\ Len(old) \in Nat
      /\ FlattenSeq(ListedSeq(old)) = FlattenSeq(LinesSeq(rg, m))
      /\ r.total = Cardinality(Matched(rg, m))
  BY LenProperties DEF KeptIn
<1>5. \A i \in 1..Len(old) :
          /\ g[i] \in DOMAIN vault /\ old[i].path = PathText[g[i]]
          /\ \E p \in 1..m : own[p] = g[i] /\ IsLine(rg[p])
  BY DEF KeptIn
<1>6. \A i, j \in 1..Len(old) : i < j => g[i] < g[j]
  BY DEF KeptIn
<1>7. \A p \in Matched(rg, m) : \E i \in 1..Len(old) :
         g[i] = own[p] /\ HasMatch(old[i])
  BY DEF KeptIn
<1>8. /\ new \in Seq(File) /\ l \in Nat /\ l >= 1 /\ l \in {Len(old), Len(old) + 1}
      /\ \A i \in 1..(l - 1) : new[i] = old[i]
      /\ new[l].path = ev.path
      /\ \E k \in DOMAIN new[l].lines : new[l].lines[k].match = (ev.type = "match")
      /\ FlattenSeq(ListedSeq(new)) = Append(FlattenSeq(ListedSeq(old)), <<ev.path, ev.n>>)
  BY LenProperties DEF Grown
<1>9. l = Len(old) => /\ old[l].path = ev.path
                      /\ HasMatch(old[l]) => HasMatch(new[l])
  BY DEF Grown, HasMatch
<1>10. l # Len(old) => old = <<>> \/ old[Len(old)].path # ev.path
  BY DEF Grown
<1> HIDE DEF old, new, ev, o, l
<1>11. \A i \in DOMAIN vault : \A j \in DOMAIN vault :
          /\ i \in Int
          /\ PathText[i] = PathText[j] => i = j
  BY VaultIs
<1>12. \A i \in 1..Len(old) : g[i] <= o
  <2> SUFFICES ASSUME NEW i \in 1..Len(old) PROVE g[i] <= o
    OBVIOUS
  <2>1. PICK p \in 1..m : own[p] = g[i]
    BY <1>5
  <2>2. p \in 1..Len(rg) /\ p < m + 1
    BY <1>1, <1>2
  <2> QED
    BY <1>2, <2>1, <2>2 DEF Shape, o
<1>13. l = Len(old) => g[l] = o
  <2> SUFFICES ASSUME l = Len(old) PROVE g[l] = o
    OBVIOUS
  <2>1. l \in 1..Len(old)
    BY <1>8
  <2> QED
    BY <1>3, <1>5, <1>9, <1>11, <2>1
<1>14. l # Len(old) => \A i \in 1..Len(old) : g[i] < o
  <2> SUFFICES ASSUME l # Len(old), NEW i \in 1..Len(old) PROVE g[i] < o
    OBVIOUS
  <2> DEFINE n == Len(old)
  <2>1. n \in 1..n /\ (i < n \/ i = n) /\ n \in Nat
    BY <1>4
  <2>2. old # <<>>
    BY <1>4, EmptySeq
  <2>3. old[n].path # ev.path
    BY <1>10, <2>2
  <2>4. g[n] \in DOMAIN vault /\ old[n].path = PathText[g[n]] /\ g[n] <= o
    BY <1>5, <1>12, <2>1
  <2>5. g[n] # o
    BY <1>3, <2>3, <2>4
  <2>6. g[n] \in Int /\ o \in Int /\ g[i] \in Int
    BY <1>3, <1>5, <1>11, <2>4
  <2>7. i < n => g[i] < g[n]
    BY <1>6, <2>1
  <2> HIDE DEF n
  <2> QED
    BY <2>1, <2>4, <2>5, <2>6, <2>7
<1>15. \A i \in 1..l : i \in 1..(l - 1) \/ i = l
  BY <1>8
<1>16. ASSUME NEW i \in 1..(l - 1)
       PROVE  i \in 1..Len(old) /\ i \in 1..l /\ h[i] = g[i] /\ new[i] = old[i]
  BY <1>4, <1>8
<1>17. h[l] = o /\ l \in 1..l
  BY <1>8
<1> HIDE DEF h
<1>18. FlattenSeq(ListedSeq(new)) = FlattenSeq(LinesSeq(rg, m + 1))
  <2> DEFINE E == Paths \X Nat
             a == FlattenSeq(LinesSeq(rg, m))
             x == <<ev.path, ev.n>>
  <2>1. FlattenSeq(LinesSeq(rg, m + 1)) = a \o <<x>>
    BY <1>2, LinesSeqNext DEF OneLine, ev
  <2>2. LinesSeq(rg, m) \in Seq(Seq(E))
    BY <1>1, LinesSeqIs
  <2>3. x \in E
    BY <1>3 DEF Paths
  <2>4. FlattenSeq(ListedSeq(new)) = Append(a, x)
    BY <1>4, <1>8
  <2> HIDE DEF E
  <2>5. a \in Seq(E)
    BY <2>2, FlattenIsSeq
  <2> HIDE DEF a, x
  <2>6. Append(a, x) = a \o <<x>>
    BY <2>3, <2>5, AppendIsConcat
  <2> QED
    BY <2>1, <2>4, <2>6
<1>19. r2.total = Cardinality(Matched(rg, m + 1))
  BY <1>1, <1>4, MatchedIs
<1>20. ASSUME NEW i \in 1..l
       PROVE  /\ h[i] \in DOMAIN vault /\ new[i].path = PathText[h[i]]
              /\ \E p \in 1..(m + 1) : own[p] = h[i] /\ IsLine(rg[p])
  <2>1. CASE i \in 1..(l - 1)
    BY <1>2, <1>5, <1>16, <2>1
  <2>2. CASE i = l
    <3>1. own[m + 1] = h[i] /\ IsLine(rg[m + 1])
      BY <1>17, <2>2 DEF o
    <3> QED
      BY <1>2, <1>3, <1>8, <1>17, <2>2, <3>1
  <2> QED
    BY <1>15, <2>1, <2>2
<1>21. ASSUME NEW i \in 1..l, NEW j \in 1..l, i < j PROVE h[i] < h[j]
  <2>1. i \in 1..(l - 1)
    BY <1>8, <1>21
  <2>2. h[i] = g[i] /\ i \in 1..Len(old)
    BY <1>16, <2>1
  <2>3. CASE j \in 1..(l - 1)
    BY <1>6, <1>16, <1>21, <2>2, <2>3
  <2>4. CASE j = l /\ l = Len(old)
    <3>1. h[j] = g[l] /\ l \in 1..Len(old)
      BY <1>13, <1>17, <2>4
    <3> QED
      BY <1>6, <1>21, <2>2, <2>4, <3>1
  <2>5. CASE j = l /\ l # Len(old)
    BY <1>14, <1>17, <2>2, <2>5
  <2> QED
    BY <1>15, <2>3, <2>4, <2>5
<1>22. ASSUME NEW p \in Matched(rg, m + 1)
       PROVE  \E i \in 1..l : h[i] = own[p] /\ HasMatch(new[i])
  <2>1. p \in 1..(m + 1) /\ rg[p].type = "match"
    BY DEF Matched
  <2>2. CASE p \in 1..m
    <3>1. p \in Matched(rg, m)
      BY <2>1, <2>2 DEF Matched
    <3>2. PICK i \in 1..Len(old) : g[i] = own[p] /\ HasMatch(old[i])
      BY <1>7, <3>1
    <3>3. CASE i \in 1..(l - 1)
      BY <1>16, <3>2, <3>3
    <3>4. CASE i = l /\ l = Len(old)
      <4>1. h[l] = own[p] /\ HasMatch(new[l])
        BY <1>9, <1>13, <1>17, <3>2, <3>4
      <4> QED
        BY <1>17, <4>1
    <3>5. i \in 1..(l - 1) \/ (i = l /\ l = Len(old))
      BY <1>4, <1>8
    <3> QED
      BY <3>3, <3>4, <3>5
  <2>3. CASE p = m + 1
    <3>1. h[l] = own[p]
      BY <1>17, <2>3 DEF o
    <3>2. HasMatch(new[l])
      <4>1. ev.type = "match"
        BY <2>1, <2>3 DEF ev
      <4> QED
        BY <1>8, <4>1 DEF HasMatch
    <3> QED
      BY <1>17, <3>1, <3>2
  <2> QED
    BY <1>2, <2>1, <2>2, <2>3
<1>23. KeptIn(rg, own, m + 1, h, r2)
  BY <1>2, <1>8, <1>18, <1>19, <1>20, <1>21, <1>22 DEF KeptIn, new, l
<1> QED
  BY <1>23

(* What is still to be read when the first m events of rg have been.       *)
Unread(rg, m, o) ==
    /\ o \in Seq(Events \cup {Bad})
    /\ \A j \in 1..Len(o) : o[j] = Bad \/ (m + j <= Len(rg) /\ o[j] = rg[m + j])
    /\ ~killed => m + Len(o) = Len(rg)

Left(rg, m) ==
    /\ status = "called" => m = 0
    /\ status = "parsing" => Unread(rg, m, out)
    /\ (status = "done" /\ ~res.truncated /\ ~killed) => m = Len(rg)
    /\ res.truncated => /\ status = "done" /\ res.total = limit
                        /\ m < Len(rg) /\ rg[m + 1].type = "match"

(* The inductive invariant: the result keeps the first m events that       *)
(* ripgrep had to write, and the rest is still to be read.                 *)
Reading(rg, own, m, g) ==
    /\ rg = RgOutput /\ Shape(rg, own) /\ KeptIn(rg, own, m, g, res)
    /\ Left(rg, m)

Progress == /\ Inv /\ Searchable
            /\ \E rg, own, m, g : Reading(rg, own, m, g)

LEMMA ProgressInit == ASSUME Init PROVE Progress
<1>1. Inv
  BY InitInv
<1>2. Searchable
  BY LimitsAssumption DEF Init, Searchable, LimitsAssumption
<1>3. PICK own : Shape(RgOutput, own)
  BY <1>2, OutputShape
<1>4. Len(RgOutput) \in Nat
  BY <1>3, LenProperties DEF Shape
<1>5. res.files = <<>> /\ res.total = 0 /\ ~res.truncated /\ status = "called"
  BY DEF Init
<1>6. KeptIn(RgOutput, own, 0, <<>>, res)
  BY <1>4, <1>5, NothingKept
<1>7. Left(RgOutput, 0)
  BY <1>5 DEF Left
<1>8. Reading(RgOutput, own, 0, <<>>)
  BY <1>3, <1>6, <1>7 DEF Reading
<1> QED
  BY <1>1, <1>2, <1>8 DEF Progress

(* The notes stay as they are while they are searched.                     *)
LEMMA ShapeStays ==
  ASSUME UNCHANGED vault, NEW rg, NEW own, Shape(rg, own)
  PROVE  Shape(rg, own)'
  BY DEF Shape, Events, Event

LEMMA KeptStays ==
  ASSUME UNCHANGED vault, NEW rg, NEW own, NEW m, NEW g,
         KeptIn(rg, own, m, g, res')
  PROVE  KeptIn(rg, own, m, g, res)'
  BY DEF KeptIn, File, Paths

LEMMA OutputStays == ASSUME UNCHANGED <<vault, context>> PROVE RgOutput' = RgOutput
  BY DEF RgOutput, NoteEvents, Near, Event

LEMMA ReadingNext ==
  ASSUME Inv', Searchable, UNCHANGED <<vault, context>>,
         NEW rg, NEW own, NEW m, NEW g, rg = RgOutput, Shape(rg, own),
         KeptIn(rg, own, m, g, res'), Left(rg, m)'
  PROVE  Progress'
<1>1. Searchable'
  BY DEF Searchable
<1>2. rg = RgOutput'
  BY OutputStays
<1>3. Shape(rg, own)'
  BY ShapeStays
<1>4. KeptIn(rg, own, m, g, res)'
  BY KeptStays
<1>5. Reading(rg, own, m, g)'
  BY <1>2, <1>3, <1>4 DEF Reading
<1> QED
  BY <1>1, <1>5 DEF Progress

LEMMA EventsStay == ASSUME UNCHANGED vault PROVE Events' = Events
  BY DEF Events, Event

LEMMA BadIs == Bad.type = "bad" /\ ~IsLine(Bad) /\ Bad.type \notin Types
  BY DEF Bad, IsLine, Types

(* One event is read: unless it is a bad one, it is the next of rg.        *)
LEMMA ReadOne ==
  ASSUME NEW rg, NEW own, Shape(rg, own), NEW m \in Nat,
         Unread(rg, m, out), NEW ev, Reads(ev), ev.type # "bad"
  PROVE  /\ ev = rg[m + 1] /\ m < Len(rg) /\ UNCHANGED <<vault, context, limit, killed>>
         /\ Unread(rg, m + 1, out)'
<1> DEFINE B == Events \cup {Bad}
           n == Len(out)
<1>1. out \in Seq(B) /\ out # <<>> /\ ev = Head(out) /\ out' = Tail(out)
      /\ UNCHANGED <<vault, context, limit, killed>>
  BY DEF Reads, Unread
<1> HIDE DEF B
<1>2. n \in Nat /\ n >= 1
  BY <1>1, EmptySeq, LenProperties
<1>3. /\ out' \in Seq(B) /\ Len(out') = n - 1
      /\ \A i \in 1..(n - 1) : out'[i] = out[i + 1]
  BY <1>1, HeadTailProperties
<1>4. Head(out) = out[1]
  BY <1>1
<1>5. \A j \in 1..n : out[j] = Bad \/ (m + j <= Len(rg) /\ out[j] = rg[m + j])
  BY DEF Unread
<1>6. Len(rg) \in Nat
  BY LenProperties DEF Shape
<1>7. ev = rg[m + 1] /\ m < Len(rg)
  <2>1. 1 \in 1..n
    BY <1>2
  <2>2. out[1] # Bad
    BY <1>1, <1>4, BadIs
  <2>3. m + 1 <= Len(rg) /\ out[1] = rg[m + 1]
    BY <1>5, <2>1, <2>2
  <2> QED
    BY <1>1, <1>4, <1>6, <2>3
<1>8. ASSUME NEW j \in 1..Len(out')
      PROVE  out'[j] = Bad \/ ((m + 1) + j <= Len(rg) /\ out'[j] = rg[(m + 1) + j])
  <2>1. /\ j \in 1..(n - 1) /\ j + 1 \in 1..n /\ m + (j + 1) = (m + 1) + j
    BY <1>2, <1>3
  <2>2. out'[j] = out[j + 1]
    BY <1>3, <2>1
  <2>3. out[j + 1] = Bad \/ (m + (j + 1) <= Len(rg) /\ out[j + 1] = rg[m + (j + 1)])
    BY <1>5, <2>1
  <2> QED
    BY <2>1, <2>2, <2>3
<1>9. ~killed' => (m + 1) + Len(out') = Len(rg)
  <2>1. ~killed => m + n = Len(rg)
    BY DEF Unread
  <2> QED
    BY <1>1, <1>2, <1>3, <2>1
<1>10. (Events \cup {Bad})' = B
  BY <1>1, EventsStay DEF Bad, B
<1>11. Unread(rg, m + 1, out)'
  BY <1>3, <1>8, <1>9, <1>10 DEF Unread
<1> QED
  BY <1>1, <1>7, <1>11

LEMMA SkipEventReads ==
  ASSUME Progress, NEW ev, SkipEvent(ev) PROVE Progress'
<1>1. PICK rg, own, m, g : Reading(rg, own, m, g)
  BY DEF Progress
<1>2. /\ rg = RgOutput /\ Shape(rg, own) /\ KeptIn(rg, own, m, g, res)
      /\ Left(rg, m)
  BY <1>1 DEF Reading
<1>3. m \in Nat
  BY <1>2, LenProperties DEF KeptIn, Shape
<1>4. /\ Reads(ev) /\ status = "parsing" /\ ev.type # "bad" /\ ~IsLine(ev)
      /\ UNCHANGED <<res, status>>
  BY DEF SkipEvent, Reads
<1>5. Unread(rg, m, out) /\ ~res.truncated
  BY <1>2, <1>4 DEF Left
<1>6. /\ ev = rg[m + 1] /\ m < Len(rg) /\ UNCHANGED <<vault, context, limit, killed>>
      /\ Unread(rg, m + 1, out)'
  BY <1>2, <1>3, <1>4, <1>5, ReadOne
<1>7. KeptIn(rg, own, m + 1, g, res')
  BY <1>2, <1>4, <1>6, SkippedKept DEF Progress
<1>8. Left(rg, m + 1)'
  BY <1>4, <1>5, <1>6 DEF Left
<1>9. Inv'
  BY ParseInv DEF Parse, Progress
<1> QED
  BY <1>2, <1>6, <1>7, <1>8, <1>9, ReadingNext DEF Progress

LEMMA AddLineReads ==
  ASSUME Progress, NEW ev, AddLine(ev) PROVE Progress'
<1>1. PICK rg, own, m, g : Reading(rg, own, m, g)
  BY DEF Progress
<1>2. /\ rg = RgOutput /\ Shape(rg, own) /\ KeptIn(rg, own, m, g, res)
      /\ Left(rg, m)
  BY <1>1 DEF Reading
<1>3. m \in Nat
  BY <1>2, LenProperties DEF KeptIn, Shape
<1> DEFINE more == IF ev.type = "match" THEN 1 ELSE 0
<1>4. /\ Reads(ev) /\ status = "parsing" /\ IsLine(ev) /\ UNCHANGED status
      /\ res' = [res EXCEPT !.files = Added(ev), !.total = res.total + more]
  BY DEF AddLine, Reads
<1>5. Unread(rg, m, out) /\ ~res.truncated
  BY <1>2, <1>4 DEF Left
<1>6. ev.type # "bad"
  BY <1>4 DEF IsLine
<1>7. /\ ev = rg[m + 1] /\ m < Len(rg) /\ UNCHANGED <<vault, context, limit, killed>>
      /\ Unread(rg, m + 1, out)'
  BY <1>2, <1>3, <1>4, <1>5, <1>6, ReadOne
<1>8. DOMAIN res = {"files", "total", "truncated"}
  BY DEF Progress, Inv, Shaped
<1>9. /\ res'.files = Added(ev) /\ res'.total = res.total + more
      /\ res'.truncated = res.truncated
  BY <1>4, <1>8
<1>10. Grown(res.files, res'.files, ev)
  <2>1. m + 1 \in 1..Len(rg)
    <3>1. Len(rg) \in Nat
      BY <1>2, LenProperties DEF Shape
    <3> QED
      BY <1>3, <1>7, <3>1
  <2>2. rg[m + 1].path \in Paths /\ rg[m + 1].n \in Nat
    BY <1>2, <1>4, <1>7, <2>1, LineIs DEF Progress
  <2>3. res.files \in Seq(File)
    BY <1>2 DEF KeptIn
  <2>4. Grown(res.files, Added(ev), ev)
    BY <1>7, <2>2, <2>3, AddedGrows
  <2> QED
    BY <1>9, <2>4
<1>11. PICK h : KeptIn(rg, own, m + 1, h, res')
  <2>1. IsLine(rg[m + 1]) /\ Grown(res.files, res'.files, rg[m + 1]) /\ Searchable
    BY <1>4, <1>7, <1>10 DEF Progress
  <2>2. res'.total = res.total + (IF rg[m + 1].type = "match" THEN 1 ELSE 0)
    BY <1>7, <1>9
  <2> QED
    BY <1>2, <1>7, <2>1, <2>2, LineKept
<1>12. Left(rg, m + 1)'
  BY <1>4, <1>5, <1>7, <1>9 DEF Left
<1>13. Inv'
  BY ParseInv DEF Parse, Progress
<1> QED
  BY <1>2, <1>7, <1>11, <1>12, <1>13, ReadingNext DEF Progress

LEMMA TruncateReads ==
  ASSUME Progress, NEW ev, Truncate(ev) PROVE Progress'
<1>1. PICK rg, own, m, g : Reading(rg, own, m, g)
  BY DEF Progress
<1>2. /\ rg = RgOutput /\ Shape(rg, own) /\ KeptIn(rg, own, m, g, res)
      /\ Left(rg, m)
  BY <1>1 DEF Reading
<1>3. m \in Nat
  BY <1>2, LenProperties DEF KeptIn, Shape
<1>4. /\ Reads(ev) /\ status = "parsing" /\ status' = "done"
      /\ ev.type = "match" /\ res.total >= limit
      /\ res' = [res EXCEPT !.truncated = TRUE]
  BY DEF Truncate, Reads, OverLimit, Stops
<1>5. Unread(rg, m, out)
  BY <1>2, <1>4 DEF Left
<1>6. /\ ev = rg[m + 1] /\ m < Len(rg) /\ UNCHANGED <<vault, context, limit, killed>>
  BY <1>2, <1>3, <1>4, <1>5, ReadOne
<1>7. DOMAIN res = {"files", "total", "truncated"} /\ res.total \in 0..limit
      /\ limit \in 1..MaxResultsCeiling
  BY DEF Progress, Inv, Shaped, TypeOK
<1>8. res'.files = res.files /\ res'.total = res.total /\ res'.truncated = TRUE
  BY <1>4, <1>7
<1>9. res.total = limit
  BY <1>4, <1>7, Limits
<1>10. KeptIn(rg, own, m, g, res')
  BY <1>2, <1>8 DEF KeptIn
<1>11. Left(rg, m)'
  BY <1>4, <1>6, <1>8, <1>9 DEF Left
<1>12. Inv'
  BY ParseInv DEF Parse, Progress
<1> QED
  BY <1>2, <1>6, <1>10, <1>11, <1>12, ReadingNext DEF Progress

(* The steps that leave the result as it is, and do not go on to parse.    *)
LEMMA OtherReads ==
  ASSUME Progress, Inv', UNCHANGED <<vault, context, limit, res>>,
         \/ status' = "failed" /\ status \in {"called", "parsing"}
         \/ UNCHANGED <<out, status, killed>>
         \/ EndOfOutput
  PROVE  Progress'
<1>1. PICK rg, own, m, g : Reading(rg, own, m, g)
  BY DEF Progress
<1>2. /\ rg = RgOutput /\ Shape(rg, own) /\ KeptIn(rg, own, m, g, res)
      /\ Left(rg, m)
  BY <1>1 DEF Reading
<1>3. KeptIn(rg, own, m, g, res')
  BY <1>2
<1>4. Left(rg, m)'
  <2>1. CASE status' = "failed" /\ status \in {"called", "parsing"}
    BY <1>2, <2>1 DEF Left
  <2>2. CASE UNCHANGED <<out, status, killed>>
    <3>1. Unread(rg, m, out) => Unread(rg, m, out)'
      BY <2>2, EventsStay DEF Unread, Bad
    <3> QED
      BY <1>2, <2>2, <3>1 DEF Left
  <2>3. CASE EndOfOutput
    <3>1. /\ status = "parsing" /\ out = <<>> /\ status' = "done"
          /\ UNCHANGED killed
      BY <2>3 DEF EndOfOutput
    <3>2. Unread(rg, m, out) /\ ~res.truncated
      BY <1>2, <3>1 DEF Left
    <3>3. m \in Nat
      BY <1>2, LenProperties DEF KeptIn, Shape
    <3>4. ~killed => m = Len(rg)
      BY <3>1, <3>2, <3>3 DEF Unread
    <3> QED
      BY <3>1, <3>2, <3>4 DEF Left
  <2> QED
    BY <2>1, <2>2, <2>3
<1> QED
  BY <1>2, <1>3, <1>4, ReadingNext DEF Progress

(* What ripgrep may have written when it did not fail: all of it, a part   *)
(* of it, or all of it with a line that cannot be parsed.                  *)
Written(rg, o, cutOff) ==
    \/ o = rg
    \/ /\ cutOff
       /\ \E k \in 0..Len(rg), cut \in {<<>>, <<Bad>>} :
             o = SubSeq(rg, 1, k) \o cut
    \/ \E k \in DOMAIN rg : o = [rg EXCEPT ![k] = Bad]

LEMMA WrittenIsUnread ==
  ASSUME NEW rg, NEW own, Shape(rg, own), NEW o, NEW cutOff,
         Written(rg, o, cutOff)
  PROVE  /\ o \in Seq(Events \cup {Bad})
         /\ \A j \in 1..Len(o) :
               o[j] = Bad \/ (0 + j <= Len(rg) /\ o[j] = rg[0 + j])
         /\ ~cutOff => 0 + Len(o) = Len(rg)
<1> DEFINE B == Events \cup {Bad}
<1>1. rg \in Seq(Events) /\ Len(rg) \in Nat /\ DOMAIN rg = 1..Len(rg)
  BY LenProperties DEF Shape
<1>2. rg \in Seq(B) /\ Bad \in B
  BY <1>1, SeqMonotonic
<1> HIDE DEF B
<1> DEFINE Good == /\ o \in Seq(B)
                   /\ \A j \in 1..Len(o) :
                         o[j] = Bad \/ (0 + j <= Len(rg) /\ o[j] = rg[0 + j])
                   /\ ~cutOff => 0 + Len(o) = Len(rg)
<1>3. ASSUME o \in Seq(B),
             \A j \in 1..Len(o) : o[j] = Bad \/ (j <= Len(rg) /\ o[j] = rg[j]),
             ~cutOff => Len(o) = Len(rg)
      PROVE  Good
  <2>1. Len(o) \in Nat
    BY <1>3, LenProperties
  <2>2. ASSUME NEW j \in 1..Len(o)
        PROVE  o[j] = Bad \/ (0 + j <= Len(rg) /\ o[j] = rg[0 + j])
    <3>1. 0 + j = j
      OBVIOUS
    <3> QED
      BY <1>3, <3>1
  <2>3. ~cutOff => 0 + Len(o) = Len(rg)
    BY <1>3, <2>1
  <2> QED
    BY <1>3, <2>2, <2>3
<1>7. SUFFICES Good
  BY DEF B
<1> HIDE DEF Good
<1>4. CASE o = rg
  BY <1>1, <1>2, <1>3, <1>4
<1>5. CASE /\ cutOff
           /\ \E k \in 0..Len(rg), cut \in {<<>>, <<Bad>>} :
                 o = SubSeq(rg, 1, k) \o cut
  <2>1. PICK k \in 0..Len(rg), cut \in {<<>>, <<Bad>>} : o = SubSeq(rg, 1, k) \o cut
    BY <1>5
  <2> DEFINE s == SubSeq(rg, 1, k)
  <2>2. /\ s \in Seq(B) /\ Len(s) = k /\ \A i \in 1..k : s[i] = rg[i]
    <3>1. \A i \in 1..k : rg[i] \in B
      BY <1>1, <1>2, ElementOfSeq
    <3>0. 1 \in Int /\ k \in Int /\ k >= 0
      BY <1>1
    <3>2. /\ s \in Seq(B) /\ Len(s) = (IF 1 <= k THEN k - 1 + 1 ELSE 0)
          /\ \A i \in 1..k - 1 + 1 : s[i] = rg[1 + i - 1]
      BY <3>0, <3>1, SubSeqProperties
    <3> HIDE DEF s
    <3>3. Len(s) = k
      BY <3>0, <3>2
    <3>4. ASSUME NEW i \in 1..k PROVE s[i] = rg[i]
      <4>1. i \in 1..k - 1 + 1 /\ 1 + i - 1 = i
        BY <3>0
      <4> QED
        BY <3>2, <4>1
    <3> QED
      BY <3>2, <3>3, <3>4
  <2>3. cut \in Seq(B) /\ \A i \in 1..Len(cut) : cut[i] = Bad
    <3>1. CASE cut = <<>>
      BY <3>1, EmptySeq
    <3>2. CASE cut = <<Bad>>
      BY <1>2, <3>2
    <3> QED
      BY <3>1, <3>2
  <2> HIDE DEF s
  <2>4. /\ o \in Seq(B) /\ Len(o) = k + Len(cut) /\ Len(cut) \in Nat /\ k \in Nat
        /\ (\A i \in 1..k : o[i] = s[i])
        /\ \A i \in 1..Len(cut) : o[k + i] = cut[i]
    <3>0. s \in Seq(B) /\ cut \in Seq(B)
      BY <2>2, <2>3
    <3>1. /\ s \o cut \in Seq(B) /\ Len(s \o cut) = Len(s) + Len(cut)
          /\ Len(cut) \in Nat
          /\ (\A i \in 1..Len(s) : (s \o cut)[i] = s[i])
          /\ \A i \in 1..Len(cut) : (s \o cut)[Len(s) + i] = cut[i]
      BY <3>0, Sides
    <3>2. o = s \o cut
      BY <2>1 DEF s
    <3>3. /\ o \in Seq(B) /\ Len(o) = Len(s) + Len(cut)
          /\ Len(cut) \in Nat
          /\ (\A i \in 1..Len(s) : o[i] = s[i])
          /\ \A i \in 1..Len(cut) : o[Len(s) + i] = cut[i]
      BY <3>1, <3>2, Zenon
    <3>4. k \in Nat
      BY <1>1
    <3> QED
      BY <2>2, <3>3, <3>4
  <2>6. ASSUME NEW j \in 1..Len(o)
        PROVE  o[j] = Bad \/ (j <= Len(rg) /\ o[j] = rg[j])
    <3>1. CASE j <= k
      <4>1. j \in 1..k /\ j <= Len(rg)
        BY <1>1, <3>1
      <4> QED
        BY <2>2, <2>4, <4>1
    <3>2. CASE ~(j <= k)
      <4>0. Len(o) = k + Len(cut) /\ Len(cut) \in Nat /\ k \in Nat
        BY <2>4
      <4>1. j - k \in 1..Len(cut) /\ k + (j - k) = j
        BY <3>2, <4>0
      <4>2. o[k + (j - k)] = Bad
        BY <2>3, <2>4, <4>1
      <4> QED
        BY <4>1, <4>2
    <3> QED
      BY <3>1, <3>2
  <2>7. ~cutOff => Len(o) = Len(rg)
    BY <1>5
  <2>8. o \in Seq(B)
    BY <2>4
  <2> QED
    BY <1>3, <2>6, <2>7, <2>8, Zenon
<1>6. CASE \E k \in DOMAIN rg : o = [rg EXCEPT ![k] = Bad]
  <2>1. PICK k \in 1..Len(rg) : o = [rg EXCEPT ![k] = Bad]
    BY <1>1, <1>6
  <2>2. /\ o \in Seq(B) /\ Len(o) = Len(rg)
        /\ \A j \in 1..Len(rg) : o[j] = IF j = k THEN Bad ELSE rg[j]
    BY <1>2, <2>1, ExceptSeq
  <2>3. ASSUME NEW j \in 1..Len(o)
        PROVE  o[j] = Bad \/ (j <= Len(rg) /\ o[j] = rg[j])
    BY <1>1, <2>2
  <2>4. o \in Seq(B) /\ (~cutOff => Len(o) = Len(rg))
    BY <2>2
  <2> QED
    BY <1>3, <2>3, <2>4, Zenon
<1> QED
  BY <1>4, <1>5, <1>6 DEF Written

LEMMA RunRgReads == ASSUME Progress, RunRg PROVE Progress'
<1>1. PICK rg, own, m, g : Reading(rg, own, m, g)
  BY DEF Progress
<1>2. /\ rg = RgOutput /\ Shape(rg, own) /\ KeptIn(rg, own, m, g, res)
      /\ Left(rg, m)
  BY <1>1 DEF Reading
<1>3. status = "called" /\ UNCHANGED <<vault, context, limit, res>>
  BY DEF RunRg
<1>4. m = 0 /\ ~res.truncated
  BY <1>2, <1>3 DEF Left
<1>5. Inv'
  BY RunRgInv DEF Progress
<1>6. \/ status' = "failed"
      \/ status' = "parsing" /\ Written(rg, out', killed')
  <2>1. ASSUME NEW code, NEW events, Exit(code, events)
        PROVE  out' = events /\ status' \in {"failed", "parsing"}
    BY <2>1 DEF Exit
  <2>2. CASE Exit(IF rg = <<>> THEN 1 ELSE 0, rg)
    BY <2>1, <2>2 DEF Written
  <2>3. CASE \E i \in DOMAIN vault :
                Exit(2, SelectSeq(rg, LAMBDA ev : ev.path # PathText[i]))
    BY <2>3 DEF Exit, IsFailure
  <2>4. CASE \E k \in 0..Len(rg), cut \in {<<>>, <<Bad>>} :
                Exit(-1, SubSeq(rg, 1, k) \o cut)
    <3>1. PICK k \in 0..Len(rg), cut \in {<<>>, <<Bad>>} :
                Exit(-1, SubSeq(rg, 1, k) \o cut)
      BY <2>4
    <3>2. /\ out' = SubSeq(rg, 1, k) \o cut /\ killed'
          /\ status' \in {"failed", "parsing"}
      BY <3>1 DEF Exit
    <3> QED
      BY <3>2 DEF Written
  <2>5. CASE \E k \in DOMAIN rg : Exit(0, [rg EXCEPT ![k] = Bad])
    BY <2>1, <2>5 DEF Written
  <2> QED
    BY <1>2, <2>2, <2>3, <2>4, <2>5 DEF RunRg
<1>7. CASE status' = "failed"
  BY <1>3, <1>5, <1>7, OtherReads
<1>8. CASE status' = "parsing" /\ Written(rg, out', killed')
  <2>1. Unread(rg, 0, out)'
    <3>1. /\ out' \in Seq(Events \cup {Bad})
          /\ \A j \in 1..Len(out') :
                out'[j] = Bad \/ (0 + j <= Len(rg) /\ out'[j] = rg[0 + j])
          /\ ~killed' => 0 + Len(out') = Len(rg)
      BY <1>2, <1>8, WrittenIsUnread
    <3>2. Events' = Events /\ Bad' = Bad
      BY <1>3, EventsStay DEF Bad
    <3> QED
      BY <3>1, <3>2 DEF Unread
  <2>2. Left(rg, m)'
    BY <1>3, <1>4, <1>8, <2>1 DEF Left
  <2>3. KeptIn(rg, own, m, g, res')
    BY <1>2, <1>3
  <2> QED
    BY <1>2, <1>3, <1>5, <2>2, <2>3, ReadingNext DEF Progress
<1> QED
  BY <1>6, <1>7, <1>8

LEMMA ProgressNext == Progress /\ [Next]_vars => Progress'
<1> SUFFICES ASSUME Progress, [Next]_vars PROVE Progress'
  OBVIOUS
<1>1. Inv
  BY DEF Progress
<1>2. CASE RunRg
  BY <1>2, RunRgReads
<1>3. CASE CannotRun
  <2>1. Inv'
    BY <1>1, <1>3 DEF CannotRun, Inv, Shaped, TypeOK
  <2>2. /\ UNCHANGED <<vault, context, limit, res>>
        /\ status' = "failed" /\ status \in {"called", "parsing"}
    BY <1>3 DEF CannotRun
  <2> QED
    BY <2>1, <2>2, OtherReads
<1>4. CASE \E ev \in ToSet(out) : Parse(ev)
  <2>1. PICK ev : Parse(ev)
    BY <1>4
  <2>2. CASE SkipEvent(ev)
    BY <2>2, SkipEventReads
  <2>3. CASE BadEvent(ev)
    <3>1. Inv'
      BY <1>1, <2>1, ParseInv
    <3>2. /\ UNCHANGED <<vault, context, limit, res>>
          /\ status' = "failed" /\ status \in {"called", "parsing"}
      BY <2>3 DEF BadEvent, Reads
    <3> QED
      BY <3>1, <3>2, OtherReads
  <2>4. CASE AddLine(ev)
    BY <2>4, AddLineReads
  <2>5. CASE Truncate(ev)
    BY <2>5, TruncateReads
  <2> QED
    BY <2>1, <2>2, <2>3, <2>4, <2>5 DEF Parse
<1>5. CASE EndOfOutput
  <2>1. Inv'
    BY <1>1, <1>5 DEF EndOfOutput, Inv, Shaped, TypeOK
  <2>2. UNCHANGED <<vault, context, limit, res>>
    BY <1>5 DEF EndOfOutput
  <2> QED
    BY <1>5, <2>1, <2>2, OtherReads
<1>6. CASE UNCHANGED vars
  <2>1. Inv'
    BY <1>1, <1>6 DEF vars, Inv, Shaped, TypeOK
  <2>2. UNCHANGED <<vault, context, limit, res>> /\ UNCHANGED <<out, status, killed>>
    BY <1>6 DEF vars
  <2> QED
    BY <2>1, <2>2, OtherReads
<1> QED
  BY <1>2, <1>3, <1>4, <1>5, <1>6 DEF Next

-----------------------------------------------------------------------------
(* What the invariant says of a result.                                    *)
LEMMA ReadingIs ==
  ASSUME Progress, NEW rg, NEW own, NEW m, NEW g, Reading(rg, own, m, g)
  PROVE  /\ rg = RgOutput /\ Shape(rg, own) /\ Left(rg, m) /\ Searchable
         /\ KeptIn(rg, own, m, g, res) /\ Len(rg) \in Nat /\ m \in 0..Len(rg)
         /\ Listed = FlattenSeq(LinesSeq(rg, m))
         /\ Wanted = FlattenSeq(LinesSeq(rg, Len(rg)))
         /\ Len(res.files) \in Nat /\ DOMAIN res.files = 1..Len(res.files)
<1>1. /\ rg = RgOutput /\ Shape(rg, own) /\ Left(rg, m) /\ Searchable
      /\ KeptIn(rg, own, m, g, res)
  BY DEF Reading, Progress
<1>2. Len(rg) \in Nat
  BY <1>1, LenProperties DEF Shape
<1>3. Listed = FlattenSeq(LinesSeq(rg, m))
  BY <1>1, ListedIs DEF KeptIn
<1>4. Wanted = FlattenSeq(LinesSeq(rg, Len(rg)))
  BY <1>1, LinesToAre DEF Wanted
<1>5. m \in 0..Len(rg) /\ res.files \in Seq(File)
  BY <1>1 DEF KeptIn
<1>6. Len(res.files) \in Nat /\ DOMAIN res.files = 1..Len(res.files)
  BY <1>5, LenProperties
<1> QED
  BY <1>1, <1>2, <1>3, <1>4, <1>5, <1>6

LEMMA InOrder == Progress => ResultInOrder
<1> SUFFICES ASSUME Progress PROVE ResultInOrder
  OBVIOUS
<1>1. PICK rg, own, m, g : Reading(rg, own, m, g)
  BY DEF Progress
<1>2. /\ Shape(rg, own) /\ Searchable /\ KeptIn(rg, own, m, g, res)
      /\ Len(rg) \in Nat /\ m \in 0..Len(rg)
      /\ Listed = FlattenSeq(LinesSeq(rg, m))
      /\ Wanted = FlattenSeq(LinesSeq(rg, Len(rg)))
      /\ Len(res.files) \in Nat /\ DOMAIN res.files = 1..Len(res.files)
  BY <1>1, ReadingIs
<1>3. IsPrefix(Listed, Wanted)
  <2> DEFINE E == Paths \X Nat
  <2>1. Len(rg) \in 0..Len(rg) /\ m <= Len(rg)
    BY <1>2
  <2>2. /\ LinesSeq(rg, m) \in Seq(Seq(E)) /\ Len(LinesSeq(rg, m)) = m
        /\ LinesSeq(rg, Len(rg)) \in Seq(Seq(E))
        /\ Len(LinesSeq(rg, Len(rg))) = Len(rg)
    BY <1>2, <2>1, LinesSeqIs
  <2>3. \A k \in 1..m : LinesSeq(rg, m)[k] = LinesSeq(rg, Len(rg))[k]
    BY <1>2 DEF LinesSeq
  <2> HIDE DEF E
  <2>4. IsPrefix(FlattenSeq(LinesSeq(rg, m)), FlattenSeq(LinesSeq(rg, Len(rg))))
    BY <2>1, <2>2, <2>3, FlattenPrefix
  <2> QED
    BY <1>2, <2>4
<1>4. ASSUME NEW i \in DOMAIN res.files, NEW j \in DOMAIN res.files,
             res.files[i].path = res.files[j].path
      PROVE  i = j
  <2>1. i \in 1..Len(res.files) /\ j \in 1..Len(res.files) /\ i \in Int /\ j \in Int
    BY <1>2
  <2>2. /\ g[i] \in DOMAIN vault /\ res.files[i].path = PathText[g[i]]
        /\ g[j] \in DOMAIN vault /\ res.files[j].path = PathText[g[j]]
    BY <1>2, <2>1 DEF KeptIn
  <2>3. g[i] = g[j] /\ g[i] \in Int /\ g[j] \in Int
    <3>1. PathText[g[i]] = PathText[g[j]]
      BY <1>4, <2>2
    <3>2. \A x \in DOMAIN vault : \A y \in DOMAIN vault :
             x \in Int /\ (PathText[x] = PathText[y] => x = y)
      BY <1>2, VaultIs
    <3> QED
      BY <2>2, <3>1, <3>2
  <2>4. (i < j => g[i] < g[j]) /\ (j < i => g[j] < g[i])
    BY <1>2, <2>1 DEF KeptIn
  <2> QED
    BY <2>1, <2>3, <2>4
<1> QED
  BY <1>3, <1>4 DEF ResultInOrder

LEMMA Complete == Progress => SuccessIsComplete
<1> SUFFICES ASSUME Progress, status = "done", ~res.truncated, ~killed
             PROVE  Listed = Wanted
  BY DEF SuccessIsComplete
<1>1. PICK rg, own, m, g : Reading(rg, own, m, g)
  BY DEF Progress
<1>2. m = Len(rg)
  BY <1>1, ReadingIs DEF Left
<1> QED
  BY <1>1, <1>2, ReadingIs

LEMMA Cut == Progress => TruncatedIfMore
<1> SUFFICES ASSUME Progress, status = "done", ~killed
             PROVE  res.truncated <=> NumberOfMatches > limit
  BY DEF TruncatedIfMore
<1>1. PICK rg, own, m, g : Reading(rg, own, m, g)
  BY DEF Progress
<1>2. /\ Shape(rg, own) /\ Searchable /\ KeptIn(rg, own, m, g, res)
      /\ Len(rg) \in Nat /\ m \in 0..Len(rg) /\ m \in Nat /\ Left(rg, m)
  BY <1>1, ReadingIs
<1>3. NumberOfMatches = Cardinality(Matched(rg, Len(rg)))
  BY <1>2, MatchesCounted
<1>4. res.total = Cardinality(Matched(rg, m))
  BY <1>2 DEF KeptIn
<1>5. res.total \in 0..limit /\ limit \in Nat /\ res.truncated \in BOOLEAN
  BY Limits DEF Progress, Inv, TypeOK
<1>6. CASE ~res.truncated
  <2>1. m = Len(rg)
    BY <1>2, <1>6 DEF Left
  <2> QED
    BY <1>3, <1>4, <1>5, <1>6, <2>1
<1>7. CASE res.truncated
  <2>1. res.total = limit /\ m < Len(rg) /\ rg[m + 1].type = "match"
    BY <1>2, <1>7 DEF Left
  <2>2. Cardinality(Matched(rg, m + 1)) = limit + 1
    BY <1>2, <1>4, <2>1, MatchedIs
  <2>3. Cardinality(Matched(rg, m + 1)) <= Cardinality(Matched(rg, Len(rg)))
    <3>1. m + 1 \in Nat /\ m + 1 <= Len(rg)
      BY <1>2, <2>1
    <3> QED
      BY <1>2, <3>1, MatchedGrows
  <2>4. NumberOfMatches \in Nat
    BY <1>2, <1>3, MatchedIs
  <2>5. NumberOfMatches > limit
    BY <1>3, <1>5, <2>2, <2>3, <2>4
  <2> QED
    BY <1>7, <2>1, <2>5
<1> QED
  BY <1>6, <1>7

LEMMA Matchless == Progress => MatchlessOnlyAtTheCut
<1> SUFFICES ASSUME Progress, status = "done", NEW i \in DOMAIN res.files
             PROVE  \/ HasMatch(res.files[i])
                    \/ i = Len(res.files) /\ (res.truncated \/ killed)
  BY DEF MatchlessOnlyAtTheCut, HasMatch
<1>1. PICK rg, own, m, g : Reading(rg, own, m, g)
  BY DEF Progress
<1> DEFINE l == Len(res.files)
<1>2. /\ Shape(rg, own) /\ Searchable /\ KeptIn(rg, own, m, g, res)
      /\ Len(rg) \in Nat /\ m \in 0..Len(rg) /\ Left(rg, m)
      /\ l \in Nat /\ DOMAIN res.files = 1..l /\ i \in 1..l /\ l \in 1..l
  BY <1>1, ReadingIs
<1>3. \A j \in 1..l : /\ g[j] \in DOMAIN vault
                      /\ \E p \in 1..m : own[p] = g[j] /\ IsLine(rg[p])
  BY <1>2 DEF KeptIn
<1>4. PICK p \in 1..m : own[p] = g[i] /\ IsLine(rg[p])
  BY <1>2, <1>3
<1>5. \A x \in 1..m : x \in 1..Len(rg)
  BY <1>2
<1>6. PICK q \in 1..Len(rg) : own[q] = g[i] /\ rg[q].type = "match"
  BY <1>2, <1>4, <1>5 DEF Shape
(* If that match has been read, it is in the entry of its note.            *)
<1>7. ASSUME q <= m PROVE HasMatch(res.files[i])
  <2>1. q \in Matched(rg, m)
    BY <1>2, <1>6, <1>7 DEF Matched
  <2>2. PICK j \in 1..l : g[j] = own[q] /\ HasMatch(res.files[j])
    BY <1>2, <2>1 DEF KeptIn
  <2>3. g[j] = g[i] /\ g[i] \in Int
    <3>1. \A x \in DOMAIN vault : x \in Int
      BY <1>2, VaultIs
    <3>2. g[i] \in DOMAIN vault
      BY <1>2, <1>3
    <3>3. g[j] = g[i]
      BY <1>6, <2>2
    <3> QED
      BY <3>1, <3>2, <3>3
  <2>4. (i < j => g[i] < g[j]) /\ (j < i => g[j] < g[i])
    BY <1>2 DEF KeptIn
  <2>5. i = j
    BY <1>2, <2>3, <2>4
  <2> QED
    BY <2>2, <2>5
<1>8. CASE i < l
  <2>1. PICK r \in 1..m : own[r] = g[l]
    BY <1>2, <1>3
  <2>2. g[i] < g[l] /\ g[i] \in Int /\ g[l] \in Int
    <3>1. g[i] < g[l]
      BY <1>2, <1>8 DEF KeptIn
    <3>2. \A x \in DOMAIN vault : x \in Int
      BY <1>2, VaultIs
    <3> QED
      BY <1>2, <1>3, <3>1, <3>2
  <2>3. ~(own[r] <= own[q])
    BY <1>6, <2>1, <2>2
  <2>4. ~(r < q)
    BY <1>2, <1>5, <1>6, <2>1, <2>3 DEF Shape
  <2>5. r # q
    BY <1>6, <2>1, <2>2
  <2>6. q <= m
    BY <1>2, <1>6, <2>1, <2>4, <2>5
  <2> QED
    BY <1>7, <2>6
<1>9. CASE i = l /\ ~res.truncated /\ ~killed
  <2>1. m = Len(rg)
    BY <1>2, <1>9 DEF Left
  <2> QED
    BY <1>6, <1>7, <2>1
<1>10. i < l \/ i = l
  BY <1>2
<1> QED
  BY <1>8, <1>9, <1>10

LEMMA AlwaysProgress == Spec => []Progress
<1>1. Init => Progress
  BY ProgressInit
<1> QED
  BY <1>1, ProgressNext, PTL DEF Spec

(* The lines of a result are, at any moment and also when ripgrep was      *)
(* killed, those that parseJSONEvents came to first, in ripgrep's order    *)
(* and without a gap, and no note has two entries.                         *)
THEOREM ResultsAreInOrder == Spec => []ResultInOrder
  BY AlwaysProgress, InOrder, PTL

(* A result that is not cut has every matching line of the vault and its   *)
(* context, if ripgrep was not killed.                                     *)
THEOREM SuccessIsAll == Spec => []SuccessIsComplete
  BY AlwaysProgress, Complete, PTL

(* If ripgrep was not killed, a result is marked as cut exactly where the  *)
(* vault has more matching lines than its limit.                           *)
THEOREM CutMeansMore == Spec => []TruncatedIfMore
  BY AlwaysProgress, Cut, PTL

(* Only the last entry of a result that is cut can be without a match.     *)
THEOREM EntriesHaveMatches == Spec => []MatchlessOnlyAtTheCut
  BY AlwaysProgress, Matchless, PTL
=============================================================================
