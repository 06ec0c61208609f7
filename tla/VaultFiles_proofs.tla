-------------------------- MODULE VaultFiles_proofs --------------------------
(***************************************************************************)
(* Proofs about VaultFiles, for any number of clients, folders, names and  *)
(* texts, and any bounds.                                                  *)
(***************************************************************************)
EXTENDS VaultFiles, SequenceTheorems, WellFoundedInduction, TLAPS

Writing == {"createWrite", "appendWrite", "rewrite"}

(* The parts of TypeOK, as predicates on the disk and on one call.         *)
DiskOK(f, d) == /\ f \in [DOMAIN f -> 1..Len(d)]
                /\ DOMAIN f \subseteq Path
                /\ d \in Seq(Seq(Text))

CallOK(r, d) == /\ r \in Call
                /\ r.pc \in Writing => r.fd \in 1..Len(d)

LEMMA TypeParts ==
  TypeOK <=> /\ DiskOK(fs, data)
             /\ call \in [Clients -> Call]
             /\ \A c \in Clients : CallOK(call[c], data)
             /\ events \in 0..MaxEvents
             /\ disturbed \subseteq Clients
             /\ raced \in BOOLEAN
             /\ unborn \subseteq 1..Len(data)
  BY DEF TypeOK, DiskOK, CallOK, Writing

LEMMA PlainIsPath == ASSUME NEW d \in Dirs, NEW n \in Names PROVE Plain(d, n) \in Path
  BY EmptySeq DEF Plain, Path

LEMMA IdleOK == /\ NoPath \in Path
                /\ Idle \in Call
                /\ Idle.pc = "idle"
                /\ \A d : CallOK(Idle, d)
<1>1. (CHOOSE n \in Names : TRUE) \in Names
  BY NamesAssumption DEF NamesAssumption
<1>2. NoPath \in Path
  BY <1>1, PlainIsPath DEF NoPath, Dirs
<1>3. Idle \in Call /\ Idle.pc = "idle"
  BY <1>2, EmptySeq DEF Idle, Call, Steps
<1> QED
  BY <1>2, <1>3 DEF CallOK, Writing

(* What the calls that open a file do to the disk.                         *)
LEMMA OpenOK ==
  ASSUME DiskOK(fs, data), NEW p \in Path
  PROVE  /\ Created(p) \in Seq(Seq(Text))
         /\ Len(Created(p)) >= Len(data) /\ Len(Created(p)) \in Nat
         /\ OpenAt(p) \in 1..Len(Created(p)) /\ OpenAt(p) \in Nat
         /\ Exists(p) => OpenAt(p) = fs[p] /\ Created(p) = data
         /\ ~Exists(p) => OpenAt(p) = Len(data) + 1 /\ Created(p)[OpenAt(p)] = <<>>
         /\ \A i \in 1..Len(data) : Created(p)[i] = data[i]
         /\ DiskOK(Link(p, OpenAt(p)), Created(p))
<1>1. Len(data) \in Nat /\ data \in Seq(Seq(Text)) /\ <<>> \in Seq(Text)
  BY LenProperties, EmptySeq DEF DiskOK
<1>2. CASE Exists(p)
  <2>1. Created(p) = data /\ OpenAt(p) = fs[p] /\ fs[p] \in 1..Len(data)
    BY <1>2 DEF Created, OpenAt, Exists, DiskOK
  <2> QED
    BY <1>1, <1>2, <2>1 DEF Link, DiskOK, Exists
<1>3. CASE ~Exists(p)
  <2>1. Created(p) = Append(data, <<>>) /\ OpenAt(p) = Len(data) + 1
    BY <1>3 DEF Created, OpenAt
  <2>2. /\ Created(p) \in Seq(Seq(Text)) /\ Len(Created(p)) = Len(data) + 1
        /\ Created(p)[Len(data) + 1] = <<>>
        /\ \A i \in 1..Len(data) : Created(p)[i] = data[i]
    BY <1>1, <2>1, AppendProperties
  <2>3. DiskOK(Link(p, OpenAt(p)), Created(p))
    BY <1>1, <2>1, <2>2 DEF Link, DiskOK
  <2> QED
    BY <1>1, <1>3, <2>1, <2>2, <2>3
<1> QED
  BY <1>2, <1>3

LEMMA PutOK ==
  ASSUME NEW d \in Seq(Seq(Text)), NEW i \in 1..Len(d), NEW t \in Seq(Text)
  PROVE  /\ [d EXCEPT ![i] = t] \in Seq(Seq(Text))
         /\ Len([d EXCEPT ![i] = t]) = Len(d)
         /\ [d EXCEPT ![i] = t][i] = t
         /\ \A j \in 1..Len(d) : j # i => [d EXCEPT ![i] = t][j] = d[j]
  BY ExceptSeq, LenProperties

LEMMA TextOK ==
  ASSUME NEW s \in Seq(Text), NEW t \in Seq(Text)
  PROVE  /\ Overlay(t, s) \in Seq(Text)
         /\ AtEnd(t, s) \in Seq(Text)
         /\ Overlay(t, <<>>) = t
<1>1. Len(s) \in Nat /\ Len(t) \in Nat
  BY LenProperties
<1>2. SubSeq(s, Len(t) + 1, Len(s)) \in Seq(Text)
  BY <1>1, SubSeqProperties
<1>3. SubSeq(<<>>, Len(t) + 1, Len(<<>>)) = <<>>
  BY <1>1, EmptySeq, SubSeqEmpty
<1> QED
  BY <1>2, <1>3, ConcatProperties, ConcatEmptySeq DEF Overlay, AtEnd

(* A step of one client keeps the types if it leaves its own call and the  *)
(* disk in order, and takes no inode away.                                 *)
LEMMA StepOK ==
  ASSUME TypeOK, NEW c \in Clients, NEW r, NEW clobbers, clobbers \in BOOLEAN,
         call' = [call EXCEPT ![c] = r], CallOK(r, data'),
         DiskOK(fs', data'), Len(data') >= Len(data),
         events' \in 0..MaxEvents, Notice(c, clobbers),
         unborn' \subseteq 1..Len(data')
  PROVE  TypeOK'
<1>1. \A d \in Clients : CallOK(call'[d], data') /\ call'[d] \in Call
  <2> SUFFICES ASSUME NEW d \in Clients PROVE CallOK(call'[d], data') /\ call'[d] \in Call
      OBVIOUS
  <2>1. Len(data) \in Nat /\ Len(data') \in Nat
    BY LenProperties DEF TypeOK, DiskOK
  <2>2. CallOK(call[d], data) /\ call \in [Clients -> Call]
    BY TypeParts
  <2> QED
    BY <2>1, <2>2 DEF CallOK, Call
<1>2. call' \in [Clients -> Call]
  BY <1>1 DEF TypeOK
<1>3. disturbed' \subseteq Clients
  BY DEF Notice, TypeOK
<1>4. raced' \in BOOLEAN
  <2> DEFINE stale == raced \/ clobbers
                        \/ \E d \in {e \in Clients \ {c} : ViewChanges(e)} : Holding(d)
  <2>1. raced' = stale
    BY DEF Notice
  <2>2. stale \in BOOLEAN
    OBVIOUS
  <2> QED
    BY <2>1, <2>2
<1> QED
  BY <1>1, <1>2, <1>3, <1>4 DEF TypeOK, DiskOK, CallOK, Writing

LEMMA NameOK ==
  ASSUME NEW p \in Path, NEW n \in Nat
  PROVE  Candidate(p, n) \in Path /\ [p EXCEPT !.dir = Root] \in Path
<1>1. p.nums \in Seq(Nat) /\ Append(p.nums, n) \in Seq(Nat)
  BY AppendProperties DEF Path
<1>2. Trash \in Dirs /\ Root \in Dirs
  BY NamesAssumption DEF NamesAssumption, Dirs
<1> QED
  BY <1>1, <1>2 DEF Candidate, Path

(* FlattenSeq: f[k] is what the first k of the sequences make.             *)
Flattens(ss, n, f) ==
    \A k \in 1..n : f[k] = IF k = 1 THEN ss[k] ELSE f[k - 1] \o ss[k]

LEMMA UpTo ==
  ASSUME NEW n \in Nat, NEW T, 0 \in T, \A k \in 1..n : k - 1 \in T => k \in T
  PROVE  n \in T
<1> DEFINE R == OpToRel(<, Nat)
           U == {k \in 0..n : k \notin T}
<1> SUFFICES ASSUME n \notin T PROVE FALSE
    OBVIOUS
<1>1. U \subseteq Nat /\ U # {}
  OBVIOUS
<1> HIDE DEF U
<1>2. PICK x \in U : \A y \in U : <<y, x>> \notin R
  BY <1>1, NatLessThanWellFounded, WFMin
<1>3. x \in 1..n /\ x - 1 \in U /\ x - 1 \in Nat /\ x \in Nat
  BY DEF U
<1>4. <<x - 1, x>> \in R
  BY <1>3 DEF OpToRel
<1> QED
  BY <1>2, <1>3, <1>4

LEMMA FlatteningExists ==
  ASSUME NEW ss, NEW n \in Nat PROVE \E f : Flattens(ss, n, f)
<1> DEFINE T == {m \in Nat : \E f : Flattens(ss, m, f)}
<1>1. 0 \in T
  BY DEF Flattens
<1>2. ASSUME NEW k \in 1..n, k - 1 \in T PROVE k \in T
  <2>1. PICK f : Flattens(ss, k - 1, f)
    BY <1>2
  <2> DEFINE last == IF k = 1 THEN ss[k] ELSE f[k - 1] \o ss[k]
             g == [j \in 1..k |-> IF j = k THEN last ELSE f[j]]
  <2>2. ASSUME NEW j \in 1..k
        PROVE  g[j] = IF j = 1 THEN ss[j] ELSE g[j - 1] \o ss[j]
    <3>1. CASE j = k
      <4>1. j # 1 => g[j - 1] = f[j - 1]
        BY <3>1
      <4> QED
        BY <3>1, <4>1
    <3>2. CASE j # k
      <4>1. j \in 1..(k - 1) /\ g[j] = f[j] /\ (j # 1 => g[j - 1] = f[j - 1])
        BY <3>2
      <4>2. f[j] = IF j = 1 THEN ss[j] ELSE f[j - 1] \o ss[j]
        BY <2>1, <4>1 DEF Flattens
      <4> HIDE DEF g
      <4> QED
        BY <4>1, <4>2
    <3> QED
      BY <3>1, <3>2
  <2> HIDE DEF g
  <2>3. Flattens(ss, k, g)
    BY <2>2 DEF Flattens
  <2> QED
    BY <2>3
<1> HIDE DEF T
<1>3. n \in T
  BY <1>1, <1>2, UpTo
<1> QED
  BY <1>3 DEF T

Flattened(ss, f) ==
    f = [k \in 1..Len(ss) |-> IF k = 1 THEN ss[k] ELSE f[k - 1] \o ss[k]]

LEMMA FlattenOK ==
  ASSUME NEW S, NEW ss \in Seq(Seq(S)) PROVE FlattenSeq(ss) \in Seq(S)
<1> DEFINE n == Len(ss)
           c == CHOOSE f : Flattened(ss, f)
<1>1. n \in Nat /\ \A k \in 1..n : ss[k] \in Seq(S)
  BY LenProperties, ElementOfSeq
<1>2. CASE n = 0
  <2>1. ss = <<>> /\ FlattenSeq(ss) = ss
    BY <1>2, EmptySeq DEF FlattenSeq
  <2> QED
    BY <2>1, EmptySeq
<1>3. CASE n # 0
  <2>1. FlattenSeq(ss) = c[n]
    BY <1>3 DEF FlattenSeq, Flattened
  <2>2. PICK f : Flattens(ss, n, f)
    BY <1>1, FlatteningExists
  <2> DEFINE h == [k \in 1..n |-> f[k]]
  <2>3. Flattened(ss, h)
    <3>1. ASSUME NEW k \in 1..n
          PROVE  f[k] = IF k = 1 THEN ss[k] ELSE h[k - 1] \o ss[k]
      <4>1. k # 1 => h[k - 1] = f[k - 1]
        BY <1>1
      <4>2. f[k] = IF k = 1 THEN ss[k] ELSE f[k - 1] \o ss[k]
        BY <2>2 DEF Flattens
      <4> HIDE DEF h
      <4> QED
        BY <4>1, <4>2
    <3> QED
      BY <3>1 DEF Flattened
  <2>4. Flattened(ss, c)
    BY <2>3
  <2> HIDE DEF c, h
  <2> DEFINE T == {k \in Nat : k \in 1..n => c[k] \in Seq(S)}
  <2>5. 0 \in T
    OBVIOUS
  <2>6. ASSUME NEW k \in 1..n, k - 1 \in T PROVE k \in T
    <3>1. c[k] = IF k = 1 THEN ss[k] ELSE c[k - 1] \o ss[k]
      BY <2>4 DEF Flattened
    <3>2. k # 1 => c[k - 1] \in Seq(S)
      BY <1>1, <2>6
    <3>3. ss[k] \in Seq(S)
      BY <1>1
    <3>4. c[k] \in Seq(S)
      BY <3>1, <3>2, <3>3, ConcatProperties
    <3> QED
      BY <1>1, <3>4
  <2> HIDE DEF T
  <2>7. n \in T
    BY <1>1, <2>5, <2>6, UpTo
  <2> QED
    BY <1>1, <1>3, <2>1, <2>7 DEF T
<1> QED
  BY <1>2, <1>3

LEMMA SubstituteOK ==
  ASSUME NEW s \in Seq(Text), NEW f, NEW r \in Seq(Text)
  PROVE  Substitute(s, f, r) \in Seq(Text)
<1> DEFINE parts == [i \in DOMAIN s |-> IF s[i] = f THEN r ELSE <<s[i]>>]
<1>1. Len(s) \in Nat /\ DOMAIN s = 1..Len(s) /\ \A i \in 1..Len(s) : s[i] \in Text
  BY LenProperties, ElementOfSeq
<1>2. ASSUME NEW i \in 1..Len(s) PROVE parts[i] \in Seq(Text)
  BY <1>1
<1>3. parts \in Seq(Seq(Text))
  BY <1>1, <1>2, IsASeq
<1> HIDE DEF parts
<1> QED
  BY <1>3, FlattenOK DEF Substitute, parts

LEMMA CutOK ==
  ASSUME NEW s \in Seq(Text), NEW t \in Seq(Text),
         NEW b \in 1..Len(s), NEW e \in b..Len(s)
  PROVE  SubSeq(s, 1, b) \o t \o SubSeq(s, e + 1, Len(s)) \in Seq(Text)
<1>1. Len(s) \in Nat
  BY LenProperties
<1>2. SubSeq(s, 1, b) \in Seq(Text) /\ SubSeq(s, e + 1, Len(s)) \in Seq(Text)
  BY <1>1, SubSeqProperties
<1> QED
  BY <1>2, ConcatProperties

LEMMA InitTypeOK == Init => TypeOK
<1> SUFFICES ASSUME Init PROVE TypeOK
    OBVIOUS
<1> DEFINE paths == {StartNotes[i].path : i \in DOMAIN StartNotes}
<1>1. /\ \A i \in DOMAIN StartNotes : /\ StartNotes[i].path \in Path
                                      /\ StartNotes[i].text \in Seq(Text)
      /\ DOMAIN StartNotes = 1..Len(StartNotes) /\ Len(StartNotes) \in Nat
  <2>1. StartNotes \in Seq([path : Path, text : Seq(Text)])
    BY TextAssumption DEF TextAssumption
  <2>2. DOMAIN StartNotes = 1..Len(StartNotes) /\ Len(StartNotes) \in Nat
    BY <2>1, LenProperties
  <2>3. \A i \in 1..Len(StartNotes) : StartNotes[i] \in [path : Path, text : Seq(Text)]
    BY <2>1, ElementOfSeq
  <2> QED
    BY <2>2, <2>3
<1>2. data \in Seq(Seq(Text)) /\ Len(data) = Len(StartNotes)
  <2>1. data = [i \in 1..Len(StartNotes) |-> StartNotes[i].text]
    BY <1>1 DEF Init
  <2> QED
    BY <1>1, <2>1, IsASeq, LenProperties
<1>3. ASSUME NEW p \in paths
      PROVE  (CHOOSE i \in DOMAIN StartNotes : StartNotes[i].path = p) \in DOMAIN StartNotes
  BY <1>3
<1>4. DiskOK(fs, data)
  BY <1>1, <1>2, <1>3 DEF Init, DiskOK
<1>5. call \in [Clients -> Call] /\ \A c \in Clients : CallOK(call[c], data)
  BY IdleOK DEF Init
<1>6. events \in 0..MaxEvents
  BY BoundsAssumption DEF BoundsAssumption, Init
<1> QED
  BY <1>4, <1>5, <1>6, TypeParts DEF Init

(* The steps that begin a call.                                            *)
LEMMA RequestOK ==
  ASSUME TypeOK, NEW c \in Clients, Request(c) PROVE TypeOK'
<1>0. /\ DiskOK(fs, data) /\ events' \in 0..MaxEvents
      /\ Idle \in Call /\ Len(data) \in Nat
  <2>1. events' = events + 1 /\ events < MaxEvents
    BY DEF Request, CreateOpen, AppendOpen, EditRead, SectionRead, MoveStatSrc,
           RestoreStatSrc, DeleteStat, Begin, Count
  <2>2. events \in 0..MaxEvents /\ MaxEvents \in Nat /\ DiskOK(fs, data)
    BY TypeParts, BoundsAssumption DEF BoundsAssumption
  <2>3. events' \in 0..MaxEvents
    BY <2>1, <2>2
  <2>4. Len(data) \in Nat
    BY <2>2, LenProperties DEF DiskOK
  <2> QED
    BY <2>2, <2>3, <2>4, IdleOK
<1>1. ASSUME NEW d \in Dirs, NEW n \in Names, NEW t \in Contents, NEW pc \in Writing,
             fs' = Link(Plain(d, n), OpenAt(Plain(d, n))),
             data' = Created(Plain(d, n)),
             Begin(c, [Idle EXCEPT !.pc = pc, !.path = Plain(d, n), !.text = t,
                                   !.fd = OpenAt(Plain(d, n))]),
             Notice(c, FALSE), unborn' \subseteq unborn \cup {OpenAt(Plain(d, n))}
      PROVE  TypeOK'
  <2> DEFINE p == Plain(d, n)
             r == [Idle EXCEPT !.pc = pc, !.path = p, !.text = t, !.fd = OpenAt(p)]
  <2>1. p \in Path /\ t \in Seq(Text)
    BY PlainIsPath, TextAssumption DEF TextAssumption
  <2>2. /\ DiskOK(fs', data') /\ Len(data') >= Len(data)
        /\ OpenAt(p) \in 1..Len(data') /\ OpenAt(p) \in Nat
    BY <1>0, <1>1, <2>1, OpenOK
  <2>5. unborn' \subseteq 1..Len(data')
    <3>1. unborn \subseteq 1..Len(data) /\ Len(data') \in Nat
      BY <2>2, LenProperties DEF TypeOK, DiskOK
    <3> QED
      BY <1>0, <1>1, <2>2, <3>1
  <2>3. CallOK(r, data')
    BY <1>0, <2>1, <2>2 DEF CallOK, Call, Steps, Writing
  <2>4. Begin(c, r) /\ Notice(c, FALSE)
    BY <1>1
  <2> HIDE DEF r
  <2> QED
    BY <1>0, <2>2, <2>3, <2>4, <2>5, StepOK DEF Begin
<1>2. ASSUME NEW r \in Call, r.pc \notin Writing, Begin(c, r), UNCHANGED disk,
             Notice(c, FALSE)
      PROVE  TypeOK'
  <2>1. /\ DiskOK(fs', data') /\ CallOK(r, data') /\ Len(data') >= Len(data)
        /\ unborn' \subseteq 1..Len(data')
    BY <1>0, <1>2, TypeParts DEF CallOK, disk
  <2> QED
    BY <1>0, <1>2, <2>1, StepOK DEF Begin
<1>3. CASE CreateOpen(c) \/ AppendOpen(c)
  BY <1>1, <1>3 DEF CreateOpen, AppendOpen, Writing
<1>4. ASSUME NEW p \in DOMAIN fs PROVE data[fs[p]] \in Seq(Text) /\ p \in Path
  BY <1>0, <1>4, ElementOfSeq DEF DiskOK
<1>5. CASE EditRead(c)
  <2>1. PICK p \in DOMAIN fs, f \in Text, s \in Contents \cup {<<>>} :
          /\ Begin(c, [Idle EXCEPT !.pc = "truncate", !.path = p, !.old = data[fs[p]],
                                   !.text = Substitute(data[fs[p]], f, s)])
          /\ UNCHANGED disk /\ Notice(c, FALSE)
    BY <1>5 DEF EditRead
  <2> DEFINE r == [Idle EXCEPT !.pc = "truncate", !.path = p, !.old = data[fs[p]],
                               !.text = Substitute(data[fs[p]], f, s)]
  <2>3. s \in Seq(Text)
    BY TextAssumption, EmptySeq DEF TextAssumption
  <2>4. data[fs[p]] \in Seq(Text) /\ Substitute(data[fs[p]], f, s) \in Seq(Text)
    BY <1>4, <2>3, SubstituteOK
  <2>2. r \in Call /\ r.pc \notin Writing
    BY <1>0, <1>4, <2>4 DEF Call, Steps, Writing
  <2> QED
    BY <1>2, <2>1, <2>2
<1>6. CASE SectionRead(c)
  <2> DEFINE old(p) == data[fs[p]]
             new(p, t, b, e) == SubSeq(old(p), 1, b) \o t
                                  \o SubSeq(old(p), e + 1, Len(old(p)))
             r(p, t, b, e) == [Idle EXCEPT !.pc = "truncate", !.path = p, !.old = old(p),
                                           !.text = new(p, t, b, e)]
  <2>1. PICK p \in DOMAIN fs, t \in Contents \cup {<<>>} :
           \E b \in 1..Len(old(p)) : \E e \in b..Len(old(p)) :
              Begin(c, r(p, t, b, e)) /\ UNCHANGED disk /\ Notice(c, FALSE)
    BY <1>6 DEF SectionRead
  <2>2. PICK b \in 1..Len(old(p)) : \E e \in b..Len(old(p)) :
              Begin(c, r(p, t, b, e)) /\ UNCHANGED disk /\ Notice(c, FALSE)
    BY <2>1
  <2>3. PICK e \in b..Len(old(p)) :
              Begin(c, r(p, t, b, e)) /\ UNCHANGED disk /\ Notice(c, FALSE)
    BY <2>2
  <2>4. t \in Seq(Text)
    BY TextAssumption, EmptySeq DEF TextAssumption
  <2>5. old(p) \in Seq(Text) /\ new(p, t, b, e) \in Seq(Text)
    BY <1>4, <2>4, CutOK
  <2>6. r(p, t, b, e) \in Call /\ r(p, t, b, e).pc \notin Writing
    <3> HIDE DEF old, new
    <3> QED BY <1>0, <1>4, <2>5 DEF Call, Steps, Writing
  <2> HIDE DEF r
  <2> QED
    BY <1>2, <2>3, <2>6
<1>7. CASE MoveStatSrc(c)
  <2>1. PICK p \in DOMAIN fs, d \in Dirs, n \in Names :
          /\ Begin(c, [Idle EXCEPT !.pc = "statDst", !.path = p, !.to = Plain(d, n)])
          /\ UNCHANGED disk /\ Notice(c, FALSE)
    BY <1>7 DEF MoveStatSrc
  <2> DEFINE r == [Idle EXCEPT !.pc = "statDst", !.path = p, !.to = Plain(d, n)]
  <2>2. r \in Call /\ r.pc \notin Writing
    BY <1>0, <1>4, PlainIsPath DEF Call, Steps, Writing
  <2> QED
    BY <1>2, <2>1, <2>2
<1>8. CASE RestoreStatSrc(c)
  <2>1. PICK p \in DOMAIN fs :
          /\ Begin(c, [Idle EXCEPT !.pc = "statDst", !.path = p,
                                   !.to = [p EXCEPT !.dir = Root]])
          /\ UNCHANGED disk /\ Notice(c, FALSE)
    BY <1>8 DEF RestoreStatSrc
  <2> DEFINE q == [p EXCEPT !.dir = Root]
             r == [Idle EXCEPT !.pc = "statDst", !.path = p, !.to = q]
  <2>2. q \in Path
    BY <1>4, NameOK
  <2>3. r \in Call /\ r.pc \notin Writing
    <3> HIDE DEF q
    <3> QED BY <1>0, <1>4, <2>2 DEF Call, Steps, Writing
  <2> QED
    BY <1>2, <2>1, <2>3
<1>9. CASE DeleteStat(c)
  <2>1. PICK p \in DOMAIN fs, pc \in {"remove", "probe"} :
          /\ Begin(c, [Idle EXCEPT !.pc = pc, !.path = p])
          /\ UNCHANGED disk /\ Notice(c, FALSE)
    BY <1>9 DEF DeleteStat
  <2> DEFINE r == [Idle EXCEPT !.pc = pc, !.path = p]
  <2>2. r \in Call /\ r.pc \notin Writing
    BY <1>0, <1>4 DEF Call, Steps, Writing
  <2> QED
    BY <1>2, <2>1, <2>2
<1> QED
  BY <1>3, <1>5, <1>6, <1>7, <1>8, <1>9 DEF Request

(* The steps that continue a call.                                         *)
LEMMA ContinueOK ==
  ASSUME TypeOK, NEW c \in Clients, Continue(c) PROVE TypeOK'
<1> DEFINE me == call[c]
<1>0. /\ DiskOK(fs, data) /\ CallOK(me, data) /\ me \in Call /\ events \in 0..MaxEvents
      /\ Len(data) \in Nat /\ data \in Seq(Seq(Text)) /\ me.text \in Seq(Text)
  BY TypeParts, LenProperties DEF DiskOK, Call
<1>1. ASSUME NEW r, r \in Call, r.pc \in Writing => r.fd \in 1..Len(data),
             Goto(c, r), UNCHANGED <<data, unborn>>, DiskOK(fs', data),
             NEW clobbers, clobbers \in BOOLEAN, Notice(c, clobbers)
      PROVE  TypeOK'
  <2>1. /\ CallOK(r, data') /\ Len(data') >= Len(data) /\ events' \in 0..MaxEvents
        /\ unborn' \subseteq 1..Len(data')
    BY <1>0, <1>1, TypeParts DEF CallOK, Goto
  <2> QED
    BY <1>1, <2>1, StepOK DEF Goto
<1>2. ASSUME NEW t \in Seq(Text), me.pc \in Writing,
             data' = [data EXCEPT ![me.fd] = t], UNCHANGED fs, Born(me.fd), Return(c),
             NEW clobbers, clobbers \in BOOLEAN, Notice(c, clobbers)
      PROVE  TypeOK'
  <2>1. me.fd \in 1..Len(data)
    BY <1>0, <1>2 DEF CallOK
  <2>2. data' \in Seq(Seq(Text)) /\ Len(data') = Len(data)
    BY <1>0, <1>2, <2>1, PutOK
  <2>3. DiskOK(fs', data') /\ events' \in 0..MaxEvents
    BY <1>0, <1>2, <2>2 DEF DiskOK, Return, Goto
  <2>4. call' = [call EXCEPT ![c] = Idle] /\ CallOK(Idle, data')
    BY <1>2, IdleOK DEF Return, Goto
  <2>5. Len(data') >= Len(data) /\ unborn' \subseteq 1..Len(data')
    BY <1>0, <1>2, <2>2, TypeParts DEF Born
  <2> QED
    BY <1>2, <2>3, <2>4, <2>5, StepOK
<1>3. ASSUME me.pc \in Writing
      PROVE  /\ me.fd \in 1..Len(data) /\ data[me.fd] \in Seq(Text)
             /\ Overlay(me.text, data[me.fd]) \in Seq(Text)
             /\ AtEnd(me.text, data[me.fd]) \in Seq(Text)
  <2>1. me.fd \in 1..Len(data)
    BY <1>0, <1>3 DEF CallOK
  <2>2. data[me.fd] \in Seq(Text)
    BY <1>0, <2>1, ElementOfSeq
  <2> QED
    BY <1>0, <2>1, <2>2, TextOK
<1>4. CASE AppendWrite(c)
  <2>1. /\ me.pc \in Writing /\ UNCHANGED fs /\ Return(c) /\ Notice(c, FALSE)
        /\ Born(me.fd)
        /\ data' = [data EXCEPT ![me.fd] = AtEnd(me.text, data[me.fd])]
    BY <1>4 DEF AppendWrite, Writing
  <2> QED
    BY <1>2, <1>3, <2>1
<1>5. CASE Write(c)
  <2>1. /\ me.pc \in Writing /\ UNCHANGED fs /\ Return(c) /\ Notice(c, c \in disturbed)
        /\ Born(me.fd)
        /\ data' = [data EXCEPT ![me.fd] = Overlay(me.text, data[me.fd])]
    BY <1>5 DEF Write, Writing, Holding
  <2>2. (c \in disturbed) \in BOOLEAN
    OBVIOUS
  <2> QED
    BY <1>2, <1>3, <2>1, <2>2
<1>6. CASE OpenTrunc(c)
  <2> DEFINE p == me.path
             r == [me EXCEPT !.pc = "rewrite", !.fd = OpenAt(p)]
  <2>1. p \in Path
    BY <1>0 DEF Call
  <2>2. /\ fs' = Link(p, OpenAt(p)) /\ data' = [Created(p) EXCEPT ![OpenAt(p)] = <<>>]
        /\ Goto(c, r) /\ Notice(c, c \in disturbed) /\ Born(OpenAt(p))
    BY <1>6 DEF OpenTrunc
  <2>3. /\ Created(p) \in Seq(Seq(Text)) /\ Len(Created(p)) >= Len(data)
        /\ OpenAt(p) \in 1..Len(Created(p)) /\ OpenAt(p) \in Nat
        /\ DiskOK(Link(p, OpenAt(p)), Created(p))
    BY <1>0, <2>1, OpenOK
  <2>4. data' \in Seq(Seq(Text)) /\ Len(data') = Len(Created(p))
    BY <2>2, <2>3, PutOK, EmptySeq
  <2>5. DiskOK(fs', data')
    BY <2>2, <2>3, <2>4 DEF DiskOK
  <2>6. CallOK(r, data')
    BY <1>0, <2>3, <2>4 DEF CallOK, Call, Steps
  <2>8. unborn' \subseteq 1..Len(data')
    <3>1. unborn \subseteq 1..Len(data) /\ Len(data') \in Nat
      BY <2>4, LenProperties DEF TypeOK
    <3> QED
      BY <1>0, <2>2, <2>3, <2>4, <3>1 DEF Born
  <2>7. (c \in disturbed) \in BOOLEAN /\ events' \in 0..MaxEvents
    BY <1>0, <2>2 DEF Goto
  <2> HIDE DEF r
  <2> QED
    BY <2>2, <2>3, <2>4, <2>5, <2>6, <2>7, <2>8, StepOK DEF Goto
<1>7. CASE MoveStatDst(c)
  <2>1. PICK r \in {Idle, [me EXCEPT !.pc = "rename"]} :
           Goto(c, r) /\ UNCHANGED disk /\ Notice(c, FALSE)
    BY <1>7 DEF MoveStatDst, Return
  <2>2. r \in Call /\ r.pc \notin Writing
    BY <1>0, IdleOK DEF Call, Steps, Writing
  <2> QED
    BY <1>0, <1>1, <2>1, <2>2 DEF disk
<1>8. CASE RemoveAll(c)
  <2>1. DiskOK(fs', data)
    BY <1>0, <1>8 DEF RemoveAll, Unlink, DiskOK
  <2> QED
    BY <1>1, <1>8, <2>1, IdleOK DEF RemoveAll, Return, Writing
<1>9. CASE Probe(c)
  <2> DEFINE q == Candidate(me.path, me.n)
             r == IF Taken(q) THEN [me EXCEPT !.n = NextNumber(@)]
                              ELSE [me EXCEPT !.pc = "trash", !.to = q]
  <2>1. me.pc = "probe" /\ Goto(c, r) /\ UNCHANGED disk /\ Notice(c, FALSE)
    BY <1>9 DEF Probe
  <2>2. q \in Path
    BY <1>0, NameOK DEF Call
  <2>3. NextNumber(me.n) \in Nat
    BY <1>0, BoundsAssumption DEF BoundsAssumption, NextNumber, Call
  <2>4. r \in Call /\ r.pc \notin Writing
    <3> HIDE DEF q
    <3> QED BY <1>0, <2>1, <2>2, <2>3 DEF Call, Steps, Writing
  <2> HIDE DEF r
  <2> QED
    BY <1>0, <1>1, <2>1, <2>4 DEF disk
<1>10. CASE Rename(c)
  <2>1. PICK clobbers \in BOOLEAN : Notice(c, clobbers)
    BY <1>10 DEF Rename
  <2>2. me.to \in Path
    BY <1>0 DEF Call
  <2>3. DiskOK(fs', data)
    BY <1>0, <1>10, <2>2 DEF Rename, Relink, Exists, DiskOK
  <2> QED
    BY <1>1, <1>10, <2>1, <2>3, IdleOK DEF Rename, Return, Writing
<1> QED
  BY <1>4, <1>5, <1>6, <1>7, <1>8, <1>9, <1>10 DEF Continue

LEMMA NextTypeOK == TypeOK /\ [Next]_vars => TypeOK'
<1> SUFFICES ASSUME TypeOK, [Next]_vars PROVE TypeOK'
    OBVIOUS
<1>0. /\ DiskOK(fs, data) /\ events \in 0..MaxEvents /\ MaxEvents \in Nat
      /\ Len(data) \in Nat /\ data \in Seq(Seq(Text))
  BY TypeParts, BoundsAssumption, LenProperties DEF BoundsAssumption, DiskOK
<1>1. Count => events' \in 0..MaxEvents
  BY <1>0 DEF Count
<1>2. ASSUME NEW c \in Clients, WriteFails(c) PROVE TypeOK'
  <2> DEFINE i == call[c].fd
             t == call[c].text
  <2>1. PICK k \in 0..(Len(t) - 1) :
           data' = [data EXCEPT ![i] = IF call[c].pc = "appendWrite"
                                       THEN AtEnd(SubSeq(t, 1, k), data[i])
                                       ELSE Overlay(SubSeq(t, 1, k), data[i])]
    BY <1>2 DEF WriteFails
  <2>2. i \in 1..Len(data) /\ data[i] \in Seq(Text) /\ t \in Seq(Text)
    <3>1. call[c] \in Call /\ CallOK(call[c], data) /\ call[c].pc \in Writing
      BY <1>2, TypeParts DEF WriteFails, Writing
    <3>2. i \in 1..Len(data)
      BY <3>1 DEF CallOK
    <3> QED
      BY <1>0, <3>1, <3>2, ElementOfSeq DEF Call
  <2>3. SubSeq(t, 1, k) \in Seq(Text)
    <3>1. Len(t) \in Nat
      BY <2>2, LenProperties
    <3> QED
      BY <2>2, <3>1, SubSeqProperties
  <2>4. data' \in Seq(Seq(Text)) /\ Len(data') = Len(data)
    <3>1. PICK new \in Seq(Text) : data' = [data EXCEPT ![i] = new]
      <4>1. /\ AtEnd(SubSeq(t, 1, k), data[i]) \in Seq(Text)
            /\ Overlay(SubSeq(t, 1, k), data[i]) \in Seq(Text)
        BY <2>2, <2>3, TextOK
      <4> QED
        BY <2>1, <4>1
    <3> QED
      BY <1>0, <2>2, <3>1, PutOK
  <2>5. DiskOK(fs', data')
    BY <1>0, <1>2, <2>4 DEF WriteFails, DiskOK
  <2>6. /\ call' = [call EXCEPT ![c] = Idle] /\ CallOK(Idle, data')
        /\ Len(data') >= Len(data) /\ events' \in 0..MaxEvents /\ Notice(c, TRUE)
        /\ unborn' \subseteq 1..Len(data')
    <3>3. unborn' \subseteq 1..Len(data')
      BY <1>2, <2>4, TypeParts DEF WriteFails, Born
    <3>1. call' = [call EXCEPT ![c] = Idle] /\ Count /\ Notice(c, TRUE)
      BY <1>2 DEF WriteFails
    <3>2. Len(data') >= Len(data)
      BY <1>0, <2>4
    <3> QED
      BY <1>1, <3>1, <3>2, <3>3, IdleOK
  <2>7. TRUE \in BOOLEAN
    OBVIOUS
  <2> QED
    BY <2>5, <2>6, <2>7, StepOK
<1>3. CASE Crash
  <2> DEFINE torn == \/ raced
                     \/ \E c \in Clients : Holding(c)
                     \/ \E p \in DOMAIN fs : fs[p] \in unborn
  <2>1. /\ call' = [c \in Clients |-> Idle] /\ UNCHANGED <<fs, data>>
        /\ disturbed' = {} /\ Count /\ raced' = torn /\ unborn' = {}
    BY <1>3 DEF Crash
  <2>2. raced' \in BOOLEAN
    <3>1. torn \in BOOLEAN
      OBVIOUS
    <3> QED BY <2>1, <3>1
  <2> QED
    BY <1>0, <1>1, <2>1, <2>2, IdleOK DEF TypeOK, DiskOK, CallOK
<1>4. CASE Pull
  <2>1. /\ DiskOK(fs', data') /\ Len(data') >= Len(data)
        /\ unborn' \subseteq unborn
    <3>1. ASSUME NEW d \in Dirs, NEW n \in Names, NEW t \in Contents,
                 fs' = Link(Plain(d, n), OpenAt(Plain(d, n))),
                 data' = [Created(Plain(d, n)) EXCEPT ![OpenAt(Plain(d, n))] = t]
          PROVE  DiskOK(fs', data') /\ Len(data') >= Len(data)
      <4> DEFINE p == Plain(d, n)
      <4>1. p \in Path /\ t \in Seq(Text)
        BY PlainIsPath, TextAssumption DEF TextAssumption
      <4>2. /\ Created(p) \in Seq(Seq(Text)) /\ Len(Created(p)) >= Len(data)
            /\ OpenAt(p) \in 1..Len(Created(p))
            /\ DiskOK(Link(p, OpenAt(p)), Created(p))
        BY <1>0, <4>1, OpenOK
      <4>3. data' \in Seq(Seq(Text)) /\ Len(data') = Len(Created(p))
        BY <3>1, <4>1, <4>2, PutOK
      <4> QED
        BY <3>1, <4>2, <4>3 DEF DiskOK
    <3>2. ASSUME NEW p \in DOMAIN fs, fs' = Unlink(p), UNCHANGED data
          PROVE  DiskOK(fs', data') /\ Len(data') >= Len(data)
      BY <1>0, <3>2 DEF Unlink, DiskOK
    <3> QED
      BY <1>4, <3>1, <3>2 DEF Pull, Born
  <2>2. disturbed' \subseteq Clients /\ raced' \in BOOLEAN
    <3> DEFINE hit == {d \in Clients \ {Outside} : ViewChanges(d)}
               late == raced \/ FALSE \/ \E d \in hit : Holding(d)
    <3>1. disturbed' = (disturbed \ {Outside}) \cup hit /\ raced' = late
      BY <1>4 DEF Pull, Notice
    <3>2. late \in BOOLEAN
      OBVIOUS
    <3> QED
      BY <3>1, <3>2 DEF TypeOK
  <2>3. \A c \in Clients : CallOK(call'[c], data')
    <3>1. UNCHANGED call /\ \A c \in Clients : CallOK(call[c], data)
      BY <1>4, TypeParts DEF Pull
    <3>2. Len(data') \in Nat
      BY <2>1, LenProperties DEF DiskOK
    <3> QED
      BY <1>0, <2>1, <3>1, <3>2 DEF CallOK, Call
  <2> QED
    BY <1>1, <1>4, <2>1, <2>2, <2>3 DEF Pull, TypeOK, DiskOK, CallOK, Writing
<1>5. CASE UNCHANGED vars
  BY <1>5 DEF vars, TypeOK
<1> QED
  BY <1>2, <1>3, <1>4, <1>5, RequestOK, ContinueOK DEF Next

(* Every reachable state is well typed: no directory entry and no open     *)
(* file refers to an inode that does not exist.                            *)
THEOREM TypeCorrect == Spec => []TypeOK
BY InitTypeOK, NextTypeOK, PTL DEF Spec

-----------------------------------------------------------------------------
(* What a client that nobody disturbed sees (ViewIsCurrent), client by     *)
(* client, and what makes it inductive: nobody rewrites an empty note.     *)
View(c) ==
    LET p == call[c].path
        q == call[c].to
    IN  /\ call[c].pc = "truncate" => Exists(p) /\ data[fs[p]] = call[c].old
        /\ Holding(c) => Exists(p) /\ fs[p] = call[c].fd /\ data[fs[p]] = <<>>
        /\ call[c].pc \in {"rename", "trash"} => ~Exists(q)

(* No two paths name one file.                                             *)
OneName == \A p, q \in DOMAIN fs : fs[p] = fs[q] => p = q

ReadsText == \A c \in Clients : call[c].pc = "truncate" => call[c].old # <<>>

Inv == TypeOK /\ OneName /\ ViewIsCurrent /\ HoldersApart /\ ReadsText

LEMMA ViewParts == ViewIsCurrent <=> \A c \in Clients \ disturbed : View(c)
  BY DEF ViewIsCurrent, View

LEMMA SameEntry ==
  ASSUME NEW p, Entry(p)' = Entry(p), Exists(p)
  PROVE  Exists(p)' /\ fs'[p] = fs[p] /\ data'[fs'[p]] = data[fs[p]]
<1>1. Entry(p) = <<fs[p], data[fs[p]]>>
  BY DEF Entry
<1>2. Exists(p)'
  <2>1. ASSUME ~Exists(p)' PROVE FALSE
    <3>1. Entry(p)' = <<>>
      BY <2>1 DEF Entry
    <3> QED
      BY <1>1, <3>1
  <2> QED
    BY <2>1
<1>3. Entry(p)' = <<fs'[p], data'[fs'[p]]>>
  BY <1>2 DEF Entry
<1> QED
  BY <1>1, <1>2, <1>3

(* A step of actor a leaves the view of a client it does not disturb.      *)
LEMMA OthersView ==
  ASSUME ViewIsCurrent, NEW a, NEW clobbers, Notice(a, clobbers),
         NEW c \in Clients, c # a, c \notin disturbed', call'[c] = call[c]
  PROVE  View(c)'
<1>1. c \notin disturbed /\ ~ViewChanges(c)
  BY DEF Notice
<1>2. View(c)
  BY <1>1, ViewParts
<1> DEFINE p == call[c].path
           q == call[c].to
<1>3. CASE call[c].pc = "truncate"
  <2>1. Entry(p)' = Entry(p) /\ Exists(p) /\ data[fs[p]] = call[c].old
    BY <1>1, <1>2, <1>3 DEF ViewChanges, View
  <2>2. Exists(p)' /\ data'[fs'[p]] = data[fs[p]]
    BY <2>1, SameEntry
  <2> QED
    BY <1>3, <2>1, <2>2 DEF View, Holding, Exists
<1>4. CASE Holding(c)
  <2>1. Entry(p)' = Entry(p) /\ Exists(p) /\ fs[p] = call[c].fd /\ data[fs[p]] = <<>>
    BY <1>1, <1>2, <1>4 DEF ViewChanges, View, Holding
  <2>2. Exists(p)' /\ fs'[p] = fs[p] /\ data'[fs'[p]] = data[fs[p]]
    BY <2>1, SameEntry
  <2> QED
    BY <1>4, <2>1, <2>2 DEF View, Holding, Exists
<1>5. CASE call[c].pc \in {"rename", "trash"}
  <2>1. (q \in DOMAIN fs') = Exists(q) /\ ~Exists(q)
    BY <1>1, <1>2, <1>5 DEF ViewChanges, View
  <2> QED
    BY <1>5, <2>1 DEF View, Holding, Exists
<1>6. CASE call[c].pc \notin {"truncate", "rename", "trash"} /\ ~Holding(c)
  BY <1>6 DEF View, Holding
<1> QED
  BY <1>3, <1>4, <1>5, <1>6

(* ... and disturbs no client that holds a file open, unless it races.     *)
LEMMA OthersApart ==
  ASSUME HoldersApart, NEW a, NEW clobbers, Notice(a, clobbers), ~raced'
  PROVE  /\ ~raced /\ ~clobbers
         /\ \A c \in Clients : c # a /\ Holding(c) => c \notin disturbed'
  BY DEF Notice, HoldersApart

(* What a step of one client has to show.                                  *)
LEMMA StepInv ==
  ASSUME Inv, TypeOK', OneName', NEW a \in Clients, NEW r, NEW clobbers,
         call' = [call EXCEPT ![a] = r], Notice(a, clobbers),
         r.pc = "truncate" => r.old # <<>>,
         View(a)',
         r.pc \in {"createWrite", "rewrite"} /\ ~raced /\ ~clobbers
            => \A d \in Clients : d # a /\ Holding(d) => call[d].path # r.path
  PROVE  Inv'
<1>1. call'[a] = r /\ \A d \in Clients : d # a => call'[d] = call[d]
  BY DEF Inv, TypeOK
<1>2. ViewIsCurrent'
  <2>1. \A c \in Clients : c \notin disturbed' => View(c)'
    BY <1>1, OthersView DEF Inv
  <2> QED
    BY <2>1 DEF ViewIsCurrent, View
<1>3. HoldersApart'
  <2> SUFFICES ASSUME ~raced' PROVE HoldersApart'
      BY DEF HoldersApart
  <2>1. /\ ~raced /\ ~clobbers
        /\ \A c \in Clients : c # a /\ Holding(c) => c \notin disturbed'
    BY OthersApart DEF Inv
  <2>2. a \notin disturbed'
    BY DEF Notice
  <2>3. \A c \in Clients : c # a => (Holding(c)' <=> Holding(c))
    BY <1>1 DEF Holding
  <2>4. Holding(a)' <=> r.pc \in {"createWrite", "rewrite"}
    BY <1>1 DEF Holding
  <2>5. ASSUME NEW c \in Clients, NEW d \in Clients, Holding(c)', Holding(d)',
               call'[c].path = call'[d].path, c # d
        PROVE  FALSE
    <3>1. CASE c # a /\ d # a
      BY <1>1, <2>1, <2>3, <2>5, <3>1 DEF Inv, HoldersApart
    <3>2. CASE c = a /\ d # a
      BY <1>1, <2>1, <2>3, <2>4, <2>5, <3>2
    <3>3. CASE c # a /\ d = a
      BY <1>1, <2>1, <2>3, <2>4, <2>5, <3>3
    <3> QED
      BY <2>5, <3>1, <3>2, <3>3
  <2> QED
    BY <2>1, <2>2, <2>3, <2>5 DEF HoldersApart
<1>4. ReadsText'
  BY <1>1 DEF Inv, ReadsText
<1> QED
  BY <1>2, <1>3, <1>4 DEF Inv

(* A step that returns, or goes to a step at which nothing seen matters.   *)
Careless == Steps \ {"createWrite", "truncate", "rewrite", "rename", "trash"}

LEMMA CarelessInv ==
  ASSUME Inv, TypeOK', OneName', NEW a \in Clients, NEW r, r.pc \in Careless,
         NEW clobbers, call' = [call EXCEPT ![a] = r], Notice(a, clobbers)
  PROVE  Inv'
<1>1. call'[a] = r
  BY DEF Inv, TypeOK
<1>2. View(a)'
  BY <1>1 DEF View, Holding, Careless
<1> QED
  BY <1>2, StepInv DEF Careless

(* The changes of the directory keep names apart.                          *)
LEMMA LinkOneName ==
  ASSUME TypeOK, OneName, NEW p \in Path, fs' = Link(p, OpenAt(p)) PROVE OneName'
<1>1. \A q \in DOMAIN fs : fs[q] \in 1..Len(data)
  BY DEF TypeOK
<1>2. Len(data) \in Nat
  BY LenProperties DEF TypeOK
<1>3. CASE Exists(p)
  BY <1>3 DEF OneName, Link, OpenAt, Exists
<1>4. CASE ~Exists(p)
  BY <1>1, <1>2, <1>4 DEF OneName, Link, OpenAt, Exists
<1> QED
  BY <1>3, <1>4

LEMMA RelinkOneName ==
  ASSUME OneName, NEW p, NEW q, Exists(p), fs' = Relink(p, q) PROVE OneName'
  BY DEF OneName, Relink, Exists

LEMMA UnlinkOneName ==
  ASSUME OneName, NEW p, fs' = Unlink(p) PROVE OneName'
  BY DEF OneName, Unlink

LEMMA UnchangedOneName == OneName /\ UNCHANGED fs => OneName'
  BY DEF OneName

LEMMA RequestInv ==
  ASSUME Inv, TypeOK', NEW c \in Clients, Request(c) PROVE Inv'
<1>0. /\ TypeOK /\ OneName /\ DiskOK(fs, data)
      /\ Idle = [pc |-> "idle", path |-> NoPath, to |-> NoPath,
                 old |-> <<>>, text |-> <<>>, fd |-> 0, n |-> 0]
  BY TypeParts DEF Inv, Idle
<1>1. CASE CreateOpen(c)
  <2> DEFINE p(d, n) == Plain(d, n)
             r(d, n, t) == [Idle EXCEPT !.pc = "createWrite", !.path = p(d, n),
                                        !.text = t, !.fd = OpenAt(p(d, n))]
  <2>1. PICK d \in Dirs, n \in Names, t \in Contents :
          /\ ~Exists(p(d, n)) /\ fs' = Link(p(d, n), OpenAt(p(d, n)))
          /\ data' = Created(p(d, n)) /\ call' = [call EXCEPT ![c] = r(d, n, t)]
          /\ Notice(c, FALSE)
    BY <1>1 DEF CreateOpen, Begin, Excl
  <2>2. p(d, n) \in Path
    BY PlainIsPath
  <2>3. /\ OneName'
        /\ OpenAt(p(d, n)) = Len(data) + 1 /\ data'[OpenAt(p(d, n))] = <<>>
    BY <1>0, <2>1, <2>2, OpenOK, LinkOneName
  <2>4. /\ r(d, n, t).pc = "createWrite" /\ r(d, n, t).path = p(d, n)
        /\ r(d, n, t).fd = OpenAt(p(d, n))
    BY <1>0
  <2>5. ~raced => \A e \in Clients : e # c /\ Holding(e) => call[e].path # p(d, n)
    BY <2>1, ViewParts DEF Inv, HoldersApart, View
  <2> HIDE DEF p, r
  <2>6. View(c)'
    <3>1. call'[c] = r(d, n, t)
      BY <1>0, <2>1 DEF TypeOK
    <3>2. p(d, n) \in DOMAIN fs' /\ fs'[p(d, n)] = OpenAt(p(d, n))
      BY <2>1 DEF Link
    <3> QED
      BY <2>3, <2>4, <3>1, <3>2 DEF View, Holding, Exists
  <2> QED
    BY <2>1, <2>3, <2>4, <2>5, <2>6, StepInv
<1>2. CASE AppendOpen(c)
  <2> DEFINE r(p, t) == [Idle EXCEPT !.pc = "appendWrite", !.path = p,
                                     !.text = t, !.fd = OpenAt(p)]
  <2>1. PICK p \in Path, t \in Contents :
          /\ fs' = Link(p, OpenAt(p)) /\ call' = [call EXCEPT ![c] = r(p, t)]
          /\ Notice(c, FALSE)
    BY <1>2, PlainIsPath DEF AppendOpen, Begin
  <2>2. r(p, t).pc \in Careless
    BY <1>0 DEF Careless, Steps
  <2>3. OneName'
    BY <1>0, <2>1, LinkOneName
  <2> HIDE DEF r
  <2> QED
    BY <2>1, <2>2, <2>3, CarelessInv
<1>3. ASSUME NEW p \in DOMAIN fs, NEW new, data[fs[p]] # <<>>,
             Begin(c, [Idle EXCEPT !.pc = "truncate", !.path = p,
                                   !.old = data[fs[p]], !.text = new]),
             UNCHANGED disk, Notice(c, FALSE)
      PROVE  Inv'
  <2> DEFINE r == [Idle EXCEPT !.pc = "truncate", !.path = p, !.old = data[fs[p]],
                               !.text = new]
  <2>1. r.pc = "truncate" /\ r.path = p /\ r.old = data[fs[p]]
    BY <1>0
  <2>2. call' = [call EXCEPT ![c] = r] /\ UNCHANGED <<fs, data>> /\ Notice(c, FALSE)
    BY <1>3 DEF Begin, disk
  <2> HIDE DEF r
  <2>3. View(c)'
    BY <1>0, <2>1, <2>2 DEF View, Holding, Exists, TypeOK
  <2> QED
    BY <1>0, <1>3, <2>1, <2>2, <2>3, UnchangedOneName, StepInv
<1>4. CASE EditRead(c)
  <2>1. PICK p \in DOMAIN fs, f \in Text, s \in Contents \cup {<<>>} :
          /\ Occurrences(data[fs[p]], f) # {}
          /\ Begin(c, [Idle EXCEPT !.pc = "truncate", !.path = p, !.old = data[fs[p]],
                                   !.text = Substitute(data[fs[p]], f, s)])
          /\ UNCHANGED disk /\ Notice(c, FALSE)
    BY <1>4 DEF EditRead, Found
  <2>2. data[fs[p]] # <<>>
    BY <2>1 DEF Occurrences
  <2> QED
    BY <1>3, <2>1, <2>2
<1>5. CASE SectionRead(c)
  <2>1. PICK p \in DOMAIN fs :
          /\ data[fs[p]] # <<>>
          /\ \E new :
                Begin(c, [Idle EXCEPT !.pc = "truncate", !.path = p,
                                      !.old = data[fs[p]], !.text = new])
          /\ UNCHANGED disk /\ Notice(c, FALSE)
    <3> SUFFICES ASSUME NEW p \in DOMAIN fs, NEW t \in Contents \cup {<<>>},
                        NEW b \in 1..Len(data[fs[p]]), NEW e \in b..Len(data[fs[p]])
                 PROVE  data[fs[p]] # <<>>
        BY <1>5 DEF SectionRead
    <3>1. data[fs[p]] = <<>> => Len(data[fs[p]]) = 0
      BY EmptySeq
    <3> QED
      BY <3>1
  <2> QED
    BY <1>3, <2>1
<1>6. CASE MoveStatSrc(c) \/ RestoreStatSrc(c) \/ DeleteStat(c)
  <2>1. PICK r : /\ r.pc \in Careless /\ call' = [call EXCEPT ![c] = r]
                 /\ UNCHANGED fs /\ Notice(c, FALSE)
    BY <1>0, <1>6 DEF MoveStatSrc, RestoreStatSrc, DeleteStat, Begin, disk,
                      Careless, Steps
  <2> QED
    BY <1>0, <2>1, UnchangedOneName, CarelessInv
<1> QED
  BY <1>1, <1>2, <1>4, <1>5, <1>6 DEF Request

LEMMA ContinueInv ==
  ASSUME Inv, TypeOK', NEW c \in Clients, Continue(c) PROVE Inv'
<1> DEFINE me == call[c]
<1>0. /\ TypeOK /\ OneName /\ DiskOK(fs, data) /\ me \in Call
      /\ Idle.pc \in Careless
  BY TypeParts, IdleOK DEF Inv, Careless, Steps
<1>1. CASE AppendWrite(c) \/ Write(c)
  <2>1. PICK clobbers : /\ call' = [call EXCEPT ![c] = Idle] /\ UNCHANGED fs
                        /\ Notice(c, clobbers)
    BY <1>1 DEF AppendWrite, Write, Return, Goto
  <2> QED
    BY <1>0, <2>1, UnchangedOneName, CarelessInv
<1>2. CASE OpenTrunc(c)
  <2> DEFINE p == me.path
             r == [me EXCEPT !.pc = "rewrite", !.fd = OpenAt(p)]
  <2>1. /\ me.pc = "truncate"
        /\ fs' = Link(p, OpenAt(p)) /\ data' = [Created(p) EXCEPT ![OpenAt(p)] = <<>>]
        /\ call' = [call EXCEPT ![c] = r] /\ Notice(c, c \in disturbed)
    BY <1>2 DEF OpenTrunc, Goto
  <2>2. p \in Path /\ r.pc = "rewrite" /\ r.path = p /\ r.fd = OpenAt(p)
    BY <1>0 DEF Call
  <2>3. OneName'
    BY <1>0, <2>1, <2>2, LinkOneName
  <2>4. data'[OpenAt(p)] = <<>>
    BY <1>0, <2>1, <2>2, OpenOK, PutOK, EmptySeq
  <2>5. p \in DOMAIN fs' /\ fs'[p] = OpenAt(p)
    BY <2>1 DEF Link
  <2>6. call'[c] = r
    BY <1>0, <2>1 DEF TypeOK
  <2>7. ~raced /\ c \notin disturbed
           => \A d \in Clients : d # c /\ Holding(d) => call[d].path # p
    BY <2>1, ViewParts DEF Inv, HoldersApart, View, ReadsText
  <2> HIDE DEF r
  <2>8. View(c)'
    BY <2>2, <2>4, <2>5, <2>6 DEF View, Holding, Exists
  <2> QED
    BY <2>1, <2>2, <2>3, <2>7, <2>8, StepInv
<1>3. CASE MoveStatDst(c)
  <2>1. CASE call' = [call EXCEPT ![c] = Idle]
    BY <1>0, <1>3, <2>1, UnchangedOneName, CarelessInv DEF MoveStatDst, disk
  <2>2. CASE ~Exists(me.to) /\ call' = [call EXCEPT ![c] = [me EXCEPT !.pc = "rename"]]
    <3> DEFINE r == [me EXCEPT !.pc = "rename"]
    <3>1. r.pc = "rename" /\ r.to = me.to /\ call'[c] = r
      BY <1>0, <2>2 DEF Call, TypeOK
    <3>2. UNCHANGED fs /\ Notice(c, FALSE) /\ call' = [call EXCEPT ![c] = r]
      BY <1>3, <2>2 DEF MoveStatDst, disk
    <3> HIDE DEF r
    <3>3. View(c)'
      BY <2>2, <3>1, <3>2 DEF View, Holding, Exists
    <3> QED
      BY <1>0, <3>1, <3>2, <3>3, UnchangedOneName, StepInv
  <2> QED
    BY <1>3, <2>1, <2>2 DEF MoveStatDst, Return, Goto, StatFinds
<1>4. CASE RemoveAll(c)
  BY <1>0, <1>4, UnlinkOneName, CarelessInv DEF RemoveAll, Return, Goto
<1>5. CASE Probe(c)
  <2> DEFINE q == Candidate(me.path, me.n)
  <2>0. me.pc = "probe" /\ UNCHANGED fs /\ Notice(c, FALSE)
    BY <1>5 DEF Probe, disk
  <2>1. CASE call' = [call EXCEPT ![c] = [me EXCEPT !.n = NextNumber(@)]]
    <3>1. [me EXCEPT !.n = NextNumber(@)].pc \in Careless
      BY <1>0, <2>0 DEF Call, Careless, Steps
    <3> QED
      BY <1>0, <2>0, <2>1, <3>1, UnchangedOneName, CarelessInv
  <2>2. CASE /\ ~Exists(q)
             /\ call' = [call EXCEPT ![c] = [me EXCEPT !.pc = "trash", !.to = q]]
    <3> DEFINE r == [me EXCEPT !.pc = "trash", !.to = q]
    <3>1. r.pc = "trash" /\ r.to = q /\ call'[c] = r
      BY <1>0, <2>2 DEF Call, TypeOK
    <3> HIDE DEF r, q
    <3>2. View(c)'
      BY <2>0, <2>2, <3>1 DEF View, Holding, Exists
    <3> QED
      BY <1>0, <2>0, <2>2, <3>1, <3>2, UnchangedOneName, StepInv DEF r
  <2> QED
    BY <1>5, <2>1, <2>2 DEF Probe, Goto, Taken
<1>6. CASE Rename(c)
  <2>1. PICK clobbers : Notice(c, clobbers) /\ call' = [call EXCEPT ![c] = Idle]
    BY <1>6 DEF Rename, Return, Goto
  <2>2. OneName'
    BY <1>0, <1>6, RelinkOneName, UnchangedOneName DEF Rename
  <2> QED
    BY <1>0, <2>1, <2>2, CarelessInv
<1> QED
  BY <1>1, <1>2, <1>3, <1>4, <1>5, <1>6 DEF Continue

LEMMA CrashInv == ASSUME Inv, TypeOK', Crash PROVE Inv'
<1>1. call' = [c \in Clients |-> Idle] /\ UNCHANGED <<fs, data>>
  BY DEF Crash
<1>2. \A c \in Clients : call'[c].pc = "idle"
  BY <1>1, IdleOK
<1>3. OneName'
  BY <1>1, UnchangedOneName DEF Inv
<1>4. ViewIsCurrent' /\ ReadsText' /\ HoldersApart'
  BY <1>2 DEF ViewIsCurrent, ReadsText, HoldersApart, Holding
<1> QED
  BY <1>3, <1>4 DEF Inv

LEMMA PullInv == ASSUME Inv, TypeOK', Pull PROVE Inv'
<1>1. UNCHANGED call /\ Notice(Outside, FALSE)
  BY DEF Pull
<1>2. OneName'
  <2>1. ASSUME NEW d \in Dirs, NEW n \in Names,
               fs' = Link(Plain(d, n), OpenAt(Plain(d, n)))
        PROVE  OneName'
    BY <2>1, PlainIsPath, LinkOneName DEF Inv
  <2>2. ASSUME NEW p, fs' = Unlink(p) PROVE OneName'
    BY <2>2, UnlinkOneName DEF Inv
  <2> QED
    BY <2>1, <2>2 DEF Pull
<1>3. \A c \in Clients : c # Outside
  BY ClientsAssumption DEF ClientsAssumption
<1>4. ViewIsCurrent'
  <2>1. \A c \in Clients : c \notin disturbed' => View(c)'
    BY <1>1, <1>3, OthersView DEF Inv
  <2> QED
    BY <2>1 DEF ViewIsCurrent, View
<1>5. HoldersApart'
  <2> SUFFICES ASSUME ~raced' PROVE HoldersApart'
      BY DEF HoldersApart
  <2>1. ~raced /\ \A c \in Clients : Holding(c) => c \notin disturbed'
    BY <1>1, <1>3, OthersApart DEF Inv
  <2>2. \A c \in Clients : Holding(c)' <=> Holding(c)
    BY <1>1 DEF Holding
  <2> QED
    BY <1>1, <2>1, <2>2 DEF Inv, HoldersApart
<1>6. ReadsText'
  BY <1>1 DEF Inv, ReadsText
<1> QED
  BY <1>2, <1>4, <1>5, <1>6 DEF Inv

LEMMA InitInv == Init => Inv
<1> SUFFICES ASSUME Init PROVE Inv
    OBVIOUS
<1>1. \A c \in Clients : call[c].pc = "idle"
  BY IdleOK DEF Init
<1>2. OneName
  <2> DEFINE paths == {StartNotes[i].path : i \in DOMAIN StartNotes}
             inode(p) == CHOOSE i \in DOMAIN StartNotes : StartNotes[i].path = p
  <2>1. \A p \in paths : inode(p) \in DOMAIN StartNotes /\ StartNotes[inode(p)].path = p
    OBVIOUS
  <2>2. fs = [p \in paths |-> inode(p)]
    BY DEF Init
  <2> HIDE DEF paths, inode
  <2> QED
    BY <2>1, <2>2 DEF OneName
<1>3. ViewIsCurrent /\ HoldersApart /\ ReadsText
  BY <1>1 DEF ViewIsCurrent, HoldersApart, ReadsText, Holding
<1> QED
  BY <1>2, <1>3, InitTypeOK DEF Inv

LEMMA NextInv == Inv /\ [Next]_vars => Inv'
<1> SUFFICES ASSUME Inv, [Next]_vars PROVE Inv'
    OBVIOUS
<1>1. TypeOK'
  BY NextTypeOK DEF Inv
<1>2. ASSUME NEW c \in Clients, WriteFails(c) PROVE Inv'
  <2>1. call' = [call EXCEPT ![c] = Idle] /\ UNCHANGED fs /\ Notice(c, TRUE)
    BY <1>2 DEF WriteFails
  <2>2. OneName' /\ Idle.pc \in Careless
    BY <2>1, UnchangedOneName, IdleOK DEF Inv, Careless, Steps
  <2> QED
    BY <1>1, <2>1, <2>2, CarelessInv
<1>3. CASE UNCHANGED vars
  BY <1>1, <1>3 DEF Inv, vars, OneName, ViewIsCurrent, HoldersApart, ReadsText,
                    Holding, Exists
<1> QED
  BY <1>1, <1>2, <1>3, RequestInv, ContinueInv, CrashInv, PullInv DEF Next

LEMMA Invariance == Spec => []Inv
BY InitInv, NextInv, PTL DEF Spec

(* What a client saw of the disk is still so, unless another actor has     *)
(* changed it since: the windows of Edit, ReplaceSection, Move and Delete  *)
(* are the only way to lose an update.                                     *)
THEOREM ViewsCurrent == Spec => []ViewIsCurrent
BY Invariance, PTL DEF Inv

(* Until writers collide, a file that one client writes at offset 0 is     *)
(* held by no other.                                                       *)
THEOREM HoldersAreApart == Spec => []HoldersApart
BY Invariance, PTL DEF Inv

(* A step removes no file from the vault but Delete's RemoveAll and the    *)
(* sync client's own, unless writers collide.                              *)
THEOREM NothingIsLost == Spec => LeavesOnlyByRemoval
<1> DEFINE Kept(i) == \/ i \in {fs'[p] : p \in DOMAIN fs'}
                      \/ \E c \in Clients : RemoveAll(c)
                      \/ Pull
                      \/ raced'
           files == {fs[p] : p \in DOMAIN fs}
<1>1. Inv /\ [Next]_vars => [\A i \in files : Kept(i)]_vars
  <2> SUFFICES ASSUME Inv, Next, NEW p \in DOMAIN fs
               PROVE  Kept(fs[p])
      OBVIOUS
  <2>1. ASSUME NEW q, fs' = Link(q, OpenAt(q)) PROVE Kept(fs[p])
    <3>1. p \in DOMAIN fs' /\ fs'[p] = fs[p]
      BY <2>1 DEF Link, OpenAt, Exists
    <3> QED
      BY <3>1
  <2>2. CASE UNCHANGED fs
    BY <2>2
  <2>3. ASSUME NEW c \in Clients, Request(c) PROVE Kept(fs[p])
    BY <2>1, <2>2, <2>3 DEF Request, CreateOpen, AppendOpen, EditRead, SectionRead,
                            MoveStatSrc, RestoreStatSrc, DeleteStat, disk
  <2>4. ASSUME NEW c \in Clients, Rename(c) PROVE Kept(fs[p])
    <3> DEFINE src == call[c].path
               dst == call[c].to
    <3>1. CASE ~Exists(src)
      BY <2>2, <2>4, <3>1 DEF Rename
    <3>2. CASE Exists(src) /\ c \in disturbed
      BY <2>4, <3>2 DEF Rename, Notice
    <3>3. CASE Exists(src) /\ c \notin disturbed
      <4>1. ~Exists(dst) /\ fs' = Relink(src, dst)
        BY <2>4, <3>3 DEF Rename, Inv, ViewIsCurrent
      <4>2. CASE p = src
        BY <4>1, <4>2 DEF Relink
      <4>3. CASE p # src
        <5>1. p \in DOMAIN fs' /\ fs'[p] = fs[p]
          BY <4>1, <4>3 DEF Relink, Exists
        <5> QED
          BY <5>1
      <4> QED
        BY <4>2, <4>3
    <3> QED
      BY <3>1, <3>2, <3>3
  <2>5. ASSUME NEW c \in Clients, Continue(c) PROVE Kept(fs[p])
    BY <2>1, <2>2, <2>4, <2>5 DEF Continue, AppendWrite, OpenTrunc, Write,
                                  MoveStatDst, Probe, disk
  <2>6. ASSUME NEW c \in Clients, WriteFails(c) PROVE Kept(fs[p])
    BY <2>2, <2>6 DEF WriteFails
  <2>7. CASE Crash
    BY <2>2, <2>7 DEF Crash
  <2> QED
    BY <2>3, <2>5, <2>6, <2>7 DEF Next
<1> QED
  BY <1>1, Invariance, PTL DEF Spec, LeavesOnlyByRemoval

-----------------------------------------------------------------------------
(***************************************************************************)
(* The vault as NoteStore has it.  What a client is about to write: a text *)
(* it was sent, or one that an operation makes of what it has read.        *)
(***************************************************************************)
Derived(old, new) ==
  \/ \E f \in ToSet(old), r \in Contents \cup {<<>>} :
        new = Substitute(old, f, r)
  \/ \E b \in 1..Len(old) : \E e \in b..Len(old) :
        \E t \in Contents \cup {<<>>} :
           new = SubSeq(old, 1, b) \o t \o SubSeq(old, e + 1, Len(old))

WritesOwn(r) ==
  /\ r.pc \in {"createWrite", "appendWrite"} => r.text \in Contents
  /\ r.pc \in {"truncate", "rewrite"} => Derived(r.old, r.text)

TextsAreOwn == \A c \in Clients : WritesOwn(call[c])

LEMMA RestOwnsNothing ==
  ASSUME NEW r, r.pc \notin {"createWrite", "appendWrite", "truncate", "rewrite"}
  PROVE  WritesOwn(r)
  BY DEF WritesOwn

LEMMA OneOwns ==
  ASSUME TypeOK, TextsAreOwn, NEW c \in Clients, NEW r, WritesOwn(r),
         call' = [call EXCEPT ![c] = r]
  PROVE  TextsAreOwn'
  BY DEF TypeOK, TextsAreOwn

LEMMA RequestOwns ==
  ASSUME TypeOK, TextsAreOwn, NEW c \in Clients, Request(c)
  PROVE  TextsAreOwn'
<1>0. Idle = [pc |-> "idle", path |-> NoPath, to |-> NoPath,
              old |-> <<>>, text |-> <<>>, fd |-> 0, n |-> 0]
  BY DEF Idle
<1>1. ASSUME NEW d \in Dirs, NEW n \in Names, NEW t \in Contents,
             NEW pc \in {"createWrite", "appendWrite"},
             Begin(c, [Idle EXCEPT !.pc = pc, !.path = Plain(d, n), !.text = t,
                                   !.fd = OpenAt(Plain(d, n))])
      PROVE  TextsAreOwn'
  <2> DEFINE r == [Idle EXCEPT !.pc = pc, !.path = Plain(d, n), !.text = t,
                               !.fd = OpenAt(Plain(d, n))]
  <2>1. r.pc = pc /\ r.text = t
    BY <1>0
  <2>2. call' = [call EXCEPT ![c] = r]
    BY <1>1 DEF Begin
  <2> HIDE DEF r
  <2>3. WritesOwn(r)
    BY <2>1 DEF WritesOwn
  <2> QED
    BY <2>2, <2>3, OneOwns
<1>2. ASSUME NEW p, NEW old, NEW new, Derived(old, new),
             Begin(c, [Idle EXCEPT !.pc = "truncate", !.path = p, !.old = old,
                                   !.text = new])
      PROVE  TextsAreOwn'
  <2> DEFINE r == [Idle EXCEPT !.pc = "truncate", !.path = p, !.old = old,
                               !.text = new]
  <2>1. r.pc = "truncate" /\ r.old = old /\ r.text = new
    BY <1>0
  <2>2. call' = [call EXCEPT ![c] = r]
    BY <1>2 DEF Begin
  <2> HIDE DEF r
  <2>3. WritesOwn(r)
    BY <1>2, <2>1 DEF WritesOwn
  <2> QED
    BY <2>2, <2>3, OneOwns
<1>3. CASE EditRead(c)
  <2>1. PICK p \in DOMAIN fs, f \in Text, r \in Contents \cup {<<>>} :
          /\ Occurrences(data[fs[p]], f) # {}
          /\ Begin(c, [Idle EXCEPT !.pc = "truncate", !.path = p,
                                   !.old = data[fs[p]],
                                   !.text = Substitute(data[fs[p]], f, r)])
    BY <1>3 DEF EditRead, Found
  <2>2. f \in ToSet(data[fs[p]])
    BY <2>1 DEF Occurrences, ToSet
  <2>3. Derived(data[fs[p]], Substitute(data[fs[p]], f, r))
    BY <2>2 DEF Derived
  <2> QED
    BY <1>2, <2>1, <2>3
<1>4. CASE SectionRead(c)
  <2> DEFINE old(p) == data[fs[p]]
             new(p, t, b, e) == SubSeq(old(p), 1, b) \o t
                                  \o SubSeq(old(p), e + 1, Len(old(p)))
  <2>1. PICK p \in DOMAIN fs, t \in Contents \cup {<<>>} :
           \E b \in 1..Len(old(p)) : \E e \in b..Len(old(p)) :
              Begin(c, [Idle EXCEPT !.pc = "truncate", !.path = p, !.old = old(p),
                                    !.text = new(p, t, b, e)])
    BY <1>4 DEF SectionRead
  <2>2. PICK b \in 1..Len(old(p)) : \E e \in b..Len(old(p)) :
              Begin(c, [Idle EXCEPT !.pc = "truncate", !.path = p, !.old = old(p),
                                    !.text = new(p, t, b, e)])
    BY <2>1
  <2>3. PICK e \in b..Len(old(p)) :
              Begin(c, [Idle EXCEPT !.pc = "truncate", !.path = p, !.old = old(p),
                                    !.text = new(p, t, b, e)])
    BY <2>2
  <2>4. Derived(old(p), new(p, t, b, e))
    BY DEF Derived
  <2> QED
    BY <1>2, <2>3, <2>4
<1>5. ASSUME NEW r, r.pc \in {"statDst", "remove", "probe"}, Begin(c, r)
      PROVE  TextsAreOwn'
  BY <1>5, RestOwnsNothing, OneOwns DEF Begin
<1>6. ASSUME NEW p, NEW q,
             Begin(c, [Idle EXCEPT !.pc = "statDst", !.path = p, !.to = q])
      PROVE  TextsAreOwn'
  <2> DEFINE r == [Idle EXCEPT !.pc = "statDst", !.path = p, !.to = q]
  <2>1. Begin(c, r) /\ r.pc = "statDst"
    BY <1>0, <1>6
  <2> HIDE DEF r
  <2> QED
    BY <1>5, <2>1
<1>7. CASE MoveStatSrc(c)
  BY <1>6, <1>7 DEF MoveStatSrc
<1>10. CASE RestoreStatSrc(c)
  BY <1>6, <1>10 DEF RestoreStatSrc
<1>11. CASE DeleteStat(c)
  <2> DEFINE step(p, permanent) == IF permanent \/ p.dir = Trash
                                   THEN "remove" ELSE "probe"
             r(p, permanent) == [Idle EXCEPT !.pc = step(p, permanent), !.path = p]
  <2>1. PICK p \in DOMAIN fs, permanent \in BOOLEAN : Begin(c, r(p, permanent))
    BY <1>11 DEF DeleteStat
  <2>2. r(p, permanent).pc = step(p, permanent)
    BY <1>0
  <2>3. step(p, permanent) \in {"remove", "probe"}
    OBVIOUS
  <2> HIDE DEF r, step
  <2> QED
    BY <1>5, <2>1, <2>2, <2>3
<1>8. CASE CreateOpen(c)
  BY <1>1, <1>8 DEF CreateOpen
<1>9. CASE AppendOpen(c)
  BY <1>1, <1>9 DEF AppendOpen
<1> QED
  BY <1>3, <1>4, <1>7, <1>8, <1>9, <1>10, <1>11 DEF Request

LEMMA ContinueOwns ==
  ASSUME TypeOK, TextsAreOwn, NEW c \in Clients, Continue(c) \/ WriteFails(c)
  PROVE  TextsAreOwn'
<1> DEFINE me == call[c]
<1>0. me \in Call /\ WritesOwn(me) /\ WritesOwn(Idle)
  BY IdleOK DEF TypeOK, TextsAreOwn, WritesOwn
<1>1. CASE call' = [call EXCEPT ![c] = Idle]
  BY <1>0, <1>1, OneOwns
<1>2. CASE OpenTrunc(c)
  <2> DEFINE r == [me EXCEPT !.pc = "rewrite", !.fd = OpenAt(me.path)]
  <2>1. me.pc = "truncate" /\ call' = [call EXCEPT ![c] = r]
    BY <1>2 DEF OpenTrunc, Goto
  <2>2. r.pc = "rewrite" /\ r.old = me.old /\ r.text = me.text
    BY <1>0 DEF Call
  <2> HIDE DEF r
  <2>3. WritesOwn(r)
    BY <1>0, <2>1, <2>2 DEF WritesOwn
  <2> QED
    BY <2>1, <2>3, OneOwns
<1>3. ASSUME NEW r, r.pc \in {"rename", "probe", "trash"},
             call' = [call EXCEPT ![c] = r]
      PROVE  TextsAreOwn'
  BY <1>3, RestOwnsNothing, OneOwns
<1>4. CASE MoveStatDst(c)
  <2> DEFINE r == [me EXCEPT !.pc = "rename"]
  <2>1. r.pc = "rename"
    BY <1>0 DEF Call
  <2>2. call' = [call EXCEPT ![c] = Idle] \/ call' = [call EXCEPT ![c] = r]
    BY <1>4 DEF MoveStatDst, Return, Goto
  <2> HIDE DEF r
  <2> QED
    BY <1>1, <1>3, <2>1, <2>2
<1>5. CASE Probe(c)
  <2> DEFINE q == Candidate(me.path, me.n)
             r1 == [me EXCEPT !.n = NextNumber(me.n)]
             r2 == [me EXCEPT !.pc = "trash", !.to = q]
  <2>1. me.pc = "probe" /\ (call' = [call EXCEPT ![c] = r1]
                              \/ call' = [call EXCEPT ![c] = r2])
    BY <1>5 DEF Probe, Goto
  <2>2. r1.pc = "probe" /\ r2.pc = "trash"
    BY <1>0, <2>1 DEF Call
  <2> HIDE DEF r1, r2
  <2> QED
    BY <1>3, <2>1, <2>2
<1> QED
  BY <1>1, <1>2, <1>4, <1>5 DEF Continue, WriteFails, AppendWrite, Write, RemoveAll,
                                Rename, Return, Goto

LEMMA NextOwns == Inv /\ TextsAreOwn /\ [Next]_vars => TextsAreOwn'
<1> SUFFICES ASSUME Inv, TextsAreOwn, [Next]_vars PROVE TextsAreOwn'
    OBVIOUS
<1>1. TypeOK
  BY DEF Inv
<1>2. CASE UNCHANGED call
  BY <1>2 DEF TextsAreOwn
<1>3. CASE Crash
  BY <1>3, IdleOK DEF Crash, TextsAreOwn, WritesOwn
<1> QED
  BY <1>1, <1>2, <1>3, RequestOwns, ContinueOwns DEF Next, Pull, vars

-----------------------------------------------------------------------------
(* A file that an Append has made is empty until somebody writes it, and   *)
(* nobody writes it at offset 0.                                           *)
NothingYet ==
  /\ \A i \in unborn : data[i] = <<>>
  /\ \A c \in Clients : Holding(c) => call[c].fd \notin unborn

LEMMA NothingStays ==
  ASSUME NothingYet, unborn' \subseteq unborn, \A i \in unborn' : data'[i] = data[i],
         \A c \in Clients : Holding(c)' => \/ call'[c].fd \notin unborn'
                                           \/ Holding(c) /\ call'[c].fd = call[c].fd
  PROVE  NothingYet'
  BY DEF NothingYet

LEMMA NextNothing ==
  ASSUME TypeOK, NothingYet, [Next]_vars PROVE NothingYet'
<1>0. /\ DiskOK(fs, data) /\ data \in Seq(Seq(Text)) /\ Len(data) \in Nat
      /\ unborn \subseteq 1..Len(data)
      /\ Idle = [pc |-> "idle", path |-> NoPath, to |-> NoPath,
                 old |-> <<>>, text |-> <<>>, fd |-> 0, n |-> 0]
      /\ \A c \in Clients : CallOK(call[c], data)
  BY TypeParts, LenProperties DEF DiskOK, Idle
<1>1. ASSUME NEW c \in Clients, NEW r, call' = [call EXCEPT ![c] = r]
      PROVE  call'[c] = r /\ \A d \in Clients : d # c => call'[d] = call[d]
  BY <1>1 DEF TypeOK
<1>2. ASSUME UNCHANGED <<data, unborn>>, NEW c \in Clients, NEW r,
             r.pc \notin {"createWrite", "rewrite"}, call' = [call EXCEPT ![c] = r]
      PROVE  NothingYet'
  BY <1>1, <1>2, NothingStays DEF Holding
<1>3. ASSUME NEW p \in Path, data' = Created(p)
      PROVE  /\ \A i \in unborn : data'[i] = data[i]
             /\ ~Exists(p) => OpenAt(p) \notin unborn /\ data'[OpenAt(p)] = <<>>
  <2>1. /\ \A i \in 1..Len(data) : Created(p)[i] = data[i]
        /\ ~Exists(p) => OpenAt(p) = Len(data) + 1 /\ Created(p)[OpenAt(p)] = <<>>
    BY <1>0, OpenOK
  <2> QED
    BY <1>0, <1>3, <2>1
<1>4. ASSUME NEW i, NEW d \in Seq(Seq(Text)), NEW t, Len(d) >= Len(data),
             \A j \in 1..Len(data) : d[j] = data[j],
             data' = [d EXCEPT ![i] = t], Born(i)
      PROVE  /\ unborn' \subseteq unborn /\ i \notin unborn'
             /\ \A j \in unborn' : data'[j] = data[j]
  <2>1. unborn' \subseteq unborn /\ i \notin unborn'
    BY <1>4 DEF Born
  <2>2. ASSUME NEW j \in unborn' PROVE data'[j] = data[j]
    <3>1. j # i /\ j \in 1..Len(data) /\ j \in 1..Len(d) /\ DOMAIN d = 1..Len(d)
      BY <1>0, <1>4, <2>1, LenProperties
    <3>2. data'[j] = d[j]
      BY <1>4, <3>1
    <3> QED
      BY <1>4, <3>1, <3>2
  <2> QED
    BY <2>1, <2>2
<1>5. ASSUME NEW c \in Clients, CreateOpen(c) PROVE NothingYet'
  <2>1. PICK p \in Path, t \in Contents :
          /\ ~Exists(p) /\ data' = Created(p) /\ UNCHANGED unborn
          /\ call' = [call EXCEPT ![c] = [Idle EXCEPT !.pc = "createWrite",
                         !.path = p, !.text = t, !.fd = OpenAt(p)]]
    BY <1>5, PlainIsPath DEF CreateOpen, Begin, Excl
  <2>2. call'[c].fd = OpenAt(p) /\ \A d \in Clients : d # c => call'[d] = call[d]
    <3> DEFINE r == [Idle EXCEPT !.pc = "createWrite", !.path = p,
                                 !.text = t, !.fd = OpenAt(p)]
    <3>1. r.fd = OpenAt(p) /\ call' = [call EXCEPT ![c] = r]
      BY <1>0, <2>1
    <3> HIDE DEF r
    <3> QED
      BY <1>1, <3>1
  <2>3. (\A i \in unborn : data'[i] = data[i]) /\ OpenAt(p) \notin unborn
    BY <1>3, <2>1
  <2>4. ASSUME NEW d \in Clients, Holding(d)'
        PROVE  \/ call'[d].fd \notin unborn'
               \/ Holding(d) /\ call'[d].fd = call[d].fd
    BY <2>1, <2>2, <2>3, <2>4 DEF Holding
  <2> QED
    BY <2>1, <2>3, <2>4, NothingStays
<1>6. ASSUME NEW c \in Clients, AppendOpen(c) PROVE NothingYet'
  <2>1. PICK p \in Path, t \in Contents :
          /\ data' = Created(p)
          /\ unborn' = IF Exists(p) THEN unborn ELSE unborn \cup {OpenAt(p)}
          /\ call' = [call EXCEPT ![c] = [Idle EXCEPT !.pc = "appendWrite",
                         !.path = p, !.text = t, !.fd = OpenAt(p)]]
    BY <1>6, PlainIsPath DEF AppendOpen, Begin
  <2>2. call'[c].pc = "appendWrite" /\ \A d \in Clients : d # c => call'[d] = call[d]
    <3> DEFINE r == [Idle EXCEPT !.pc = "appendWrite", !.path = p,
                                 !.text = t, !.fd = OpenAt(p)]
    <3>1. r.pc = "appendWrite" /\ call' = [call EXCEPT ![c] = r]
      BY <1>0, <2>1
    <3> HIDE DEF r
    <3> QED
      BY <1>1, <3>1
  <2>3. \A i \in unborn' : data'[i] = <<>>
    BY <1>3, <2>1 DEF NothingYet
  <2>4. ASSUME NEW d \in Clients, Holding(d)' PROVE call'[d].fd \notin unborn'
    <3>1. Holding(d) /\ call'[d] = call[d]
      BY <2>2, <2>4 DEF Holding
    <3>2. call[d].fd \in 1..Len(data) /\ call[d].fd \notin unborn
      BY <1>0, <3>1 DEF CallOK, Writing, Holding, NothingYet
    <3>3. ~Exists(p) => OpenAt(p) = Len(data) + 1
      BY DEF OpenAt
    <3>4. unborn' \subseteq unborn \cup {Len(data) + 1}
      BY <2>1, <3>3
    <3>5. call[d].fd # Len(data) + 1
      BY <1>0, <3>2
    <3> QED
      BY <3>1, <3>2, <3>4, <3>5
  <2> QED
    BY <2>3, <2>4 DEF NothingYet
<1>7. ASSUME NEW c \in Clients, AppendWrite(c) \/ Write(c) \/ WriteFails(c)
      PROVE  NothingYet'
  <2>1. PICK i, t : data' = [data EXCEPT ![i] = t] /\ Born(i)
    BY <1>7 DEF AppendWrite, Write, WriteFails
  <2>2. call' = [call EXCEPT ![c] = Idle]
    BY <1>7 DEF AppendWrite, Write, WriteFails, Return, Goto
  <2>3. Idle.pc = "idle" /\ call'[c] = Idle /\ \A d \in Clients : d # c => call'[d] = call[d]
    BY <1>0, <1>1, <2>2
  <2>4. unborn' \subseteq unborn /\ \A j \in unborn' : data'[j] = data[j]
    <3>1. Len(data) >= Len(data) /\ \A j \in 1..Len(data) : data[j] = data[j]
      BY <1>0
    <3>2. data \in Seq(Seq(Text))
      BY <1>0
    <3> QED
      BY <1>4, <2>1, <3>1, <3>2
  <2> QED
    BY <2>3, <2>4, NothingStays DEF Holding
<1>8. ASSUME NEW c \in Clients, OpenTrunc(c) PROVE NothingYet'
  <2> DEFINE p == call[c].path
             i == OpenAt(p)
             r == [call[c] EXCEPT !.pc = "rewrite", !.fd = i]
  <2>1. data' = [Created(p) EXCEPT ![i] = <<>>] /\ Born(i) /\ call' = [call EXCEPT ![c] = r]
    BY <1>8 DEF OpenTrunc, Goto
  <2>2. p \in Path /\ r.fd = i
    BY <1>0 DEF CallOK, Call
  <2>3. /\ Created(p) \in Seq(Seq(Text)) /\ Len(Created(p)) >= Len(data)
        /\ \A j \in 1..Len(data) : Created(p)[j] = data[j]
    BY <1>0, <2>2, OpenOK
  <2> HIDE DEF r, i, p
  <2>4. /\ unborn' \subseteq unborn /\ i \notin unborn'
        /\ \A j \in unborn' : data'[j] = data[j]
    BY <1>4, <2>1, <2>3
  <2>5. call'[c].fd = i /\ \A d \in Clients : d # c => call'[d] = call[d]
    BY <1>1, <2>1, <2>2
  <2> QED
    BY <2>4, <2>5, NothingStays DEF Holding
<1>9. CASE Pull
  <2>1. CASE UNCHANGED <<data, unborn>>
    BY <1>9, <2>1, NothingStays DEF Pull, Holding
  <2>2. ASSUME NEW p \in Path, NEW t, data' = [Created(p) EXCEPT ![OpenAt(p)] = t],
               Born(OpenAt(p))
        PROVE  NothingYet'
    <3>1. /\ Created(p) \in Seq(Seq(Text)) /\ Len(Created(p)) >= Len(data)
          /\ \A j \in 1..Len(data) : Created(p)[j] = data[j]
      BY <1>0, OpenOK
    <3>2. unborn' \subseteq unborn /\ \A j \in unborn' : data'[j] = data[j]
      BY <1>4, <2>2, <3>1
    <3> QED
      BY <1>9, <3>2, NothingStays DEF Pull, Holding
  <2> QED
    BY <1>9, <2>1, <2>2, PlainIsPath DEF Pull
<1>10. CASE Crash
  BY <1>10 DEF Crash, NothingYet, Holding, Idle
<1>11. CASE UNCHANGED vars
  BY <1>11 DEF vars, NothingYet, Holding
<1>12. ASSUME NEW c \in Clients, \/ EditRead(c) \/ SectionRead(c) \/ MoveStatSrc(c)
                                 \/ RestoreStatSrc(c) \/ DeleteStat(c)
       PROVE  NothingYet'
  <2>1. UNCHANGED <<data, unborn>>
    BY <1>12 DEF EditRead, SectionRead, MoveStatSrc, RestoreStatSrc, DeleteStat, disk
  <2>2. PICK r : r.pc \in Steps \ {"createWrite", "rewrite"} /\ call' = [call EXCEPT ![c] = r]
    BY <1>0, <1>12 DEF EditRead, SectionRead, MoveStatSrc, RestoreStatSrc, DeleteStat,
                      Begin, Steps
  <2> QED
    BY <1>2, <2>1, <2>2
<1>13. ASSUME NEW c \in Clients, MoveStatDst(c) \/ RemoveAll(c) \/ Probe(c) \/ Rename(c)
       PROVE  NothingYet'
  <2>1. UNCHANGED <<data, unborn>>
    BY <1>13 DEF MoveStatDst, RemoveAll, Probe, Rename, disk
  <2>2. call[c] \in Call
    BY <1>0 DEF CallOK
  <2>3. \A d \in Clients : Holding(d)' => Holding(d) /\ call'[d].fd = call[d].fd
    <3>1. PICK r : r.pc \in Steps \ {"createWrite", "rewrite"} /\ call' = [call EXCEPT ![c] = r]
      <4>1. CASE call' = [call EXCEPT ![c] = Idle]
        BY <1>0, <4>1 DEF Steps
      <4>2. CASE MoveStatDst(c)
        BY <1>0, <2>2, <4>2 DEF MoveStatDst, Return, Goto, Call, Steps
      <4>3. CASE Probe(c)
        <5> DEFINE q == Candidate(call[c].path, call[c].n)
                   r1 == [call[c] EXCEPT !.n = NextNumber(call[c].n)]
                   r2 == [call[c] EXCEPT !.pc = "trash", !.to = q]
        <5>1. call[c].pc = "probe" /\ (call' = [call EXCEPT ![c] = r1]
                                         \/ call' = [call EXCEPT ![c] = r2])
          BY <4>3 DEF Probe, Goto
        <5>2. r1.pc = "probe" /\ r2.pc = "trash"
          BY <2>2, <5>1 DEF Call
        <5> HIDE DEF r1, r2
        <5> QED
          BY <5>1, <5>2 DEF Steps
      <4> QED
        BY <1>13, <4>1, <4>2, <4>3 DEF RemoveAll, Rename, Return, Goto
    <3> QED
      BY <1>1, <3>1 DEF Holding
  <2> QED
    BY <2>1, <2>3, NothingStays
<1> QED
  BY <1>5, <1>6, <1>7, <1>8, <1>9, <1>10, <1>11, <1>12, <1>13 DEF Next, Request, Continue

LEMMA NothingInvariance == Spec => []NothingYet
<1>1. Init => NothingYet
  BY IdleOK DEF Init, NothingYet, Holding
<1>2. TypeOK /\ NothingYet /\ [Next]_vars => NothingYet'
  BY NextNothing
<1> QED
  BY <1>1, <1>2, TypeCorrect, PTL DEF Spec

-----------------------------------------------------------------------------
(* What others see of a path: until writers collide, a note that nobody    *)
(* holds open is seen as it is, unless it has just been made; one being    *)
(* rewritten as it was; and one being created not at all.                  *)
Holds(d, p) == Holding(d) /\ call[d].path = p

Held(p) == \E d \in Clients : Holds(d, p)

Shown(p) == p \in DOMAIN fs /\ fs[p] \notin unborn

Seen(p) ==
  /\ ~Held(p) => /\ p \in DOMAIN Visible <=> Shown(p)
                 /\ Shown(p) => Visible[p] = data[fs[p]]
  /\ \A d \in Clients : Holds(d, p) =>
       /\ Shown(p) /\ fs[p] = call[d].fd /\ data[fs[p]] = <<>>
       /\ \A e \in Clients : Holds(e, p) => e = d
       /\ IF call[d].pc = "createWrite"
          THEN p \notin DOMAIN Visible
          ELSE p \in DOMAIN Visible /\ Visible[p] = call[d].old

AllSeen == /\ Visible = [p \in DOMAIN Visible |-> Visible[p]]
           /\ \A p : Seen(p)

LEMMA CalmSeen == Inv /\ NothingYet /\ ~raced => AllSeen
<1> SUFFICES ASSUME Inv, NothingYet, ~raced PROVE AllSeen
    OBVIOUS
<1>1. /\ \A d \in Clients : Holding(d) =>
            LET p == call[d].path
            IN  /\ Shown(p) /\ fs[p] = call[d].fd /\ data[fs[p]] = <<>>
                /\ \A e \in Clients : Holding(e) /\ call[e].path = p => e = d
  BY DEF Inv, HoldersApart, ViewIsCurrent, Exists, Shown, NothingYet
<1>2. /\ DOMAIN Visible = DOMAIN fs \ Hidden
      /\ Visible = [p \in DOMAIN Visible |-> Visible[p]]
      /\ \A p \in DOMAIN Visible :
            Visible[p] = IF Rewriting(p) # {}
                         THEN call[CHOOSE c \in Rewriting(p) : TRUE].old
                         ELSE data[fs[p]]
  BY DEF Visible
<1>3. ASSUME NEW p, ~Held(p)
      PROVE  /\ p \in DOMAIN Visible <=> Shown(p)
             /\ Shown(p) => Visible[p] = data[fs[p]]
  <2>1. (p \in DOMAIN fs => (p \in Hidden <=> fs[p] \in unborn)) /\ Rewriting(p) = {}
    BY <1>3 DEF Held, Holds, Hidden, Rewriting, Holding
  <2> QED
    BY <1>2, <2>1 DEF Shown
<1>4. ASSUME NEW p, NEW d \in Clients, Holds(d, p)
      PROVE  /\ Shown(p) /\ fs[p] = call[d].fd /\ data[fs[p]] = <<>>
             /\ \A e \in Clients : Holds(e, p) => e = d
             /\ IF call[d].pc = "createWrite"
                THEN p \notin DOMAIN Visible
                ELSE p \in DOMAIN Visible /\ Visible[p] = call[d].old
  <2>1. /\ Shown(p) /\ fs[p] = call[d].fd /\ data[fs[p]] = <<>>
        /\ \A e \in Clients : Holds(e, p) => e = d
    BY <1>1, <1>4 DEF Holds
  <2>2. CASE call[d].pc = "createWrite"
    <3>1. p \in Hidden
      BY <1>4, <2>2 DEF Hidden, Holds
    <3> QED
      BY <1>2, <2>1, <2>2, <3>1
  <2>3. CASE call[d].pc # "createWrite"
    <3>1. call[d].pc = "rewrite" /\ call[d].path = p
      BY <1>4, <2>3 DEF Holds, Holding
    <3>2. Rewriting(p) = {d}
      BY <2>1, <3>1 DEF Rewriting, Holds, Holding
    <3>3. p \notin Hidden
      BY <2>1, <2>3 DEF Hidden, Holds, Holding, Shown
    <3>4. (CHOOSE c \in Rewriting(p) : TRUE) = d
      BY <3>2
    <3> QED
      BY <1>2, <2>1, <2>3, <3>2, <3>3, <3>4 DEF Shown
  <2> QED
    BY <2>1, <2>2, <2>3
<1> QED
  BY <1>2, <1>3, <1>4 DEF AllSeen, Seen

LEMMA CalmSeenNext == (Inv /\ NothingYet /\ ~raced)' => AllSeen'
  BY CalmSeen, PTL

(* A step that leaves p to the others, who do not move, ...                *)
LeavesTo(a, p) ==
  /\ \A d \in Clients : d # a => call'[d] = call[d]
  /\ a \in Clients => ~Holds(a, p) /\ ~Holds(a, p)'

SameAt(p) == /\ p \in DOMAIN Visible' <=> p \in DOMAIN Visible
             /\ p \in DOMAIN Visible => Visible'[p] = Visible[p]

(* ... changes what is seen of it only if nobody holds it.                 *)
LEMMA AtPath ==
  ASSUME AllSeen, AllSeen', NEW a, NEW p, LeavesTo(a, p)
  PROVE  /\ Held(p)' <=> Held(p)
         /\ Held(p) => SameAt(p) /\ p \in DOMAIN fs'
         /\ ~Held(p) => /\ p \in DOMAIN Visible <=> Shown(p)
                        /\ p \in DOMAIN Visible' <=> Shown(p)'
                        /\ Shown(p) => Visible[p] = data[fs[p]]
                        /\ Shown(p)' => Visible'[p] = data'[fs'[p]]
<1>1. Seen(p) /\ Seen(p)'
  BY DEF AllSeen
<1>2. \A d \in Clients : /\ Holds(d, p)' <=> Holds(d, p)
                         /\ Holds(d, p) => call'[d] = call[d]
  BY DEF LeavesTo, Holds, Holding
<1>3. Held(p)' <=> Held(p)
  BY <1>2 DEF Held
<1>4. ASSUME Held(p) PROVE SameAt(p) /\ p \in DOMAIN fs'
  <2>1. PICK d \in Clients : Holds(d, p)
    BY <1>4 DEF Held
  <2>2. Holds(d, p)' /\ call'[d] = call[d]
    BY <1>2, <2>1
  <2>3. IF call[d].pc = "createWrite"
        THEN p \notin DOMAIN Visible
        ELSE p \in DOMAIN Visible /\ Visible[p] = call[d].old
    BY <1>1, <2>1 DEF Seen
  <2>4. /\ p \in DOMAIN fs'
        /\ IF call'[d].pc = "createWrite"
           THEN p \notin DOMAIN Visible'
           ELSE p \in DOMAIN Visible' /\ Visible'[p] = call'[d].old
    BY <1>1, <2>2 DEF Seen, Shown
  <2> QED
    BY <2>2, <2>3, <2>4 DEF SameAt
<1>5. ASSUME ~Held(p)
      PROVE  /\ p \in DOMAIN Visible <=> Shown(p)
             /\ p \in DOMAIN Visible' <=> Shown(p)'
             /\ Shown(p) => Visible[p] = data[fs[p]]
             /\ Shown(p)' => Visible'[p] = data'[fs'[p]]
  BY <1>1, <1>3, <1>5 DEF Seen
<1> QED
  BY <1>3, <1>4, <1>5

LEMMA StillThere ==
  ASSUME AllSeen, AllSeen', NEW a, NEW p, LeavesTo(a, p),
         Shown(p)' <=> Shown(p),
         Shown(p) => data'[fs'[p]] = data[fs[p]]
  PROVE  SameAt(p)
  BY AtPath DEF SameAt

(* What the store has, off what it has at each path.                       *)
LEMMA StoreSame ==
  ASSUME AllSeen, AllSeen', \A p : SameAt(p)
  PROVE  Visible' = Visible
<1>1. /\ Visible = [p \in DOMAIN Visible |-> Visible[p]]
      /\ Visible' = [p \in DOMAIN Visible' |-> Visible'[p]]
  BY DEF AllSeen
<1>2. DOMAIN Visible' = DOMAIN Visible
  BY DEF SameAt
<1>3. \A p \in DOMAIN Visible : Visible'[p] = Visible[p]
  BY DEF SameAt
<1> QED
  BY <1>1, <1>2, <1>3

LEMMA StorePut ==
  ASSUME AllSeen, AllSeen', NEW p, \A q : q # p => SameAt(q), p \in DOMAIN Visible'
  PROVE  Store!Put(p, Visible'[p])
<1>1. Visible' = [q \in DOMAIN Visible' |-> Visible'[q]]
  BY DEF AllSeen
<1>2. DOMAIN Visible' = DOMAIN Visible \cup {p}
  BY DEF SameAt
<1>3. \A q \in DOMAIN Visible : q # p => Visible'[q] = Visible[q]
  BY DEF SameAt
<1> QED
  BY <1>1, <1>2, <1>3 DEF Store!Put

LEMMA StoreDrop ==
  ASSUME AllSeen, AllSeen', NEW p, \A q : q # p => SameAt(q),
         p \in DOMAIN Visible, p \notin DOMAIN Visible'
  PROVE  Store!Drop(p)
<1>1. Visible' = [q \in DOMAIN Visible' |-> Visible'[q]]
  BY DEF AllSeen
<1>2. DOMAIN Visible' = DOMAIN Visible \ {p}
  BY DEF SameAt
<1>3. \A q \in DOMAIN Visible : q # p => Visible'[q] = Visible[q]
  BY DEF SameAt
<1> QED
  BY <1>1, <1>2, <1>3 DEF Store!Drop, Store!Without

LEMMA StoreRename ==
  ASSUME AllSeen, AllSeen', NEW p, NEW q, \A r : r \notin {p, q} => SameAt(r),
         p \in DOMAIN Visible, p \notin DOMAIN Visible',
         q \notin DOMAIN Visible, q \in DOMAIN Visible', Visible'[q] = Visible[p]
  PROVE  Store!Rename(p)
<1>1. Visible' = [r \in DOMAIN Visible' |-> Visible'[r]]
  BY DEF AllSeen
<1>2. DOMAIN Visible' = (DOMAIN Visible \ {p}) \cup {q}
  BY DEF SameAt
<1>3. \A r \in DOMAIN Visible : r # p => Visible'[r] = Visible[r]
  BY DEF SameAt
<1>4. Visible' = [r \in (DOMAIN Visible \ {p}) \cup {q} |->
                    IF r = q THEN Visible[p] ELSE Visible[r]]
  BY <1>1, <1>2, <1>3
<1>5. q \in Store!NewPaths
  BY DEF Store!NewPaths
<1> QED
  BY <1>4, <1>5 DEF Store!Rename

(* A step of the store, or none.                                           *)
OneStep == Visible' = Visible \/ Store!Atomic

-----------------------------------------------------------------------------
(* Opening p, and writing no other file, leaves the other paths alone.     *)
LEMMA OpenElsewhere ==
  ASSUME Inv, AllSeen, AllSeen', NEW a, NEW p, NEW q, q # p, LeavesTo(a, q),
         fs' = Link(p, OpenAt(p)),
         \A i \in 1..Len(data) :
            i # OpenAt(p) => data'[i] = data[i] /\ (i \in unborn' <=> i \in unborn)
  PROVE  SameAt(q)
<1>1. q \in DOMAIN fs' <=> q \in DOMAIN fs
  BY DEF Link
<1>2. ASSUME q \in DOMAIN fs
      PROVE  data'[fs'[q]] = data[fs[q]] /\ (fs'[q] \in unborn' <=> fs[q] \in unborn)
  <2>1. fs'[q] = fs[q] /\ fs[q] \in 1..Len(data)
    BY <1>2 DEF Link, Inv, TypeOK
  <2>2. fs[q] # OpenAt(p)
    <3>1. CASE Exists(p)
      BY <1>2, <3>1 DEF OpenAt, Exists, Inv, OneName
    <3>2. CASE ~Exists(p)
      <4>1. Len(data) \in Nat
        BY LenProperties DEF Inv, TypeOK
      <4> QED
        BY <2>1, <3>2, <4>1 DEF OpenAt
    <3> QED
      BY <3>1, <3>2
  <2> QED
    BY <2>1, <2>2
<1> QED
  BY <1>1, <1>2, StillThere DEF Shown

(* The steps that only look.                                               *)
LEMMA LookStep ==
  ASSUME AllSeen, AllSeen', TypeOK, NEW c \in Clients, NEW r, ~Holding(c),
         call' = [call EXCEPT ![c] = r], r.pc \notin {"createWrite", "rewrite"},
         UNCHANGED disk
  PROVE  Visible' = Visible
<1>1. \A p : LeavesTo(c, p)
  BY DEF LeavesTo, Holds, Holding, TypeOK
<1>2. fs' = fs /\ data' = data /\ unborn' = unborn
  BY DEF disk
<1>3. \A p : SameAt(p)
  BY <1>1, <1>2, StillThere DEF Shown
<1> QED
  BY <1>3, StoreSame

(* A path that goes was held by nobody.                                    *)
LEMMA GoneAt ==
  ASSUME AllSeen, AllSeen', NEW a, NEW p, LeavesTo(a, p),
         p \in DOMAIN fs, p \notin DOMAIN fs'
  PROVE  /\ p \notin DOMAIN Visible'
         /\ p \in DOMAIN Visible <=> fs[p] \notin unborn
         /\ p \in DOMAIN Visible => Visible[p] = data[fs[p]]
  BY AtPath DEF Shown

LEMMA UnlinkStep ==
  ASSUME AllSeen, AllSeen', NEW a, NEW p, \A q : LeavesTo(a, q),
         fs' = Unlink(p), UNCHANGED <<data, unborn>>
  PROVE  OneStep
<1>1. \A q : q # p => SameAt(q)
  BY StillThere DEF Unlink, Shown
<1>2. CASE p \notin DOMAIN Visible
  <2>1. SameAt(p)
    <3>1. CASE p \in DOMAIN fs
      BY <1>2, <3>1, GoneAt DEF Unlink, SameAt
    <3>2. CASE p \notin DOMAIN fs
      BY <3>2, StillThere DEF Unlink, Shown
    <3> QED
      BY <3>1, <3>2
  <2>2. \A q : SameAt(q)
    BY <1>1, <2>1
  <2> QED
    BY <2>2, StoreSame DEF OneStep
<1>3. CASE p \in DOMAIN Visible
  <2>1. p \in DOMAIN fs /\ p \notin DOMAIN fs'
    BY <1>3 DEF Unlink, AllSeen, Seen, Held, Shown
  <2>2. p \notin DOMAIN Visible'
    BY <2>1, GoneAt
  <2>3. Store!Drop(p)
    BY <1>1, <1>3, <2>2, StoreDrop
  <2> QED
    BY <1>3, <2>3 DEF OneStep, Store!Atomic
<1> QED
  BY <1>2, <1>3

-----------------------------------------------------------------------------
(* The steps that change the disk, each a step of the store.  CreateOpen's *)
(* note is not seen yet.                                                   *)
Calm == Inv /\ NothingYet /\ AllSeen /\ AllSeen' /\ ~raced'

LEMMA CreateOpenSteps ==
  ASSUME Calm, NEW c \in Clients, CreateOpen(c) PROVE OneStep
<1>0. /\ Idle = [pc |-> "idle", path |-> NoPath, to |-> NoPath,
                 old |-> <<>>, text |-> <<>>, fd |-> 0, n |-> 0]
      /\ AllSeen /\ AllSeen' /\ Inv /\ TypeOK /\ DiskOK(fs, data)
  BY TypeParts DEF Calm, Inv, Idle
<1> DEFINE p(d, n) == Plain(d, n)
           r(d, n, t) == [Idle EXCEPT !.pc = "createWrite", !.path = p(d, n),
                                      !.text = t, !.fd = OpenAt(p(d, n))]
<1>1. PICK d \in Dirs, n \in Names, t \in Contents :
        /\ ~Exists(p(d, n)) /\ fs' = Link(p(d, n), OpenAt(p(d, n)))
        /\ data' = Created(p(d, n)) /\ UNCHANGED unborn /\ call' = [call EXCEPT ![c] = r(d, n, t)]
        /\ call[c].pc = "idle"
  BY DEF CreateOpen, Begin, Excl
<1>2. r(d, n, t).pc = "createWrite" /\ r(d, n, t).path = p(d, n)
  BY <1>0
<1>3. p(d, n) \in Path
  BY PlainIsPath
<1> HIDE DEF p, r
<1>4. call'[c] = r(d, n, t) /\ \A e \in Clients : e # c => call'[e] = call[e]
  BY <1>0, <1>1 DEF TypeOK
<1>5. \A i \in 1..Len(data) : data'[i] = data[i]
  BY <1>0, <1>1, <1>3, OpenOK
<1>6. ASSUME NEW q, q # p(d, n) PROVE SameAt(q)
  <2>1. LeavesTo(c, q)
    BY <1>1, <1>2, <1>4, <1>6 DEF LeavesTo, Holds, Holding
  <2> QED
    BY <1>0, <1>1, <1>5, <1>6, <2>1, OpenElsewhere
<1>7. SameAt(p(d, n))
  <2>1. p(d, n) \notin DOMAIN Visible
    <3>1. Seen(p(d, n)) /\ p(d, n) \notin DOMAIN fs
      BY <1>0, <1>1 DEF AllSeen, Exists
    <3> QED
      BY <3>1 DEF Seen, Held, Shown
  <2>2. Holds(c, p(d, n))' /\ call'[c].pc = "createWrite"
    BY <1>2, <1>4 DEF Holds, Holding
  <2>3. Seen(p(d, n))'
    BY <1>0 DEF AllSeen
  <2>4. p(d, n) \notin DOMAIN Visible'
    BY <2>2, <2>3 DEF Seen
  <2> QED
    BY <2>1, <2>4 DEF SameAt
<1>8. \A q : SameAt(q)
  BY <1>6, <1>7
<1> QED
  BY <1>0, <1>8, StoreSame DEF OneStep

(* Nor is the one that Append's open makes.                                *)
LEMMA AppendOpenSteps ==
  ASSUME Calm, NEW c \in Clients, AppendOpen(c) PROVE OneStep
<1>0. /\ Idle = [pc |-> "idle", path |-> NoPath, to |-> NoPath,
                 old |-> <<>>, text |-> <<>>, fd |-> 0, n |-> 0]
      /\ AllSeen /\ AllSeen' /\ Inv /\ TypeOK /\ DiskOK(fs, data)
  BY TypeParts DEF Calm, Inv, Idle
<1> DEFINE r(p, t) == [Idle EXCEPT !.pc = "appendWrite", !.path = p,
                                   !.text = t, !.fd = OpenAt(p)]
<1>1. PICK p \in Path, t \in Contents :
        /\ fs' = Link(p, OpenAt(p)) /\ data' = Created(p)
        /\ unborn' = IF Exists(p) THEN unborn ELSE unborn \cup {OpenAt(p)}
        /\ call' = [call EXCEPT ![c] = r(p, t)] /\ call[c].pc = "idle"
  BY PlainIsPath DEF AppendOpen, Begin
<1>2. r(p, t).pc = "appendWrite"
  BY <1>0
<1> HIDE DEF r
<1>3. \A q : LeavesTo(c, q)
  BY <1>0, <1>1, <1>2 DEF LeavesTo, Holds, Holding, TypeOK
<1>4. /\ \A i \in 1..Len(data) : data'[i] = data[i]
      /\ ~Exists(p) => data'[OpenAt(p)] = <<>>
      /\ Exists(p) => data' = data /\ OpenAt(p) = fs[p]
  BY <1>0, <1>1, OpenOK
<1>5. \A q : q # p => SameAt(q)
  <2>1. \A i \in 1..Len(data) :
           i # OpenAt(p) => data'[i] = data[i] /\ (i \in unborn' <=> i \in unborn)
    BY <1>1, <1>4
  <2> QED
    BY <1>0, <1>1, <1>3, <2>1, OpenElsewhere
<1>6. p \in DOMAIN fs' /\ fs'[p] = OpenAt(p)
  BY <1>1 DEF Link
<1>7. CASE Exists(p)
  <2>1. SameAt(p)
    <3>1. Shown(p)' <=> Shown(p)
      BY <1>1, <1>4, <1>6, <1>7 DEF Shown, Exists
    <3>2. data'[fs'[p]] = data[fs[p]]
      BY <1>4, <1>6, <1>7
    <3> QED
      BY <1>0, <1>3, <3>1, <3>2, StillThere
  <2>2. \A q : SameAt(q)
    BY <1>5, <2>1
  <2> QED
    BY <1>0, <2>2, StoreSame DEF OneStep
<1>8. CASE ~Exists(p)
  <2>1. ~Shown(p) /\ ~Shown(p)'
    BY <1>1, <1>6, <1>8 DEF Shown, Exists
  <2>2. SameAt(p)
    BY <1>0, <1>3, <2>1, StillThere
  <2>3. \A q : SameAt(q)
    BY <1>5, <2>2
  <2> QED
    BY <1>0, <2>3, StoreSame DEF OneStep
<1> QED
  BY <1>7, <1>8

(* The truncated note still has its old text for the others.               *)
LEMMA OpenTruncSteps ==
  ASSUME Calm, NEW c \in Clients, OpenTrunc(c) PROVE OneStep
<1> DEFINE me == call[c]
<1>p. PICK p : p = me.path
  OBVIOUS
<1> DEFINE r == [me EXCEPT !.pc = "rewrite", !.fd = OpenAt(p)]
<1>0. /\ AllSeen /\ AllSeen' /\ Inv /\ TypeOK /\ DiskOK(fs, data) /\ me \in Call
  BY TypeParts DEF Calm, Inv
<1>1. /\ me.pc = "truncate" /\ c \notin disturbed
      /\ fs' = Link(p, OpenAt(p)) /\ data' = [Created(p) EXCEPT ![OpenAt(p)] = <<>>]
      /\ call' = [call EXCEPT ![c] = r] /\ Born(OpenAt(p))
  BY <1>p DEF OpenTrunc, Goto, Notice, Calm
<1>2. r.pc = "rewrite" /\ r.path = p /\ r.old = me.old
  BY <1>0, <1>p DEF Call
<1>3. p \in DOMAIN fs /\ data[fs[p]] = me.old /\ me.old # <<>>
  BY <1>0, <1>1, <1>p DEF Inv, ViewIsCurrent, ReadsText, Exists
<1> HIDE DEF r
<1>4. call'[c] = r /\ \A e \in Clients : e # c => call'[e] = call[e]
  BY <1>0, <1>1 DEF TypeOK
<1>5. \A i \in 1..Len(data) :
         i # OpenAt(p) => data'[i] = data[i] /\ (i \in unborn' <=> i \in unborn)
  <2>1. Created(p) = data /\ OpenAt(p) = fs[p]
    BY <1>3 DEF Created, OpenAt, Exists
  <2> QED
    BY <1>0, <1>1, <1>3, <2>1, PutOK, EmptySeq DEF DiskOK, Born
<1>6. ASSUME NEW q, q # p PROVE SameAt(q)
  <2>1. LeavesTo(c, q)
    BY <1>1, <1>2, <1>4, <1>6 DEF LeavesTo, Holds, Holding
  <2> QED
    BY <1>0, <1>1, <1>5, <1>6, <2>1, OpenElsewhere
<1>7. SameAt(p)
  <2>1. Seen(p) /\ Seen(p)'
    BY <1>0 DEF AllSeen
  <2>2. ~Held(p)
    BY <1>3, <2>1 DEF Seen, Held
  <2>6. Shown(p)
    BY <1>3 DEF Shown, Calm, NothingYet
  <2>3. p \in DOMAIN Visible /\ Visible[p] = me.old
    BY <1>3, <2>1, <2>2, <2>6 DEF Seen
  <2>4. Holds(c, p)' /\ call'[c].pc = "rewrite" /\ call'[c].old = me.old
    BY <1>2, <1>4 DEF Holds, Holding
  <2>5. p \in DOMAIN Visible' /\ Visible'[p] = me.old
    BY <2>1, <2>4 DEF Seen
  <2> QED
    BY <2>3, <2>5 DEF SameAt
<1>8. \A q : SameAt(q)
  BY <1>6, <1>7
<1> QED
  BY <1>0, <1>8, StoreSame DEF OneStep

(* The write is where Create, Edit and ReplaceSection happen.              *)
LEMMA WriteSteps ==
  ASSUME Calm, TextsAreOwn, NEW c \in Clients, Write(c) PROVE OneStep
<1> DEFINE me == call[c]
<1>p. PICK p : p = me.path
  OBVIOUS
<1>0. /\ AllSeen /\ AllSeen' /\ Inv /\ TypeOK /\ DiskOK(fs, data) /\ me \in Call
      /\ data \in Seq(Seq(Text)) /\ me.text \in Seq(Text)
      /\ WritesOwn(me) /\ Seen(p) /\ Seen(p)'
  BY TypeParts DEF Calm, Inv, DiskOK, Call, TextsAreOwn, AllSeen
<1>1. /\ Holds(c, p) /\ UNCHANGED fs /\ Born(me.fd) /\ call' = [call EXCEPT ![c] = Idle]
      /\ data' = [data EXCEPT ![me.fd] = Overlay(me.text, data[me.fd])]
  BY <1>p DEF Write, Return, Goto, Holds
<1>2. /\ Shown(p) /\ p \in DOMAIN fs /\ fs[p] = me.fd /\ data[fs[p]] = <<>>
      /\ \A e \in Clients : Holds(e, p) => e = c
      /\ IF me.pc = "createWrite"
         THEN p \notin DOMAIN Visible
         ELSE p \in DOMAIN Visible /\ Visible[p] = me.old
  BY <1>0, <1>1 DEF Seen, Shown
<1>3. me.fd \in 1..Len(data)
  BY <1>0, <1>2 DEF DiskOK
<1>4. /\ data'[me.fd] = me.text
      /\ \A i \in 1..Len(data) : i # me.fd => data'[i] = data[i]
  <2>1. Overlay(me.text, data[me.fd]) = me.text
    BY <1>0, <1>2, TextOK
  <2> QED
    BY <1>0, <1>1, <1>3, <2>1, PutOK
<1>5. call'[c].pc = "idle" /\ \A e \in Clients : e # c => call'[e] = call[e]
  BY <1>0, <1>1, IdleOK DEF TypeOK
<1>6. ASSUME NEW q, q # p PROVE SameAt(q)
  <2>1. LeavesTo(c, q)
    BY <1>p, <1>5, <1>6 DEF LeavesTo, Holds, Holding
  <2>2. ASSUME q \in DOMAIN fs
        PROVE  data'[fs'[q]] = data[fs[q]] /\ (fs'[q] \in unborn' <=> fs[q] \in unborn)
    <3>1. fs[q] # me.fd
      BY <1>0, <1>2, <1>6, <2>2 DEF Inv, OneName
    <3>2. fs[q] \in 1..Len(data)
      BY <1>0, <2>2 DEF DiskOK
    <3> QED
      BY <1>1, <1>4, <3>1, <3>2 DEF Born
  <2> QED
    BY <1>0, <1>1, <2>1, <2>2, StillThere DEF Shown
<1>7. p \in DOMAIN Visible' /\ Visible'[p] = me.text
  <2>1. ~Held(p)'
    <3> SUFFICES ASSUME NEW e \in Clients, Holds(e, p)' PROVE FALSE
      BY DEF Held
    <3>1. e # c
      BY <1>5 DEF Holds, Holding
    <3>2. Holds(e, p)
      BY <1>5, <3>1 DEF Holds, Holding
    <3> QED
      BY <1>2, <3>1, <3>2
  <2> QED
    BY <1>0, <1>1, <1>2, <1>4, <2>1 DEF Seen, Shown, Born
<1>8. Store!Put(p, me.text)
  BY <1>0, <1>6, <1>7, StorePut
<1>9. CASE me.pc = "createWrite"
  <2>1. me.text \in Contents /\ p \in Store!NewPaths
    BY <1>0, <1>2, <1>7, <1>9 DEF WritesOwn, Store!NewPaths
  <2>2. Store!Create
    BY <1>8, <2>1 DEF Store!Create
  <2> QED
    BY <2>2 DEF OneStep, Store!Atomic
<1>10. CASE me.pc # "createWrite"
  <2>1. Derived(me.old, me.text) /\ p \in DOMAIN Visible /\ Visible[p] = me.old
    BY <1>0, <1>1, <1>2, <1>10 DEF WritesOwn, Holds, Holding
  <2>2. CASE \E f \in ToSet(me.old), s \in Contents \cup {<<>>} :
                me.text = Substitute(me.old, f, s)
    <3>1. /\ Store!ToSet(me.old) = ToSet(me.old)
          /\ \A f, s : Store!Replaced(me.old, f, s) = Substitute(me.old, f, s)
      BY DEF ToSet, Store!ToSet, Substitute, Store!Replaced, FlattenSeq, Store!FlattenSeq
    <3>2. Store!Edit(p)
      BY <1>8, <2>1, <2>2, <3>1 DEF Store!Edit
    <3> QED
      BY <2>1, <3>2 DEF OneStep, Store!Atomic
  <2>3. CASE \E b \in 1..Len(me.old) : \E e \in b..Len(me.old) :
                \E t \in Contents \cup {<<>>} :
                   me.text = SubSeq(me.old, 1, b) \o t
                               \o SubSeq(me.old, e + 1, Len(me.old))
    <3>1. Store!ReplaceSection(p)
      BY <1>8, <2>1, <2>3 DEF Store!ReplaceSection
    <3> QED
      BY <2>1, <3>1 DEF OneStep, Store!Atomic
  <2> QED
    BY <2>1, <2>2, <2>3 DEF Derived
<1> QED
  BY <1>9, <1>10

(* What is appended goes to the end of what the note has by then.          *)
LEMMA AppendWriteSteps ==
  ASSUME Calm, TextsAreOwn, NEW c \in Clients, AppendWrite(c) PROVE OneStep
<1> DEFINE me == call[c]
<1>0. /\ AllSeen /\ AllSeen' /\ Inv /\ TypeOK /\ DiskOK(fs, data)
      /\ CallOK(me, data) /\ me \in Call /\ data \in Seq(Seq(Text))
      /\ me.text \in Seq(Text) /\ WritesOwn(me)
  BY TypeParts DEF Calm, Inv, DiskOK, Call, TextsAreOwn
<1>1. /\ me.pc = "appendWrite" /\ UNCHANGED fs /\ Born(me.fd) /\ call' = [call EXCEPT ![c] = Idle]
      /\ data' = [data EXCEPT ![me.fd] = AtEnd(me.text, data[me.fd])]
  BY DEF AppendWrite, Return, Goto
<1>2. me.fd \in 1..Len(data)
  BY <1>0, <1>1 DEF CallOK, Writing
<1>3. /\ data'[me.fd] = data[me.fd] \o me.text
      /\ \A i \in 1..Len(data) : i # me.fd => data'[i] = data[i]
  <2>1. data[me.fd] \in Seq(Text)
    BY <1>0, <1>2, ElementOfSeq
  <2>2. AtEnd(me.text, data[me.fd]) \in Seq(Text)
    BY <1>0, <2>1, TextOK
  <2>3. AtEnd(me.text, data[me.fd]) = data[me.fd] \o me.text
    BY DEF AtEnd
  <2>4. /\ data'[me.fd] = AtEnd(me.text, data[me.fd])
        /\ \A i \in 1..Len(data) : i # me.fd => data'[i] = data[i]
    BY <1>0, <1>1, <1>2, <2>2, PutOK
  <2> QED
    BY <2>3, <2>4
<1>4. \A q : LeavesTo(c, q)
  BY <1>0, <1>1, IdleOK DEF LeavesTo, Holds, Holding, TypeOK
<1>5. ASSUME NEW q, q \in DOMAIN fs => fs[q] # me.fd PROVE SameAt(q)
  <2>1. q \in DOMAIN fs => fs[q] \in 1..Len(data)
    BY <1>0 DEF DiskOK
  <2>2. Shown(q)' <=> Shown(q)
    BY <1>1, <1>5 DEF Shown, Born
  <2>3. Shown(q) => data'[fs'[q]] = data[fs[q]]
    BY <1>1, <1>3, <1>5, <2>1 DEF Shown
  <2> QED
    BY <1>0, <1>4, <2>2, <2>3, StillThere
<1>6. ASSUME NEW p \in DOMAIN fs, fs[p] = me.fd, ~Held(p) PROVE OneStep
  <2>1. \A q : q # p => SameAt(q)
    BY <1>0, <1>5, <1>6 DEF Inv, OneName
  <2>2. Shown(p)' /\ p \in DOMAIN Visible' /\ Visible'[p] = data[me.fd] \o me.text
    <3>1. Shown(p)'
      BY <1>1, <1>6 DEF Shown, Born
    <3> QED
      BY <1>0, <1>1, <1>3, <1>4, <1>6, <3>1, AtPath
  <2>3. Store!Put(p, data[me.fd] \o me.text)
    BY <1>0, <2>1, <2>2, StorePut
  <2>4. me.text \in Contents
    BY <1>0, <1>1 DEF WritesOwn
  <2>5. CASE Shown(p)
    <3>1. p \in DOMAIN Visible /\ Visible[p] = data[me.fd]
      BY <1>0, <1>4, <1>6, <2>5, AtPath
    <3>2. Store!Extend(p)
      BY <2>3, <2>4, <3>1 DEF Store!Extend
    <3> QED
      BY <3>1, <3>2 DEF OneStep, Store!Atomic
  <2>6. CASE ~Shown(p)
    <3>1. p \notin DOMAIN Visible
      BY <1>0, <1>4, <1>6, <2>6, AtPath
    <3>2. data[me.fd] = <<>>
      BY <1>6, <2>6 DEF Shown, Calm, NothingYet
    <3>3. data[me.fd] \o me.text = me.text
      BY <1>0, <3>2, ConcatEmptySeq
    <3>4. Store!Create
      BY <2>2, <2>3, <2>4, <3>1, <3>3 DEF Store!Create, Store!NewPaths
    <3> QED
      BY <3>4 DEF OneStep, Store!Atomic
  <2> QED
    BY <2>5, <2>6
<1>7. ASSUME \A q \in DOMAIN fs : fs[q] = me.fd => Held(q) PROVE OneStep
  <2>1. \A q : SameAt(q)
    BY <1>0, <1>4, <1>5, <1>7, AtPath
  <2> QED
    BY <1>0, <2>1, StoreSame DEF OneStep
<1> QED
  BY <1>6, <1>7

(* Move, Restore and a soft Delete happen at the rename.                   *)
LEMMA RenameSteps ==
  ASSUME Calm, NEW c \in Clients, Rename(c) PROVE OneStep
<1> DEFINE me == call[c]
           p == me.path
           q == me.to
<1>0. AllSeen /\ AllSeen' /\ Inv /\ TypeOK
  BY DEF Calm, Inv
<1>1. /\ me.pc \in {"rename", "trash"} /\ UNCHANGED <<data, unborn>>
      /\ fs' = IF Exists(p) THEN Relink(p, q) ELSE fs
      /\ call' = [call EXCEPT ![c] = Idle]
      /\ Exists(p) => c \notin disturbed
  BY DEF Rename, Return, Goto, Notice, Calm
<1>2. \A r : LeavesTo(c, r)
  BY <1>0, <1>1, IdleOK DEF LeavesTo, Holds, Holding, TypeOK
<1>3. CASE ~Exists(p)
  <2>1. \A r : SameAt(r)
    BY <1>0, <1>1, <1>2, <1>3, StillThere DEF Shown
  <2> QED
    BY <1>0, <2>1, StoreSame DEF OneStep
<1>4. CASE Exists(p)
  <2>1. q \notin DOMAIN fs /\ p \in DOMAIN fs /\ fs' = Relink(p, q)
    BY <1>0, <1>1, <1>4 DEF Inv, ViewIsCurrent, Exists
  <2>2. /\ p \notin DOMAIN fs' /\ q \in DOMAIN fs' /\ fs'[q] = fs[p]
        /\ \A r : r \notin {p, q} => /\ r \in DOMAIN fs' <=> r \in DOMAIN fs
                                     /\ r \in DOMAIN fs => fs'[r] = fs[r]
    BY <2>1 DEF Relink
  <2>3. \A r : r \notin {p, q} => SameAt(r)
    BY <1>0, <1>1, <1>2, <2>2, StillThere DEF Shown
  <2>4. /\ p \notin DOMAIN Visible'
        /\ p \in DOMAIN Visible <=> fs[p] \notin unborn
        /\ p \in DOMAIN Visible => Visible[p] = data[fs[p]]
    BY <1>0, <1>2, <2>1, <2>2, GoneAt
  <2>5. ~Held(q) /\ q \notin DOMAIN Visible
    <3>1. Seen(q)
      BY <1>0 DEF AllSeen
    <3> QED
      BY <2>1, <3>1 DEF Seen, Held, Shown
  <2>6. /\ q \in DOMAIN Visible' <=> fs[p] \notin unborn
        /\ q \in DOMAIN Visible' => Visible'[q] = data[fs[p]]
    BY <1>0, <1>1, <1>2, <2>2, <2>5, AtPath DEF Shown
  <2>7. CASE fs[p] \notin unborn
    <3>1. Store!Rename(p)
      BY <1>0, <2>3, <2>4, <2>5, <2>6, <2>7, StoreRename
    <3> QED
      BY <2>4, <2>7, <3>1 DEF OneStep, Store!Atomic
  <2>8. CASE fs[p] \in unborn
    <3>1. \A r : SameAt(r)
      BY <2>3, <2>4, <2>5, <2>6, <2>8 DEF SameAt
    <3> QED
      BY <1>0, <3>1, StoreSame DEF OneStep
  <2> QED
    BY <2>7, <2>8
<1> QED
  BY <1>3, <1>4

LEMMA PullSteps == ASSUME Calm, Pull PROVE OneStep
<1>0. AllSeen /\ AllSeen' /\ Inv /\ DiskOK(fs, data) /\ UNCHANGED call
  BY TypeParts DEF Calm, Inv, Pull
<1>1. \A q : LeavesTo(Outside, q)
  BY <1>0, ClientsAssumption DEF LeavesTo, ClientsAssumption
<1>2. ASSUME NEW p \in Path, NEW t \in Contents, fs' = Link(p, OpenAt(p)),
             data' = [Created(p) EXCEPT ![OpenAt(p)] = t], Born(OpenAt(p))
      PROVE  OneStep
  <2>1. t \in Seq(Text)
    BY TextAssumption DEF TextAssumption
  <2>2. /\ data'[OpenAt(p)] = t
        /\ \A i \in 1..Len(data) :
              i # OpenAt(p) => data'[i] = data[i] /\ (i \in unborn' <=> i \in unborn)
    <3>1. /\ Created(p) \in Seq(Seq(Text)) /\ OpenAt(p) \in 1..Len(Created(p))
          /\ Len(Created(p)) >= Len(data) /\ Len(Created(p)) \in Nat
          /\ \A i \in 1..Len(data) : Created(p)[i] = data[i]
      BY <1>0, OpenOK
    <3>2. /\ data'[OpenAt(p)] = t
          /\ \A i \in 1..Len(Created(p)) : i # OpenAt(p) => data'[i] = Created(p)[i]
      BY <1>2, <2>1, <3>1, PutOK
    <3>3. Len(data) \in Nat
      BY <1>0, LenProperties DEF DiskOK
    <3> QED
      BY <1>2, <3>1, <3>2, <3>3 DEF Born
  <2>3. \A q : q # p => SameAt(q)
    BY <1>0, <1>1, <1>2, <2>2, OpenElsewhere
  <2>4. p \in DOMAIN fs' /\ fs'[p] = OpenAt(p)
    BY <1>2 DEF Link
  <2>5. CASE Held(p)
    <3>1. SameAt(p)
      BY <1>0, <1>1, <2>5, AtPath
    <3>2. \A q : SameAt(q)
      BY <2>3, <3>1
    <3> QED
      BY <1>0, <3>2, StoreSame DEF OneStep
  <2>6. CASE ~Held(p)
    <3>4. Shown(p)'
      BY <1>2, <2>4 DEF Shown, Born
    <3>1. p \in DOMAIN Visible' /\ Visible'[p] = t
      BY <1>0, <1>1, <2>2, <2>4, <2>6, <3>4, AtPath
    <3>2. Store!Put(p, t)
      BY <1>0, <2>3, <3>1, StorePut
    <3>3. Store!Pull
      BY <3>1, <3>2 DEF Store!Pull
    <3> QED
      BY <3>3 DEF OneStep, Store!Atomic
  <2> QED
    BY <2>5, <2>6
<1>3. ASSUME NEW p, fs' = Unlink(p), UNCHANGED <<data, unborn>> PROVE OneStep
  BY <1>0, <1>1, <1>3, UnlinkStep
<1>4. \A d \in Dirs, n \in Names : Plain(d, n) \in Path
  BY PlainIsPath
<1> QED
  BY <1>2, <1>3, <1>4 DEF Pull

LEMMA RequestSteps ==
  ASSUME Calm, NEW c \in Clients, Request(c) PROVE OneStep
<1>0. /\ Idle = [pc |-> "idle", path |-> NoPath, to |-> NoPath,
                 old |-> <<>>, text |-> <<>>, fd |-> 0, n |-> 0]
      /\ AllSeen /\ AllSeen' /\ TypeOK
  BY DEF Calm, Inv, Idle
<1>1. ASSUME NEW r, r.pc \in {"truncate", "statDst", "remove", "probe"},
             Begin(c, r), UNCHANGED disk
      PROVE  OneStep
  <2>1. ~Holding(c) /\ call' = [call EXCEPT ![c] = r]
    BY <1>1 DEF Begin, Holding
  <2> QED
    BY <1>0, <1>1, <2>1, LookStep DEF OneStep
<1>2. ASSUME NEW p, NEW old, NEW new, UNCHANGED disk,
             Begin(c, [Idle EXCEPT !.pc = "truncate", !.path = p, !.old = old,
                                   !.text = new])
      PROVE  OneStep
  <2> DEFINE r == [Idle EXCEPT !.pc = "truncate", !.path = p, !.old = old,
                               !.text = new]
  <2>1. Begin(c, r) /\ r.pc = "truncate" /\ UNCHANGED disk
    BY <1>0, <1>2
  <2> HIDE DEF r
  <2> QED
    BY <1>1, <2>1
<1>3. ASSUME NEW p, NEW q, UNCHANGED disk,
             Begin(c, [Idle EXCEPT !.pc = "statDst", !.path = p, !.to = q])
      PROVE  OneStep
  <2> DEFINE r == [Idle EXCEPT !.pc = "statDst", !.path = p, !.to = q]
  <2>1. Begin(c, r) /\ r.pc = "statDst" /\ UNCHANGED disk
    BY <1>0, <1>3
  <2> HIDE DEF r
  <2> QED
    BY <1>1, <2>1
<1>4. CASE EditRead(c)
  BY <1>2, <1>4 DEF EditRead
<1>5. CASE SectionRead(c)
  BY <1>2, <1>5 DEF SectionRead
<1>6. CASE MoveStatSrc(c)
  BY <1>3, <1>6 DEF MoveStatSrc
<1>7. CASE RestoreStatSrc(c)
  BY <1>3, <1>7 DEF RestoreStatSrc
<1>8. CASE DeleteStat(c)
  <2> DEFINE step(p, permanent) == IF permanent \/ p.dir = Trash
                                   THEN "remove" ELSE "probe"
             r(p, permanent) == [Idle EXCEPT !.pc = step(p, permanent), !.path = p]
  <2>1. PICK p \in DOMAIN fs, permanent \in BOOLEAN :
           Begin(c, r(p, permanent)) /\ UNCHANGED disk
    BY <1>8 DEF DeleteStat
  <2>2. r(p, permanent).pc = step(p, permanent)
    BY <1>0
  <2>3. step(p, permanent) \in {"remove", "probe"}
    OBVIOUS
  <2> HIDE DEF r, step
  <2> QED
    BY <1>1, <2>1, <2>2, <2>3
<1> QED
  BY <1>4, <1>5, <1>6, <1>7, <1>8, CreateOpenSteps, AppendOpenSteps DEF Request

LEMMA ContinueSteps ==
  ASSUME Calm, TextsAreOwn, NEW c \in Clients, Continue(c) PROVE OneStep
<1> DEFINE me == call[c]
<1>0. AllSeen /\ AllSeen' /\ TypeOK /\ me \in Call
  BY DEF Calm, Inv, TypeOK
<1>1. CASE RemoveAll(c)
  <2>1. /\ me.pc = "remove" /\ fs' = Unlink(me.path) /\ UNCHANGED <<data, unborn>>
        /\ call' = [call EXCEPT ![c] = Idle]
    BY <1>1 DEF RemoveAll, Return, Goto
  <2>2. \A q : LeavesTo(c, q)
    BY <1>0, <2>1, IdleOK DEF LeavesTo, Holds, Holding, TypeOK
  <2> QED
    BY <1>0, <2>1, <2>2, UnlinkStep
<1>2. ASSUME NEW r, r.pc \in {"idle", "rename", "probe", "trash"},
             me.pc \in {"statDst", "probe"}, call' = [call EXCEPT ![c] = r],
             UNCHANGED disk
      PROVE  OneStep
  <2>1. ~Holding(c)
    BY <1>2 DEF Holding
  <2> QED
    BY <1>0, <1>2, <2>1, LookStep DEF OneStep
<1>3. CASE MoveStatDst(c)
  <2> DEFINE r == [me EXCEPT !.pc = "rename"]
  <2>1. /\ me.pc = "statDst" /\ UNCHANGED disk
        /\ call' = [call EXCEPT ![c] = Idle] \/ call' = [call EXCEPT ![c] = r]
    BY <1>3 DEF MoveStatDst, Return, Goto
  <2>2. r.pc = "rename" /\ Idle.pc = "idle"
    BY <1>0, IdleOK DEF Call
  <2> HIDE DEF r
  <2> QED
    BY <1>2, <2>1, <2>2
<1>4. CASE Probe(c)
  <2> DEFINE q == Candidate(me.path, me.n)
             r1 == [me EXCEPT !.n = NextNumber(me.n)]
             r2 == [me EXCEPT !.pc = "trash", !.to = q]
  <2>1. /\ me.pc = "probe" /\ UNCHANGED disk
        /\ call' = [call EXCEPT ![c] = r1] \/ call' = [call EXCEPT ![c] = r2]
    BY <1>4 DEF Probe, Goto
  <2>2. r1.pc = "probe" /\ r2.pc = "trash"
    BY <1>0, <2>1 DEF Call
  <2> HIDE DEF r1, r2
  <2> QED
    BY <1>2, <2>1, <2>2
<1> QED
  BY <1>1, <1>3, <1>4, AppendWriteSteps, OpenTruncSteps, WriteSteps, RenameSteps
     DEF Continue

(* Nobody holds a file when the process is killed, unless that tears it.   *)
LEMMA CrashSteps == ASSUME Calm, Crash PROVE OneStep
<1>0. AllSeen /\ AllSeen'
  BY DEF Calm
<1>1. /\ UNCHANGED <<fs, data>> /\ \A c \in Clients : call'[c].pc = "idle"
      /\ \A c \in Clients : ~Holding(c)
      /\ unborn' = {} /\ \A p \in DOMAIN fs : fs[p] \notin unborn
  BY IdleOK DEF Crash, Calm
<1>2. ASSUME NEW p PROVE SameAt(p)
  <2>1. ~Held(p) /\ ~Held(p)'
    BY <1>1 DEF Held, Holds, Holding
  <2>2. Seen(p) /\ Seen(p)'
    BY <1>0 DEF AllSeen
  <2> QED
    BY <1>1, <2>1, <2>2 DEF Seen, SameAt, Shown
<1> QED
  BY <1>0, <1>2, StoreSame DEF OneStep

LEMMA NextSteps == ASSUME Calm, TextsAreOwn, Next PROVE OneStep
<1>1. ASSUME NEW c \in Clients PROVE ~WriteFails(c)
  BY DEF WriteFails, Notice, Calm
<1> QED
  BY <1>1, RequestSteps, ContinueSteps, CrashSteps, PullSteps DEF Next

LEMMA RacedStays == ASSUME Next, raced PROVE raced'
<1>1. ASSUME NEW a, NEW clobbers, Notice(a, clobbers) PROVE raced'
  BY <1>1 DEF Notice
<1>2. ASSUME NEW c \in Clients, Request(c) PROVE raced'
  BY <1>1, <1>2 DEF Request, CreateOpen, AppendOpen, EditRead, SectionRead,
                    MoveStatSrc, RestoreStatSrc, DeleteStat
<1>3. ASSUME NEW c \in Clients, Continue(c) PROVE raced'
  BY <1>1, <1>3 DEF Continue, AppendWrite, OpenTrunc, Write, MoveStatDst,
                    RemoveAll, Probe, Rename
<1>4. ASSUME NEW c \in Clients, WriteFails(c) PROVE raced'
  BY <1>1, <1>4 DEF WriteFails
<1>5. CASE Crash
  BY <1>5 DEF Crash
<1>6. CASE Pull
  BY <1>1, <1>6 DEF Pull
<1> QED
  BY <1>2, <1>3, <1>4, <1>5, <1>6 DEF Next

LEMMA InitStore == Init => Store!Init /\ TextsAreOwn
<1> SUFFICES ASSUME Init PROVE Store!Init /\ TextsAreOwn
    OBVIOUS
<1>1. Inv /\ raced = FALSE /\ \A c \in Clients : call[c].pc = "idle"
  BY InitInv, IdleOK DEF Init
<1>2. AllSeen
  <2>1. NothingYet
    BY <1>1 DEF Init, NothingYet, Holding
  <2> QED
    BY <1>1, <2>1, CalmSeen
<1>3. ASSUME NEW p \in DOMAIN Visible PROVE Visible[p] \in Seq(Text)
  <2>1. Seen(p) /\ ~Held(p)
    BY <1>1, <1>2 DEF AllSeen, Held, Holds, Holding
  <2>2. p \in DOMAIN fs /\ Visible[p] = data[fs[p]]
    BY <1>3, <2>1 DEF Seen, Shown
  <2>3. fs[p] \in 1..Len(data) /\ data \in Seq(Seq(Text))
    BY <1>1, <2>2 DEF Inv, TypeOK
  <2> QED
    BY <2>2, <2>3, ElementOfSeq
<1>4. Visible \in [DOMAIN Visible -> Seq(Text)]
  BY <1>2, <1>3 DEF AllSeen
<1>5. TextsAreOwn
  BY <1>1 DEF TextsAreOwn, WritesOwn
<1> QED
  BY <1>1, <1>4, <1>5 DEF Store!Init

(* An Edit or a ReplaceSection starts from the note as others see it: if   *)
(* another request has truncated the file and not written it yet, the text *)
(* or the section is not found in it, and nothing is rewritten.            *)
THEOREM RewritesAreOfTheNote == Spec => RewritesStartFromTheNote
<1> DEFINE FromTheNote(c) ==
             ~raced /\ call[c].pc = "idle" /\ call'[c].pc = "truncate"
                => /\ call'[c].path \in DOMAIN Visible
                   /\ call'[c].old = Visible[call'[c].path]
<1>1. Inv /\ NothingYet /\ [Next]_vars => [\A c \in Clients : FromTheNote(c)]_vars
  <2> SUFFICES ASSUME Inv, NothingYet, Next, NEW c \in Clients, ~raced,
                      call[c].pc = "idle", call'[c].pc = "truncate"
               PROVE  /\ call'[c].path \in DOMAIN Visible
                      /\ call'[c].old = Visible[call'[c].path]
      OBVIOUS
  <2>0. /\ TypeOK /\ AllSeen /\ call \in [Clients -> Call]
        /\ Idle = [pc |-> "idle", path |-> NoPath, to |-> NoPath,
                   old |-> <<>>, text |-> <<>>, fd |-> 0, n |-> 0]
    BY CalmSeen DEF Inv, TypeOK, Idle
  <2>1. ASSUME NEW d \in Clients, d # c, NEW r, call' = [call EXCEPT ![d] = r]
        PROVE  FALSE
    BY <2>0, <2>1
  <2>2. ASSUME NEW r, call' = [call EXCEPT ![c] = r] PROVE call'[c] = r
    BY <2>0, <2>2
  <2>3. ASSUME NEW p \in DOMAIN fs, data[fs[p]] # <<>>, NEW new,
               Begin(c, [Idle EXCEPT !.pc = "truncate", !.path = p,
                                     !.old = data[fs[p]], !.text = new])
        PROVE  /\ call'[c].path \in DOMAIN Visible
               /\ call'[c].old = Visible[call'[c].path]
    <3>1. call'[c].path = p /\ call'[c].old = data[fs[p]]
      BY <2>0, <2>2, <2>3 DEF Begin
    <3>2. Seen(p) /\ ~Held(p) /\ Shown(p)
      <4>1. Seen(p)
        BY <2>0 DEF AllSeen
      <4> QED
        BY <2>3, <4>1 DEF Seen, Held, Shown, NothingYet
    <3> QED
      BY <3>1, <3>2 DEF Seen
  <2>4. PICK d \in Clients : Request(d)
    <3>1. ~Crash /\ ~Pull
      BY <2>0, IdleOK DEF Crash, Pull
    <3>2. ASSUME NEW d \in Clients, Continue(d) \/ WriteFails(d) PROVE FALSE
      <4>1. call[d].pc # "idle"
        BY <3>2 DEF Continue, WriteFails, AppendWrite, OpenTrunc, Write, Holding,
                    MoveStatDst, RemoveAll, Probe, Rename
      <4>2. \E r : call' = [call EXCEPT ![d] = r]
        BY <3>2 DEF Continue, WriteFails, AppendWrite, OpenTrunc, Write,
                    MoveStatDst, RemoveAll, Probe, Rename, Return, Goto
      <4> QED
        BY <2>1, <4>1, <4>2
    <3> QED
      BY <3>1, <3>2 DEF Next
  <2>5. d = c
    <3>1. \E r : call' = [call EXCEPT ![d] = r]
      BY <2>4 DEF Request, CreateOpen, AppendOpen, EditRead, SectionRead,
                  MoveStatSrc, RestoreStatSrc, DeleteStat, Begin
    <3> QED
      BY <2>1, <3>1
  <2>6. CASE EditRead(c)
    <3>1. PICK p \in DOMAIN fs, f \in Text, s \in Contents \cup {<<>>} :
            /\ Occurrences(data[fs[p]], f) # {}
            /\ Begin(c, [Idle EXCEPT !.pc = "truncate", !.path = p,
                                     !.old = data[fs[p]],
                                     !.text = Substitute(data[fs[p]], f, s)])
      BY <2>6 DEF EditRead, Found
    <3>2. data[fs[p]] # <<>>
      BY <3>1 DEF Occurrences
    <3> QED
      BY <2>3, <3>1, <3>2
  <2>7. CASE SectionRead(c)
    <3>1. PICK p \in DOMAIN fs :
             /\ data[fs[p]] # <<>>
             /\ \E new : Begin(c, [Idle EXCEPT !.pc = "truncate", !.path = p,
                                               !.old = data[fs[p]], !.text = new])
      <4> SUFFICES ASSUME NEW p \in DOMAIN fs,
                          NEW b \in 1..Len(data[fs[p]]), NEW e \in b..Len(data[fs[p]])
                   PROVE  data[fs[p]] # <<>>
          BY <2>7 DEF SectionRead
      <4>1. data[fs[p]] = <<>> => Len(data[fs[p]]) = 0
        BY EmptySeq
      <4> QED
        BY <4>1
    <3> QED
      BY <2>3, <3>1
  <2>8. CASE CreateOpen(c) \/ AppendOpen(c)
    BY <2>0, <2>2, <2>8 DEF CreateOpen, AppendOpen, Begin
  <2>9. CASE MoveStatSrc(c) \/ RestoreStatSrc(c) \/ DeleteStat(c)
    <3>1. ASSUME NEW r, r.pc \in {"statDst", "remove", "probe"}, Begin(c, r)
          PROVE  FALSE
      BY <2>2, <3>1 DEF Begin
    <3>2. CASE MoveStatSrc(c)
      <4>1. PICK p, q :
               Begin(c, [Idle EXCEPT !.pc = "statDst", !.path = p, !.to = q])
        BY <3>2 DEF MoveStatSrc
      <4> DEFINE r == [Idle EXCEPT !.pc = "statDst", !.path = p, !.to = q]
      <4>2. r.pc = "statDst" /\ Begin(c, r)
        BY <2>0, <4>1
      <4> HIDE DEF r
      <4> QED
        BY <3>1, <4>2
    <3>3. CASE RestoreStatSrc(c)
      <4>1. PICK p, q :
               Begin(c, [Idle EXCEPT !.pc = "statDst", !.path = p, !.to = q])
        BY <3>3 DEF RestoreStatSrc
      <4> DEFINE r == [Idle EXCEPT !.pc = "statDst", !.path = p, !.to = q]
      <4>2. r.pc = "statDst" /\ Begin(c, r)
        BY <2>0, <4>1
      <4> HIDE DEF r
      <4> QED
        BY <3>1, <4>2
    <3>4. CASE DeleteStat(c)
      <4>1. PICK p \in DOMAIN fs, k \in {"remove", "probe"} :
               Begin(c, [Idle EXCEPT !.pc = k, !.path = p])
        BY <3>4 DEF DeleteStat
      <4> DEFINE r == [Idle EXCEPT !.pc = k, !.path = p]
      <4>2. r.pc = k /\ Begin(c, r)
        BY <2>0, <4>1
      <4> HIDE DEF r
      <4> QED
        BY <3>1, <4>1, <4>2
    <3> QED
      BY <2>9, <3>2, <3>3, <3>4
  <2> QED
    BY <2>4, <2>5, <2>6, <2>7, <2>8, <2>9 DEF Request
<1> QED
  BY <1>1, Invariance, NothingInvariance, PTL DEF Spec, RewritesStartFromTheNote

(* Each call that changes the vault changes the notes, as the others see   *)
(* them, at one system call of its own and by what NoteStore says: until   *)
(* writers collide, or a write is cut short, every step of VaultFiles is a *)
(* step of NoteStore or none.  Append on a note that is not there is one   *)
(* such step, its write.                                                   *)
THEOREM FilesKeepStore == Spec => StoreSpec
<1>1. Inv /\ NothingYet /\ TextsAreOwn /\ [Next]_vars => [Store!Next]_(Store!vars)
  <2> SUFFICES ASSUME Inv, NothingYet, TextsAreOwn, [Next]_vars
               PROVE  [Store!Next]_(Store!vars)
      OBVIOUS
  <2>1. raced \in BOOLEAN /\ raced' \in BOOLEAN /\ Inv' /\ NothingYet'
    BY NextInv, NextNothing DEF Inv, TypeOK
  <2>2. CASE UNCHANGED vars
    <3>1. Visible' = Visible /\ raced' = raced
      BY <2>2 DEF vars, Visible, Hidden, Rewriting
    <3> QED
      BY <3>1 DEF Store!vars
  <2>3. CASE Next /\ raced'
    BY <2>1, <2>3 DEF Store!Next, Store!Tear
  <2>4. CASE Next /\ ~raced'
    <3>1. ~raced
      BY <2>4, RacedStays
    <3>2. Calm
      BY <2>1, <2>4, <3>1, CalmSeen, CalmSeenNext DEF Calm
    <3>3. Visible' = Visible \/ Store!Atomic
      BY <2>4, <3>2, NextSteps DEF OneStep
    <3>4. raced' = raced
      BY <2>1, <2>4, <3>1
    <3> QED
      BY <3>3, <3>4 DEF Store!Next, Store!vars
  <2> QED
    BY <2>2, <2>3, <2>4
<1>2. TextsAreOwn /\ Inv /\ [Next]_vars => TextsAreOwn'
  BY NextOwns
<1> QED
  BY <1>1, <1>2, InitStore, Invariance, NothingInvariance, PTL
     DEF Spec, StoreSpec, Store!Spec
=============================================================================
