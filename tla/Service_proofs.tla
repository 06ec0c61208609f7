--------------------------- MODULE Service_proofs ---------------------------
(***************************************************************************)
(* Proofs about Service, for any set of vaults, any times that the         *)
(* assumptions admit, and any output.  The supervisors within the process  *)
(* are those of SyncSupervisor, so that what SyncSupervisor_proofs shows   *)
(* of them holds here too.                                                 *)
(***************************************************************************)
EXTENDS Service, SyncSupervisor_proofs,
        SequenceTheorems, WellFoundedInduction, TLAPS

-----------------------------------------------------------------------------
(* What observedSyncWriter makes of its input (Rest, Pieced, HasHeartbeat) *)
(* for any texts: cut into pieces at will, a text has the same rest and    *)
(* the same heartbeats as if it had come at once.                          *)

(* A nonempty set of naturals has a least element.                         *)
Less == {p \in Nat \X Nat : p[1] < p[2]}

LEMMA LessIsWellFounded == IsWellFoundedOn(Less, Nat)
  BY NatLessThanWellFounded, Zenon DEF OpToRel, Less

LEMMA Least ==
  ASSUME NEW T, T \subseteq Nat, T # {}
  PROVE  \E x \in T : \A y \in T : x <= y
<1>1. PICK x \in T : \A y \in T : <<y, x>> \notin Less
  BY LessIsWellFounded, WFMin
<1>2. ASSUME NEW y \in T PROVE x <= y
  <2>1. x \in Nat /\ y \in Nat
    OBVIOUS
  <2>2. ~(y < x)
    BY <1>1, <2>1 DEF Less
  <2> QED
    BY <2>1, <2>2
<1> QED
  BY <1>2

(* There is a last newline, or none, and only one.                         *)
LEMMA LastNewlineEnds ==
  ASSUME NEW bytes \in Seq(STRING)
  PROVE  /\ LastNewline(bytes) \in 0..Len(bytes)
         /\ EndsLines(bytes, LastNewline(bytes))
<1> DEFINE n == Len(bytes)
           T == {m \in 0..n : m = n \/ bytes[n - m] = Newline}
<1>1. n \in Nat
  BY LenProperties
<1>2. T \subseteq Nat /\ n \in T
  BY <1>1
<1>3. PICK m \in T : \A y \in T : m <= y
  <2> HIDE DEF T
  <2> QED
    BY <1>2, Least
<1>4. n - m \in 0..n /\ n - (n - m) = m
  BY <1>1
<1>5. n - m = 0 \/ bytes[n - m] = Newline
  BY <1>1
<1>6. ASSUME NEW j \in (n - m + 1)..n PROVE bytes[j] # Newline
  <2>1. n - j \in 0..n /\ n - j < m /\ n - (n - j) = j
    BY <1>1
  <2> QED
    BY <1>1, <1>3, <2>1
<1>7. EndsLines(bytes, n - m)
  BY <1>5, <1>6 DEF EndsLines
<1> QED
  BY <1>4, <1>7 DEF LastNewline

LEMMA LastNewlineIsUnique ==
  ASSUME NEW bytes \in Seq(STRING), NEW i \in 0..Len(bytes), EndsLines(bytes, i)
  PROVE  LastNewline(bytes) = i
<1>1. /\ LastNewline(bytes) \in 0..Len(bytes)
      /\ EndsLines(bytes, LastNewline(bytes)) /\ Len(bytes) \in Nat
  BY LastNewlineEnds, LenProperties
<1> DEFINE m == LastNewline(bytes)
<1> HIDE DEF m
<1>2. m \in 0..Len(bytes) /\ EndsLines(bytes, m) /\ Len(bytes) \in Nat
  BY <1>1 DEF m
<1>3. ~(m < i) /\ ~(i < m)
  BY <1>2 DEF EndsLines
<1>4. m = i
  BY <1>2, <1>3
<1> QED
  BY <1>4 DEF m

LEMMA RestIsText ==
  ASSUME NEW bytes \in Seq(STRING) PROVE Rest(bytes) \in Seq(STRING)
<1>1. LastNewline(bytes) \in 0..Len(bytes) /\ Len(bytes) \in Nat
  BY LastNewlineEnds, LenProperties
<1> DEFINE k == LastNewline(bytes) + 1
           n == Len(bytes)
<1>2. k \in Int /\ n \in Int /\ \A i \in k..n : bytes[i] \in STRING
  BY <1>1, ElementOfSeq
<1> HIDE DEF k, n
<1>3. SubSeq(bytes, k, n) \in Seq(STRING)
  BY <1>2, SubSeqProperties
<1> QED
  BY <1>3 DEF Rest, k, n

(* What stands pending, and the text it is the end of, agree on every      *)
(* position behind the last newline, whatever chunk follows.               *)
Agree(B, T, K) ==
  /\ B \in Seq(STRING) /\ T \in Seq(STRING)
  /\ Len(B) \in Nat /\ Len(T) \in Nat /\ K \in Nat
  /\ Len(T) = K + Len(B)
  /\ K = 0 \/ T[K] = Newline
  /\ \A j \in 1..Len(B) : B[j] = T[K + j]

LEMMA PiecesAgree ==
  ASSUME NEW S \in Seq(STRING), NEW c \in Seq(STRING)
  PROVE  Agree(Rest(S) \o c, S \o c, LastNewline(S))
<1> DEFINE K == LastNewline(S)
           n == Len(S)
           P == Rest(S)
<1>1. K \in 0..n /\ EndsLines(S, K) /\ n \in Nat /\ Len(c) \in Nat
  BY LastNewlineEnds, LenProperties
<1>2. /\ P \in Seq(STRING) /\ Len(P) = n - K
      /\ \A j \in 1..(n - K) : P[j] = S[K + j]
  <2>1. \A i \in (K + 1)..n : S[i] \in STRING
    BY <1>1, ElementOfSeq
  <2>2. P = SubSeq(S, K + 1, n)
    BY DEF Rest
  <2>3. /\ SubSeq(S, K + 1, n) \in Seq(STRING)
        /\ Len(SubSeq(S, K + 1, n)) =
             IF K + 1 <= n THEN n - (K + 1) + 1 ELSE 0
        /\ \A i \in 1..(n - (K + 1) + 1) :
              SubSeq(S, K + 1, n)[i] = S[K + 1 + i - 1]
    <3> HIDE DEF K, n
    <3>1. K + 1 \in Int /\ n \in Int
      BY <1>1
    <3> QED
      BY <2>1, <3>1, SubSeqProperties
  <2> HIDE DEF P, K, n
  <2> QED
    BY <1>1, <2>2, <2>3
<1>3. /\ P \o c \in Seq(STRING) /\ Len(P \o c) = Len(P) + Len(c)
      /\ \A j \in 1..(Len(P) + Len(c)) :
            (P \o c)[j] = IF j <= Len(P) THEN P[j] ELSE c[j - Len(P)]
  <2> HIDE DEF P
  <2> QED
    BY <1>2, ConcatProperties
<1>4. /\ S \o c \in Seq(STRING) /\ Len(S \o c) = n + Len(c)
      /\ \A j \in 1..(n + Len(c)) :
            (S \o c)[j] = IF j <= n THEN S[j] ELSE c[j - n]
  BY ConcatProperties
<1> DEFINE B == P \o c
           T == S \o c
<1>5. /\ B \in Seq(STRING) /\ Len(B) = (n - K) + Len(c)
      /\ T \in Seq(STRING) /\ Len(T) = n + Len(c)
  BY <1>2, <1>3, <1>4
<1>6. \A j \in 1..((n - K) + Len(c)) :
         B[j] = IF j <= n - K THEN S[K + j] ELSE c[j - (n - K)]
  <2> HIDE DEF P, K, n
  <2> QED
    BY <1>1, <1>2, <1>3
<1>7. \A j \in 1..(n + Len(c)) : T[j] = IF j <= n THEN S[j] ELSE c[j - n]
  BY <1>4
<1> HIDE DEF B, T, K, n, P
<1>8. K = 0 \/ T[K] = Newline
  BY <1>1, <1>7 DEF EndsLines
<1>9. \A j \in 1..Len(B) : B[j] = T[K + j]
  <2> SUFFICES ASSUME NEW j \in 1..Len(B) PROVE B[j] = T[K + j]
      OBVIOUS
  <2>1. /\ j \in 1..((n - K) + Len(c)) /\ K + j \in 1..(n + Len(c))
        /\ (K + j) - n = j - (n - K) /\ (j <= n - K <=> K + j <= n)
    BY <1>1, <1>5
  <2>2. B[j] = IF j <= n - K THEN S[K + j] ELSE c[j - (n - K)]
    BY <1>6, <2>1
  <2>3. T[K + j] = IF K + j <= n THEN S[K + j] ELSE c[(K + j) - n]
    BY <1>7, <2>1
  <2> QED
    BY <2>1, <2>2, <2>3
<1>10. Agree(B, T, K)
  BY <1>1, <1>5, <1>8, <1>9 DEF Agree
<1> QED
  BY <1>10 DEF B, T, K, P

(* The parts of two texts that agree are equal.                            *)
LEMMA PartsAgree ==
  ASSUME NEW B \in Seq(STRING), NEW T \in Seq(STRING), NEW K \in Nat,
         Agree(B, T, K),
         NEW k \in Int, NEW i \in Int, k >= 1, i <= Len(B)
  PROVE  SubSeq(T, K + k, K + i) = SubSeq(B, k, i)
<1> DEFINE x == SubSeq(T, K + k, K + i)
           y == SubSeq(B, k, i)
<1>1. /\ B \in Seq(STRING) /\ T \in Seq(STRING)
      /\ Len(B) \in Nat /\ Len(T) \in Nat /\ K \in Nat
      /\ Len(T) = K + Len(B) /\ \A j \in 1..Len(B) : B[j] = T[K + j]
  BY DEF Agree
<1>2. \A j \in k..i : B[j] \in STRING
  BY <1>1, ElementOfSeq
<1>3. \A j \in (K + k)..(K + i) : T[j] \in STRING
  BY <1>1, ElementOfSeq
<1>4. /\ y \in Seq(STRING) /\ Len(y) = IF k <= i THEN i - k + 1 ELSE 0
      /\ \A j \in 1..(i - k + 1) : y[j] = B[k + j - 1]
  BY <1>2, SubSeqProperties
<1>5. K + k \in Int /\ K + i \in Int
  BY <1>1
<1>6. /\ x \in Seq(STRING)
      /\ Len(x) = IF K + k <= K + i THEN (K + i) - (K + k) + 1 ELSE 0
      /\ \A j \in 1..((K + i) - (K + k) + 1) : x[j] = T[K + k + j - 1]
  BY <1>3, <1>5, SubSeqProperties
<1> HIDE DEF x, y
<1>7. Len(x) = Len(y) /\ Len(x) \in Nat
  BY <1>1, <1>4, <1>6
<1>8. ASSUME NEW j \in 1..Len(x) PROVE x[j] = y[j]
  <2>1. k <= i /\ j \in 1..(i - k + 1) /\ k + j - 1 \in 1..Len(B)
    BY <1>1, <1>4, <1>7
  <2>2. y[j] = B[k + j - 1] /\ B[k + j - 1] = T[K + (k + j - 1)]
    BY <1>1, <1>4, <2>1
  <2>3. x[j] = T[K + k + j - 1] /\ K + k + j - 1 = K + (k + j - 1)
    BY <1>1, <1>6, <2>1
  <2> QED
    BY <2>2, <2>3
<1>9. x = y
  BY <1>4, <1>6, <1>7, <1>8, SeqEqual
<1> QED
  BY <1>9 DEF x, y

(* The rest after a chunk is found in the pending bytes alone.             *)
LEMMA RestOfPieces ==
  ASSUME NEW S \in Seq(STRING), NEW c \in Seq(STRING)
  PROVE  Rest(Rest(S) \o c) = Rest(S \o c)
<1> DEFINE K == LastNewline(S)
           B == Rest(S) \o c
           T == S \o c
           m == LastNewline(B)
<1>1. Agree(B, T, K)
  BY PiecesAgree
<1>2. B \in Seq(STRING) /\ T \in Seq(STRING)
  BY <1>1 DEF Agree
<1>3. m \in 0..Len(B) /\ EndsLines(B, m)
  BY <1>2, LastNewlineEnds
<1> HIDE DEF B, T, K, m
<1>4. /\ Len(B) \in Nat /\ K \in Nat /\ Len(T) = K + Len(B)
      /\ K = 0 \/ T[K] = Newline
      /\ \A j \in 1..Len(B) : B[j] = T[K + j]
  BY <1>1 DEF Agree
<1>5. K + m \in 0..Len(T)
  BY <1>3, <1>4
<1>6. K + m = 0 \/ T[K + m] = Newline
  <2>1. CASE m = 0
    BY <1>4, <2>1
  <2>2. CASE m # 0
    BY <1>3, <1>4, <2>2 DEF EndsLines
  <2> QED
    BY <2>1, <2>2
<1>7. ASSUME NEW j \in (K + m + 1)..Len(T) PROVE T[j] # Newline
  <2>1. j - K \in (m + 1)..Len(B) /\ j - K \in 1..Len(B) /\ K + (j - K) = j
    BY <1>3, <1>4
  <2>2. B[j - K] # Newline /\ B[j - K] = T[K + (j - K)]
    BY <1>3, <1>4, <2>1 DEF EndsLines
  <2> QED
    BY <2>1, <2>2
<1>8. LastNewline(T) = K + m
  BY <1>2, <1>5, <1>6, <1>7, LastNewlineIsUnique DEF EndsLines
<1>9. SubSeq(T, K + (m + 1), K + Len(B)) = SubSeq(B, m + 1, Len(B))
  <2> DEFINE k == m + 1
             i == Len(B)
  <2>1. k \in Int /\ i \in Int /\ k >= 1 /\ i <= Len(B)
    BY <1>3, <1>4
  <2>2. K \in Nat
    BY <1>4
  <2> HIDE DEF k, i
  <2>3. SubSeq(T, K + k, K + i) = SubSeq(B, k, i)
    BY <1>1, <1>2, <2>1, <2>2, PartsAgree
  <2> QED
    BY <2>3 DEF k, i
<1>10. K + (m + 1) = LastNewline(T) + 1 /\ K + Len(B) = Len(T)
  BY <1>3, <1>4, <1>8
<1>11. Rest(B) = Rest(T)
  BY <1>9, <1>10 DEF Rest, m
<1> QED
  BY <1>11 DEF B, T

(* A line of the pending bytes is a line of the whole text, and the other  *)
(* way round.                                                              *)
LEMMA LinesAgree ==
  ASSUME NEW B \in Seq(STRING), NEW T \in Seq(STRING), NEW K \in Nat,
         Agree(B, T, K),
         NEW i \in 1..Len(B), NEW k \in 1..i
  PROVE  /\ IsLine(B, k, i) <=> IsLine(T, K + k, K + i)
         /\ SubSeq(T, K + k, K + i - 1) = SubSeq(B, k, i - 1)
<1>1. /\ Len(B) \in Nat /\ K \in Nat /\ Len(T) = K + Len(B)
      /\ K = 0 \/ T[K] = Newline
      /\ \A j \in 1..Len(B) : B[j] = T[K + j]
  BY DEF Agree
<1>2. B[i] = T[K + i]
  BY <1>1
<1>3. (k = 1 \/ B[k - 1] = Newline) <=> (K + k = 1 \/ T[K + k - 1] = Newline)
  <2>1. CASE k = 1
    BY <1>1, <2>1
  <2>2. CASE k # 1
    <3>1. k - 1 \in 1..Len(B) /\ K + (k - 1) = K + k - 1 /\ K + k # 1
      BY <1>1, <2>2
    <3> QED
      BY <1>1, <2>2, <3>1
  <2> QED
    BY <2>1, <2>2
<1>4. (\A j \in k..(i - 1) : B[j] # Newline)
        <=> (\A j \in (K + k)..(K + i - 1) : T[j] # Newline)
  <2>1. ASSUME \A j \in k..(i - 1) : B[j] # Newline,
               NEW j \in (K + k)..(K + i - 1)
        PROVE  T[j] # Newline
    <3>1. j - K \in k..(i - 1) /\ j - K \in 1..Len(B) /\ K + (j - K) = j
      BY <1>1
    <3>2. B[j - K] = T[K + (j - K)]
      BY <1>1, <3>1
    <3> QED
      BY <2>1, <3>1, <3>2
  <2>2. ASSUME \A j \in (K + k)..(K + i - 1) : T[j] # Newline,
               NEW j \in k..(i - 1)
        PROVE  B[j] # Newline
    <3>1. K + j \in (K + k)..(K + i - 1) /\ j \in 1..Len(B)
      BY <1>1
    <3> QED
      BY <1>1, <2>2, <3>1
  <2> QED
    BY <2>1, <2>2
<1>5. SubSeq(T, K + k, K + (i - 1)) = SubSeq(B, k, i - 1)
  <2> DEFINE l == i - 1
  <2>1. k \in Int /\ l \in Int /\ k >= 1 /\ l <= Len(B)
    BY <1>1
  <2> HIDE DEF l
  <2>2. SubSeq(T, K + k, K + l) = SubSeq(B, k, l)
    BY <2>1, PartsAgree
  <2> QED
    BY <2>2 DEF l
<1>6. K + (i - 1) = K + i - 1
  BY <1>1
<1>7. IsLine(B, k, i) <=> IsLine(T, K + k, K + i)
  <2> DEFINE a == K + i
             b == K + k
  <2>1. /\ B[i] = T[a]
        /\ (k = 1 \/ B[k - 1] = Newline) <=> (b = 1 \/ T[b - 1] = Newline)
        /\ (\A j \in k..(i - 1) : B[j] # Newline)
              <=> (\A j \in b..(a - 1) : T[j] # Newline)
    BY <1>2, <1>3, <1>4
  <2> HIDE DEF a, b
  <2>2. IsLine(B, k, i) <=> IsLine(T, b, a)
    BY <2>1 DEF IsLine
  <2> QED
    BY <2>2 DEF a, b
<1> QED
  BY <1>5, <1>6, <1>7, Zenon

(* A prefix agrees with the whole, too.                                    *)
LEMMA PrefixAgrees ==
  ASSUME NEW S \in Seq(STRING), NEW c \in Seq(STRING),
         NEW i \in 1..Len(S), NEW k \in 1..i
  PROVE  /\ IsLine(S, k, i) <=> IsLine(S \o c, k, i)
         /\ SubSeq(S \o c, k, i - 1) = SubSeq(S, k, i - 1)
<1> DEFINE T == S \o c
<1>1. /\ T \in Seq(STRING) /\ Len(T) = Len(S) + Len(c)
      /\ Len(S) \in Nat /\ Len(c) \in Nat
      /\ \A j \in 1..(Len(S) + Len(c)) :
            T[j] = IF j <= Len(S) THEN S[j] ELSE c[j - Len(S)]
  BY ConcatProperties, LenProperties
<1> HIDE DEF T
<1>2. \A j \in 1..Len(S) : T[j] = S[j]
  BY <1>1
<1>3. IsLine(S, k, i) <=> IsLine(T, k, i)
  <2>1. T[i] = S[i] /\ (k # 1 => T[k - 1] = S[k - 1])
    BY <1>1, <1>2
  <2>2. \A j \in k..(i - 1) : T[j] = S[j]
    BY <1>1, <1>2
  <2> QED
    BY <2>1, <2>2 DEF IsLine
<1>4. /\ SubSeq(S, k, i - 1) \in Seq(STRING)
      /\ Len(SubSeq(S, k, i - 1)) = IF k <= i - 1 THEN i - 1 - k + 1 ELSE 0
      /\ \A j \in 1..(i - 1 - k + 1) : SubSeq(S, k, i - 1)[j] = S[k + j - 1]
  <2>1. \A j \in k..(i - 1) : S[j] \in STRING
    BY <1>1, ElementOfSeq
  <2>2. k \in Int /\ i - 1 \in Int
    BY <1>1
  <2> QED
    BY <2>1, <2>2, SubSeqProperties
<1>5. /\ SubSeq(T, k, i - 1) \in Seq(STRING)
      /\ Len(SubSeq(T, k, i - 1)) = IF k <= i - 1 THEN i - 1 - k + 1 ELSE 0
      /\ \A j \in 1..(i - 1 - k + 1) : SubSeq(T, k, i - 1)[j] = T[k + j - 1]
  <2>1. \A j \in k..(i - 1) : T[j] \in STRING
    BY <1>1, ElementOfSeq
  <2>2. k \in Int /\ i - 1 \in Int
    BY <1>1
  <2> QED
    BY <2>1, <2>2, SubSeqProperties
<1>6. SubSeq(T, k, i - 1) = SubSeq(S, k, i - 1)
  <2>1. \A j \in 1..Len(SubSeq(T, k, i - 1)) :
           SubSeq(T, k, i - 1)[j] = SubSeq(S, k, i - 1)[j]
    BY <1>1, <1>2, <1>4, <1>5
  <2> QED
    BY <1>4, <1>5, <2>1, SeqEqual
<1> QED
  BY <1>3, <1>6 DEF T

(* No text, no line.                                                       *)
LEMMA NoText == Rest(<<>>) = <<>> /\ ~HasHeartbeat(<<>>)
<1>1. <<>> \in Seq(STRING) /\ Len(<<>>) = 0
  BY EmptySeq
<1>2. LastNewline(<<>>) = 0
  <2>1. LastNewline(<<>>) \in 0..Len(<<>>)
    BY <1>1, LastNewlineEnds, Zenon
  <2> QED
    BY <1>1, <2>1
<1>3. SubSeq(<<>>, 1, 0) \in Seq(STRING) /\ Len(SubSeq(<<>>, 1, 0)) = 0
  BY <1>1, SubSeqProperties
<1>4. SubSeq(<<>>, 1, 0) = <<>>
  BY <1>3, EmptySeq
<1> QED
  BY <1>1, <1>2, <1>4 DEF Rest, HasHeartbeat

(* A heartbeat is found in the pieces exactly if it is in the whole.       *)
LEMMA HeartbeatOfPieces ==
  ASSUME NEW S \in Seq(STRING), NEW c \in Seq(STRING)
  PROVE  HasHeartbeat(S \o c) <=> HasHeartbeat(S) \/ HasHeartbeat(Rest(S) \o c)
<1> DEFINE K == LastNewline(S)
           B == Rest(S) \o c
           T == S \o c
<1>1. Agree(B, T, K) /\ K \in 0..Len(S) /\ EndsLines(S, K)
  BY PiecesAgree, LastNewlineEnds
<1>2. /\ Len(T) = Len(S) + Len(c) /\ Len(S) \in Nat /\ Len(c) \in Nat
      /\ K > 0 => T[K] = Newline
  BY <1>1, ConcatProperties, LenProperties DEF Agree
<1>3. ASSUME NEW i \in 1..Len(S), NEW k \in 1..i
      PROVE  /\ IsLine(S, k, i) <=> IsLine(T, k, i)
             /\ SubSeq(T, k, i - 1) = SubSeq(S, k, i - 1)
  BY PrefixAgrees
<1> HIDE DEF B, T, K
<1>4. /\ B \in Seq(STRING) /\ T \in Seq(STRING)
      /\ Len(B) \in Nat /\ K \in Nat /\ Len(T) = K + Len(B)
  BY <1>1 DEF Agree
<1>5. HasHeartbeat(S) => HasHeartbeat(T)
  <2> SUFFICES ASSUME NEW i \in 1..Len(S), NEW k \in 1..i, IsLine(S, k, i),
                      Trimmed(SubSeq(S, k, i - 1)) = Heartbeat
               PROVE  HasHeartbeat(T)
      BY DEF HasHeartbeat
  <2>1. i \in 1..Len(T)
    BY <1>2
  <2> QED
    BY <1>3, <2>1 DEF HasHeartbeat
<1>6. HasHeartbeat(B) => HasHeartbeat(T)
  <2> SUFFICES ASSUME NEW i \in 1..Len(B), NEW k \in 1..i, IsLine(B, k, i),
                      Trimmed(SubSeq(B, k, i - 1)) = Heartbeat
               PROVE  HasHeartbeat(T)
      BY DEF HasHeartbeat
  <2> DEFINE a == K + i
             b == K + k
  <2>1. a \in 1..Len(T) /\ b \in 1..a
    BY <1>4
  <2>2. IsLine(T, b, a) /\ SubSeq(T, b, a - 1) = SubSeq(B, k, i - 1)
    BY <1>1, <1>4, LinesAgree
  <2> HIDE DEF a, b
  <2> QED
    BY <2>1, <2>2 DEF HasHeartbeat
<1>7. HasHeartbeat(T) => HasHeartbeat(S) \/ HasHeartbeat(B)
  <2> SUFFICES ASSUME NEW i \in 1..Len(T), NEW k \in 1..i, IsLine(T, k, i),
                      Trimmed(SubSeq(T, k, i - 1)) = Heartbeat
               PROVE  HasHeartbeat(S) \/ HasHeartbeat(B)
      BY DEF HasHeartbeat
  <2>1. CASE i <= Len(S)
    <3>1. i \in 1..Len(S)
      BY <1>2, <2>1
    <3> QED
      BY <1>3, <3>1 DEF HasHeartbeat
  <2>2. CASE i > Len(S)
    <3>1. K < k
      BY <1>1, <1>2, <1>4, <2>2 DEF IsLine
    <3> DEFINE a == i - K
               b == k - K
    <3>2. /\ a \in 1..Len(B) /\ b \in 1..a
          /\ K + a = i /\ K + b = k
      BY <1>4, <3>1
    <3> HIDE DEF a, b
    <3>3. /\ IsLine(B, b, a) <=> IsLine(T, K + b, K + a)
          /\ SubSeq(T, K + b, K + a - 1) = SubSeq(B, b, a - 1)
      BY <1>1, <1>4, <3>2, LinesAgree
    <3>4. IsLine(B, b, a)
      BY <3>2, <3>3, Zenon
    <3>5. SubSeq(T, k, i - 1) = SubSeq(B, b, a - 1)
      <4>1. K + b = k /\ K + a - 1 = i - 1
        BY <1>4, <3>2
      <4> QED
        BY <3>3, <4>1, Zenon
    <3> QED
      BY <3>2, <3>4, <3>5 DEF HasHeartbeat
  <2> QED
    BY <1>2, <2>1, <2>2
<1> QED
  BY <1>5, <1>6, <1>7 DEF B, T

-----------------------------------------------------------------------------
(* The supervisors in the process are supervisors.                         *)

(* A write is a heartbeat or leaves the supervisors alone.                 *)
LEMMA OutputIsBeat ==
  ASSUME NEW v \in Vaults, NEW s \in Slots, Output(v, s)
  PROVE  Beat(v, s) \/ UNCHANGED vars
<1>1. child[v][s] \in {"alive", "draining"}
  BY DEF Output, Writes
<1>2. PICK chunk \in Chunks : \E n \in 0..Len(chunk) :
         IF HasHeartbeat(Pieced(pending[v][s], Taken(chunk, n)))
         THEN /\ Set(sync, v, [sync[v] EXCEPT !.beat = 0])
              /\ Set(beatBy, v, s)
              /\ UNCHANGED <<supervisor, processes, context, stale>>
         ELSE UNCHANGED vars
  BY Zenon DEF Output
<1> QED
  BY <1>1, <1>2 DEF Beat

LEMMA InProcessIsNext ==
  ASSUME ~exited, NEW v \in Vaults, InProcess(v) PROVE [Next]_vars
<1>1. CASE StartsRun(v)
  BY <1>1 DEF StartsRun, Next, Supervise
<1>2. CASE OtherSupervision(v)
  BY <1>2 DEF OtherSupervision, Next, Supervise
<1>3. ASSUME NEW s \in Slots, Launch(v, s) \/ RunReturns(v, s) PROVE Next
  BY <1>3 DEF Next, Process
<1>4. ASSUME NEW s \in Slots, Output(v, s) PROVE [Next]_vars
  BY <1>4, OutputIsBeat DEF Next, Process
<1> QED
  BY <1>1, <1>2, <1>3, <1>4 DEF InProcess

(* The process has ended when run has returned, and no sooner.             *)
EndIsExit == exited <=> stage = "exited"

LEMMA EndIsExitStep ==
  ASSUME EndIsExit, [ServiceNext]_serviceVars PROVE EndIsExit'
<1> USE DEF EndIsExit
<1>1. CASE MainOnly(MainStep)
  <2>1. CASE stage' = "exited"
    BY <1>1, <2>1 DEF MainOnly, Exit
  <2>2. CASE stage' # "exited"
    <3>1. UNCHANGED exited /\ MainStep
      BY <1>1, <2>2 DEF MainOnly, vars, context
    <3>2. stage # "exited"
      BY <3>1 DEF MainStep, LoginEnds, SetupBegins, SetupEnds, SyncBegins,
                  DiscoveryEnds, Listens, RequestBegins, RequestEnds, ServeFails,
                  ShutdownBegins, ShutdownEnds
    <3> QED
      BY <2>2, <3>1, <3>2
  <2> QED
    BY <2>1, <2>2
<1>2. ASSUME NEW v \in Vaults, InProcess(v), UNCHANGED main PROVE EndIsExit'
  <2>1. UNCHANGED exited
    <3>1. CASE StartsRun(v)
      BY <3>1 DEF StartsRun, Start, context
    <3>2. CASE OtherSupervision(v)
      BY <3>2 DEF OtherSupervision, Stop, Exited, Watch, Abort, Reap, Return,
                  Sleep, Wake, context
    <3>3. ASSUME NEW s \in Slots, Launch(v, s) \/ RunReturns(v, s) \/ Output(v, s)
          PROVE  UNCHANGED exited
      BY <3>3, OutputIsBeat DEF Launch, RunReturns, Turn, Beat, vars, context
    <3> QED
      BY <1>2, <3>1, <3>2, <3>3 DEF InProcess
  <2> QED
    BY <1>2, <2>1 DEF main
<1>3. CASE ChildDies \/ Signal
  BY <1>3 DEF ChildDies, Signal, Die, Turn, Cancel, main, context
<1>4. CASE TimePasses
  BY <1>4 DEF TimePasses, Tick, context
<1>5. CASE UNCHANGED serviceVars
  BY <1>5 DEF serviceVars, vars, context, main
<1> QED
  BY <1>1, <1>2, <1>3, <1>4, <1>5 DEF ServiceNext

LEMMA ServiceStepIsStep ==
  ASSUME EndIsExit, [ServiceNext]_serviceVars PROVE [Next]_vars
<1>1. CASE MainOnly(MainStep)
  BY <1>1 DEF MainOnly, Next
<1>2. ASSUME Syncing, NEW v \in Vaults, InProcess(v) PROVE [Next]_vars
  BY <1>2, InProcessIsNext DEF EndIsExit, Syncing
<1>3. CASE ChildDies
  BY <1>3 DEF ChildDies, Next
<1>4. CASE Signal \/ TimePasses
  BY <1>4 DEF Signal, TimePasses, Next, EndIsExit
<1>5. CASE UNCHANGED serviceVars
  BY <1>5 DEF serviceVars
<1> QED
  BY <1>1, <1>2, <1>3, <1>4, <1>5 DEF ServiceNext

(* Whatever main.go does around them, and whatever the children write, the *)
(* supervisors take only the steps of SyncSupervisor.                      *)
THEOREM SupervisorsAreSupervisors == ServiceSpec => SupervisorSpec
<1>1. ServiceInit => Init /\ EndIsExit
  BY DEF ServiceInit, Init, EndIsExit
<1>2. EndIsExit /\ [ServiceNext]_serviceVars => EndIsExit' /\ [Next]_vars
  BY EndIsExitStep, ServiceStepIsStep
<1> QED
  BY <1>1, <1>2, PTL DEF ServiceSpec, SupervisorSpec, Spec

(* The process never has two live children on one vault's copy.            *)
THEOREM ServiceHasOneChild == ServiceSpec => []OneChild
  BY SupervisorsAreSupervisors, NeverTwoChildren DEF SupervisorSpec

-----------------------------------------------------------------------------
(* While there is no child, and no supervisor in this process, nothing     *)
(* starts one.                                                             *)
LEMMA DeathNeedsAChild ==
  ASSUME NothingBeforeSetup, ChildDies PROVE connected = Vaults
  BY DEF NothingBeforeSetup, ChildDies, Die

LEMMA MainKeepsOrder ==
  ASSUME NothingBeforeSetup, MainOnly(MainStep) PROVE NothingBeforeSetup'
<1> USE DEF MainOnly, Exit, vars, processes, NothingBeforeSetup
<1>1. CASE LoginEnds
  BY <1>1 DEF LoginEnds, Fail
<1>2. ASSUME NEW v \in Vaults, SetupBegins(v) PROVE NothingBeforeSetup'
  BY <1>2 DEF SetupBegins, Fail
<1>3. ASSUME NEW v \in Vaults, SetupEnds(v) PROVE NothingBeforeSetup'
  BY <1>3 DEF SetupEnds, Fail
<1>4. CASE SyncBegins
  BY <1>4 DEF SyncBegins, SetupDone
<1>5. CASE DiscoveryEnds \/ Listens \/ RequestBegins \/ RequestEnds
  BY <1>5 DEF DiscoveryEnds, Listens, RequestBegins, RequestEnds, Fail
<1>6. CASE ServeFails \/ ShutdownBegins \/ ShutdownEnds
  BY <1>6 DEF ServeFails, ShutdownBegins, ShutdownEnds, Fail
<1> QED
  BY <1>1, <1>2, <1>3, <1>4, <1>5, <1>6 DEF MainStep

(* No vault is synced, and no request served, before every vault is        *)
(* connected: SetupVaults stops the process if one is not.                 *)
THEOREM SetupComesFirst == ServiceSpec => []NothingBeforeSetup
<1>1. ServiceInit => NothingBeforeSetup
  BY DEF ServiceInit, Init, NothingBeforeSetup
<1>2. NothingBeforeSetup /\ [ServiceNext]_serviceVars => NothingBeforeSetup'
  <2> SUFFICES ASSUME NothingBeforeSetup, [ServiceNext]_serviceVars
               PROVE  NothingBeforeSetup'
      OBVIOUS
  <2>1. CASE MainOnly(MainStep)
    BY <2>1, MainKeepsOrder
  <2>2. CASE Syncing /\ UNCHANGED main
    BY <2>2 DEF Syncing, main, NothingBeforeSetup
  <2>3. CASE ChildDies
    BY <2>3, DeathNeedsAChild DEF ChildDies, main, NothingBeforeSetup
  <2>4. CASE Signal
    BY <2>4 DEF Signal, Cancel, main, processes, NothingBeforeSetup
  <2>5. CASE TimePasses
    BY <2>5 DEF TimePasses, Tick, processes, NothingBeforeSetup
  <2>6. CASE UNCHANGED serviceVars
    BY <2>6 DEF serviceVars, vars, processes, main, NothingBeforeSetup
  <2> QED
    BY <2>1, <2>2, <2>3, <2>4, <2>5, <2>6 DEF ServiceNext
<1> QED
  BY <1>1, <1>2, PTL DEF ServiceSpec

-----------------------------------------------------------------------------
(* What makes BeatIsALine inductive: while a run is waited for, its writer *)
(* holds the rest of what the run has written.                             *)
TextTypeOK == /\ pending \in [Vaults -> [Slots -> Seq(STRING)]]
              /\ deaf \in [Vaults -> [Slots -> BOOLEAN]]
              /\ spoken \in [Vaults -> [Slots -> Seq(STRING)]]

LineInv(v) ==
    pc[v] \in {"select", "reap"} =>
       /\ pending[v][cur[v]] = Rest(spoken[v][cur[v]])
       /\ sync[v].beat # Never <=> HasHeartbeat(spoken[v][cur[v]])

LinesInv == TextTypeOK /\ \A v \in Vaults : LineInv(v)

LEMMA InitLines == ServiceInit => LinesInv
<1> SUFFICES ASSUME ServiceInit PROVE LinesInv
    OBVIOUS
<1>1. TextTypeOK
  BY EmptySeq DEF ServiceInit, TextTypeOK
<1>2. ASSUME NEW v \in Vaults PROVE LineInv(v)
  BY DEF ServiceInit, Init, LineInv
<1> QED
  BY <1>1, <1>2 DEF LinesInv

LEMMA StartsRunLines ==
  ASSUME TypeOK, LinesInv, NEW v \in Vaults, StartsRun(v)
  PROVE  TextTypeOK' /\ LineInv(v)'
<1>1. cur[v] \in {0, 1} /\ 1 - cur[v] \in Slots /\ 1 - cur[v] # cur[v]
  BY DEF TypeOK, Slots
<1>2. <<>> \in Seq(STRING)
  BY EmptySeq
<1>3. /\ cur'[v] = 1 - cur[v]
      /\ sync'[v] = [running |-> TRUE, beat |-> Never]
  BY DEF TypeOK, StartsRun, Start, StartBeat, Set
<1>4. /\ pending' = [pending EXCEPT ![v] = [s \in Slots |->
             IF s = cur[v] /\ child[v][s] \in Live THEN pending[v][s] ELSE <<>>]]
      /\ deaf' = [deaf EXCEPT ![v] = [s \in Slots |-> FALSE]]
      /\ spoken' = [spoken EXCEPT ![v] = [s \in Slots |-> <<>>]]
  BY DEF StartsRun, NewWriter
<1>5. TextTypeOK'
  BY <1>2, <1>4 DEF LinesInv, TextTypeOK
<1>6. pending'[v][1 - cur[v]] = <<>> /\ spoken'[v][1 - cur[v]] = <<>>
  BY <1>1, <1>4 DEF LinesInv, TextTypeOK
<1>7. sync'[v].beat = Never
  BY <1>3
<1> QED
  BY <1>3, <1>5, <1>6, <1>7, NoText DEF LineInv

LEMMA OutputLines ==
  ASSUME Inv, LinesInv, NEW v \in Vaults, NEW s \in Slots, Output(v, s)
  PROVE  /\ TextTypeOK' /\ LineInv(v)'
         /\ \A w \in Vaults \ {v} : UNCHANGED <<pending[w], spoken[w], sync[w]>>
         /\ UNCHANGED <<pc, cur>>
<1> DEFINE S == spoken[v][s]
           P == pending[v][s]
<1>1. TypeOK /\ S \in Seq(STRING) /\ P \in Seq(STRING) /\ cur[v] \in {0, 1}
  BY DEF Inv, TypeOK, LinesInv, TextTypeOK, Slots
<1>2. PICK c : /\ c \in Seq(STRING)
               /\ pending' = [pending EXCEPT ![v][s] = Rest(P \o c)]
               /\ \E b \in BOOLEAN : deaf' = [deaf EXCEPT ![v][s] = b]
               /\ spoken' = [spoken EXCEPT ![v][s] = S \o c]
               /\ IF HasHeartbeat(P \o c)
                  THEN /\ sync' = [sync EXCEPT ![v] = [sync[v] EXCEPT !.beat = 0]]
                       /\ UNCHANGED <<pc, cur>>
                  ELSE UNCHANGED <<sync, pc, cur>>
  <2>0. PICK chunk \in Chunks : \E n \in 0..Len(chunk) :
            /\ pending' = [pending EXCEPT ![v][s] = Rest(P \o Taken(chunk, n))]
            /\ deaf' = [deaf EXCEPT ![v][s] = n < Len(chunk)]
            /\ spoken' = [spoken EXCEPT ![v][s] = S \o Taken(chunk, n)]
            /\ IF HasHeartbeat(P \o Taken(chunk, n))
               THEN /\ sync' = [sync EXCEPT ![v] = [sync[v] EXCEPT !.beat = 0]]
                    /\ UNCHANGED <<pc, cur>>
               ELSE UNCHANGED <<sync, pc, cur>>
    BY Zenon DEF Output, Pieced, Set, supervisor, processes, vars
  <2>1. PICK n \in 0..Len(chunk) :
            /\ pending' = [pending EXCEPT ![v][s] = Rest(P \o Taken(chunk, n))]
            /\ deaf' = [deaf EXCEPT ![v][s] = n < Len(chunk)]
            /\ spoken' = [spoken EXCEPT ![v][s] = S \o Taken(chunk, n)]
            /\ IF HasHeartbeat(P \o Taken(chunk, n))
               THEN /\ sync' = [sync EXCEPT ![v] = [sync[v] EXCEPT !.beat = 0]]
                    /\ UNCHANGED <<pc, cur>>
               ELSE UNCHANGED <<sync, pc, cur>>
    BY <2>0, Zenon
  <2>2. Taken(chunk, n) \in Seq(STRING)
    <3>1. chunk \in Seq(STRING) /\ Len(chunk) \in Nat
      BY ServiceAssumption, LenProperties DEF ServiceAssumption
    <3>2. 1 \in Int /\ n \in Int /\ \A j \in 1..n : chunk[j] \in STRING
      BY <3>1, ElementOfSeq
    <3> QED
      BY <3>2, SubSeqProperties DEF Taken
  <2> DEFINE b == n < Len(chunk)
  <2>3. b \in BOOLEAN /\ deaf' = [deaf EXCEPT ![v][s] = b]
    BY <2>1
  <2> HIDE DEF b
  <2> QED
    BY <2>1, <2>2, <2>3
<1>3. c \in Seq(STRING)
  BY <1>2
<1>4. P \o c \in Seq(STRING) /\ S \o c \in Seq(STRING)
  BY <1>1, <1>3, ConcatProperties
<1>5. Rest(P \o c) \in Seq(STRING)
  BY <1>4, RestIsText
<1>6. TextTypeOK'
  BY <1>2, <1>4, <1>5 DEF LinesInv, TextTypeOK
<1>7. /\ pending'[v][s] = Rest(P \o c) /\ spoken'[v][s] = S \o c
      /\ \A w \in Vaults \ {v} : UNCHANGED <<pending[w], spoken[w]>>
  BY <1>2 DEF LinesInv, TextTypeOK
<1>8. /\ \A w \in Vaults \ {v} : sync'[w] = sync[w]
      /\ UNCHANGED <<pc, cur>>
      /\ HasHeartbeat(P \o c) => sync'[v].beat = 0
      /\ ~HasHeartbeat(P \o c) => sync'[v] = sync[v]
  BY <1>1, <1>2 DEF TypeOK
<1>9. ASSUME pc[v] \in {"select", "reap"} PROVE LineInv(v)'
  <2>1. child[v][s] \in Live /\ child[v][1 - cur[v]] \notin Live
    BY DEF Output, Writes, Live, Inv, VaultInv
  <2>2. s = cur[v]
    BY <1>1, <2>1 DEF Slots
  <2>3. P = Rest(S) /\ (sync[v].beat # Never <=> HasHeartbeat(S))
    BY <1>9, <2>2 DEF LinesInv, LineInv
  <2>4. Rest(P \o c) = Rest(S \o c)
    BY <1>1, <1>3, <2>3, RestOfPieces
  <2>5. HasHeartbeat(S \o c) <=> HasHeartbeat(S) \/ HasHeartbeat(P \o c)
    BY <1>1, <1>3, <2>3, HeartbeatOfPieces
  <2>6. sync'[v].beat # Never <=> HasHeartbeat(S \o c)
    BY <1>8, <2>3, <2>5 DEF Never
  <2>7. cur'[v] = s
    BY <1>8, <2>2
  <2> QED
    BY <1>7, <2>4, <2>6, <2>7 DEF LineInv
<1>10. LineInv(v)'
  BY <1>8, <1>9 DEF LineInv
<1> QED
  BY <1>6, <1>7, <1>8, <1>10

LEMMA ServiceStepLines ==
  ASSUME Inv, LinesInv, [ServiceNext]_serviceVars PROVE LinesInv'
<1>1. TypeOK /\ TextTypeOK
  BY DEF Inv, LinesInv
<1>2. ASSUME NEW w \in Vaults PROVE LineInv(w)
  BY DEF LinesInv
<1>3. ASSUME NEW v \in Vaults, StartsRun(v) PROVE LinesInv'
  <2>1. ASSUME NEW w \in Vaults, w # v PROVE LineInv(w)'
    <3>1. Same(w)
      BY <1>1, <1>3, <2>1, StepSame DEF StartsRun, Supervise
    <3>2. UNCHANGED <<pending[w], spoken[w]>>
      BY <1>1, <1>3, <2>1 DEF TextTypeOK, StartsRun, NewWriter
    <3> QED
      BY <1>2, <3>1, <3>2 DEF LineInv, Same
  <2> QED
    BY <1>1, <1>3, <2>1, StartsRunLines DEF LinesInv
<1>4. ASSUME NEW v \in Vaults, OtherSupervision(v) PROVE LinesInv'
  <2>1. UNCHANGED <<pending, deaf, spoken>> /\ TextTypeOK'
    BY <1>1, <1>4 DEF OtherSupervision, output, TextTypeOK
  <2>2. ASSUME NEW w \in Vaults, w # v PROVE LineInv(w)'
    <3>1. Same(w)
      BY <1>1, <1>4, <2>2, StepSame DEF OtherSupervision, Supervise
    <3> QED
      BY <1>2, <2>1, <3>1 DEF LineInv, Same
  <2>3. LineInv(v)'
    <3>1. CASE Watch(v) \/ Abort(v)
      <4>1. pc[v] = "select" /\ UNCHANGED <<sync, cur>>
        BY <3>1 DEF Watch, Abort
      <4> QED
        BY <1>2, <2>1, <4>1 DEF LineInv
    <3>2. CASE Stop(v) \/ Exited(v) \/ Reap(v) \/ Sleep(v) \/ Wake(v)
      <4>1. pc'[v] \in {"done", "returned", "sleep", "top"}
        BY <1>1, <3>2 DEF TypeOK, Stop, Exited, Reap, Return, Sleep, Wake, Set
      <4> QED
        BY <4>1 DEF LineInv
    <3> QED
      BY <1>4, <3>1, <3>2 DEF OtherSupervision
  <2> QED
    BY <2>1, <2>2, <2>3 DEF LinesInv
<1>5. ASSUME NEW v \in Vaults, NEW s \in Slots, UNCHANGED output,
             Launch(v, s) \/ RunReturns(v, s) \/ Die(v, s)
      PROVE  LinesInv'
  BY <1>1, <1>2, <1>5 DEF Launch, RunReturns, Die, Turn, supervisor, output,
                          LinesInv, LineInv, TextTypeOK
<1>6. ASSUME NEW v \in Vaults, NEW s \in Slots, Output(v, s) PROVE LinesInv'
  <2>1. /\ TextTypeOK' /\ LineInv(v)' /\ UNCHANGED <<pc, cur>>
        /\ \A w \in Vaults \ {v} : UNCHANGED <<pending[w], spoken[w], sync[w]>>
    BY <1>6, OutputLines
  <2>2. ASSUME NEW w \in Vaults, w # v PROVE LineInv(w)'
    BY <1>2, <2>1, <2>2 DEF LineInv
  <2> QED
    BY <2>1, <2>2 DEF LinesInv
<1>7. CASE TimePasses
  <2>1. /\ UNCHANGED <<pc, cur, pending, deaf, spoken>>
        /\ sync' = [v \in Vaults |->
              [sync[v] EXCEPT !.beat = IF @ = Never THEN @ ELSE Older(@)]]
    BY <1>7 DEF TimePasses, Tick, processes, output
  <2>2. ASSUME NEW v \in Vaults
        PROVE  sync'[v].beat # Never <=> sync[v].beat # Never
    <3>1. sync[v].beat \in {Never} \cup 0..Cap /\ DOMAIN sync[v] = {"running", "beat"}
      BY <1>1 DEF TypeOK
    <3>2. sync'[v].beat = IF sync[v].beat = Never THEN Never ELSE Older(sync[v].beat)
      BY <1>1, <2>1 DEF TypeOK
    <3> QED
      BY <3>1, <3>2 DEF Older, Never
  <2> QED
    BY <1>1, <1>2, <2>1, <2>2 DEF LinesInv, LineInv, TextTypeOK
<1>8. ASSUME UNCHANGED <<pc, cur, sync, pending, deaf, spoken>> PROVE LinesInv'
  BY <1>1, <1>2, <1>8 DEF LinesInv, LineInv, TextTypeOK
<1>9. CASE MainOnly(MainStep) \/ Signal \/ UNCHANGED serviceVars
  BY <1>8, <1>9 DEF MainOnly, Exit, Signal, Cancel, serviceVars, vars, supervisor,
                    processes, output
<1>10. ASSUME NEW v \in Vaults, InProcess(v) PROVE LinesInv'
  BY <1>3, <1>4, <1>5, <1>6, <1>10 DEF InProcess
<1>11. CASE ChildDies
  BY <1>5, <1>11 DEF ChildDies
<1> QED
  BY <1>7, <1>9, <1>10, <1>11 DEF ServiceNext

(* The heartbeat on record is one that the current run has written, as a   *)
(* line of its own, in however many pieces the writer got it; and none     *)
(* that it has written is missed.                                          *)
THEOREM HeartbeatsAreLines == ServiceSpec => []BeatIsALine
<1>1. ServiceInit => LinesInv
  BY InitLines
<1>2. Inv /\ LinesInv /\ [ServiceNext]_serviceVars => LinesInv'
  BY ServiceStepLines
<1>3. ServiceSpec => []Inv
  BY SupervisorsAreSupervisors, InvHolds DEF SupervisorSpec
<1>4. LinesInv => BeatIsALine
  BY DEF LinesInv, LineInv, BeatIsALine
<1> QED
  BY <1>1, <1>2, <1>3, <1>4, PTL DEF ServiceSpec

-----------------------------------------------------------------------------
MainTypeOK == /\ stage \in {"login", "setup", "discover", "listen", "serve",
                            "drain", "exited"}
              /\ ob \in {NoCommand, LoginCommand} \cup Vaults
              /\ connected \subseteq Vaults
              /\ requests \in 0..MaxRequests
              /\ grace \in 0..Grace

LEMMA MainStepTypeOK == ASSUME MainTypeOK, MainStep PROVE MainTypeOK'
<1> USE DEF MainTypeOK
<1>1. MaxRequests \in Nat /\ Grace \in Nat
  BY ServiceAssumption DEF ServiceAssumption
<1>2. CASE LoginEnds \/ SyncBegins \/ DiscoveryEnds \/ Listens
  BY <1>2 DEF LoginEnds, SyncBegins, DiscoveryEnds, Listens, Fail
<1>3. ASSUME NEW v \in Vaults, SetupBegins(v) \/ SetupEnds(v) PROVE MainTypeOK'
  BY <1>3 DEF SetupBegins, SetupEnds, Fail
<1>4. CASE RequestBegins \/ RequestEnds
  BY <1>1, <1>4 DEF RequestBegins, RequestEnds
<1>5. CASE ServeFails \/ ShutdownEnds
  BY <1>5 DEF ServeFails, ShutdownEnds, Fail
<1>6. CASE ShutdownBegins
  BY <1>1, <1>6 DEF ShutdownBegins, ShutdownTimeout
<1> QED
  BY <1>2, <1>3, <1>4, <1>5, <1>6 DEF MainStep

LEMMA ServiceStepMain ==
  ASSUME MainTypeOK, [ServiceNext]_serviceVars PROVE MainTypeOK'
<1>1. CASE MainOnly(MainStep)
  BY <1>1, MainStepTypeOK DEF MainOnly
<1>2. CASE TimePasses
  <2>1. Grace \in Nat
    BY ServiceAssumption DEF ServiceAssumption
  <2> QED
    BY <1>2, <2>1 DEF MainTypeOK, TimePasses, Sooner
<1>3. CASE UNCHANGED main
  BY <1>3 DEF main, MainTypeOK
<1>4. CASE ChildDies \/ Signal \/ UNCHANGED serviceVars
  BY <1>3, <1>4 DEF ChildDies, Signal, serviceVars
<1> QED
  BY <1>1, <1>2, <1>3, <1>4 DEF ServiceNext

(* Every variable of the composition keeps its type: no request is counted *)
(* twice, and the shutdown's timeout only runs down.                       *)
THEOREM ServiceTypeCorrect == ServiceSpec => []ServiceTypeOK
<1>1. ServiceInit => MainTypeOK /\ EndIsExit /\ LinesInv
  BY InitLines, ServiceAssumption
     DEF ServiceInit, Init, MainTypeOK, EndIsExit, ServiceAssumption
<1>2. MainTypeOK /\ EndIsExit /\ [ServiceNext]_serviceVars
        => MainTypeOK' /\ EndIsExit'
  BY ServiceStepMain, EndIsExitStep
<1>3. Inv /\ LinesInv /\ [ServiceNext]_serviceVars => LinesInv'
  BY ServiceStepLines
<1>4. ServiceSpec => []Inv
  BY SupervisorsAreSupervisors, InvHolds DEF SupervisorSpec
<1>5. MainTypeOK /\ EndIsExit /\ LinesInv => ServiceTypeOK
  BY DEF MainTypeOK, EndIsExit, LinesInv, TextTypeOK, ServiceTypeOK
<1> QED
  BY <1>1, <1>2, <1>3, <1>4, <1>5, PTL DEF ServiceSpec
=============================================================================
