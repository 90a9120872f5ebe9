--------------------------- MODULE ChecksumProofs ---------------------------
(***************************************************************************)
(* The Internet checksum of Packets, for octet strings of any length: it   *)
(* is the complement that makes the words of a message add up to zero, and *)
(* for every packet that the length field of an IPv6 header can describe   *)
(* no u32 overflows on the way.                                            *)
(*                                                                         *)
(* The lemmas that PacketsProofs and NamesProofs need as well come first.  *)
(***************************************************************************)
EXTENDS Packets, SequenceTheorems, NaturalsInduction, WellFoundedInduction, TLAPS

Octet == {n \in Nat : n < 256}
Word == {n \in Nat : n < 65536}

\* A set of numbers has a least one, unless it is empty.
LEMMA LeastNumber ==
  ASSUME NEW T, T \subseteq Nat, T # {}
  PROVE  \E m \in T : \A n \in T : m <= n
<1>1. \E m \in T : \A n \in T : ~ (<<n, m>> \in OpToRel(<, Nat))
  BY WFMin, NatLessThanWellFounded, Zenon
<1>2. \A m, n \in T : ~ (<<n, m>> \in OpToRel(<, Nat)) => m <= n
  BY DEF OpToRel
<1> QED
  BY <1>1, <1>2
-----------------------------------------------------------------------------
(* Induction, over sets. *)

LEMMA Upwards ==
  ASSUME NEW n \in Nat, NEW T, 0 \in T, \A i \in 1..n : i - 1 \in T => i \in T
  PROVE  0..n \subseteq T
<1> DEFINE F == {i \in 0..n : i \notin T}
<1> SUFFICES ASSUME F # {} PROVE FALSE
  OBVIOUS
<1>1. PICK m \in F : \A i \in F : m <= i
  <2>1. F \subseteq Nat
    OBVIOUS
  <2> HIDE DEF F
  <2> QED
    BY <2>1, LeastNumber
<1>2. m \in 1..n /\ m - 1 \in 0..n /\ ~(m <= m - 1) /\ m \notin T
  OBVIOUS
<1>3. m - 1 \in T
  <2> HIDE DEF F
  <2>1. m - 1 \notin F
    BY <1>1, <1>2
  <2> USE DEF F
  <2> QED
    BY <1>2, <2>1
<1> QED
  BY <1>2, <1>3

\* Every sequence is the empty one with elements appended.
LEMMA Appending ==
  ASSUME NEW X, NEW T, <<>> \in T,
         \A s \in Seq(X), c \in X : s \in T => Append(s, c) \in T
  PROVE  Seq(X) \subseteq T
<1> SUFFICES ASSUME NEW t \in Seq(X) PROVE t \in T
  OBVIOUS
<1> DEFINE n == Len(t)
           start(i) == SubSeq(t, 1, i)
           S == {i \in 0..n : start(i) \in T}
<1>1. n \in Nat
  BY LenProperties
<1>2. start(0) = <<>> /\ start(n) = t
  BY SubSeqEmpty, SubSeqFull, <1>1
<1>3. ASSUME NEW i \in 1..n
      PROVE  /\ start(i) = Append(start(i - 1), t[i])
             /\ start(i - 1) \in Seq(X) /\ t[i] \in X
  <2>1. i \in Int /\ 1 \in 1..(n + 1) /\ i \in 1..n /\ i - 1 \in 0..n
    BY <1>1
  <2>2. \A j \in 1..(i - 1) : t[j] \in X
    BY <1>1, ElementOfSeq
  <2>3. SubSeq(t, 1, i - 1) \in Seq(X)
    BY <2>1, <2>2, SubSeqProperties
  <2>4. SubSeq(t, 1, i) = Append(SubSeq(t, 1, i - 1), t[i])
    BY <2>1, SubSeqRecursiveSecond
  <2> QED
    BY <2>3, <2>4, ElementOfSeq
<1> HIDE DEF n, start
<1>4. 0 \in S
  <2>1. 0 \in 0..n
    BY <1>1
  <2> QED
    BY <1>2, <2>1
<1>5. ASSUME NEW i \in 1..n, i - 1 \in S
      PROVE  i \in S
  <2>1. i \in 0..n
    BY <1>1
  <2>2. start(i) \in T
    BY <1>3, <1>5
  <2> QED
    BY <2>1, <2>2
<1> HIDE DEF S
<1>6. 0..n \subseteq S
  BY <1>1, <1>4, <1>5, Upwards
<1>7. n \in S
  BY <1>1, <1>6
<1> USE DEF S
<1> QED
  BY <1>2, <1>7

\* A function on 0..n is given by its first value and by how each next one is made from
\* an earlier one.
Jumps(f, n, V, first, prev, step) ==
  f \in [0..n -> V] /\ f[0] = first /\ \A i \in 1..n : f[i] = step[i][f[prev[i]]]

LEMMA JumpsExist ==
  ASSUME NEW n \in Nat, NEW V, NEW first \in V, NEW step \in [1..n -> [V -> V]],
         NEW prev \in [1..n -> Nat], \A i \in 1..n : prev[i] < i
  PROVE  \E f : Jumps(f, n, V, first, prev, step)
<1> DEFINE Good(f, m) == /\ f \in [0..m -> V] /\ f[0] = first
                         /\ \A i \in 1..m : f[i] = step[i][f[prev[i]]]
           T == {m \in 0..n : \E f : Good(f, m)}
<1>1. 0 \in T
  <2>1. Good([i \in 0..0 |-> first], 0)
    OBVIOUS
  <2> HIDE DEF Good
  <2> QED
    BY <2>1
<1>2. ASSUME NEW m \in 1..n, m - 1 \in T
      PROVE  m \in T
  <2>1. PICK f : Good(f, m - 1)
    BY <1>2
  <2> DEFINE g == [i \in 0..m |-> IF i = m THEN step[m][f[prev[m]]] ELSE f[i]]
  <2>2. m \in Nat /\ m # 0 /\ m \in 0..n
    OBVIOUS
  <2>3. \A i \in 1..m : prev[i] \in 0..(i - 1)
    BY <2>2
  <2>4. step[m][f[prev[m]]] \in V
    <3>1. prev[m] \in 0..(m - 1)
      BY <2>2, <2>3
    <3>2. f[prev[m]] \in V
      BY <2>1, <3>1
    <3> QED
      BY <3>2
  <2>5. \A i \in 0..m : i # m => i \in 0..(m - 1)
    BY <2>2
  <2>6. g \in [0..m -> V] /\ g[0] = first
    BY <2>1, <2>2, <2>4, <2>5
  <2>7. ASSUME NEW i \in 1..m
        PROVE  g[i] = step[i][g[prev[i]]]
    <3>1. prev[i] \in 0..m /\ prev[i] # m /\ i \in 0..m
      BY <2>2, <2>3
    <3>2. g[prev[i]] = f[prev[i]]
      BY <3>1
    <3>3. CASE i = m
      <4>1. g[i] = step[m][f[prev[m]]]
        BY <3>1, <3>3
      <4> HIDE DEF g
      <4> QED
        BY <3>2, <3>3, <4>1
    <3>4. CASE i # m
      <4>1. i \in 1..(m - 1) /\ g[i] = f[i]
        BY <2>2, <3>1, <3>4
      <4> HIDE DEF g
      <4> QED
        BY <2>1, <3>2, <4>1
    <3> QED
      BY <3>3, <3>4
  <2>8. Good(g, m)
    <3> HIDE DEF g
    <3> QED
      BY <2>6, <2>7
  <2> HIDE DEF Good
  <2> QED
    BY <2>2, <2>8
<1> HIDE DEF T
<1>3. 0..n \subseteq T
  BY <1>1, <1>2, Upwards
<1>4. n \in T
  BY <1>3
<1> USE DEF T
<1>5. PICK f : Good(f, n)
  BY <1>4
<1> QED
  BY <1>5 DEF Jumps

\* The earlier one may be the one before.
Steps(f, n, V, first, step) ==
  f \in [0..n -> V] /\ f[0] = first /\ \A i \in 1..n : f[i] = step[i][f[i - 1]]

LEMMA Recursion ==
  ASSUME NEW n \in Nat, NEW V, NEW first \in V, NEW step \in [1..n -> [V -> V]]
  PROVE  \E f : Steps(f, n, V, first, step)
<1> DEFINE prev == [i \in 1..n |-> i - 1]
<1>1. prev \in [1..n -> Nat] /\ \A i \in 1..n : prev[i] < i /\ prev[i] = i - 1
  OBVIOUS
<1> HIDE DEF prev
<1>2. PICK f : Jumps(f, n, V, first, prev, step)
  BY <1>1, JumpsExist
<1>3. Steps(f, n, V, first, step)
  BY <1>1, <1>2 DEF Jumps, Steps
<1> QED
  BY <1>3
-----------------------------------------------------------------------------
(* Sequences of anything, taken apart. *)

\* The two ends of a sequence that is not empty.
LEMMA Ends ==
  ASSUME NEW X, NEW p \in Seq(X), p # <<>>
  PROVE  /\ Front(p) \in Seq(X) /\ Last(p) \in X
         /\ p = Append(Front(p), Last(p))
         /\ Len(p) \in Nat /\ Len(p) # 0 /\ Len(Front(p)) = Len(p) - 1
<1>1. Len(p) \in Nat /\ Len(p) # 0
  BY LenProperties, EmptySeq
<1>2. Last(p) \in X
  BY <1>1, ElementOfSeq DEF Last
<1>3. /\ Front(p) \in Seq(X) /\ Len(Front(p)) = Len(p) - 1
      /\ \A i \in 1..(Len(p) - 1) : Front(p)[i] = p[i]
  <2> DEFINE k == Len(p) - 1
             q == SubSeq(p, 1, k)
  <2>1. \A i \in 1..k : p[i] \in X
    BY <1>1, ElementOfSeq
  <2>0. k \in Nat
    BY <1>1
  <2>3. Front(p) = q
    BY DEF Front
  <2> HIDE DEF k
  <2>2. 1 \in Int /\ k \in Int /\ k - 1 + 1 = k /\ (1 <= k \/ k = 0)
    BY <2>0
  <2>6. \A i \in 1..k : 1 + i - 1 = i
    BY <2>0
  <2>4. /\ q \in Seq(X) /\ Len(q) = IF 1 <= k THEN k - 1 + 1 ELSE 0
        /\ \A i \in 1..(k - 1 + 1) : q[i] = p[1 + i - 1]
    BY <2>1, <2>2, SubSeqProperties
  <2> HIDE DEF q
  <2>5. Len(q) = k /\ \A i \in 1..k : q[i] = p[i]
    BY <2>2, <2>4, <2>6
  <2> QED
    BY <2>3, <2>4, <2>5 DEF k
<1>4. p = Append(Front(p), Last(p))
  BY <1>1, <1>2, <1>3 DEF Last
<1> QED
  BY <1>1, <1>2, <1>3, <1>4

LEMMA EndsOfAppend ==
  ASSUME NEW X, NEW q \in Seq(X), NEW x \in X
  PROVE  /\ Append(q, x) \in Seq(X) /\ Append(q, x) # <<>>
         /\ Len(Append(q, x)) = Len(q) + 1
         /\ Front(Append(q, x)) = q /\ Last(Append(q, x)) = x
<1>1. Len(q) \in Nat
  BY LenProperties
<1>2. Append(q, x) \in Seq(X) /\ Append(q, x) # <<>> /\ Len(Append(q, x)) = Len(q) + 1
  BY <1>1
<1>3. Last(Append(q, x)) = x
  BY <1>1, <1>2 DEF Last
<1>4. Front(Append(q, x)) = q
  <2> DEFINE a == Append(q, x)
  <2>1. Front(a) \in Seq(X) /\ Len(Front(a)) = Len(a) - 1 /\ a = Append(Front(a), Last(a))
    BY <1>2, Ends
  <2> HIDE DEF a
  <2>2. Append(Front(a), x) = Append(q, x)
    BY <1>3, <2>1 DEF a
  <2> QED
    BY <2>1, <2>2, AppendInjective DEF a
<1> QED
  BY <1>2, <1>3, <1>4

\* A sequence is cut in two anywhere.
LEMMA CutInTwo ==
  ASSUME NEW X, NEW t \in Seq(X), NEW k \in 0..Len(t)
  PROVE  /\ SubSeq(t, 1, k) \in Seq(X) /\ Len(SubSeq(t, 1, k)) = k
         /\ SubSeq(t, k + 1, Len(t)) \in Seq(X)
         /\ Len(SubSeq(t, k + 1, Len(t))) = Len(t) - k
         /\ t = SubSeq(t, 1, k) \o SubSeq(t, k + 1, Len(t))
<1> DEFINE a == SubSeq(t, 1, k)
           b == SubSeq(t, k + 1, Len(t))
<1>1. Len(t) \in Nat /\ k \in Nat /\ k <= Len(t)
  BY LenProperties
<1>2. \A i \in 1..Len(t) : t[i] \in X
  BY ElementOfSeq
<1>3. a \in Seq(X) /\ Len(a) = k /\ \A i \in 1..k : a[i] = t[i]
  <2>1. 1 \in Int /\ k \in Int /\ \A i \in 1..k : t[i] \in X
    BY <1>1, <1>2
  <2>2. /\ a \in Seq(X) /\ Len(a) = IF 1 <= k THEN k - 1 + 1 ELSE 0
        /\ \A i \in 1..(k - 1 + 1) : a[i] = t[1 + i - 1]
    BY <2>1, SubSeqProperties
  <2> HIDE DEF a
  <2>3. k - 1 + 1 = k /\ \A i \in 1..k : 1 + i - 1 = i
    BY <1>1
  <2> QED
    BY <1>1, <2>2, <2>3
<1>4. /\ b \in Seq(X) /\ Len(b) = Len(t) - k
      /\ \A i \in 1..(Len(t) - k) : b[i] = t[k + i]
  <2> DEFINE m == k + 1
             n == Len(t)
  <2>1. m \in Int /\ n \in Int /\ \A i \in m..n : t[i] \in X
    BY <1>1, <1>2
  <2>3. n - m + 1 = n - k /\ \A i \in 1..(n - k) : m + i - 1 = k + i
    BY <1>1
  <2>4. m <= n \/ n - k = 0
    BY <1>1
  <2> HIDE DEF m, n
  <2>2. /\ SubSeq(t, m, n) \in Seq(X)
        /\ Len(SubSeq(t, m, n)) = IF m <= n THEN n - m + 1 ELSE 0
        /\ \A i \in 1..(n - m + 1) : SubSeq(t, m, n)[i] = t[m + i - 1]
    BY <2>1, SubSeqProperties
  <2>5. b = SubSeq(t, m, n)
    BY DEF m, n
  <2> HIDE DEF b
  <2>6. Len(b) = n - k
    <3>1. n - k \in Int /\ (m <= n => n - m + 1 = n - k) /\ (~(m <= n) => n - k = 0)
      BY <1>1, <2>1, <2>3, <2>4
    <3> QED
      BY <2>2, <2>5, <3>1
  <2> QED
    BY <2>2, <2>3, <2>5, <2>6 DEF n
<1> HIDE DEF a, b
<1>5. t = a \o b
  <2>1. /\ a \o b \in Seq(X) /\ Len(a \o b) = Len(a) + Len(b)
        /\ \A i \in 1..(Len(a) + Len(b)) :
             (a \o b)[i] = IF i <= Len(a) THEN a[i] ELSE b[i - Len(a)]
    BY <1>3, <1>4, ConcatProperties
  <2>2. Len(a \o b) = Len(t)
    BY <1>1, <1>3, <1>4, <2>1
  <2>3. ASSUME NEW i \in 1..Len(t)
        PROVE  t[i] = (a \o b)[i]
    <3>1. (a \o b)[i] = IF i <= k THEN a[i] ELSE b[i - k]
      BY <1>1, <1>3, <1>4, <2>1
    <3>2. CASE i <= k
      BY <1>3, <3>1, <3>2
    <3>3. CASE ~(i <= k)
      <4>1. i - k \in 1..(Len(t) - k) /\ k + (i - k) = i
        BY <1>1, <3>3
      <4> QED
        BY <1>4, <3>1, <3>3, <4>1
    <3> QED
      BY <3>2, <3>3
  <2> QED
    BY <2>1, <2>2, <2>3, SeqEqual
<1> QED
  BY <1>3, <1>4, <1>5 DEF a, b

LEMMA StartOf ==
  ASSUME NEW X, NEW t \in Seq(X), NEW k \in 0..Len(t)
  PROVE  /\ SubSeq(t, 1, k) \in Seq(X) /\ Len(SubSeq(t, 1, k)) = k
         /\ \A i \in 1..k : SubSeq(t, 1, k)[i] = t[i]
<1> DEFINE a == SubSeq(t, 1, k)
           b == SubSeq(t, k + 1, Len(t))
<1>1. a \in Seq(X) /\ Len(a) = k /\ b \in Seq(X) /\ t = a \o b
  BY CutInTwo, ZenonT(60)
<1> HIDE DEF a, b
<1>2. \A i \in 1..k : t[i] = a[i]
  <2>1. Len(b) \in Nat /\ k \in Nat
    BY <1>1, LenProperties
  <2>2. \A i \in 1..(Len(a) + Len(b)) : t[i] = IF i <= Len(a) THEN a[i] ELSE b[i - Len(a)]
    BY <1>1, ConcatProperties
  <2> QED
    BY <1>1, <2>1, <2>2
<1> QED
  BY <1>1, <1>2 DEF a
-----------------------------------------------------------------------------
(* Folding the carries. *)

\* What is left of a sum when no carry is: itself modulo 2^16 - 1, but only zero is
\* folded into zero.
Folded(s) == IF s = 0 THEN 0 ELSE 1 + ((s - 1) % 65535)

\* Each round leaves what is sought as it was, and makes the sum smaller.
LEMMA FoldRound ==
  ASSUME NEW s \in Nat
  PROVE  LET t == (s % 65536) + (s \div 65536) IN
         IF s \div 65536 = 0 THEN Folded(s) = s
         ELSE t \in Nat /\ t < s /\ Folded(t) = Folded(s)
<1> DEFINE t == (s % 65536) + (s \div 65536)
<1>1. CASE s \div 65536 = 0
  <2>1. s < 65536
    BY <1>1
  <2>2. s # 0 => (s - 1) % 65535 = s - 1
    BY <2>1
  <2> QED
    BY <1>1, <2>2 DEF Folded
<1>2. CASE s \div 65536 # 0
  <2>1. t \in Nat /\ t < s /\ t # 0 /\ s # 0
    BY <1>2
  <2>2. (t - 1) % 65535 = (s - 1) % 65535
    BY <1>2
  <2> QED
    BY <1>2, <2>1, <2>2 DEF Folded
<1> QED
  BY <1>1, <1>2

\* The loop of checksum_finish() ends, with just that.
LEMMA FinishIsComplement ==
  ASSUME NEW sum \in Nat
  PROVE  checksum_finish(sum) = 65535 - Folded(sum)
<1> DEFINE round(f) == [s \in Nat |-> IF s \div 65536 = 0 THEN s
                                      ELSE f[(s % 65536) + (s \div 65536)]]
           fold == CHOOSE f : f = round(f)
           folded == [s \in Nat |-> Folded(s)]
           T == {s \in Nat : fold[s] # Folded(s)}
<1>1. folded = round(folded)
  <2>1. ASSUME NEW s \in Nat
        PROVE  folded[s] = round(folded)[s]
    BY FoldRound
  <2> QED
    BY <2>1
<1>2. fold = round(fold)
  <2> HIDE DEF round, folded
  <2> QED
    BY <1>1
<1> HIDE DEF fold
<1>3. \A s \in Nat : fold[s] = IF s \div 65536 = 0 THEN s
                               ELSE fold[(s % 65536) + (s \div 65536)]
  BY <1>2
<1>4. T = {}
  <2> SUFFICES ASSUME T # {} PROVE FALSE
    OBVIOUS
  <2>1. PICK m \in T : \A n \in T : m <= n
    <3>1. T \subseteq Nat
      OBVIOUS
    <3> HIDE DEF T
    <3> QED
      BY <3>1, LeastNumber
  <2>2. m \in Nat /\ fold[m] # Folded(m)
    OBVIOUS
  <2>3. CASE m \div 65536 = 0
    BY <1>3, <2>2, <2>3, FoldRound
  <2>4. CASE m \div 65536 # 0
    <3> DEFINE t == (m % 65536) + (m \div 65536)
    <3>1. t \in Nat /\ t < m /\ Folded(t) = Folded(m)
      BY <2>2, <2>4, FoldRound
    <3>2. fold[m] = fold[t]
      BY <1>3, <2>2, <2>4
    <3> HIDE DEF t
    <3>3. fold[t] = Folded(t)
      BY <2>1, <2>2, <3>1
    <3> QED
      BY <2>2, <3>1, <3>2, <3>3
  <2> QED
    BY <2>3, <2>4
<1>5. checksum_finish(sum) = 65535 - fold[sum]
  BY DEF checksum_finish, fold
<1> QED
  BY <1>4, <1>5

\* It is a u16, and makes up for the sum in one's complement.
LEMMA FinishMakesUp ==
  ASSUME NEW sum \in Nat
  PROVE  /\ checksum_finish(sum) \in Word
         /\ (sum + checksum_finish(sum)) % 65535 = 0
<1> DEFINE rest == (sum - 1) % 65535
<1>1. CASE sum = 0
  BY <1>1, FinishIsComplement DEF Folded, Word
<1>2. CASE sum # 0
  <2>1. checksum_finish(sum) = 65534 - rest
    BY <1>2, FinishIsComplement DEF Folded
  <2>2. 65534 - rest \in Word
    BY DEF Word
  <2>3. (sum + (65534 - rest)) % 65535 = 0
    BY <1>2
  <2> HIDE DEF rest
  <2> QED
    BY <2>1, <2>2, <2>3
<1> QED
  BY <1>1, <1>2
-----------------------------------------------------------------------------
(* Adding up words. *)

\* Two running sums that take the same steps stay as far apart as they began.
SameSteps(n, f, g) == \A i \in 1..n : f[i] - f[i - 1] = g[i] - g[i - 1]

LEMMA StayApart ==
  ASSUME NEW n \in Nat, NEW f \in [0..n -> Nat], NEW g \in [0..n -> Nat],
         SameSteps(n, f, g)
  PROVE  \A i \in 0..n : f[i] - g[i] = f[0] - g[0]
<1> DEFINE T == {i \in 0..n : f[i] - g[i] # f[0] - g[0]}
<1> SUFFICES ASSUME T # {} PROVE FALSE
  OBVIOUS
<1>1. PICK m \in T : \A i \in T : m <= i
  <2>1. T \subseteq Nat
    OBVIOUS
  <2> HIDE DEF T
  <2> QED
    BY <2>1, LeastNumber
<1>2. m \in 1..n /\ m - 1 \in 0..n
  OBVIOUS
<1>3. f[m - 1] - g[m - 1] = f[0] - g[0]
  BY <1>1, <1>2
<1>4. f[m] - f[m - 1] = g[m] - g[m - 1]
  BY <1>2 DEF SameSteps
<1>5. f[m] \in Nat /\ f[m - 1] \in Nat /\ g[m] \in Nat /\ g[m - 1] \in Nat
      /\ f[0] \in Nat /\ g[0] \in Nat
  BY <1>2
<1>6. m \in 0..n /\ f[m] - g[m] # f[0] - g[0]
  OBVIOUS
<1> HIDE DEF T
<1> QED
  BY <1>3, <1>4, <1>5, <1>6

\* f is the running sum of the pairs of octets.
Runs(f, sum, octets) ==
  /\ f \in [0..(Len(octets) \div 2) -> Nat]
  /\ f[0] = sum
  /\ \A i \in 1..(Len(octets) \div 2) : f[i] = f[i - 1] + Octet16(octets, 2 * i - 1)

\* A pair of octets is a word.
LEMMA PairIsWord ==
  ASSUME NEW octets \in Seq(Octet), NEW i \in 1..(Len(octets) - 1)
  PROVE  Octet16(octets, i) \in Word
<1>1. octets[i] \in Octet /\ octets[i + 1] \in Octet
  BY ElementOfSeq
<1>2. ASSUME NEW x \in Octet, NEW y \in Octet
      PROVE  x * 256 + y \in Word
  BY DEF Octet, Word
<1> QED
  BY <1>1, <1>2 DEF Octet16

\* There is one,
LEMMA RunExists ==
  ASSUME NEW sum \in Nat, NEW octets \in Seq(Octet)
  PROVE  \E f : Runs(f, sum, octets)
<1> DEFINE n == Len(octets) \div 2
           Good(f, m) == /\ f \in [0..m -> Nat]
                         /\ f[0] = sum
                         /\ \A i \in 1..m : f[i] = f[i - 1] + Octet16(octets, 2 * i - 1)
           T == {m \in 0..n : ~\E f : Good(f, m)}
<1>1. n \in Nat /\ \A i \in 1..n : 2 * i - 1 \in 1..(Len(octets) - 1)
  <2>1. Len(octets) \in Nat
    BY LenProperties
  <2> QED
    BY <2>1
<1>2. \A i \in 1..n : Octet16(octets, 2 * i - 1) \in Nat
  BY <1>1, PairIsWord DEF Word
<1> HIDE DEF n
<1>3. T = {}
  <2> SUFFICES ASSUME T # {} PROVE FALSE
    OBVIOUS
  <2>1. PICK m \in T : \A i \in T : m <= i
    <3>1. T \subseteq Nat
      BY <1>1
    <3> HIDE DEF T
    <3> QED
      BY <3>1, LeastNumber
  <2>2. m \in Nat /\ m \in 0..n
    BY <1>1
  <2>3. CASE m = 0
    <3>1. Good([i \in 0..0 |-> sum], 0)
      OBVIOUS
    <3> QED
      BY <2>1, <2>3, <3>1
  <2>4. CASE m # 0
    <3>1. m \in 1..n /\ m - 1 \in 0..n /\ m - 1 < m
      BY <2>2, <2>4, <1>1
    <3>0. \E f : Good(f, m - 1)
      <4>1. ~(m <= m - 1)
        BY <2>2
      <4> HIDE DEF T
      <4>2. m - 1 \notin T
        BY <2>1, <4>1
      <4> USE DEF T
      <4> QED
        BY <3>1, <4>2
    <3>2. PICK f : Good(f, m - 1)
      BY <3>0
    <3> DEFINE g == [i \in 0..m |-> IF i = m THEN f[m - 1] + Octet16(octets, 2 * m - 1)
                                    ELSE f[i]]
    <3>3. f[m - 1] \in Nat /\ Octet16(octets, 2 * m - 1) \in Nat
      BY <1>2, <2>2, <3>1, <3>2
    <3>4. g \in [0..m -> Nat] /\ g[0] = sum
      BY <2>2, <2>4, <3>2, <3>3
    <3>5. ASSUME NEW i \in 1..m
          PROVE  g[i] = g[i - 1] + Octet16(octets, 2 * i - 1)
      <4>1. i - 1 \in 0..m /\ i - 1 # m /\ i \in 0..m
        BY <2>2
      <4>2. g[i - 1] = f[i - 1]
        BY <4>1
      <4>3. CASE i = m
        BY <4>1, <4>2, <4>3
      <4>4. CASE i # m
        <5>1. i \in 1..(m - 1) /\ g[i] = f[i]
          BY <2>2, <4>1, <4>4
        <5> QED
          BY <3>2, <4>2, <5>1
      <4> QED
        BY <4>3, <4>4
    <3>6. Good(g, m)
      BY <3>4, <3>5
    <3> QED
      BY <2>1, <3>6
  <2> QED
    BY <2>3, <2>4
<1>4. n \in 0..n
  BY <1>1
<1>5. \E f : Good(f, n)
  BY <1>3, <1>4
<1> QED
  BY <1>5 DEF Runs, n

\* and the loop computes it.
LEMMA LoopRuns ==
  ASSUME NEW sum \in Nat, NEW octets \in Seq(Octet), NEW f, Runs(f, sum, octets)
  PROVE  chunks_exact_sum(sum, octets) = f[Len(octets) \div 2]
<1> DEFINE n == Len(octets) \div 2
           turn(h) == [i \in 0..n |-> IF i = 0 THEN sum
                                      ELSE h[i - 1] + Octet16(octets, 2 * i - 1)]
           after == CHOOSE h : h = turn(h)
           T == {i \in 0..n : after[i] # f[i]}
<1>1. n \in Nat
  BY LenProperties
<1>2. f = turn(f)
  BY <1>1 DEF Runs
<1>3. after = turn(after)
  <2> HIDE DEF turn
  <2> QED
    BY <1>2
<1>4. chunks_exact_sum(sum, octets) = after[n]
  BY DEF chunks_exact_sum
<1> HIDE DEF after
<1>5. T = {}
  <2> SUFFICES ASSUME T # {} PROVE FALSE
    OBVIOUS
  <2>1. PICK m \in T : \A i \in T : m <= i
    <3>1. T \subseteq Nat
      BY <1>1
    <3> HIDE DEF T
    <3> QED
      BY <3>1, LeastNumber
  <2>2. m \in 0..n /\ after[m] # f[m]
    OBVIOUS
  <2>3. m # 0
    BY <1>1, <1>3, <2>2 DEF Runs
  <2>4. m - 1 \in 0..n /\ m - 1 < m
    BY <1>1, <2>2, <2>3
  <2>5. after[m - 1] = f[m - 1]
    BY <1>1, <2>1, <2>4
  <2>6. after[m] = after[m - 1] + Octet16(octets, 2 * m - 1)
    BY <1>3, <2>2, <2>3
  <2>7. f[m] = f[m - 1] + Octet16(octets, 2 * m - 1)
    BY <1>2, <2>2, <2>3
  <2> QED
    BY <2>2, <2>5, <2>6, <2>7
<1> QED
  BY <1>1, <1>4, <1>5

\* A sum that takes steps of at most a word grows by that much at most.
LEMMA RunBound ==
  ASSUME NEW octets \in Seq(Octet), NEW f, Runs(f, 0, octets)
  PROVE  f[Len(octets) \div 2] <= 65535 * (Len(octets) \div 2)
<1> DEFINE n == Len(octets) \div 2
           T == {i \in 0..n : ~(f[i] <= 65535 * i)}
<1>1. n \in Nat /\ \A i \in 1..n : 2 * i - 1 \in 1..(Len(octets) - 1)
  <2>1. Len(octets) \in Nat
    BY LenProperties
  <2> QED
    BY <2>1
<1>2. \A i \in 1..n : Octet16(octets, 2 * i - 1) \in Nat /\ Octet16(octets, 2 * i - 1) < 65536
  BY <1>1, PairIsWord DEF Word
<1>3. /\ f \in [0..n -> Nat] /\ f[0] = 0
      /\ \A i \in 1..n : f[i] = f[i - 1] + Octet16(octets, 2 * i - 1)
  BY DEF Runs
<1> HIDE DEF n
<1>4. T = {}
  <2> SUFFICES ASSUME T # {} PROVE FALSE
    OBVIOUS
  <2>1. PICK m \in T : \A i \in T : m <= i
    <3>1. T \subseteq Nat
      BY <1>1
    <3> HIDE DEF T
    <3> QED
      BY <3>1, LeastNumber
  <2>2. m \in 0..n /\ ~(f[m] <= 65535 * m) /\ m \in Nat
    BY <1>1
  <2>3. m # 0
    BY <1>3, <2>2
  <2>4. m \in 1..n /\ m - 1 \in 0..n /\ ~(m <= m - 1)
    BY <1>1, <2>2, <2>3
  <2>5. f[m - 1] <= 65535 * (m - 1)
    <3> HIDE DEF T
    <3>1. m - 1 \notin T
      BY <2>1, <2>4
    <3> USE DEF T
    <3> QED
      BY <2>4, <3>1
  <2>6. f[m] = f[m - 1] + Octet16(octets, 2 * m - 1)
    BY <1>3, <2>4
  <2>7. f[m - 1] \in Nat /\ Octet16(octets, 2 * m - 1) \in Nat /\ Octet16(octets, 2 * m - 1) < 65536
    BY <1>2, <1>3, <2>4, SMTT(30)
  <2> HIDE DEF T
  <2> QED
    BY <2>2, <2>5, <2>6, <2>7
<1> QED
  <2>1. n \in 0..n
    BY <1>1
  <2>2. f[n] <= 65535 * n
    BY <1>4, <2>1
  <2> QED
    BY <2>2 DEF n

\* The loop adds to what it is given, and no more than its words can come to.
LEMMA LoopAdds ==
  ASSUME NEW sum \in Nat, NEW octets \in Seq(Octet)
  PROVE  /\ chunks_exact_sum(0, octets) \in Nat
         /\ chunks_exact_sum(0, octets) <= 65535 * (Len(octets) \div 2)
         /\ chunks_exact_sum(sum, octets) = sum + chunks_exact_sum(0, octets)
<1> DEFINE n == Len(octets) \div 2
<1>1. n \in Nat /\ n \in 0..n
  <2>1. Len(octets) \in Nat
    BY LenProperties
  <2> QED
    BY <2>1
<1>2. PICK f : Runs(f, sum, octets)
  BY RunExists
<1>3. PICK g : Runs(g, 0, octets)
  BY RunExists
<1>4. chunks_exact_sum(sum, octets) = f[n] /\ chunks_exact_sum(0, octets) = g[n]
  BY <1>2, <1>3, LoopRuns
<1>5. g[n] <= 65535 * n
  BY <1>3, RunBound
<1> HIDE DEF n
<1>6. f \in [0..n -> Nat] /\ g \in [0..n -> Nat] /\ f[0] = sum /\ g[0] = 0
  BY <1>2, <1>3 DEF Runs, n
<1>7. SameSteps(n, f, g)
  <2>1. ASSUME NEW i \in 1..n
        PROVE  f[i] - f[i - 1] = g[i] - g[i - 1]
    <3>1. 2 * i - 1 \in 1..(Len(octets) - 1)
      BY LenProperties DEF n
    <3>2. Octet16(octets, 2 * i - 1) \in Nat
      BY <3>1, PairIsWord DEF Word
    <3>3. f[i] = f[i - 1] + Octet16(octets, 2 * i - 1) /\ g[i] = g[i - 1] + Octet16(octets, 2 * i - 1)
      BY <1>2, <1>3 DEF Runs, n
    <3>4. f[i - 1] \in Nat /\ g[i - 1] \in Nat
      BY <1>1, <1>6
    <3> QED
      BY <3>2, <3>3, <3>4
  <2> QED
    BY <2>1 DEF SameSteps
<1>8. f[n] - g[n] = sum - 0
  BY <1>1, <1>6, <1>7, StayApart, ZenonT(60)
<1>9. f[n] \in Nat /\ g[n] \in Nat
  BY <1>1, <1>6
<1> QED
  BY <1>4, <1>5, <1>8, <1>9 DEF n

\* After an even number of octets the loop begins anew.
LEMMA LoopConcat ==
  ASSUME NEW a \in Seq(Octet), NEW b \in Seq(Octet), Len(a) % 2 = 0
  PROVE  chunks_exact_sum(0, a \o b) = chunks_exact_sum(0, a) + chunks_exact_sum(0, b)
<1> DEFINE k == Len(a) \div 2
           n == Len(b) \div 2
<1>0. Len(a) \in Nat /\ Len(b) \in Nat
  BY LenProperties
<1>1. k \in Nat /\ n \in Nat /\ Len(a) = 2 * k /\ 2 * n <= Len(b)
  BY <1>0
<1>2. /\ a \o b \in Seq(Octet) /\ Len(a \o b) = Len(a) + Len(b)
      /\ \A i \in 1..(Len(a) + Len(b)) :
           (a \o b)[i] = IF i <= Len(a) THEN a[i] ELSE b[i - Len(a)]
  BY ConcatProperties
<1>3. Len(a \o b) \div 2 = k + n
  <2>1. \A i, j \in Nat : (2 * i + j) \div 2 = i + (j \div 2)
    OBVIOUS
  <2>2. Len(a \o b) = 2 * k + Len(b)
    BY <1>1, <1>2
  <2> HIDE DEF k
  <2> QED
    BY <1>0, <1>1, <2>1, <2>2
<1>4. PICK f : Runs(f, 0, a)
  BY RunExists
<1>5. PICK g : Runs(g, 0, b)
  BY RunExists
<1>6. PICK h : Runs(h, 0, a \o b)
  BY <1>2, RunExists
<1>7. /\ chunks_exact_sum(0, a) = f[k] /\ chunks_exact_sum(0, b) = g[n]
      /\ chunks_exact_sum(0, a \o b) = h[k + n]
  BY <1>2, <1>3, <1>4, <1>5, <1>6, LoopRuns
<1>8. /\ f \in [0..k -> Nat] /\ f[0] = 0
      /\ \A i \in 1..k : f[i] = f[i - 1] + Octet16(a, 2 * i - 1)
      /\ g \in [0..n -> Nat] /\ g[0] = 0
      /\ \A i \in 1..n : g[i] = g[i - 1] + Octet16(b, 2 * i - 1)
      /\ h \in [0..(k + n) -> Nat] /\ h[0] = 0
      /\ \A i \in 1..(k + n) : h[i] = h[i - 1] + Octet16(a \o b, 2 * i - 1)
  BY <1>3, <1>4, <1>5, <1>6 DEF Runs
<1> HIDE DEF k, n
<1>9. \A i \in 1..k : Octet16(a \o b, 2 * i - 1) = Octet16(a, 2 * i - 1)
  BY <1>0, <1>1, <1>2, SMTT(30) DEF Octet16
<1>10. \A i \in 1..n : Octet16(a \o b, 2 * (k + i) - 1) = Octet16(b, 2 * i - 1)
  BY <1>0, <1>1, <1>2, SMTT(30) DEF Octet16
<1>11. h[k] = f[k]
  <2> DEFINE low == [i \in 0..k |-> h[i]]
  <2>1. low \in [0..k -> Nat]
    BY <1>1, <1>8
  <2>2. SameSteps(k, f, low)
    <3>1. ASSUME NEW i \in 1..k
          PROVE  f[i] - f[i - 1] = low[i] - low[i - 1]
      <4>1. i \in 0..k /\ i - 1 \in 0..k /\ i \in 1..(k + n)
        BY <1>1
      <4>2. low[i] = low[i - 1] + Octet16(a, 2 * i - 1) /\ f[i] = f[i - 1] + Octet16(a, 2 * i - 1)
        BY <1>8, <1>9, <4>1
      <4>3. Octet16(a, 2 * i - 1) \in Nat
        BY <1>1, PairIsWord DEF Word
      <4>4. low[i - 1] \in Nat /\ f[i - 1] \in Nat
        BY <1>8, <2>1, <4>1
      <4> HIDE DEF low
      <4> QED
        BY <4>2, <4>3, <4>4
    <3> HIDE DEF low
    <3> QED
      BY <3>1 DEF SameSteps
  <2>3. low[0] = 0 /\ low[k] = h[k] /\ k \in 0..k /\ 0 \in 0..k
    BY <1>1, <1>8
  <2> HIDE DEF low
  <2>4. f[k] - low[k] = f[0] - low[0]
    BY <1>1, <1>8, <2>1, <2>2, <2>3, StayApart
  <2>5. f[k] \in Nat /\ low[k] \in Nat
    BY <1>8, <2>1, <2>3
  <2> QED
    BY <1>8, <2>3, <2>4, <2>5
<1>12. h[k + n] = h[k] + g[n]
  <2> DEFINE high == [i \in 0..n |-> h[k + i]]
  <2>1. high \in [0..n -> Nat]
    BY <1>1, <1>8
  <2>2. SameSteps(n, g, high)
    <3>1. ASSUME NEW i \in 1..n
          PROVE  g[i] - g[i - 1] = high[i] - high[i - 1]
      <4>1. i \in 0..n /\ i - 1 \in 0..n /\ k + i \in 1..(k + n) /\ (k + i) - 1 = k + (i - 1)
        BY <1>1
      <4>2. h[k + i] = h[k + (i - 1)] + Octet16(b, 2 * i - 1)
        BY <1>8, <1>10, <4>1
      <4>3. high[i] = high[i - 1] + Octet16(b, 2 * i - 1) /\ g[i] = g[i - 1] + Octet16(b, 2 * i - 1)
        BY <1>8, <4>1, <4>2
      <4>4. Octet16(b, 2 * i - 1) \in Nat
        BY <1>1, PairIsWord DEF Word
      <4>5. high[i - 1] \in Nat /\ g[i - 1] \in Nat
        BY <1>8, <2>1, <4>1
      <4> HIDE DEF high
      <4> QED
        BY <4>3, <4>4, <4>5
    <3> HIDE DEF high
    <3> QED
      BY <3>1 DEF SameSteps
  <2>3. high[0] = h[k] /\ high[n] = h[k + n] /\ n \in 0..n /\ 0 \in 0..n
    BY <1>1
  <2> HIDE DEF high
  <2>4. g[n] - high[n] = g[0] - high[0]
    BY <1>1, <1>8, <2>1, <2>2, <2>3, StayApart
  <2>5. g[n] \in Nat /\ high[n] \in Nat /\ high[0] \in Nat /\ g[0] = 0
    BY <1>8, <2>1, <2>3
  <2>6. high[n] = high[0] + g[n]
    BY <2>4, <2>5
  <2> QED
    BY <2>3, <2>6
<1> QED
  BY <1>7, <1>11, <1>12
-----------------------------------------------------------------------------
(* Messages. *)

Sum(data) == checksum_accumulate(0, data)

\* What the last word is short of.
Pad(data) == IF Len(data) % 2 = 0 THEN <<>> ELSE <<0>>

Pairs(data) == data \o Pad(data)

LEMMA PairsAreEven ==
  ASSUME NEW data \in Seq(Octet)
  PROVE  /\ Pairs(data) \in Seq(Octet)
         /\ Len(Pairs(data)) % 2 = 0
         /\ Len(Pairs(data)) \div 2 = (Len(data) + 1) \div 2
         /\ \A sum : checksum_accumulate(sum, data) = chunks_exact_sum(sum, Pairs(data))
<1>1. Len(data) \in Nat
  BY LenProperties
<1>2. CASE Len(data) % 2 = 0
  <2>1. Pairs(data) = data
    BY <1>2, ConcatEmptySeq DEF Pairs, Pad
  <2>2. Len(data) \div 2 = (Len(data) + 1) \div 2
    BY <1>1, <1>2
  <2> QED
    BY <1>2, <2>1, <2>2 DEF checksum_accumulate
<1>3. CASE Len(data) % 2 # 0
  <2>1. 0 \in Octet
    BY DEF Octet
  <2>2. Pairs(data) = Append(data, 0)
    BY <1>3, <2>1, AppendIsConcat DEF Pairs, Pad
  <2>3. Append(data, 0) \in Seq(Octet) /\ Len(Append(data, 0)) = Len(data) + 1
    BY <2>1, AppendProperties
  <2>4. (Len(data) + 1) % 2 = 0
    BY <1>1, <1>3
  <2> QED
    BY <1>3, <2>2, <2>3, <2>4 DEF checksum_accumulate
<1> QED
  BY <1>2, <1>3

\* A full word for each two octets.
Most(data) == 65535 * ((Len(data) + 1) \div 2)

\* A message adds to the sum what it adds to zero, and no more than full words come to.
LEMMA AccumulateAdds ==
  ASSUME NEW sum \in Nat, NEW data \in Seq(Octet)
  PROVE  /\ Sum(data) \in Nat /\ Sum(data) <= Most(data)
         /\ checksum_accumulate(sum, data) = sum + Sum(data)
<1>1. /\ Pairs(data) \in Seq(Octet)
      /\ Len(Pairs(data)) \div 2 = (Len(data) + 1) \div 2
      /\ checksum_accumulate(sum, data) = chunks_exact_sum(sum, Pairs(data))
      /\ Sum(data) = chunks_exact_sum(0, Pairs(data))
  BY PairsAreEven DEF Sum
<1>2. /\ chunks_exact_sum(0, Pairs(data)) \in Nat
      /\ chunks_exact_sum(0, Pairs(data)) <= 65535 * (Len(Pairs(data)) \div 2)
      /\ chunks_exact_sum(sum, Pairs(data)) = sum + chunks_exact_sum(0, Pairs(data))
  BY <1>1, LoopAdds
<1> QED
  BY <1>1, <1>2 DEF Most

\* The parts of a message add up, if all but the last are of even length.
LEMMA SumConcat ==
  ASSUME NEW a \in Seq(Octet), NEW b \in Seq(Octet), Len(a) % 2 = 0
  PROVE  Sum(a \o b) = Sum(a) + Sum(b)
<1>1. Len(a \o b) % 2 = Len(b) % 2
  <2>1. Len(a) \in Nat /\ Len(b) \in Nat /\ Len(a \o b) = Len(a) + Len(b)
    BY LenProperties, ConcatProperties
  <2>2. \A i, j \in Nat : i % 2 = 0 => (i + j) % 2 = j % 2
    OBVIOUS
  <2> QED
    BY <2>1, <2>2
<1>2. Pad(b) \in Seq(Octet)
  <2>1. 0 \in Octet
    BY DEF Octet
  <2> QED
    BY <2>1 DEF Pad
<1>3. Pairs(a \o b) = a \o Pairs(b)
  <2>1. Pad(a \o b) = Pad(b)
    BY <1>1 DEF Pad
  <2> QED
    BY <1>2, <2>1, ConcatAssociative DEF Pairs
<1>4. Sum(a) = chunks_exact_sum(0, a)
  BY DEF Sum, checksum_accumulate
<1>5. Sum(b) = chunks_exact_sum(0, Pairs(b)) /\ Pairs(b) \in Seq(Octet)
  BY PairsAreEven DEF Sum
<1>6. Sum(a \o b) = chunks_exact_sum(0, Pairs(a \o b))
  BY ConcatProperties, PairsAreEven DEF Sum
<1> QED
  BY <1>3, <1>4, <1>5, <1>6, LoopConcat

\* The octet that fills the last word up adds nothing.
LEMMA SumPairs ==
  ASSUME NEW data \in Seq(Octet)
  PROVE  Sum(Pairs(data)) = Sum(data)
  BY PairsAreEven DEF Sum, checksum_accumulate

\* A number is the word of its two octets.
LEMMA WordOctets ==
  ASSUME NEW n \in Nat
  PROVE  /\ BE16(n) \in Seq(Octet) /\ Len(BE16(n)) = 2
         /\ U16(n) \in Word /\ Octet16(BE16(n), 1) = U16(n)
         /\ n \in Word => U16(n) = n
<1>1. U16(n) \in Word /\ (n \in Word => U16(n) = n)
  BY DEF U16, Word
<1>2. U16(n) \div 256 \in Octet /\ n % 256 \in Octet
  BY DEF U16, Octet
<1>3. (U16(n) \div 256) * 256 + (n % 256) = U16(n)
  BY DEF U16
<1> QED
  BY <1>1, <1>2, <1>3 DEF BE16, Octet16

LEMMA SumWord ==
  ASSUME NEW w \in Seq(Octet), Len(w) = 2
  PROVE  Sum(w) = Octet16(w, 1)
<1>1. PICK f : Runs(f, 0, w)
  BY RunExists
<1>2. Sum(w) = f[1]
  <2>1. 2 % 2 = 0 /\ 2 \div 2 = 1
    OBVIOUS
  <2> QED
    BY <1>1, <2>1, LoopRuns DEF Sum, checksum_accumulate
<1>3. f[1] = f[0] + Octet16(w, 1) /\ f[0] = 0
  BY <1>1 DEF Runs
<1>4. Octet16(w, 1) \in Nat
  <2>1. 1 \in 1..(Len(w) - 1)
    OBVIOUS
  <2>2. Octet16(w, 1) \in Word
    BY <2>1, PairIsWord
  <2> QED
    BY <2>2 DEF Word
<1> QED
  BY <1>2, <1>3, <1>4

\* The pseudo-header is its addresses and three words more.
LEMMA PseudoHeaderAdds ==
  ASSUME NEW src \in Seq(Octet), NEW dst \in Seq(Octet), NEW next_header \in Octet,
         NEW len \in Nat
  PROVE  /\ pseudo_header_sum(src, dst, next_header, len) =
              Sum(src) + Sum(dst) + U16(len \div 65536) + U16(len) + next_header
         /\ pseudo_header_sum(src, dst, next_header, len) \in Nat
<1>1. Sum(src) \in Nat /\ Sum(dst) \in Nat /\ checksum_accumulate(Sum(src), dst) = Sum(src) + Sum(dst)
  BY AccumulateAdds
<1>2. U16(len \div 65536) \in Nat /\ U16(len) \in Nat /\ next_header \in Nat
  BY DEF U16, Octet
<1> QED
  BY <1>1, <1>2 DEF pseudo_header_sum, Sum

\* The words of the message and its pseudo-header, the checksum among them, add up to
\* zero in one's complement.
AddsUp(src, dst, next_header, message) ==
  (pseudo_header_sum(src, dst, next_header, Len(message)) + Sum(message)) % 65535 = 0

\* What is sent for a checksum of zero.
AllOnes == 65535

\* A message with a checksum in it.
WithSum(front, sum, back) == front \o BE16(sum) \o back

\* The checksum is the one that makes them, whatever comes before it and after it in a
\* message of any length, and so is a zero sent as all ones.
THEOREM MessagesAddUp ==
  ASSUME NEW src \in Seq(Octet), NEW dst \in Seq(Octet), NEW next_header \in Octet,
         NEW front \in Seq(Octet), NEW back \in Seq(Octet), Len(front) % 2 = 0
  PROVE  LET sum == upper_layer_checksum(src, dst, next_header, WithSum(front, 0, back)) IN
         /\ sum \in Word
         /\ AddsUp(src, dst, next_header, WithSum(front, sum, back))
         /\ sum = 0 => AddsUp(src, dst, next_header, WithSum(front, AllOnes, back))
<1> DEFINE message(n) == WithSum(front, n, back)
           sum == upper_layer_checksum(src, dst, next_header, message(0))
           len == Len(front) + 2 + Len(back)
           pseudo == pseudo_header_sum(src, dst, next_header, len)
           rest == Sum(front) + Sum(back)
<1>1. ASSUME NEW n \in Word
      PROVE  /\ message(n) \in Seq(Octet) /\ Len(message(n)) = len
             /\ Sum(message(n)) = rest + n
  <2>1. /\ n \in Nat /\ BE16(n) \in Seq(Octet) /\ Len(BE16(n)) = 2
        /\ Octet16(BE16(n), 1) = n
    BY WordOctets DEF Word
  <2> HIDE DEF message
  <2>0. /\ front \o BE16(n) \in Seq(Octet)
        /\ Len(front \o BE16(n)) = Len(front) + Len(BE16(n))
    BY <2>1, ConcatProperties
  <2>2. Len(front \o BE16(n)) = Len(front) + 2
    BY <2>0, <2>1
  <2>3. Len(front \o BE16(n)) % 2 = 0
    <3>1. Len(front) \in Nat
      BY LenProperties
    <3> QED
      BY <2>2, <3>1
  <2>4. Sum(front \o BE16(n)) = Sum(front) + n
    BY <2>1, SumConcat, SumWord
  <2>5. Sum(message(n)) = Sum(front) + n + Sum(back)
    BY <2>0, <2>3, <2>4, SumConcat DEF message, WithSum
  <2>6. Sum(front) \in Nat /\ Sum(back) \in Nat
    BY AccumulateAdds
  <2>7. /\ message(n) \in Seq(Octet)
        /\ Len(message(n)) = Len(front \o BE16(n)) + Len(back)
    BY <2>0, ConcatProperties DEF message, WithSum
  <2>8. Sum(message(n)) = rest + n
    BY <2>1, <2>5, <2>6
  <2> QED
    BY <2>2, <2>7, <2>8
<1>2. len \in Nat /\ rest \in Nat
  <2>1. Len(front) \in Nat /\ Len(back) \in Nat
    BY LenProperties
  <2>2. Sum(front) \in Nat /\ Sum(back) \in Nat
    BY AccumulateAdds
  <2> QED
    BY <2>1, <2>2
<1>3. pseudo \in Nat
  BY <1>2, PseudoHeaderAdds
<1>4. 0 \in Word /\ AllOnes \in Word
  BY DEF Word, AllOnes
<1> HIDE DEF message, len, pseudo, rest
<1>5. sum = checksum_finish(pseudo + rest)
  <2>1. /\ message(0) \in Seq(Octet) /\ Len(message(0)) = len
        /\ Sum(message(0)) = rest
    BY <1>1, <1>2, <1>4
  <2>2. checksum_accumulate(pseudo, message(0)) = pseudo + rest
    BY <1>3, <2>1, AccumulateAdds
  <2> QED
    BY <2>1, <2>2 DEF upper_layer_checksum, pseudo
<1> HIDE DEF sum
<1>6. sum \in Word /\ (pseudo + rest + sum) % 65535 = 0
  BY <1>2, <1>3, <1>5, FinishMakesUp
<1>7. ASSUME NEW n \in Word, (pseudo + rest + n) % 65535 = 0
      PROVE  AddsUp(src, dst, next_header, message(n))
  <2>1. pseudo + (rest + n) = pseudo + rest + n
    BY <1>2, <1>3 DEF Word
  <2> QED
    BY <1>1, <1>7, <2>1 DEF AddsUp, pseudo
<1>8. sum = 0 => (pseudo + rest + AllOnes) % 65535 = 0
  BY <1>2, <1>3, <1>6 DEF AllOnes
<1> QED
  BY <1>4, <1>6, <1>7, <1>8 DEF sum, message

\* No sum on the way overflows a u32, for any message whose length an IPv6 header can
\* tell.
THEOREM SumsFit ==
  ASSUME NEW src \in Seq(Octet), NEW dst \in Seq(Octet), NEW next_header \in Octet,
         NEW message \in Seq(Octet),
         Len(src) = 16, Len(dst) = 16, Len(message) < 65536
  PROVE  LET pseudo == pseudo_header_sum(src, dst, next_header, Len(message)) IN
         /\ pseudo \in Nat
         /\ checksum_accumulate(pseudo, message) \in Nat
         /\ checksum_accumulate(pseudo, message) < 4294967296
<1> DEFINE pseudo == pseudo_header_sum(src, dst, next_header, Len(message))
<1>1. Len(message) \in Nat
  BY LenProperties
<1>2. /\ pseudo \in Nat
      /\ pseudo = Sum(src) + Sum(dst) + U16(Len(message) \div 65536) + U16(Len(message)) + next_header
  BY <1>1, PseudoHeaderAdds
<1>3. /\ Sum(src) \in Nat /\ Sum(src) <= 65535 * 8
      /\ Sum(dst) \in Nat /\ Sum(dst) <= 65535 * 8
  <2>1. (Len(src) + 1) \div 2 = 8 /\ (Len(dst) + 1) \div 2 = 8
    OBVIOUS
  <2>2. /\ Sum(src) \in Nat /\ Sum(src) <= Most(src)
        /\ Sum(dst) \in Nat /\ Sum(dst) <= Most(dst)
    BY AccumulateAdds
  <2> QED
    BY <2>1, <2>2 DEF Most
<1>4. /\ U16(Len(message) \div 65536) \in Word /\ U16(Len(message)) \in Word
      /\ next_header \in Nat /\ next_header < 256
  BY <1>1 DEF U16, Word, Octet
<1>5. Sum(message) \in Nat /\ Sum(message) <= 65535 * 32768
  <2>1. (Len(message) + 1) \div 2 <= 32768
    BY <1>1
  <2>2. Sum(message) \in Nat /\ Sum(message) <= Most(message)
    BY <1>2, AccumulateAdds
  <2>3. \A n \in Int : n <= 32768 => 65535 * n <= 65535 * 32768
    OBVIOUS
  <2>4. Most(message) <= 65535 * 32768
    BY <1>1, <2>1, <2>3 DEF Most
  <2>5. Most(message) \in Int
    BY <1>1 DEF Most
  <2> QED
    BY <2>2, <2>4, <2>5
<1>6. checksum_accumulate(pseudo, message) = pseudo + Sum(message)
  BY <1>2, AccumulateAdds
<1> HIDE DEF pseudo
<1>7. pseudo <= 65535 * 16 + 65535 + 65535 + 255
  BY <1>2, <1>3, <1>4 DEF Word
<1> QED
  BY <1>2, <1>5, <1>6, <1>7 DEF pseudo
=============================================================================
