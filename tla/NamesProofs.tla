---------------------------- MODULE NamesProofs -----------------------------
(***************************************************************************)
(* Names of any length and any spelling: their labels, and what the code   *)
(* says of a name, character by character, in terms of its labels.         *)
(***************************************************************************)
EXTENDS MCPackets, ChecksumProofs, FiniteSetTheorems, FunctionTheorems

Text == Seq(Nat)
Parts == Seq(Text) \ {<<>>}
-----------------------------------------------------------------------------
(* The labels of a text. *)

\* What a character makes of the parts before it.
SplitStep(parts, c) ==
  IF c = Dot THEN Append(parts, <<>>) ELSE Append(Front(parts), Append(Last(parts), c))

SplitTurn(s, h) ==
  [n \in 0..Len(s) |-> IF n = 0 THEN << <<>> >> ELSE SplitStep(h[n - 1], s[n])]

LEMMA StepTyped ==
  ASSUME NEW p \in Parts, NEW c \in Nat
  PROVE  SplitStep(p, c) \in Parts
<1>1. p \in Seq(Text) /\ p # <<>> /\ <<>> \in Text
  BY DEF Parts, Text
<1>2. Append(p, <<>>) \in Parts
  BY <1>1, EndsOfAppend DEF Parts
<1>3. Append(Front(p), Append(Last(p), c)) \in Parts
  <2>1. Front(p) \in Seq(Text) /\ Last(p) \in Text
    BY <1>1, Ends
  <2>2. Append(Last(p), c) \in Text
    BY <2>1, AppendProperties DEF Text
  <2> QED
    BY <2>1, <2>2, EndsOfAppend, SMTT(30) DEF Parts
<1> QED
  BY <1>2, <1>3 DEF SplitStep

LEMMA SplitRuns ==
  ASSUME NEW s \in Text
  PROVE  \E h \in [0..Len(s) -> Parts] :
           /\ h[0] = << <<>> >>
           /\ \A n \in 1..Len(s) : h[n] = SplitStep(h[n - 1], s[n])
           /\ split(s) = h[Len(s)]
<1> DEFINE N == Len(s)
           first == << <<>> >>
           step == [n \in 1..N |-> [p \in Parts |-> SplitStep(p, s[n])]]
           h == CHOOSE g : g = SplitTurn(s, g)
<1>1. N \in Nat /\ \A n \in 1..N : s[n] \in Nat
  BY LenProperties, ElementOfSeq DEF Text
<1>2. first \in Parts
  BY DEF Parts, Text
<1>3. step \in [1..N -> [Parts -> Parts]]
  BY <1>1, StepTyped
<1>4. \A n \in 1..N, p \in Parts : step[n][p] = SplitStep(p, s[n])
  OBVIOUS
<1> HIDE DEF step, first, N
<1>a. \E f : Steps(f, N, Parts, first, step)
  BY <1>1, <1>2, <1>3, Recursion
<1>5. PICK f \in [0..N -> Parts] :
        f[0] = first /\ \A n \in 1..N : f[n] = step[n][f[n - 1]]
  BY <1>a DEF Steps
<1>6. ASSUME NEW n \in 1..N
      PROVE  f[n] = SplitStep(f[n - 1], s[n])
  <2>1. n - 1 \in 0..N
    BY <1>1
  <2> QED
    BY <1>4, <1>5, <2>1
<1>7. f = SplitTurn(s, f)
  <2>1. f = [n \in 0..N |-> f[n]]
    BY <1>5
  <2>2. ASSUME NEW n \in 0..N
        PROVE  f[n] = IF n = 0 THEN first ELSE SplitStep(f[n - 1], s[n])
    <3>1. n = 0 \/ n \in 1..N
      BY <1>1
    <3> QED
      BY <1>5, <1>6, <3>1
  <2> QED
    BY <2>1, <2>2 DEF SplitTurn, first, N
<1>8. h = SplitTurn(s, h)
  BY <1>7
<1>9. split(s) = h[N]
  BY DEF split, SplitTurn, SplitStep, h, N
<1> HIDE DEF h
<1>10. \A n \in 0..N : h[n] = IF n = 0 THEN << <<>> >> ELSE SplitStep(h[n - 1], s[n])
  BY <1>8 DEF SplitTurn, N
<1> DEFINE T == {n \in 0..N : h[n] = f[n]}
<1>11. 0 \in T
  BY <1>1, <1>5, <1>10 DEF first
<1>12. ASSUME NEW n \in 1..N, n - 1 \in T
       PROVE  n \in T
  <2>1. n \in 0..N /\ n # 0
    BY <1>1
  <2> QED
    BY <1>6, <1>10, <1>12, <2>1
<1> HIDE DEF T
<1>13. 0..N \subseteq T
  BY <1>1, <1>11, <1>12, Upwards
<1>14. N \in T
  BY <1>1, <1>13
<1>15. h[N] = f[N]
  BY <1>14 DEF T
<1> QED
  BY <1>5, <1>6, <1>9, <1>15 DEF N, first

LEMMA SplitEmpty ==
  split(<<>>) = << <<>> >>
<1>1. <<>> \in Text /\ Len(<<>>) = 0
  BY DEF Text
<1> QED
  BY <1>1, SplitRuns

LEMMA SplitAppend ==
  ASSUME NEW s \in Text, NEW c \in Nat
  PROVE  split(s) \in Parts /\ split(Append(s, c)) = SplitStep(split(s), c)
<1> DEFINE t == Append(s, c)
           N == Len(s)
<1>1. N \in Nat /\ t \in Text /\ Len(t) = N + 1
  BY LenProperties, AppendProperties DEF Text
<1>2. t[N + 1] = c /\ \A n \in 1..N : t[n] = s[n]
  BY AppendProperties DEF Text
<1> HIDE DEF t
<1>3. PICK f \in [0..N -> Parts] :
        /\ f[0] = << <<>> >>
        /\ \A n \in 1..N : f[n] = SplitStep(f[n - 1], s[n])
        /\ split(s) = f[N]
  BY SplitRuns
<1>4. PICK g \in [0..Len(t) -> Parts] :
        /\ g[0] = << <<>> >>
        /\ \A n \in 1..Len(t) : g[n] = SplitStep(g[n - 1], t[n])
        /\ split(t) = g[Len(t)]
  BY <1>1, SplitRuns
<1> HIDE DEF N
<1> DEFINE T == {n \in 0..N : f[n] = g[n]}
<1>5. 0 \in T
  <2>1. 0 \in 0..N
    BY <1>1
  <2>2. f[0] = g[0]
    BY <1>3, <1>4
  <2> QED
    BY <2>1, <2>2
<1>6. ASSUME NEW n \in 1..N, n - 1 \in T
      PROVE  n \in T
  <2>1. n \in 0..N /\ n \in 1..Len(t)
    BY <1>1
  <2>2. f[n] = SplitStep(f[n - 1], s[n]) /\ g[n] = SplitStep(g[n - 1], s[n])
    BY <1>2, <1>3, <1>4, <2>1
  <2>3. f[n - 1] = g[n - 1]
    BY <1>6
  <2> QED
    BY <2>1, <2>2, <2>3
<1> HIDE DEF T
<1>7. 0..N \subseteq T
  BY <1>1, <1>5, <1>6, Upwards
<1>8. N \in T /\ N \in 0..N
  BY <1>1, <1>7
<1>9. f[N] = g[N]
  BY <1>8 DEF T
<1>10. split(t) = SplitStep(g[N], c)
  <2>1. N + 1 \in 1..Len(t) /\ (N + 1) - 1 = N
    BY <1>1
  <2>2. g[N + 1] = SplitStep(g[N], t[N + 1])
    BY <1>4, <2>1
  <2> QED
    BY <1>1, <1>2, <1>4, <2>2
<1>11. split(s) \in Parts
  BY <1>3, <1>8
<1> QED
  BY <1>3, <1>9, <1>10, <1>11 DEF t

LEMMA AppendConcat ==
  ASSUME NEW X, NEW p \in Seq(X), NEW q \in Seq(X), NEW x \in X
  PROVE  /\ p \o q \in Seq(X) /\ Append(q, x) \in Seq(X)
         /\ p \o Append(q, x) = Append(p \o q, x)
<1>1. <<x>> \in Seq(X) /\ p \o q \in Seq(X) /\ Append(q, x) \in Seq(X)
  BY ConcatProperties, AppendProperties
<1>2. Append(q, x) = q \o <<x>> /\ Append(p \o q, x) = (p \o q) \o <<x>>
  BY <1>1, AppendIsConcat
<1>3. (p \o q) \o <<x>> = p \o (q \o <<x>>)
  BY <1>1, ConcatAssociative
<1> QED
  BY <1>1, <1>2, <1>3

\* What a part is, and its ends.
LEMMA PartsEnds ==
  ASSUME NEW p \in Parts
  PROVE  /\ p \in Seq(Text) /\ Front(p) \in Seq(Text) /\ Last(p) \in Text
         /\ p = Append(Front(p), Last(p))
         /\ Len(p) \in Nat /\ Len(p) # 0 /\ Len(Front(p)) = Len(p) - 1
  BY Ends DEF Parts

\* Parts that come before are left alone.
LEMMA StepConcat ==
  ASSUME NEW p \in Seq(Text), NEW q \in Parts, NEW c \in Nat
  PROVE  SplitStep(p \o q, c) = p \o SplitStep(q, c)
<1> DEFINE F == Front(q)
           L == Last(q)
           M == Append(L, c)
<1>1. F \in Seq(Text) /\ L \in Text /\ q = Append(F, L) /\ q \in Seq(Text) /\ <<>> \in Text
  BY PartsEnds DEF Text
<1>2. M \in Text
  BY <1>1, AppendProperties DEF Text
<1> HIDE DEF F, L, M
<1>3. p \o q = Append(p \o F, L) /\ p \o F \in Seq(Text)
  BY <1>1, AppendConcat
<1>4. Front(p \o q) = p \o F /\ Last(p \o q) = L
  <2> DEFINE pF == p \o F
  <2> HIDE DEF pF
  <2>1. pF \in Seq(Text) /\ p \o q = Append(pF, L)
    BY <1>3 DEF pF
  <2>2. Front(p \o q) = pF /\ Last(p \o q) = L
    BY <1>1, <2>1, EndsOfAppend
  <2> QED
    BY <2>2 DEF pF
<1>5. p \o Append(q, <<>>) = Append(p \o q, <<>>)
  BY <1>1, AppendConcat
<1>6. p \o Append(F, M) = Append(p \o F, M)
  BY <1>1, <1>2, AppendConcat
<1>7. SplitStep(q, c) = IF c = Dot THEN Append(q, <<>>) ELSE Append(F, M)
  BY DEF SplitStep, F, L, M
<1>8. SplitStep(p \o q, c) = IF c = Dot THEN Append(p \o q, <<>>) ELSE Append(p \o F, M)
  BY <1>4 DEF SplitStep, M
<1> QED
  BY <1>5, <1>6, <1>7, <1>8

\* A character appended always shows.
LEMMA StepShows ==
  ASSUME NEW p \in Parts, NEW c \in Nat
  PROVE  /\ SplitStep(p, c) # << <<>> >>
         /\ Last(SplitStep(p, c)) = <<>> <=> c = Dot
         /\ Last(SplitStep(p, c)) = IF c = Dot THEN <<>> ELSE Append(Last(p), c)
         /\ Front(SplitStep(p, c)) = IF c = Dot THEN p ELSE Front(p)
<1> DEFINE F == Front(p)
           L == Last(p)
           M == Append(L, c)
           t == SplitStep(p, c)
<1>1. F \in Seq(Text) /\ L \in Text /\ p \in Seq(Text) /\ Len(p) \in Nat /\ Len(p) # 0
      /\ <<>> \in Text
  BY PartsEnds DEF Text
<1>2. M \in Text /\ M # <<>>
  BY <1>1, EndsOfAppend DEF Text
<1>3. t = IF c = Dot THEN Append(p, <<>>) ELSE Append(F, M)
  BY DEF SplitStep, F, L, M
<1> HIDE DEF F, L, M, t
<1>4. Front(Append(p, <<>>)) = p /\ Last(Append(p, <<>>)) = <<>> /\ Len(Append(p, <<>>)) = Len(p) + 1
  BY <1>1, EndsOfAppend
<1>5. Front(Append(F, M)) = F /\ Last(Append(F, M)) = M
  BY <1>1, <1>2, EndsOfAppend
<1>6. Last(t) = (IF c = Dot THEN <<>> ELSE M) /\ Front(t) = IF c = Dot THEN p ELSE F
  BY <1>3, <1>4, <1>5
<1>7. t # << <<>> >>
  <2>1. CASE c = Dot
    <3>1. Len(t) # 1
      BY <1>1, <1>3, <1>4, <2>1
    <3>2. Len(<< <<>> >>) = 1
      OBVIOUS
    <3> QED
      BY <3>1, <3>2
  <2>2. CASE c # Dot
    <3>1. Last(<< <<>> >>) = <<>>
      BY DEF Last
    <3> QED
      BY <1>2, <1>6, <2>2, <3>1
  <2> QED
    BY <2>1, <2>2
<1> QED
  BY <1>2, <1>6, <1>7 DEF t, F, L, M

LEMMA StepInjective ==
  ASSUME NEW p \in Parts, NEW q \in Parts, NEW c \in Nat, NEW d \in Nat,
         SplitStep(p, c) = SplitStep(q, d)
  PROVE  p = q /\ c = d
<1>1. c = Dot <=> d = Dot
  BY StepShows
<1>2. /\ p \in Seq(Text) /\ Last(p) \in Text /\ p = Append(Front(p), Last(p))
      /\ q \in Seq(Text) /\ Last(q) \in Text /\ q = Append(Front(q), Last(q))
  BY PartsEnds
<1>3. CASE c = Dot
  BY <1>1, <1>3, StepShows
<1>4. CASE c # Dot
  <2>1. Append(Last(p), c) = Append(Last(q), d) /\ Front(p) = Front(q)
    BY <1>1, <1>4, StepShows
  <2>2. Last(p) = Last(q) /\ c = d
    BY <1>2, <2>1, AppendInjective, SMTT(30) DEF Text
  <2> QED
    BY <1>2, <2>1, <2>2
<1> QED
  BY <1>3, <1>4

\* What comes before the last of several parts was there before the last character.
WasThere(p, c, P, Q) ==
  \/ c = Dot /\ p = P /\ Q = << <<>> >>
  \/ \E R \in Parts : Q = SplitStep(R, c) /\ p = P \o R

LEMMA StepBack ==
  ASSUME NEW p \in Parts, NEW c \in Nat, NEW P \in Parts, NEW Q \in Parts,
         SplitStep(p, c) = P \o Q
  PROVE  WasThere(p, c, P, Q)
<1> SUFFICES \/ c = Dot /\ p = P /\ Q = << <<>> >>
             \/ \E R \in Parts : Q = SplitStep(R, c) /\ p = P \o R
  BY DEF WasThere
<1> DEFINE F == Front(Q)
           L == Last(Q)
<1>0. <<>> \in Text
  BY DEF Text
<1>1. /\ P \in Seq(Text) /\ F \in Seq(Text) /\ L \in Text /\ Q = Append(F, L) /\ <<>> \in Text
      /\ p \in Seq(Text) /\ Front(p) \in Seq(Text) /\ Last(p) \in Text
      /\ p = Append(Front(p), Last(p))
  BY <1>0, PartsEnds
<1> HIDE DEF F, L
<1>2. P \o Q = Append(P \o F, L) /\ P \o F \in Seq(Text)
  BY <1>1, AppendConcat
<1>3. Front(P \o Q) = P \o F /\ Last(P \o Q) = L
  <2> DEFINE PF == P \o F
  <2> HIDE DEF PF
  <2>1. PF \in Seq(Text) /\ P \o Q = Append(PF, L)
    BY <1>2 DEF PF
  <2>2. Front(P \o Q) = PF /\ Last(P \o Q) = L
    BY <1>1, <2>1, EndsOfAppend
  <2> QED
    BY <2>2 DEF PF
<1>4. CASE c = Dot
  <2>1. p = P \o F /\ L = <<>>
    BY <1>3, <1>4, StepShows
  <2>2. CASE F = <<>>
    <3>1. P \o <<>> = P
      BY <1>1, ConcatEmptySeq
    <3>2. Q = << <<>> >>
      BY <1>1, <2>1, <2>2
    <3> QED
      BY <1>4, <2>1, <2>2, <3>1, <3>2
  <2>3. CASE F # <<>>
    <3>1. F \in Parts
      BY <1>1, <2>3 DEF Parts
    <3>2. Q = SplitStep(F, c)
      BY <1>1, <1>4, <2>1 DEF SplitStep
    <3> QED
      BY <2>1, <3>1, <3>2
  <2> QED
    BY <2>2, <2>3
<1>5. CASE c # Dot
  <2> DEFINE R == Append(F, Last(p))
  <2>1. Front(p) = P \o F /\ L = Append(Last(p), c)
    BY <1>3, <1>5, StepShows, ZenonT(60)
  <2>2. R \in Seq(Text) /\ R # <<>> /\ Front(R) = F /\ Last(R) = Last(p)
    BY <1>1, EndsOfAppend
  <2>3. P \o R = Append(P \o F, Last(p))
    BY <1>1, AppendConcat
  <2> HIDE DEF R
  <2>4. Q = SplitStep(R, c)
    BY <1>1, <1>5, <2>1, <2>2 DEF SplitStep
  <2>5. p = P \o R
    BY <1>1, <2>1, <2>3
  <2>6. R \in Parts
    BY <2>2 DEF Parts
  <2> QED
    BY <2>4, <2>5, <2>6
<1> QED
  BY <1>4, <1>5

LEMMA SplitTyped ==
  ASSUME NEW s \in Text
  PROVE  split(s) \in Parts
BY SplitAppend DEF Dot

\* The labels of two names with a dot between them.
LEMMA SplitConcat ==
  ASSUME NEW a \in Text, NEW b \in Text
  PROVE  split(Append(a, Dot) \o b) = split(a) \o split(b)
<1> DEFINE T == {t \in Text : split(Append(a, Dot) \o t) = split(a) \o split(t)}
<1>0. Dot \in Nat /\ <<>> \in Text /\ Append(a, Dot) \in Text /\ split(a) \in Parts
  <2>1. Dot \in Nat /\ <<>> \in Text
    BY DEF Dot, Text
  <2> QED
    BY <2>1, AppendProperties, SplitTyped DEF Text
<1>1. <<>> \in T
  <2>1. Append(a, Dot) \o <<>> = Append(a, Dot)
    BY <1>0, ConcatEmptySeq DEF Text
  <2>2. split(Append(a, Dot)) = Append(split(a), <<>>)
    BY <1>0, SplitAppend DEF SplitStep
  <2>3. split(a) \in Seq(Text)
    BY <1>0 DEF Parts
  <2>4. Append(split(a), <<>>) = split(a) \o << <<>> >>
    BY <1>0, <2>3, AppendIsConcat
  <2> QED
    BY <1>0, <2>1, <2>2, <2>4, SplitEmpty
<1>2. ASSUME NEW t \in Text, NEW c \in Nat, t \in T
      PROVE  Append(t, c) \in T
  <2> DEFINE x == Append(a, Dot)
             y == x \o t
  <2>1. /\ y \in Text /\ Append(t, c) \in Text
        /\ x \o Append(t, c) = Append(y, c)
    BY <1>0, AppendConcat DEF Text
  <2>2. split(y) = split(a) \o split(t)
    BY <1>2
  <2> HIDE DEF y
  <2>3. split(Append(y, c)) = SplitStep(split(a) \o split(t), c)
    BY <2>1, <2>2, SplitAppend
  <2>4. split(Append(t, c)) = SplitStep(split(t), c) /\ split(t) \in Parts
    BY SplitAppend
  <2>5. split(a) \in Seq(Text)
    BY <1>0 DEF Parts
  <2>6. SplitStep(split(a) \o split(t), c) = split(a) \o SplitStep(split(t), c)
    BY <2>4, <2>5, StepConcat
  <2> QED
    BY <2>1, <2>3, <2>4, <2>6
<1> HIDE DEF T
<1>3. Text \subseteq T
  BY <1>1, <1>2, Appending DEF Text
<1>4. b \in T
  BY <1>3
<1> QED
  BY <1>4 DEF T

\* A text is known by its labels.
LEMMA SplitInjective ==
  ASSUME NEW a \in Text, NEW b \in Text, split(a) = split(b)
  PROVE  a = b
<1> DEFINE T == {t \in Text : \A u \in Text : split(t) = split(u) => t = u}
<1>0. <<>> \in Text
  BY DEF Text
<1>1. ASSUME NEW t \in Text, t # <<>>
      PROVE  /\ Front(t) \in Text /\ Last(t) \in Nat /\ t = Append(Front(t), Last(t))
             /\ split(Front(t)) \in Parts /\ split(t) = SplitStep(split(Front(t)), Last(t))
             /\ split(t) # split(<<>>)
  <2>1. Front(t) \in Text /\ Last(t) \in Nat /\ t = Append(Front(t), Last(t))
    BY <1>1, Ends DEF Text
  <2>2. split(Front(t)) \in Parts /\ split(t) = SplitStep(split(Front(t)), Last(t))
    BY <2>1, SplitAppend
  <2>3. split(t) # split(<<>>)
    BY <2>1, <2>2, SplitEmpty, StepShows
  <2> QED
    BY <2>1, <2>2, <2>3
<1>2. <<>> \in T
  BY <1>0, <1>1
<1>3. ASSUME NEW t \in Text, NEW c \in Nat, t \in T
      PROVE  Append(t, c) \in T
  <2>1. Append(t, c) \in Text /\ Append(t, c) # <<>>
    BY EndsOfAppend DEF Text
  <2>2. split(t) \in Parts /\ split(Append(t, c)) = SplitStep(split(t), c)
    BY SplitAppend
  <2>3. ASSUME NEW u \in Text, split(Append(t, c)) = split(u)
        PROVE  Append(t, c) = u
    <3>1. u # <<>>
      BY <1>1, <2>1, <2>3
    <3>2. /\ Front(u) \in Text /\ Last(u) \in Nat /\ u = Append(Front(u), Last(u))
          /\ split(Front(u)) \in Parts /\ split(u) = SplitStep(split(Front(u)), Last(u))
      BY <1>1, <3>1
    <3>3. split(t) = split(Front(u)) /\ c = Last(u)
      <4> DEFINE p == split(t)
                 q == split(Front(u))
                 d == Last(u)
      <4>1. p \in Parts /\ q \in Parts /\ d \in Nat /\ SplitStep(p, c) = SplitStep(q, d)
        BY <2>2, <2>3, <3>2
      <4> HIDE DEF p, q, d
      <4>2. p = q /\ c = d
        BY <4>1, StepInjective
      <4> QED
        BY <4>2 DEF p, q, d
    <3>4. t = Front(u)
      BY <1>3, <3>2, <3>3
    <3> QED
      BY <3>2, <3>3, <3>4
  <2> QED
    BY <2>1, <2>3
<1> HIDE DEF T
<1>4. Text \subseteq T
  BY <1>2, <1>3, Appending DEF Text
<1>5. a \in T
  BY <1>4
<1> QED
  BY <1>5 DEF T

\* Labels that are split off are the labels of a part of the text, cut off at a dot.
Cut(s, P, Q) ==
  \E a, b \in Text : s = Append(a, Dot) \o b /\ split(a) = P /\ split(b) = Q

LEMMA SplitBack ==
  ASSUME NEW s \in Text, NEW P \in Parts, NEW Q \in Parts, split(s) = P \o Q
  PROVE  Cut(s, P, Q)
<1> DEFINE T == {t \in Text : \A R, S \in Parts : split(t) = R \o S => Cut(t, R, S)}
<1>0. <<>> \in Text /\ Dot \in Nat
  BY DEF Text, Dot
<1>1. <<>> \in T
  <2>1. ASSUME NEW R \in Parts, NEW S \in Parts, << <<>> >> = R \o S
        PROVE  FALSE
    <3>1. /\ R \in Seq(Text) /\ S \in Seq(Text)
          /\ Len(R) \in Nat /\ Len(R) # 0 /\ Len(S) \in Nat /\ Len(S) # 0
      BY PartsEnds
    <3>2. Len(R \o S) = Len(R) + Len(S)
      BY <3>1, ConcatProperties
    <3>3. Len(<< <<>> >>) = 1
      OBVIOUS
    <3> QED
      BY <2>1, <3>1, <3>2, <3>3
  <2> QED
    BY <1>0, <2>1, SplitEmpty
<1>2. ASSUME NEW t \in Text, NEW c \in Nat, t \in T
      PROVE  Append(t, c) \in T
  <2>1. Append(t, c) \in Text
    BY AppendProperties DEF Text
  <2>2. split(t) \in Parts /\ split(Append(t, c)) = SplitStep(split(t), c)
    BY SplitAppend
  <2>3. ASSUME NEW R \in Parts, NEW S \in Parts, split(Append(t, c)) = R \o S
        PROVE  Cut(Append(t, c), R, S)
    <3>1. \/ c = Dot /\ split(t) = R /\ S = << <<>> >>
          \/ \E Z \in Parts : S = SplitStep(Z, c) /\ split(t) = R \o Z
      <4> DEFINE p == split(t)
      <4>1. p \in Parts /\ SplitStep(p, c) = R \o S
        BY <2>2, <2>3
      <4> HIDE DEF p
      <4>2. WasThere(p, c, R, S)
        BY <4>1, StepBack
      <4> QED
        BY <4>2 DEF WasThere, p
    <3>2. CASE c = Dot /\ split(t) = R /\ S = << <<>> >>
      <4>1. Append(t, Dot) \in Text
        BY <1>0, AppendProperties DEF Text
      <4>2. Append(t, Dot) \o <<>> = Append(t, Dot)
        BY <4>1, ConcatEmptySeq DEF Text
      <4> QED
        BY <1>0, <3>2, <4>2, SplitEmpty DEF Cut
    <3>3. CASE \E Z \in Parts : S = SplitStep(Z, c) /\ split(t) = R \o Z
      <4>1. PICK Z \in Parts : S = SplitStep(Z, c) /\ split(t) = R \o Z
        BY <3>3
      <4>2. Cut(t, R, Z)
        BY <1>2, <4>1
      <4>3. PICK a \in Text, b \in Text :
              t = Append(a, Dot) \o b /\ split(a) = R /\ split(b) = Z
        BY <4>2 DEF Cut
      <4>4. Append(a, Dot) \in Text
        BY <1>0, AppendProperties DEF Text
      <4>5. Append(b, c) \in Text /\ Append(a, Dot) \o Append(b, c) = Append(t, c)
        BY <4>3, <4>4, AppendConcat, SMTT(30) DEF Text
      <4>6. split(Append(b, c)) = S
        BY <4>1, <4>3, SplitAppend
      <4> QED
        BY <4>3, <4>5, <4>6 DEF Cut
    <3> QED
      BY <3>1, <3>2, <3>3
  <2> QED
    BY <2>1, <2>3
<1> HIDE DEF T
<1>3. Text \subseteq T
  BY <1>1, <1>2, Appending DEF Text
<1>4. s \in T
  BY <1>3
<1> QED
  BY <1>4 DEF T
-----------------------------------------------------------------------------
(* Suffixes. *)

\* A sequence ends in those that it is a concatenation with, and in no others.
EndsIn(X, s, t) ==
  \E p \in Seq(X) : t = p \o s

LEMMA SuffixConcat ==
  ASSUME NEW X, NEW s \in Seq(X), NEW t \in Seq(X)
  PROVE  IsSuffix(s, t) <=> EndsIn(X, s, t)
<1> DEFINE m == Len(s)
           n == Len(t)
           r == Reverse(s)
           q == Reverse(t)
<1>1. m \in Nat /\ n \in Nat
  BY LenProperties
<1>2. /\ r \in Seq(X) /\ Len(r) = m /\ \A i \in 1..m : r[i] = s[m - i + 1]
      /\ q \in Seq(X) /\ Len(q) = n /\ \A i \in 1..n : q[i] = t[n - i + 1]
  BY <1>1, ElementOfSeq DEF Reverse
<1> HIDE DEF r, q
<1>3. IsSuffix(s, t) <=> m <= n /\ SubSeq(r, 1, m) = SubSeq(q, 1, m)
  BY <1>2 DEF IsSuffix, IsPrefix, r, q
<1>4. SubSeq(r, 1, m) = r
  BY <1>2, SubSeqFull
<1>5. ASSUME m <= n
      PROVE  /\ SubSeq(q, 1, m) \in Seq(X) /\ Len(SubSeq(q, 1, m)) = m
             /\ \A i \in 1..m : SubSeq(q, 1, m)[i] = t[n - i + 1]
  <2> DEFINE u == SubSeq(q, 1, m)
             v == SubSeq(q, m + 1, Len(q))
  <2>2. u \in Seq(X) /\ Len(u) = m /\ v \in Seq(X) /\ q = u \o v
    <3>1. m \in 0..Len(q)
      BY <1>1, <1>2, <1>5
    <3> QED
      BY <1>2, <3>1, CutInTwo
  <2> HIDE DEF u, v
  <2>3. ASSUME NEW i \in 1..m
        PROVE  u[i] = t[n - i + 1]
    <3>1. q[i] = u[i]
      <4>1. Len(v) \in Nat /\ i \in 1..(Len(u) + Len(v)) /\ i <= Len(u)
        BY <1>1, <2>2, LenProperties
      <4>2. (u \o v)[i] = IF i <= Len(u) THEN u[i] ELSE v[i - Len(u)]
        BY <2>2, <4>1, ConcatProperties
      <4> QED
        BY <2>2, <4>1, <4>2
    <3>2. i \in 1..n
      BY <1>1, <1>5
    <3> QED
      BY <1>2, <3>1, <3>2
  <2> QED
    BY <2>2, <2>3 DEF u
<1>6. IsSuffix(s, t) <=> m <= n /\ \A i \in 1..m : s[m - i + 1] = t[n - i + 1]
  <2>1. CASE ~(m <= n)
    BY <1>3, <2>1
  <2>2. CASE m <= n
    <3> DEFINE u == SubSeq(q, 1, m)
    <3>1. u \in Seq(X) /\ Len(u) = m /\ \A i \in 1..m : u[i] = t[n - i + 1]
      BY <1>5, <2>2
    <3>2. IsSuffix(s, t) <=> r = u
      BY <1>3, <1>4, <2>2
    <3> HIDE DEF u
    <3>3. r = u <=> \A i \in 1..m : r[i] = u[i]
      BY <1>2, <3>1, SeqEqual
    <3> QED
      BY <1>2, <2>2, <3>1, <3>2, <3>3
  <2> QED
    BY <2>1, <2>2
<1>7. ASSUME IsSuffix(s, t)
      PROVE  EndsIn(X, s, t)
  <2> DEFINE k == n - m
             a == SubSeq(t, 1, k)
             b == SubSeq(t, k + 1, n)
  <2>1. k \in 0..n
    BY <1>1, <1>6, <1>7
  <2>2. a \in Seq(X) /\ Len(a) = k /\ b \in Seq(X) /\ Len(b) = n - k /\ t = a \o b
    BY <2>1, CutInTwo
  <2> HIDE DEF a, b
  <2>3. Len(b) = m
    BY <1>1, <2>2
  <2>4. ASSUME NEW i \in 1..m
        PROVE  b[i] = s[i]
    <3> DEFINE j == m - i + 1
    <3>1. j \in 1..m /\ m - j + 1 = i /\ n - j + 1 = k + i /\ k + i \in 1..n
      BY <1>1, <1>6, <1>7
    <3>2. s[i] = t[k + i]
      BY <1>6, <1>7, <3>1
    <3>3. t[k + i] = b[i]
      <4>1. k + i \in 1..(Len(a) + Len(b)) /\ ~(k + i <= Len(a)) /\ (k + i) - Len(a) = i
        BY <1>1, <2>1, <2>2, <2>3
      <4> QED
        BY <2>2, <4>1, ConcatProperties
    <3> QED
      BY <3>2, <3>3
  <2>5. b = s
    BY <2>2, <2>3, <2>4, SeqEqual
  <2> QED
    BY <2>2, <2>5 DEF EndsIn
<1>8. ASSUME NEW p \in Seq(X), t = p \o s
      PROVE  IsSuffix(s, t)
  <2>1. /\ Len(p) \in Nat /\ n = Len(p) + m
        /\ \A i \in 1..(Len(p) + m) : t[i] = IF i <= Len(p) THEN p[i] ELSE s[i - Len(p)]
    BY <1>8, ConcatProperties, LenProperties
  <2>2. ASSUME NEW i \in 1..m
        PROVE  s[m - i + 1] = t[n - i + 1]
    <3>1. /\ n - i + 1 \in 1..(Len(p) + m) /\ ~(n - i + 1 <= Len(p))
          /\ (n - i + 1) - Len(p) = m - i + 1
      BY <1>1, <2>1
    <3> QED
      BY <2>1, <3>1, SMTT(30)
  <2> QED
    BY <1>1, <1>6, <2>1, <2>2
<1> QED
  BY <1>7, <1>8 DEF EndsIn
-----------------------------------------------------------------------------
(* Case. *)

LEMMA LowerTyped ==
  ASSUME NEW s \in Text
  PROVE  /\ to_ascii_lowercase(s) \in Text
         /\ Len(to_ascii_lowercase(s)) = Len(s)
         /\ \A i \in 1..Len(s) :
              to_ascii_lowercase(s)[i] = IF s[i] \in Upper THEN s[i] + 32 ELSE s[i]
<1> DEFINE n == Len(s)
           low(c) == IF c \in Upper THEN c + 32 ELSE c
           l == [i \in 1..n |-> low(s[i])]
<1>1. n \in Nat /\ DOMAIN s = 1..n /\ \A i \in 1..n : s[i] \in Nat
  BY LenProperties, ElementOfSeq DEF Text
<1>2. \A c \in Nat : low(c) \in Nat
  BY DEF Upper
<1>3. to_ascii_lowercase(s) = l
  BY <1>1 DEF to_ascii_lowercase
<1>4. \A i \in 1..n : l[i] = low(s[i])
  OBVIOUS
<1> HIDE DEF low
<1>5. l \in Seq(Nat) /\ Len(l) = n
  BY <1>1, <1>2
<1> HIDE DEF l
<1> USE DEF low
<1> QED
  BY <1>3, <1>4, <1>5 DEF Text

\* Two texts that go together do so in lower case.
LEMMA LowerConcat ==
  ASSUME NEW a \in Text, NEW b \in Text
  PROVE  to_ascii_lowercase(a \o b) = to_ascii_lowercase(a) \o to_ascii_lowercase(b)
<1> DEFINE ab == a \o b
           A == to_ascii_lowercase(a)
           B == to_ascii_lowercase(b)
           L == to_ascii_lowercase(ab)
           low(c) == IF c \in Upper THEN c + 32 ELSE c
<1>1. /\ ab \in Text /\ Len(a) \in Nat /\ Len(b) \in Nat /\ Len(ab) = Len(a) + Len(b)
      /\ \A i \in 1..(Len(a) + Len(b)) : ab[i] = IF i <= Len(a) THEN a[i] ELSE b[i - Len(a)]
  BY ConcatProperties, LenProperties DEF Text
<1> HIDE DEF ab
<1>2. /\ A \in Text /\ Len(A) = Len(a) /\ \A i \in 1..Len(a) : A[i] = low(a[i])
      /\ B \in Text /\ Len(B) = Len(b) /\ \A i \in 1..Len(b) : B[i] = low(b[i])
      /\ L \in Text /\ Len(L) = Len(ab) /\ \A i \in 1..Len(ab) : L[i] = low(ab[i])
  BY <1>1, LowerTyped
<1> HIDE DEF A, B, L, low
<1>3. /\ A \o B \in Text /\ Len(A \o B) = Len(A) + Len(B)
      /\ \A i \in 1..(Len(A) + Len(B)) : (A \o B)[i] = IF i <= Len(A) THEN A[i] ELSE B[i - Len(A)]
  <2>1. A \in Seq(Nat) /\ B \in Seq(Nat)
    BY <1>2 DEF Text
  <2>2. A \o B \in Seq(Nat)
    BY <2>1, ConcatProperties
  <2> QED
    BY <2>1, <2>2, ConcatProperties DEF Text
<1>4. ASSUME NEW i \in 1..Len(L)
      PROVE  L[i] = (A \o B)[i]
  <2>1. i \in 1..(Len(a) + Len(b)) /\ (~(i <= Len(a)) => i - Len(a) \in 1..Len(b))
    BY <1>1, <1>2
  <2>2. CASE i <= Len(a)
    BY <1>1, <1>2, <1>3, <2>1, <2>2
  <2>3. CASE ~(i <= Len(a))
    BY <1>1, <1>2, <1>3, <2>1, <2>3
  <2> QED
    BY <2>2, <2>3
<1>5. L = A \o B
  BY <1>1, <1>2, <1>3, <1>4, SeqEqual DEF Text
<1> QED
  BY <1>5 DEF L, A, B, ab

\* A dot stays a dot, and nothing becomes one.
LEMMA LowerLast ==
  ASSUME NEW a \in Text, NEW c \in Nat
  PROVE  to_ascii_lowercase(Append(a, c)) =
           Append(to_ascii_lowercase(a), IF c \in Upper THEN c + 32 ELSE c)
<1> DEFINE d == IF c \in Upper THEN c + 32 ELSE c
           A == to_ascii_lowercase(a)
<1>0. d \in Nat
  BY DEF Upper
<1>1. <<c>> \in Text /\ Append(a, c) = a \o <<c>> /\ Len(<<c>>) = 1 /\ <<c>>[1] = c
  BY AppendIsConcat DEF Text
<1>2. A \in Text
  BY LowerTyped
<1>3. to_ascii_lowercase(<<c>>) = <<d>>
  <2> DEFINE u == <<c>>
             l == to_ascii_lowercase(u)
  <2>0. u \in Text /\ Len(u) = 1 /\ u[1] = c
    BY <1>1
  <2> HIDE DEF u
  <2>1. l \in Seq(Nat) /\ Len(l) = 1 /\ l[1] = d
    <3>1. /\ l \in Text /\ Len(l) = Len(u)
          /\ \A i \in 1..Len(u) : l[i] = IF u[i] \in Upper THEN u[i] + 32 ELSE u[i]
      BY <2>0, LowerTyped
    <3> HIDE DEF l
    <3>2. l[1] = d
      BY <2>0, <3>1
    <3> QED
      BY <2>0, <3>1, <3>2 DEF Text
  <2> HIDE DEF l, d
  <2>2. <<d>> \in Seq(Nat) /\ Len(<<d>>) = 1 /\ <<d>>[1] = d
    BY <1>0
  <2>3. \A i \in 1..Len(l) : l[i] = <<d>>[i]
    BY <2>1, <2>2
  <2>4. l = <<d>>
    BY <2>1, <2>2, <2>3, SeqEqual
  <2> QED
    BY <2>4 DEF l, u
<1>4. to_ascii_lowercase(Append(a, c)) = A \o to_ascii_lowercase(<<c>>)
  BY <1>1, LowerConcat
<1> HIDE DEF d, A
<1>5. Append(A, d) = A \o <<d>>
  BY <1>0, <1>2, AppendIsConcat DEF Text
<1> QED
  BY <1>3, <1>4, <1>5 DEF d, A

\* A text whose lower case is in two parts is itself in two.
CutBefore(s, x, y) ==
  \E h, t \in Text : /\ s = h \o t /\ Len(h) = Len(x)
                     /\ to_ascii_lowercase(h) = x /\ to_ascii_lowercase(t) = y

LEMMA LowerCut ==
  ASSUME NEW s \in Text, NEW x \in Text, NEW y \in Text, to_ascii_lowercase(s) = x \o y
  PROVE  CutBefore(s, x, y)
<1> DEFINE k == Len(x)
           h == SubSeq(s, 1, k)
           t == SubSeq(s, k + 1, Len(s))
           H == to_ascii_lowercase(h)
           T == to_ascii_lowercase(t)
<1>1. k \in Nat /\ Len(y) \in Nat /\ Len(s) = k + Len(y)
  BY LowerTyped, ConcatProperties, LenProperties DEF Text
<1>2. k \in 0..Len(s)
  BY <1>1
<1>3. h \in Text /\ Len(h) = k /\ t \in Text /\ Len(t) = Len(s) - k /\ s = h \o t
  BY <1>2, CutInTwo, ZenonT(60) DEF Text
<1>4. Len(t) = Len(y)
  BY <1>1, <1>3
<1> HIDE DEF h, t
<1>5. H \in Text /\ Len(H) = k /\ T \in Text /\ Len(T) = Len(y) /\ H \o T = x \o y
  BY <1>3, <1>4, LowerTyped, LowerConcat
<1> HIDE DEF H, T
<1>6. H = x /\ T = y
  <2>1. /\ \A i \in 1..(k + Len(y)) : (H \o T)[i] = IF i <= k THEN H[i] ELSE T[i - k]
        /\ \A i \in 1..(k + Len(y)) : (x \o y)[i] = IF i <= k THEN x[i] ELSE y[i - k]
    BY <1>5, ConcatProperties, SMTT(30) DEF Text
  <2>2. \A i \in 1..k : H[i] = x[i]
    BY <1>1, <1>5, <2>1
  <2>3. ASSUME NEW i \in 1..Len(y)
        PROVE  T[i] = y[i]
    <3>1. k + i \in 1..(k + Len(y)) /\ ~(k + i <= k) /\ (k + i) - k = i
      BY <1>1
    <3> QED
      BY <1>5, <2>1, <3>1
  <2>4. H = x
    BY <1>5, <2>2, SeqEqual DEF Text
  <2>5. T = y
    BY <1>5, <2>3, SeqEqual DEF Text
  <2> QED
    BY <2>4, <2>5
<1> QED
  BY <1>3, <1>6 DEF H, T, CutBefore
-----------------------------------------------------------------------------
(* The suffix test of examples/basic.rs. *)

\* What matches_suffix looks for: an end that differs in case only, at a dot or with
\* nothing before it.
EndsAtDot(s, suffix) ==
  \E h, t \in Text : /\ s = h \o t /\ to_ascii_lowercase(t) = to_ascii_lowercase(suffix)
                     /\ h = <<>> \/ Last(h) = Dot

LEMMA MatchIsEnd ==
  ASSUME NEW s \in Text, NEW suffix \in Text
  PROVE  matches_suffix(s, suffix) <=> EndsAtDot(s, suffix)
<1> DEFINE k == Len(s) - Len(suffix)
           h == SubSeq(s, 1, k)
           t == SubSeq(s, k + 1, Len(s))
<1>1. Len(s) \in Nat /\ Len(suffix) \in Nat
  BY LenProperties DEF Text
<1>2. matches_suffix(s, suffix) <=>
        /\ Len(s) >= Len(suffix)
        /\ to_ascii_lowercase(t) = to_ascii_lowercase(suffix)
        /\ h = <<>> \/ Last(h) = Dot
  BY DEF matches_suffix
<1>3. ASSUME Len(s) >= Len(suffix)
      PROVE  h \in Text /\ t \in Text /\ s = h \o t
  <2>1. k \in 0..Len(s)
    BY <1>1, <1>3
  <2> HIDE DEF k
  <2> QED
    BY <2>1, CutInTwo DEF Text
<1>4. ASSUME NEW a \in Text, NEW b \in Text, s = a \o b,
             to_ascii_lowercase(b) = to_ascii_lowercase(suffix)
      PROVE  Len(s) >= Len(suffix) /\ h = a /\ t = b
  <2>1. Len(b) = Len(suffix)
    BY <1>4, LowerTyped
  <2>2. /\ Len(a) \in Nat /\ Len(b) \in Nat /\ Len(s) = Len(a) + Len(b)
        /\ \A i \in 1..(Len(a) + Len(b)) : s[i] = IF i <= Len(a) THEN a[i] ELSE b[i - Len(a)]
    BY <1>4, ConcatProperties, LenProperties DEF Text
  <2>3. k = Len(a) /\ Len(s) >= Len(suffix) /\ k \in 0..Len(s)
    BY <1>1, <2>1, <2>2
  <2>4. h \in Text /\ Len(h) = k /\ t \in Text /\ Len(t) = Len(s) - k /\ s = h \o t
    <3> HIDE DEF k
    <3> QED
      BY <2>3, CutInTwo, ZenonT(60) DEF Text
  <2> HIDE DEF h, t, k
  <2>5. \A i \in 1..(Len(h) + Len(t)) : s[i] = IF i <= Len(h) THEN h[i] ELSE t[i - Len(h)]
    BY <2>4, ConcatProperties DEF Text
  <2>6. h = a
    <3>1. Len(h) = Len(a) /\ \A i \in 1..Len(h) : h[i] = a[i]
      BY <2>2, <2>3, <2>4, <2>5
    <3> QED
      BY <2>4, <3>1, SeqEqual DEF Text
  <2>7. t = b
    <3>1. Len(t) = Len(b)
      BY <2>2, <2>3, <2>4
    <3>2. ASSUME NEW i \in 1..Len(t)
          PROVE  t[i] = b[i]
      <4>1. k + i \in 1..(Len(a) + Len(b)) /\ ~(k + i <= k) /\ (k + i) - k = i
        BY <2>2, <2>3, <3>1
      <4> QED
        BY <2>2, <2>3, <2>4, <2>5, <3>1, <4>1
    <3> QED
      BY <2>4, <3>1, <3>2, SeqEqual DEF Text
  <2> QED
    BY <2>3, <2>6, <2>7
<1> HIDE DEF h, t, k
<1>5. matches_suffix(s, suffix) => EndsAtDot(s, suffix)
  BY <1>2, <1>3 DEF EndsAtDot
<1>6. ASSUME EndsAtDot(s, suffix)
      PROVE  matches_suffix(s, suffix)
  <2>1. PICK a \in Text, b \in Text :
          /\ s = a \o b /\ to_ascii_lowercase(b) = to_ascii_lowercase(suffix)
          /\ a = <<>> \/ Last(a) = Dot
    BY <1>6 DEF EndsAtDot
  <2>2. Len(s) >= Len(suffix) /\ h = a /\ t = b
    BY <1>4, <2>1
  <2> QED
    BY <1>2, <2>1, <2>2
<1> QED
  BY <1>5, <1>6

LEMMA LabelsTyped ==
  ASSUME NEW s \in Text
  PROVE  Labels(s) \in Parts /\ Labels(s) \in Seq(Text)
BY LowerTyped, SplitTyped DEF Labels, Parts

\* A name is under a suffix, for the resolver of the bridge, exactly if its labels end
\* in those of the suffix, whatever the case of either; never if only its letters do.
THEOREM SuffixesAreLabels ==
  ASSUME NEW s \in Text, NEW suffix \in Text
  PROVE  matches_suffix(s, suffix) <=> IsSuffix(Labels(suffix), Labels(s))
<1> DEFINE l(x) == to_ascii_lowercase(x)
           Y == l(suffix)
<1>1. /\ IsSuffix(Labels(suffix), Labels(s)) <=> EndsIn(Text, Labels(suffix), Labels(s))
      /\ Labels(suffix) = split(Y) /\ Labels(s) = split(l(s))
  BY LabelsTyped, SuffixConcat DEF Labels
<1>2. Y \in Text /\ split(Y) \in Parts /\ split(Y) \in Seq(Text) /\ Dot \in Nat /\ Dot \notin Upper
  <2>1. Y \in Text
    BY LowerTyped
  <2> HIDE DEF Y
  <2>2. split(Y) \in Parts
    BY <2>1, SplitTyped
  <2> QED
    BY <2>1, <2>2 DEF Parts, Dot, Upper
<1> HIDE DEF Y
<1>3. ASSUME EndsAtDot(s, suffix)
      PROVE  EndsIn(Text, Labels(suffix), Labels(s))
  <2>1. PICK h \in Text, t \in Text :
          s = h \o t /\ l(t) = l(suffix) /\ (h = <<>> \/ Last(h) = Dot)
    BY <1>3 DEF EndsAtDot
  <2>2. l(s) = l(h) \o Y
    BY <2>1, LowerConcat DEF Y
  <2>3. CASE h = <<>>
    <3>1. s = t /\ <<>> \o split(Y) = split(Y) /\ <<>> \in Seq(Text)
      BY <1>2, <2>1, <2>3, ConcatEmptySeq DEF Text
    <3>2. l(s) = Y
      BY <2>1, <3>1 DEF Y
    <3> QED
      BY <1>1, <3>1, <3>2 DEF EndsIn
  <2>4. CASE h # <<>>
    <3> DEFINE f == Front(h)
               F == l(f)
    <3>1. f \in Text /\ h = Append(f, Dot)
      BY <2>1, <2>4, Ends DEF Text
    <3> HIDE DEF f
    <3>2. l(h) = Append(F, Dot)
      BY <1>2, <3>1, LowerLast
    <3>3. F \in Text
      BY <3>1, LowerTyped
    <3> HIDE DEF F
    <3>4. split(l(s)) = split(F) \o split(Y)
      BY <1>2, <2>2, <3>2, <3>3, SplitConcat, ZenonT(60)
    <3>5. split(F) \in Seq(Text)
      BY <3>3, SplitTyped DEF Parts
    <3> QED
      BY <1>1, <3>4, <3>5 DEF EndsIn
  <2> QED
    BY <2>3, <2>4
<1>4. ASSUME EndsIn(Text, Labels(suffix), Labels(s))
      PROVE  EndsAtDot(s, suffix)
  <2> DEFINE S == l(s)
  <2>1. S \in Text
    BY LowerTyped
  <2>2. PICK P \in Seq(Text) : split(S) = P \o split(Y)
    BY <1>1, <1>4 DEF EndsIn
  <2> HIDE DEF S
  <2>3. CASE P = <<>>
    <3>1. split(S) = split(Y)
      BY <1>2, <2>2, <2>3, ConcatEmptySeq
    <3>2. S = Y
      BY <1>2, <2>1, <3>1, SplitInjective
    <3>3. <<>> \in Text /\ <<>> \o s = s
      BY ConcatEmptySeq DEF Text
    <3> QED
      BY <3>2, <3>3 DEF EndsAtDot, S, Y
  <2>4. CASE P # <<>>
    <3>1. P \in Parts
      BY <2>4 DEF Parts
    <3>2. Cut(S, P, split(Y))
      <4> DEFINE Q == split(Y)
      <4>1. Q \in Parts /\ split(S) = P \o Q
        BY <1>2, <2>2
      <4> HIDE DEF Q
      <4>2. Cut(S, P, Q)
        BY <2>1, <3>1, <4>1, SplitBack
      <4> QED
        BY <4>2 DEF Q
    <3>3. PICK a \in Text, b \in Text : S = Append(a, Dot) \o b /\ split(b) = split(Y)
      BY <3>2 DEF Cut
    <3>4. b = Y
      BY <1>2, <3>3, SplitInjective
    <3> DEFINE x == Append(a, Dot)
    <3>5. x \in Text /\ x # <<>> /\ Last(x) = Dot /\ Len(x) # 0
      BY <1>2, EndsOfAppend, EmptySeq DEF Text
    <3> HIDE DEF x
    <3>6. PICK h \in Text, t \in Text : s = h \o t /\ Len(h) = Len(x) /\ l(h) = x /\ l(t) = Y
      <4>1. l(s) = x \o Y
        BY <3>3, <3>4 DEF S, x
      <4>2. CutBefore(s, x, Y)
        BY <1>2, <3>5, <4>1, LowerCut
      <4> QED
        BY <4>2 DEF CutBefore
    <3>7. h # <<>>
      BY <3>5, <3>6, EmptySeq DEF Text
    <3> DEFINE f == Front(h)
               c == Last(h)
    <3>8. f \in Text /\ c \in Nat /\ h = Append(f, c)
      BY <3>7, Ends DEF Text
    <3> HIDE DEF f, c
    <3>9. c = Dot
      <4> DEFINE d == IF c \in Upper THEN c + 32 ELSE c
                 F == l(f)
      <4>1. x = Append(F, d) /\ F \in Text /\ d \in Nat
        <5>1. d \in Nat
          BY <3>8
        <5> QED
          BY <3>6, <3>8, <5>1, LowerLast, LowerTyped
      <4> HIDE DEF F
      <4>2. Last(x) = d
        <5> HIDE DEF d
        <5> QED
          BY <4>1, EndsOfAppend DEF Text
      <4>3. d = Dot
        BY <3>5, <4>2
      <4> QED
        BY <3>8, <4>3 DEF Dot, Upper
    <3> QED
      BY <3>6, <3>9 DEF EndsAtDot, Y, c
  <2> QED
    BY <2>3, <2>4
<1> QED
  BY <1>1, <1>3, <1>4, MatchIsEnd
-----------------------------------------------------------------------------
(* What the labels of a text are made of. *)

LEMMA RangeAppend ==
  ASSUME NEW X, NEW p \in Seq(X), NEW x \in X
  PROVE  Range(Append(p, x)) = Range(p) \cup {x}
<1> DEFINE a == Append(p, x)
           n == Len(p)
<1>1. /\ n \in Nat /\ DOMAIN p = 1..n /\ DOMAIN a = 1..(n + 1)
      /\ a[n + 1] = x /\ \A i \in 1..n : a[i] = p[i]
  BY LenProperties, AppendProperties
<1> HIDE DEF a, n
<1>2. \A i \in 1..(n + 1) : i \in 1..n \/ i = n + 1
  BY <1>1
<1>3. n + 1 \in 1..(n + 1) /\ \A i \in 1..n : i \in 1..(n + 1)
  BY <1>1
<1>4. ASSUME NEW y \in Range(a)
      PROVE  y \in Range(p) \cup {x}
  <2>1. PICK i \in 1..(n + 1) : y = a[i]
    BY <1>1 DEF Range
  <2> QED
    BY <1>1, <1>2, <2>1 DEF Range
<1>5. ASSUME NEW y \in Range(p) \cup {x}
      PROVE  y \in Range(a)
  <2>1. CASE y = x
    BY <1>1, <1>3, <2>1 DEF Range
  <2>2. CASE y \in Range(p)
    <3>1. PICK i \in 1..n : y = p[i]
      BY <1>1, <2>2 DEF Range
    <3> QED
      BY <1>1, <1>3, <3>1 DEF Range
  <2> QED
    BY <2>1, <2>2
<1> QED
  BY <1>4, <1>5 DEF a

\* The characters of the labels are those of the text that are not dots.
LEMMA LabelCharacters ==
  ASSUME NEW s \in Text, NEW C
  PROVE  (\A label \in Range(split(s)) : Range(label) \subseteq C)
           <=> Range(s) \subseteq C \cup {Dot}
<1> DEFINE Made(p) == \A label \in Range(p) : Range(label) \subseteq C
           T == {t \in Text : Made(split(t)) <=> Range(t) \subseteq C \cup {Dot}}
<1>0. <<>> \in Text /\ Range(<<>>) = {}
  BY DEF Text, Range
<1>1. ASSUME NEW p \in Seq(Text), NEW x \in Text
      PROVE  Made(Append(p, x)) <=> Made(p) /\ Range(x) \subseteq C
  BY RangeAppend
<1> HIDE DEF Made
<1>2. <<>> \in T
  <2>1. Append(<<>>, <<>>) = << <<>> >> /\ <<>> \in Seq(Text)
    OBVIOUS
  <2>2. Made(<<>>)
    BY DEF Made, Range
  <2>3. Made(<< <<>> >>)
    BY <1>0, <1>1, <2>1, <2>2
  <2> QED
    BY <1>0, <2>3, SplitEmpty
<1>3. ASSUME NEW t \in Text, NEW c \in Nat, t \in T
      PROVE  Append(t, c) \in T
  <2> DEFINE p == split(t)
             F == Front(p)
             L == Last(p)
  <2>1. Append(t, c) \in Text /\ Range(Append(t, c)) = Range(t) \cup {c}
    BY RangeAppend, AppendProperties DEF Text
  <2>2. p \in Parts /\ split(Append(t, c)) = SplitStep(p, c)
    BY SplitAppend
  <2>3. Made(p) <=> Range(t) \subseteq C \cup {Dot}
    BY <1>3
  <2> HIDE DEF p
  <2>4. p \in Seq(Text) /\ F \in Seq(Text) /\ L \in Text /\ p = Append(F, L)
    BY <2>2, PartsEnds
  <2> HIDE DEF F, L
  <2>5. Made(p) <=> Made(F) /\ Range(L) \subseteq C
    BY <1>1, <2>4
  <2>6. CASE c = Dot
    <3>1. Made(SplitStep(p, c)) <=> Made(p)
      BY <1>0, <1>1, <2>4, <2>6 DEF SplitStep
    <3> QED
      BY <2>1, <2>2, <2>3, <2>6, <3>1
  <2>7. CASE c # Dot
    <3> DEFINE M == Append(L, c)
    <3>1. M \in Text /\ Range(M) = Range(L) \cup {c}
      <4>1. L \in Seq(Nat)
        BY <2>4 DEF Text
      <4>2. M \in Seq(Nat)
        BY <4>1, AppendProperties
      <4>3. Range(M) = Range(L) \cup {c}
        BY <4>1, RangeAppend
      <4> QED
        BY <4>2, <4>3 DEF Text
    <3>2. SplitStep(p, c) = Append(F, M)
      BY <2>7 DEF SplitStep, F, L
    <3> HIDE DEF M
    <3>3. Made(SplitStep(p, c)) <=> Made(F) /\ Range(M) \subseteq C
      BY <1>1, <2>4, <3>1, <3>2
    <3> QED
      BY <2>1, <2>2, <2>3, <2>5, <2>7, <3>1, <3>3
  <2> QED
    BY <2>6, <2>7
<1> HIDE DEF T
<1>4. Text \subseteq T
  BY <1>2, <1>3, Appending DEF Text
<1>5. s \in T
  BY <1>4
<1> QED
  BY <1>5 DEF T, Made

\* Every dot has another character before it.
DotsApart(s) ==
  \A i \in 1..Len(s) : s[i] = Dot => i # 1 /\ s[i - 1] # Dot

\* No label but the last is empty exactly if every dot has another character before
\* it; the last is empty exactly if the text is, or ends in a dot.
LEMMA EmptyLabels ==
  ASSUME NEW s \in Text
  PROVE  /\ (<<>> \notin Range(Front(split(s)))) <=> DotsApart(s)
         /\ Last(split(s)) = <<>> <=> (s = <<>> \/ Last(s) = Dot)
<1> DEFINE T == {t \in Text : /\ (<<>> \notin Range(Front(split(t)))) <=> DotsApart(t)
                              /\ Last(split(t)) = <<>> <=> (t = <<>> \/ Last(t) = Dot)}
<1>1. <<>> \in T
  <2> DEFINE e == << <<>> >>
  <2>1. <<>> \in Text /\ <<>> \in Seq(Text) /\ Append(<<>>, <<>>) = e
    BY DEF Text
  <2>2. Front(Append(<<>>, <<>>)) = <<>> /\ Last(Append(<<>>, <<>>)) = <<>>
    BY <2>1, EndsOfAppend, ZenonT(60)
  <2>3. Front(e) = <<>> /\ Last(e) = <<>>
    BY <2>1, <2>2
  <2>4. <<>> \notin Range(<<>>) /\ DotsApart(<<>>)
    BY DEF Range, DotsApart
  <2> QED
    BY <2>1, <2>3, <2>4, SplitEmpty
<1>2. ASSUME NEW t \in Text, NEW c \in Nat, t \in T
      PROVE  Append(t, c) \in T
  <2> DEFINE p == split(t)
             F == Front(p)
             L == Last(p)
             u == Append(t, c)
             n == Len(t)
  <2>1. /\ u \in Text /\ u # <<>> /\ Last(u) = c /\ Len(u) = n + 1 /\ n \in Nat
        /\ u[n + 1] = c /\ \A i \in 1..n : u[i] = t[i]
    <3>1. u \in Text /\ u # <<>> /\ Last(u) = c /\ Len(u) = n + 1
      BY EndsOfAppend DEF Text
    <3>2. n \in Nat /\ u[n + 1] = c /\ \A i \in 1..n : u[i] = t[i]
      BY LenProperties, AppendProperties DEF Text
    <3> QED
      BY <3>1, <3>2
  <2>2. p \in Parts /\ split(u) = SplitStep(p, c)
    BY SplitAppend
  <2>3. /\ (<<>> \notin Range(F)) <=> DotsApart(t)
        /\ L = <<>> <=> (t = <<>> \/ Last(t) = Dot)
    BY <1>2
  <2> HIDE DEF p, u
  <2>4. F \in Seq(Text) /\ L \in Text /\ p = Append(F, L)
    BY <2>2, PartsEnds
  <2>5. /\ Last(SplitStep(p, c)) = <<>> <=> c = Dot
        /\ Front(SplitStep(p, c)) = IF c = Dot THEN p ELSE F
    BY <2>2, StepShows
  <2> HIDE DEF F, L
  <2>6. Range(p) = Range(F) \cup {L}
    BY <2>4, RangeAppend
  <2>7. t = <<>> <=> n = 0
    BY EmptySeq DEF Text
  <2>8. DotsApart(u) <=> DotsApart(t) /\ (c = Dot => t # <<>> /\ Last(t) # Dot)
    <3>1. ASSUME DotsApart(u)
          PROVE  DotsApart(t) /\ (c = Dot => t # <<>> /\ Last(t) # Dot)
      <4>1. ASSUME NEW i \in 1..n, t[i] = Dot
            PROVE  i # 1 /\ t[i - 1] # Dot
        <5>1. i \in 1..Len(u) /\ u[i] = Dot
          BY <2>1, <4>1
        <5>2. i # 1 /\ u[i - 1] # Dot
          BY <3>1, <5>1 DEF DotsApart
        <5>3. i - 1 \in 1..n
          BY <5>2, <2>1
        <5> QED
          BY <2>1, <5>2, <5>3
      <4>2. ASSUME c = Dot
            PROVE  t # <<>> /\ Last(t) # Dot
        <5>1. n + 1 \in 1..Len(u) /\ (n + 1) - 1 = n
          BY <2>1
        <5>2. n + 1 # 1 /\ u[n] # Dot
          BY <2>1, <3>1, <4>2, <5>1 DEF DotsApart
        <5>3. n \in 1..n
          BY <2>1, <5>2
        <5> QED
          BY <2>1, <2>7, <5>2, <5>3 DEF Last
      <4> QED
        BY <4>1, <4>2 DEF DotsApart
    <3>2. ASSUME DotsApart(t), c = Dot => t # <<>> /\ Last(t) # Dot
          PROVE  DotsApart(u)
      <4>1. ASSUME NEW i \in 1..(n + 1), u[i] = Dot
            PROVE  i # 1 /\ u[i - 1] # Dot
        <5>1. CASE i \in 1..n
          <6>1. t[i] = Dot
            BY <2>1, <4>1, <5>1
          <6>2. i # 1 /\ t[i - 1] # Dot
            BY <3>2, <5>1, <6>1 DEF DotsApart
          <6>3. i - 1 \in 1..n
            BY <2>1, <5>1, <6>2
          <6> QED
            BY <2>1, <6>2, <6>3
        <5>2. CASE i = n + 1
          <6>1. c = Dot
            BY <2>1, <4>1, <5>2
          <6>2. n # 0 /\ t[n] # Dot
            BY <2>7, <3>2, <6>1 DEF Last
          <6>3. n \in 1..n /\ i # 1 /\ i - 1 = n
            BY <2>1, <5>2, <6>2
          <6> QED
            BY <2>1, <6>2, <6>3
        <5> QED
          BY <2>1, <5>1, <5>2
      <4> QED
        BY <2>1, <4>1 DEF DotsApart
    <3> QED
      BY <3>1, <3>2
  <2>9. (<<>> \notin Range(Front(split(u)))) <=> DotsApart(u)
    BY <2>2, <2>3, <2>5, <2>6, <2>8
  <2>10. Last(split(u)) = <<>> <=> (u = <<>> \/ Last(u) = Dot)
    BY <2>1, <2>2, <2>5
  <2> QED
    BY <2>1, <2>9, <2>10 DEF u
<1> HIDE DEF T
<1>3. Text \subseteq T
  BY <1>1, <1>2, Appending DEF Text
<1>4. s \in T
  BY <1>3
<1> QED
  BY <1>4 DEF T
-----------------------------------------------------------------------------
(* The test of config.rs for a routing domain. *)

Ldh == Upper \cup Lower \cup Digit \cup {Hyphen}

\* Only dots are trimmed, and all of them.
LEMMA Trimmed ==
  ASSUME NEW s \in Text
  PROVE  \E n \in 0..Len(s) :
           /\ trim_end_matches(s) = SubSeq(s, 1, n)
           /\ \A i \in (n + 1)..Len(s) : s[i] = Dot
           /\ n # 0 => s[n] # Dot
<1> DEFINE N == Len(s)
           last(n) == \A i \in (n + 1)..N : s[i] = Dot
           S == {n \in 0..N : last(n)}
           least(n) == last(n) /\ \A m \in 0..(n - 1) : ~last(m)
<1>1. N \in Nat
  BY LenProperties DEF Text
<1>2. N \in S /\ S \subseteq Nat
  BY <1>1
<1>3. \E n \in 0..N : least(n)
  <2> HIDE DEF S
  <2>1. PICK m \in S : \A n \in S : m <= n
    BY <1>2, LeastNumber
  <2> USE DEF S
  <2> HIDE DEF last
  <2>2. m \in 0..N /\ last(m)
    BY <2>1
  <2>3. ASSUME NEW k \in 0..(m - 1)
        PROVE  ~last(k)
    <3>1. k \in 0..N /\ ~(m <= k)
      BY <1>1, <2>2
    <3> QED
      BY <2>1, <3>1
  <2> QED
    BY <2>2, <2>3
<1> DEFINE n == CHOOSE k \in 0..N : least(k)
<1>4. trim_end_matches(s) = SubSeq(s, 1, n)
  BY DEF trim_end_matches
<1>5. n \in 0..N /\ least(n)
  <2> HIDE DEF least, N
  <2> QED
    BY <1>3
<1> HIDE DEF n
<1>6. ASSUME n # 0
      PROVE  s[n] # Dot
  <2>1. n - 1 \in 0..(n - 1) /\ (n - 1) + 1 = n
    BY <1>1, <1>5, <1>6
  <2>2. PICK i \in n..N : s[i] # Dot
    <3>1. ~last(n - 1)
      <4> HIDE DEF last
      <4> QED
        BY <1>5, <2>1
    <3> QED
      BY <2>1, <3>1
  <2>3. ~(i \in (n + 1)..N)
    BY <1>5, <2>2
  <2>4. i = n
    BY <1>1, <1>5, <2>3
  <2> QED
    BY <2>2, <2>4
<1> QED
  BY <1>4, <1>5, <1>6

\* What a routing domain is: letters, digits and hyphens, with dots that do not come
\* first, nor two in a row unless nothing but dots follows.
IsDomain(s) ==
  /\ s # <<>> /\ s[1] # Dot
  /\ Range(s) \subseteq Ldh \cup {Dot}
  /\ \A i \in 1..(Len(s) - 2) : s[i] = Dot /\ s[i + 1] = Dot => s[i + 2] = Dot

\* A text is taken for a domain exactly if it is one.
THEOREM DomainsAreLabels ==
  ASSUME NEW s \in Text
  PROVE  is_valid_domain(s) <=> IsDomain(s)
<1> DEFINE N == Len(s)
<1>1. PICK n \in 0..N : /\ trim_end_matches(s) = SubSeq(s, 1, n)
                        /\ \A i \in (n + 1)..N : s[i] = Dot
                        /\ n # 0 => s[n] # Dot
  BY Trimmed
<1> DEFINE t == SubSeq(s, 1, n)
           p == split(t)
<1>2. N \in Nat /\ n \in Nat /\ n <= N /\ DOMAIN s = 1..N
  BY <1>1, LenProperties DEF Text
<1>3. /\ t \in Text /\ Len(t) = n /\ DOMAIN t = 1..n
      /\ \A i \in 1..n : t[i] = s[i]
  <2>1. t \in Text /\ Len(t) = n
    BY CutInTwo DEF Text
  <2>2. DOMAIN t = 1..n
    BY <2>1, LenProperties DEF Text
  <2>3. \A i \in 1..n : s[i] \in Nat
    BY <1>2, ElementOfSeq DEF Text
  <2>4. 1 \in Int /\ n \in Int /\ n - 1 + 1 = n /\ \A i \in 1..n : 1 + i - 1 = i
    BY <1>2
  <2>5. \A i \in 1..(n - 1 + 1) : t[i] = s[1 + i - 1]
    BY <2>3, <2>4, SubSeqProperties
  <2> HIDE DEF t
  <2>6. \A i \in 1..n : t[i] = s[i]
    BY <2>4, <2>5
  <2> QED
    BY <2>1, <2>2, <2>6
<1>4. is_valid_domain(s) <=>
        /\ t # <<>>
        /\ \A label \in Range(p) : label # <<>> /\ Range(label) \subseteq Ldh
  BY <1>1 DEF is_valid_domain, Ldh
<1> HIDE DEF t
<1>5. p \in Parts
  BY <1>3, SplitTyped
<1>6. /\ (\A label \in Range(p) : Range(label) \subseteq Ldh) <=> Range(t) \subseteq Ldh \cup {Dot}
      /\ (<<>> \notin Range(Front(p))) <=> DotsApart(t)
      /\ Last(p) = <<>> <=> (t = <<>> \/ Last(t) = Dot)
  BY <1>3, LabelCharacters, EmptyLabels
<1> HIDE DEF p
<1>7. Range(p) = Range(Front(p)) \cup {Last(p)}
  <2> DEFINE F == Front(p)
             L == Last(p)
  <2>1. F \in Seq(Text) /\ L \in Text /\ p = Append(F, L)
    BY <1>5, PartsEnds
  <2> HIDE DEF F, L
  <2>2. Range(p) = Range(F) \cup {L}
    BY <2>1, RangeAppend
  <2> QED
    BY <2>2 DEF F, L
<1>8. /\ t = <<>> <=> n = 0
      /\ n # 0 => Last(t) # Dot
  <2>1. t = <<>> <=> n = 0
    BY <1>3, EmptySeq DEF Text
  <2>2. n # 0 => n \in 1..n
    BY <1>2
  <2> QED
    BY <1>1, <1>3, <2>1, <2>2 DEF Last
<1>9. is_valid_domain(s) <=> n # 0 /\ Range(t) \subseteq Ldh \cup {Dot} /\ DotsApart(t)
  BY <1>4, <1>6, <1>7, <1>8
<1>10. Range(t) \subseteq Ldh \cup {Dot} <=> Range(s) \subseteq Ldh \cup {Dot}
  <2>1. \A i \in 1..N : i \in 1..n \/ i \in (n + 1)..N
    BY <1>2
  <2>2. \A i \in 1..n : i \in 1..N
    BY <1>2
  <2>3. ASSUME Range(t) \subseteq Ldh \cup {Dot}, NEW x \in Range(s)
        PROVE  x \in Ldh \cup {Dot}
    <3>1. PICK i \in 1..N : x = s[i]
      BY <1>2 DEF Range
    <3>2. CASE i \in 1..n
      BY <1>3, <2>3, <3>1, <3>2 DEF Range
    <3>3. CASE i \in (n + 1)..N
      BY <1>1, <3>1, <3>3
    <3> QED
      BY <2>1, <3>2, <3>3
  <2>4. ASSUME NEW x \in Range(t)
        PROVE  x \in Range(s)
    <3>1. PICK i \in 1..n : x = t[i]
      BY <1>3 DEF Range
    <3> QED
      BY <1>2, <1>3, <2>2, <3>1 DEF Range
  <2> QED
    BY <2>3, <2>4
<1>11. ASSUME n # 0, DotsApart(t)
       PROVE  /\ s # <<>> /\ s[1] # Dot
              /\ \A i \in 1..(N - 2) : s[i] = Dot /\ s[i + 1] = Dot => s[i + 2] = Dot
  <2>1. 1 \in 1..n /\ N # 0
    BY <1>2, <1>11
  <2>2. s # <<>> /\ s[1] # Dot
    BY <1>3, <1>11, <2>1, EmptySeq DEF DotsApart, Text
  <2>3. ASSUME NEW i \in 1..(N - 2), s[i] = Dot, s[i + 1] = Dot
        PROVE  s[i + 2] = Dot
    <3>1. CASE i + 1 <= n
      <4>1. i + 1 \in 1..n /\ i \in 1..n /\ (i + 1) - 1 = i
        BY <1>2, <3>1
      <4>2. t[i] # Dot
        BY <1>3, <1>11, <2>3, <4>1 DEF DotsApart
      <4> QED
        BY <1>3, <2>3, <4>1, <4>2
    <3>2. CASE ~(i + 1 <= n)
      <4>1. i + 2 \in (n + 1)..N
        BY <1>2, <3>2
      <4> QED
        BY <1>1, <4>1
    <3> QED
      BY <3>1, <3>2
  <2> QED
    BY <2>2, <2>3
<1>12. ASSUME s # <<>>, s[1] # Dot,
              \A i \in 1..(N - 2) : s[i] = Dot /\ s[i + 1] = Dot => s[i + 2] = Dot
       PROVE  n # 0 /\ DotsApart(t)
  <2>1. n # 0
    <3>1. N # 0
      BY <1>12, EmptySeq DEF Text
    <3>2. n = 0 => 1 \in (n + 1)..N
      BY <1>2, <3>1
    <3> QED
      BY <1>1, <1>12, <3>2
  <2>2. ASSUME NEW i \in 1..n, t[i] = Dot
        PROVE  i # 1 /\ t[i - 1] # Dot
    <3>1. i # 1 /\ s[i] = Dot
      <4>1. s[i] = Dot
        BY <1>3, <2>2
      <4> QED
        BY <1>12, <4>1
    <3>2. i - 1 \in 1..n /\ i - 1 \in Nat /\ i \in Nat
      BY <1>2, <3>1
    <3>3. ASSUME s[i - 1] = Dot
          PROVE  FALSE
      <4> DEFINE S == {j \in (i + 1)..n : s[j] # Dot}
      <4>1. n \in S
        <5>1. i # n
          BY <1>1, <2>1, <3>1
        <5>2. n \in (i + 1)..n
          BY <1>2, <3>2, <5>1
        <5> QED
          BY <1>1, <2>1, <5>2
      <4>2. S \subseteq Nat
        BY <3>2
      <4> HIDE DEF S
      <4>3. PICK m \in S : \A j \in S : m <= j
        BY <4>1, <4>2, LeastNumber
      <4> USE DEF S
      <4>4. m \in (i + 1)..n /\ s[m] # Dot
        OBVIOUS
      <4> HIDE DEF S
      <4>5. /\ m - 2 \in 1..(N - 2) /\ (m - 2) + 1 = m - 1 /\ (m - 2) + 2 = m
            /\ m - 1 \in i..n /\ m - 2 \in (i - 1)..n
        BY <1>2, <3>2, <4>4
      <4>6. \A j \in (i + 1)..n : ~(m <= j) => s[j] = Dot
        BY <4>3 DEF S
      <4>7. s[m - 1] = Dot
        <5>1. m - 1 = i \/ (m - 1 \in (i + 1)..n /\ ~(m <= m - 1))
          BY <3>2, <4>4
        <5> QED
          BY <3>1, <4>6, <5>1
      <4>8. s[m - 2] = Dot
        <5>1. m - 2 = i - 1 \/ m - 2 = i \/ (m - 2 \in (i + 1)..n /\ ~(m <= m - 2))
          BY <3>2, <4>4
        <5> QED
          BY <3>1, <3>3, <4>6, <5>1
      <4> QED
        BY <1>12, <4>4, <4>5, <4>7, <4>8
    <3> QED
      BY <1>3, <3>1, <3>2, <3>3
  <2> QED
    BY <1>3, <2>1, <2>2 DEF DotsApart
<1> QED
  BY <1>9, <1>10, <1>11, <1>12 DEF IsDomain
-----------------------------------------------------------------------------
(* The answer to a query. *)

\* An address of the family that a query of some kind asks for.
Asked(kind, addr) ==
  \/ kind = "A" /\ addr.family = 4
  \/ kind = "Aaaa" /\ addr.family = 6

RecordsTurn(kind, addrs, h) ==
  [n \in 0..Len(addrs) |->
     IF n = 0 THEN <<>>
     ELSE IF Asked(kind, addrs[n]) THEN Append(h[n - 1], addrs[n])
     ELSE h[n - 1]]

\* Whatever the resolver finds, the records are those of its addresses that are of the
\* family asked for.
LEMMA RecordsAreAsked ==
  ASSUME NEW X, NEW addrs \in Seq(X), NEW kind
  PROVE  ToSet(Records(kind, addrs)) = {a \in Range(addrs) : Asked(kind, a)}
<1> DEFINE N == Len(addrs)
           V == Seq(X)
           step == [n \in 1..N |-> [p \in V |-> IF Asked(kind, addrs[n]) THEN Append(p, addrs[n]) ELSE p]]
           h == CHOOSE g : g = RecordsTurn(kind, addrs, g)
<1>1. N \in Nat /\ DOMAIN addrs = 1..N /\ \A n \in 1..N : addrs[n] \in X
  BY LenProperties, ElementOfSeq
<1>2. <<>> \in V
  OBVIOUS
<1>3. step \in [1..N -> [V -> V]]
  <2>1. ASSUME NEW n \in 1..N, NEW p \in V
        PROVE  (IF Asked(kind, addrs[n]) THEN Append(p, addrs[n]) ELSE p) \in V
    BY <1>1, AppendProperties
  <2> QED
    BY <2>1
<1>4. \A n \in 1..N, p \in V :
        step[n][p] = IF Asked(kind, addrs[n]) THEN Append(p, addrs[n]) ELSE p
  OBVIOUS
<1> HIDE DEF step, N, V
<1>5. \E f : Steps(f, N, V, <<>>, step)
  BY <1>1, <1>2, <1>3, Recursion
<1>6. PICK f \in [0..N -> V] :
        f[0] = <<>> /\ \A n \in 1..N : f[n] = step[n][f[n - 1]]
  BY <1>5 DEF Steps
<1>7. ASSUME NEW n \in 1..N
      PROVE  f[n] = IF Asked(kind, addrs[n]) THEN Append(f[n - 1], addrs[n]) ELSE f[n - 1]
  <2>1. n - 1 \in 0..N
    BY <1>1
  <2> QED
    BY <1>4, <1>6, <2>1
<1>8. f = RecordsTurn(kind, addrs, f)
  <2>1. f = [n \in 0..N |-> f[n]]
    BY <1>6
  <2>2. ASSUME NEW n \in 0..N
        PROVE  f[n] = IF n = 0 THEN <<>>
                      ELSE IF Asked(kind, addrs[n]) THEN Append(f[n - 1], addrs[n])
                      ELSE f[n - 1]
    <3>1. n = 0 \/ n \in 1..N
      BY <1>1
    <3> QED
      BY <1>6, <1>7, <3>1
  <2> QED
    BY <2>1, <2>2 DEF RecordsTurn, N
<1>9. h = RecordsTurn(kind, addrs, h)
  BY <1>8
<1>10. Records(kind, addrs) = h[N]
  BY DEF Records, RecordsTurn, Asked, h, N
<1> HIDE DEF h
<1>11. \A n \in 0..N : h[n] = IF n = 0 THEN <<>>
                             ELSE IF Asked(kind, addrs[n]) THEN Append(h[n - 1], addrs[n])
                             ELSE h[n - 1]
  BY <1>9 DEF RecordsTurn, N
<1> DEFINE found(n) == {a \in {addrs[i] : i \in 1..n} : Asked(kind, a)}
           T == {n \in 0..N : h[n] \in V /\ Range(h[n]) = found(n)}
<1>12. 0 \in T
  <2>1. 0 \in 0..N /\ h[0] = <<>> /\ Range(<<>>) = {} /\ found(0) = {}
    BY <1>1, <1>11 DEF Range
  <2> QED
    BY <1>2, <2>1
<1>13. ASSUME NEW n \in 1..N, n - 1 \in T
       PROVE  n \in T
  <2>1. n \in 0..N /\ n # 0 /\ \A i \in 1..n : i \in 1..(n - 1) \/ i = n
    BY <1>1
  <2>2. h[n - 1] \in Seq(X) /\ Range(h[n - 1]) = found(n - 1)
    BY <1>13 DEF V
  <2>3. \A i \in 1..(n - 1) : i \in 1..n
    BY <1>1
  <2>4. n \in 1..n
    BY <1>1
  <2>5. found(n) = found(n - 1) \cup {a \in {addrs[n]} : Asked(kind, a)}
    BY <2>1, <2>3, <2>4
  <2> HIDE DEF found
  <2>6. addrs[n] \in X
    BY <1>1
  <2>7. CASE Asked(kind, addrs[n])
    <3>1. h[n] = Append(h[n - 1], addrs[n])
      BY <1>11, <2>1, <2>7
    <3>2. Range(h[n]) = Range(h[n - 1]) \cup {addrs[n]}
      BY <2>2, <2>6, <3>1, RangeAppend
    <3>3. h[n] \in V
      BY <2>2, <2>6, <3>1, AppendProperties DEF V
    <3> QED
      BY <2>1, <2>2, <2>5, <2>7, <3>2, <3>3
  <2>8. CASE ~Asked(kind, addrs[n])
    <3>1. h[n] = h[n - 1]
      BY <1>11, <2>1, <2>8
    <3> QED
      BY <2>1, <2>2, <2>5, <2>8, <3>1 DEF V
  <2> QED
    BY <2>7, <2>8
<1> HIDE DEF T
<1>14. 0..N \subseteq T
  BY <1>1, <1>12, <1>13, Upwards
<1>15. N \in T
  BY <1>1, <1>14
<1>16. Range(h[N]) = found(N)
  BY <1>15 DEF T
<1>17. found(N) = {a \in Range(addrs) : Asked(kind, a)}
  BY <1>1 DEF Range
<1>18. ToSet(h[N]) = Range(h[N])
  BY DEF ToSet, Range
<1> QED
  BY <1>10, <1>16, <1>17, <1>18

LEMMA LowerTwice ==
  ASSUME NEW s \in Text
  PROVE  to_ascii_lowercase(to_ascii_lowercase(s)) = to_ascii_lowercase(s)
<1> DEFINE l == to_ascii_lowercase(s)
           m == to_ascii_lowercase(l)
<1>1. /\ l \in Text /\ Len(l) = Len(s)
      /\ \A i \in 1..Len(s) : l[i] = IF s[i] \in Upper THEN s[i] + 32 ELSE s[i]
  BY LowerTyped
<1> HIDE DEF l
<1>2. /\ m \in Text /\ Len(m) = Len(l)
      /\ \A i \in 1..Len(l) : m[i] = IF l[i] \in Upper THEN l[i] + 32 ELSE l[i]
  BY <1>1, LowerTyped
<1> HIDE DEF m
<1>3. ASSUME NEW i \in 1..Len(m)
      PROVE  m[i] = l[i]
  <2>1. i \in 1..Len(s) /\ i \in 1..Len(l)
    BY <1>1, <1>2
  <2>2. s[i] \in Nat
    BY <2>1, ElementOfSeq DEF Text
  <2>3. l[i] \notin Upper
    <3>1. \A c \in Nat : (IF c \in Upper THEN c + 32 ELSE c) \notin Upper
      BY DEF Upper
    <3>2. l[i] = IF s[i] \in Upper THEN s[i] + 32 ELSE s[i]
      BY <1>1, <2>1
    <3> QED
      BY <2>2, <3>1, <3>2
  <2> QED
    BY <1>2, <2>1, <2>3
<1>4. m = l
  BY <1>1, <1>2, <1>3, SeqEqual DEF Text
<1> QED
  BY <1>4 DEF m, l

\* A name that ends in one label.
LEMMA LastLabel ==
  ASSUME NEW p \in Parts, NEW x \in Text
  PROVE  IsSuffix(<<x>>, p) <=> Last(p) = x
<1>1. p \in Seq(Text) /\ Front(p) \in Seq(Text) /\ Last(p) \in Text /\ p = Append(Front(p), Last(p))
  BY PartsEnds
<1>2. <<x>> \in Seq(Text)
  OBVIOUS
<1>3. IsSuffix(<<x>>, p) <=> EndsIn(Text, <<x>>, p)
  BY <1>1, <1>2, SuffixConcat
<1>4. ASSUME NEW q \in Seq(Text), p = q \o <<x>>
      PROVE  Last(p) = x
  <2>1. p = Append(q, x)
    BY <1>4, AppendIsConcat
  <2> QED
    BY <2>1, EndsOfAppend
<1>5. ASSUME Last(p) = x
      PROVE  EndsIn(Text, <<x>>, p)
  <2>1. p = Front(p) \o <<x>>
    BY <1>1, <1>5, AppendIsConcat
  <2> QED
    BY <1>1, <2>1 DEF EndsIn
<1> QED
  BY <1>3, <1>4, <1>5 DEF EndsIn

Address46 == [family : {4, 6}, address : Nat]

\* What a query is answered, in terms of labels.
AnswersByLabels(map, suffix, question, reply) ==
  LET under == IsSuffix(Labels(suffix), Labels(question.qname))
      mapped == {n \in DOMAIN map : under /\ Labels(n) = Labels(question.qname)}
      asked == IF question.qtype = 1 THEN 4 ELSE IF question.qtype = 28 THEN 6 ELSE 0
  IN  /\ reply.rcode = "Refused" <=> ~under
      /\ reply.rcode = "NoError" <=> mapped # {}
      /\ ToSet(reply.answers) = {addr \in {map[n] : n \in mapped} : addr.family = asked}

\* Split DNS for every map of lower-case names, every suffix and every question: refused
\* exactly if the labels of the name do not end in those of the suffix, whatever the
\* case; answered without error exactly if the name, under the suffix, is mapped; and
\* with the mapped address exactly if it is of the family asked for.
THEOREM RepliesFollowLabels ==
  ASSUME NEW D \in SUBSET Text, NEW map \in [D -> Address46],
         \A n \in D : to_ascii_lowercase(n) = n,
         NEW suffix \in Text, NEW question \in [qname : Text, qtype : Nat]
  PROVE  AnswersByLabels(map, suffix, question, ReplyTo(map, suffix, question))
<1> DEFINE s == question.qname
           l == to_ascii_lowercase(s)
           kind == from_qtype(question.qtype)
           query == Query(question)
           verdict == resolve(map, suffix, query)
           reply == ReplyTo(map, suffix, question)
           under == IsSuffix(Labels(suffix), Labels(s))
           mapped == {n \in D : under /\ Labels(n) = Labels(s)}
           asked == IF question.qtype = 1 THEN 4 ELSE IF question.qtype = 28 THEN 6 ELSE 0
<1>1. s \in Text /\ l \in Text /\ DOMAIN map = D
  BY LowerTyped
<1>2. query.name = l /\ query.kind = kind
  BY DEF Query
<1>3. Labels(l) = Labels(s)
  BY <1>1, LowerTwice DEF Labels
<1>4. matches_suffix(l, suffix) <=> under
  <2> HIDE DEF s, l, under
  <2>1. matches_suffix(l, suffix) <=> IsSuffix(Labels(suffix), Labels(l))
    BY <1>1, SuffixesAreLabels
  <2> QED
    BY <1>3, <2>1 DEF under
<1>5. \A n \in D : Labels(n) = Labels(s) <=> n = l
  <2>1. ASSUME NEW n \in D
        PROVE  Labels(n) = Labels(s) <=> n = l
    <3>1. n \in Text /\ Labels(n) = split(n) /\ Labels(s) = split(l)
      BY DEF Labels
    <3> HIDE DEF s, l
    <3>2. split(n) = split(l) => n = l
      BY <1>1, <3>1, SplitInjective
    <3> QED
      BY <3>1, <3>2
  <2> QED
    BY <2>1
<1>6. \A addr \in Address46 : Asked(kind, addr) <=> addr.family = asked
  BY DEF Asked, Address46, from_qtype
<1>7. \A addr \in Address46 : ToSet(Records(kind, <<addr>>)) = {a \in {addr} : a.family = asked}
  <2>1. ASSUME NEW addr \in Address46
        PROVE  ToSet(Records(kind, <<addr>>)) = {a \in {addr} : a.family = asked}
    <3> HIDE DEF kind, asked
    <3>1. <<addr>> \in Seq(Address46) /\ Range(<<addr>>) = {addr}
      BY DEF Range
    <3>2. ToSet(Records(kind, <<addr>>)) = {a \in Range(<<addr>>) : Asked(kind, a)}
      BY <3>1, RecordsAreAsked
    <3> QED
      BY <1>6, <3>1, <3>2
  <2> QED
    BY <2>1
<1> HIDE DEF s, l, kind, query, under, asked
<1>8. ToSet(<<>>) = {}
  BY DEF ToSet
<1>9. CASE ~under
  <2>1. verdict.reply = "NotMine"
    BY <1>2, <1>4, <1>9 DEF resolve
  <2>2. reply.rcode = "Refused" /\ reply.answers = <<>>
    BY <2>1 DEF ReplyTo, query
  <2>3. mapped = {}
    BY <1>9
  <2> HIDE DEF reply, mapped
  <2> QED
    BY <1>1, <1>8, <1>9, <2>2, <2>3 DEF AnswersByLabels, reply, mapped, under, s, asked
<1>10. CASE under /\ l \in D
  <2>1. verdict.reply = "Answer" /\ verdict.addrs = <<map[l]>>
    BY <1>1, <1>2, <1>4, <1>10 DEF resolve
  <2>2. reply.rcode = "NoError" /\ reply.answers = Records(kind, <<map[l]>>)
    BY <1>2, <2>1 DEF ReplyTo, query
  <2>3. mapped = {l}
    BY <1>5, <1>10
  <2>4. map[l] \in Address46
    BY <1>10
  <2>5. ToSet(reply.answers) = {a \in {map[l]} : a.family = asked}
    BY <1>7, <2>2, <2>4
  <2>6. {map[n] : n \in mapped} = {map[l]}
    BY <2>3
  <2> HIDE DEF reply, mapped
  <2>7. ToSet(reply.answers) = {a \in {map[n] : n \in mapped} : a.family = asked}
    BY <2>5, <2>6
  <2> QED
    BY <1>1, <1>10, <2>2, <2>3, <2>7 DEF AnswersByLabels, reply, mapped, under, s, asked
<1>11. CASE under /\ l \notin D
  <2>1. verdict.reply = "NxDomain"
    BY <1>1, <1>2, <1>4, <1>11 DEF resolve
  <2>2. reply.rcode = "NameError" /\ reply.answers = <<>>
    BY <2>1 DEF ReplyTo, query
  <2>3. mapped = {}
    BY <1>5, <1>11
  <2> HIDE DEF reply, mapped
  <2> QED
    BY <1>1, <1>8, <1>11, <2>2, <2>3 DEF AnswersByLabels, reply, mapped, under, s, asked
<1> QED
  BY <1>9, <1>10, <1>11
-----------------------------------------------------------------------------
(* The order of texts. *)

\* s comes before t where they first differ, after n characters.
Splits(s, t, n) ==
  /\ n \in Nat /\ n <= Len(s) /\ n < Len(t)
  /\ \A i \in 1..n : s[i] = t[i]
  /\ n = Len(s) \/ s[n + 1] < t[n + 1]

LEMMA BeforeSplits ==
  ASSUME NEW s \in Text, NEW t \in Text
  PROVE  Before(s, t) <=> \E n \in Nat : Splits(s, t, n)
<1>1. Len(s) \in Nat /\ Len(t) \in Nat
  BY LenProperties DEF Text
<1>2. ASSUME NEW n \in 0..Len(s), n < Len(t)
      PROVE  SubSeq(s, 1, n) = SubSeq(t, 1, n) <=> \A i \in 1..n : s[i] = t[i]
  <2> DEFINE a == SubSeq(s, 1, n)
             b == SubSeq(t, 1, n)
  <2>1. n \in 0..Len(t) /\ n \in Nat
    BY <1>1, <1>2
  <2>2. /\ a \in Seq(Nat) /\ Len(a) = n /\ \A i \in 1..n : a[i] = s[i]
        /\ b \in Seq(Nat) /\ Len(b) = n /\ \A i \in 1..n : b[i] = t[i]
    BY <2>1, StartOf DEF Text
  <2> HIDE DEF a, b
  <2>3. a = b <=> \A i \in 1..n : a[i] = b[i]
    BY <2>2, SeqEqual
  <2> QED
    BY <2>2, <2>3 DEF a, b
<1>3. ASSUME Before(s, t)
      PROVE  \E n \in Nat : Splits(s, t, n)
  <2>1. PICK n \in 0..Len(s) : /\ n < Len(t) /\ SubSeq(s, 1, n) = SubSeq(t, 1, n)
                               /\ n = Len(s) \/ s[n + 1] < t[n + 1]
    BY <1>3 DEF Before
  <2>2. Splits(s, t, n)
    BY <1>1, <1>2, <2>1 DEF Splits
  <2> QED
    BY <2>2
<1>4. ASSUME NEW n \in Nat, Splits(s, t, n)
      PROVE  Before(s, t)
  <2>1. n \in 0..Len(s) /\ n < Len(t)
    BY <1>1, <1>4 DEF Splits
  <2>2. SubSeq(s, 1, n) = SubSeq(t, 1, n)
    BY <1>2, <1>4, <2>1 DEF Splits
  <2> QED
    BY <1>4, <2>1, <2>2 DEF Before, Splits
<1> QED
  BY <1>3, <1>4

\* The order is strict and total.
LEMMA BeforeTransitive ==
  ASSUME NEW s \in Text, NEW t \in Text, NEW u \in Text, Before(s, t), Before(t, u)
  PROVE  Before(s, u)
<1>1. /\ Len(s) \in Nat /\ Len(t) \in Nat /\ Len(u) \in Nat
      /\ \A i \in 1..Len(s) : s[i] \in Nat
      /\ \A i \in 1..Len(t) : t[i] \in Nat
      /\ \A i \in 1..Len(u) : u[i] \in Nat
  BY LenProperties, ElementOfSeq DEF Text
<1>2. PICK m \in Nat : Splits(s, t, m)
  BY BeforeSplits
<1>3. PICK n \in Nat : Splits(t, u, n)
  BY BeforeSplits
<1>4. CASE m < n
  <2>1. \A i \in 1..m : i \in 1..n
    BY <1>4
  <2>2. m + 1 \in 1..n
    BY <1>4
  <2>3. m < Len(u) /\ m <= Len(s)
    BY <1>1, <1>2, <1>3, <1>4 DEF Splits
  <2>4. \A i \in 1..m : s[i] = u[i]
    BY <1>2, <1>3, <2>1 DEF Splits
  <2>5. m = Len(s) \/ s[m + 1] < u[m + 1]
    BY <1>2, <1>3, <2>2 DEF Splits
  <2>6. Splits(s, u, m)
    BY <2>3, <2>4, <2>5 DEF Splits
  <2> QED
    BY <2>6, BeforeSplits
<1>5. CASE m = n
  <2>1. m + 1 \in 1..Len(t) /\ m + 1 \in 1..Len(u) /\ (m # Len(s) => m + 1 \in 1..Len(s))
    BY <1>1, <1>2, <1>3, <1>5 DEF Splits
  <2>2. m = Len(s) \/ s[m + 1] < u[m + 1]
    <3>1. t[m + 1] < u[m + 1]
      BY <1>1, <1>2, <1>3, <1>5, <2>1 DEF Splits
    <3> QED
      BY <1>1, <1>2, <2>1, <3>1 DEF Splits
  <2>3. Splits(s, u, m)
    BY <1>2, <1>3, <1>5, <2>2 DEF Splits
  <2> QED
    BY <2>3, BeforeSplits
<1>6. CASE n < m
  <2>1. \A i \in 1..n : i \in 1..m
    BY <1>6
  <2>2. n + 1 \in 1..m /\ n <= Len(s) /\ n # Len(t)
    BY <1>1, <1>2, <1>6 DEF Splits
  <2>3. \A i \in 1..n : s[i] = u[i]
    BY <1>2, <1>3, <2>1 DEF Splits
  <2>4. s[n + 1] < u[n + 1]
    BY <1>2, <1>3, <2>2 DEF Splits
  <2>5. Splits(s, u, n)
    BY <1>3, <2>2, <2>3, <2>4 DEF Splits
  <2> QED
    BY <2>5, BeforeSplits
<1> QED
  BY <1>4, <1>5, <1>6

LEMMA BeforeIrreflexive ==
  ASSUME NEW s \in Text
  PROVE  ~Before(s, s)
<1>1. Len(s) \in Nat /\ \A i \in 1..Len(s) : s[i] \in Nat
  BY LenProperties, ElementOfSeq DEF Text
<1>2. ASSUME NEW n \in Nat, Splits(s, s, n)
      PROVE  FALSE
  <2>1. n + 1 \in 1..Len(s) /\ s[n + 1] < s[n + 1]
    BY <1>1, <1>2 DEF Splits
  <2> QED
    BY <1>1, <2>1
<1> QED
  BY <1>2, BeforeSplits

LEMMA BeforeTotal ==
  ASSUME NEW s \in Text, NEW t \in Text
  PROVE  s = t \/ Before(s, t) \/ Before(t, s)
<1> SUFFICES ASSUME s # t PROVE Before(s, t) \/ Before(t, s)
  OBVIOUS
<1> DEFINE S == Len(s)
           T == Len(t)
           D == {i \in Nat \ {0} : i <= S /\ i <= T /\ s[i] # t[i]}
<1>1. S \in Nat /\ T \in Nat /\ (\A i \in 1..S : s[i] \in Nat) /\ (\A i \in 1..T : t[i] \in Nat)
  BY LenProperties, ElementOfSeq DEF Text
<1> HIDE DEF S, T
<1>2. CASE D = {}
  <2>1. \A i \in Nat \ {0} : i <= S /\ i <= T => s[i] = t[i]
    BY <1>2
  <2>2. S # T
    <3>1. ASSUME S = T
          PROVE  FALSE
      <4>1. \A i \in 1..S : s[i] = t[i]
        BY <1>1, <2>1, <3>1
      <4> QED
        BY <3>1, <4>1, SeqEqual DEF Text, S, T
    <3> QED
      BY <3>1
  <2>3. CASE S < T
    <3>1. Splits(s, t, S)
      BY <1>1, <2>1, <2>3 DEF Splits, S, T
    <3> QED
      BY <1>1, <3>1, BeforeSplits
  <2>4. CASE T < S
    <3>1. Splits(t, s, T)
      BY <1>1, <2>1, <2>4 DEF Splits, S, T
    <3> QED
      BY <1>1, <3>1, BeforeSplits
  <2> QED
    BY <1>1, <2>2, <2>3, <2>4
<1>3. CASE D # {}
  <2>1. PICK m \in D : \A i \in D : m <= i
    <3>1. D \subseteq Nat
      OBVIOUS
    <3> HIDE DEF D
    <3> QED
      BY <1>3, <3>1, LeastNumber
  <2> DEFINE n == m - 1
  <2>2. /\ m \in Nat \ {0} /\ m <= S /\ m <= T /\ s[m] # t[m]
        /\ n \in Nat /\ n + 1 = m /\ n < S /\ n < T /\ s[m] \in Nat /\ t[m] \in Nat
    BY <1>1
  <2>3. ASSUME NEW i \in 1..n
        PROVE  s[i] = t[i]
    <3>1. i \in Nat \ {0} /\ ~(m <= i) /\ i <= S /\ i <= T
      BY <1>1, <2>2
    <3>2. i \notin D
      <4> HIDE DEF D
      <4> QED
        BY <2>1, <3>1
    <3> QED
      BY <3>1, <3>2
  <2> HIDE DEF D, n
  <2>4. CASE s[m] < t[m]
    <3>1. Splits(s, t, n)
      BY <1>1, <2>2, <2>3, <2>4 DEF Splits, S, T
    <3> QED
      BY <2>2, <3>1, BeforeSplits
  <2>5. CASE t[m] < s[m]
    <3>1. Splits(t, s, n)
      BY <1>1, <2>2, <2>3, <2>5 DEF Splits, S, T
    <3> QED
      BY <2>2, <3>1, BeforeSplits
  <2> QED
    BY <2>2, <2>4, <2>5
<1> QED
  BY <1>2, <1>3
-----------------------------------------------------------------------------
(* Sorting, and what is left of equal neighbours. *)

InOrder(list) ==
  \A i, j \in 1..Len(list) : i < j => ~Before(list[j], list[i])

\* In order, and no two the same.
Strict(list) ==
  \A i, j \in 1..Len(list) : i < j => Before(list[i], list[j])

\* x goes between those that are not after it and those that are.
Between(list, x, k) ==
  /\ \A i \in 1..k : ~Before(x, list[i])
  /\ \A i \in (k + 1)..Len(list) : Before(x, list[i])

LEMMA BetweenExists ==
  ASSUME NEW list \in Seq(Text), InOrder(list), NEW x \in Text
  PROVE  \E k \in 0..Len(list) : Between(list, x, k)
<1> DEFINE N == Len(list)
           rest(k) == \A i \in (k + 1)..N : Before(x, list[i])
           K == {k \in 0..N : rest(k)}
<1>1. N \in Nat /\ \A i \in 1..N : list[i] \in Text
  BY LenProperties, ElementOfSeq
<1>2. PICK k \in K : \A j \in K : k <= j
  <2>1. N \in K /\ K \subseteq Nat
    BY <1>1
  <2> HIDE DEF K
  <2> QED
    BY <2>1, LeastNumber
<1>3. k \in 0..N /\ rest(k)
  OBVIOUS
<1>4. ASSUME NEW i \in 1..k
      PROVE  ~Before(x, list[i])
  <2>1. k \in 1..N /\ i \in 1..N /\ k - 1 \in 0..N /\ ~(k <= k - 1)
    BY <1>1, <1>3
  <2>2. ~rest(k - 1)
    <3> HIDE DEF rest
    <3>1. k - 1 \notin K
      <4> HIDE DEF K
      <4> QED
        BY <1>2, <2>1
    <3> QED
      BY <2>1, <3>1
  <2>3. ~Before(x, list[k])
    <3>1. PICK j \in ((k - 1) + 1)..N : ~Before(x, list[j])
      BY <2>2
    <3>2. j = k \/ j \in (k + 1)..N
      BY <1>1, <2>1
    <3> QED
      BY <1>3, <3>1, <3>2
  <2>4. CASE i = k
    BY <2>3, <2>4
  <2>5. CASE i # k
    <3>1. ~Before(list[k], list[i])
      BY <2>1, <2>5 DEF InOrder
    <3>2. list[i] = list[k] \/ Before(list[i], list[k])
      BY <1>1, <2>1, <3>1, BeforeTotal
    <3>3. list[i] \in Text /\ list[k] \in Text
      BY <1>1, <2>1
    <3> QED
      BY <2>3, <3>2, <3>3, BeforeTransitive
  <2> QED
    BY <2>4, <2>5
<1> QED
  BY <1>3, <1>4 DEF Between

\* Inserted where, and what becomes of the others.
LEMMA InsertedAt ==
  ASSUME NEW list \in Seq(Text), NEW x \in Text, NEW k \in 0..Len(list)
  PROVE  /\ InsertAt(list, k + 1, x) \in Seq(Text)
         /\ Len(InsertAt(list, k + 1, x)) = Len(list) + 1
         /\ \A i \in 1..(Len(list) + 1) :
              InsertAt(list, k + 1, x)[i] =
                IF i <= k THEN list[i] ELSE IF i = k + 1 THEN x ELSE list[i - 1]
<1> DEFINE N == Len(list)
           a == SubSeq(list, 1, k)
           c == SubSeq(list, k + 1, N)
           b == <<x>>
           ab == a \o b
           r == ab \o c
<1>1. N \in Nat /\ k \in Nat /\ k <= N
  BY LenProperties
<1>2. /\ a \in Seq(Text) /\ Len(a) = k /\ \A i \in 1..k : a[i] = list[i]
      /\ c \in Seq(Text) /\ Len(c) = N - k /\ list = a \o c
  <2>1. a \in Seq(Text) /\ Len(a) = k /\ \A i \in 1..k : a[i] = list[i]
    BY StartOf
  <2>2. c \in Seq(Text) /\ Len(c) = N - k /\ list = a \o c
    BY CutInTwo
  <2> QED
    BY <2>1, <2>2
<1>3. InsertAt(list, k + 1, x) = r
  <2>1. (k + 1) - 1 = k
    BY <1>1
  <2> QED
    BY <2>1 DEF InsertAt
<1>4. b \in Seq(Text) /\ Len(b) = 1 /\ b[1] = x
  OBVIOUS
<1> HIDE DEF a, b, c
<1>5. /\ ab \in Seq(Text) /\ Len(ab) = k + 1
      /\ \A i \in 1..(k + 1) : ab[i] = IF i <= k THEN a[i] ELSE b[i - k]
  <2>1. /\ ab \in Seq(Text) /\ Len(ab) = Len(a) + Len(b)
        /\ \A i \in 1..(Len(a) + Len(b)) : ab[i] = IF i <= Len(a) THEN a[i] ELSE b[i - Len(a)]
    <3>1. a \in Seq(Text) /\ b \in Seq(Text)
      BY <1>2, <1>4
    <3> HIDE DEF b
    <3> QED
      BY <3>1, ConcatProperties
  <2>2. Len(a) = k /\ Len(b) = 1
    BY <1>2, <1>4
  <2> HIDE DEF ab, b
  <2> QED
    BY <2>1, <2>2
<1> HIDE DEF ab
<1>6. /\ r \in Seq(Text) /\ Len(r) = (k + 1) + (N - k)
      /\ \A i \in 1..((k + 1) + (N - k)) : r[i] = IF i <= k + 1 THEN ab[i] ELSE c[i - (k + 1)]
  BY <1>2, <1>5, ConcatProperties
<1> HIDE DEF r
<1>7. \A i \in 1..N : list[i] = IF i <= k THEN a[i] ELSE c[i - k]
  <2>1. k + (N - k) = N
    BY <1>1
  <2>2. \A i \in 1..(k + (N - k)) : (a \o c)[i] = IF i <= k THEN a[i] ELSE c[i - k]
    BY <1>2, ConcatProperties
  <2> QED
    BY <1>2, <2>1, <2>2
<1>8. ASSUME NEW i \in 1..(N + 1)
      PROVE  r[i] = IF i <= k THEN list[i] ELSE IF i = k + 1 THEN x ELSE list[i - 1]
  <2>0. i \in 1..((k + 1) + (N - k))
    BY <1>1
  <2>1. CASE i <= k
    <3>1. i <= k + 1 /\ i \in 1..(k + 1) /\ i \in 1..k
      BY <1>1, <2>1
    <3> QED
      BY <1>2, <1>5, <1>6, <2>0, <2>1, <3>1
  <2>2. CASE i = k + 1
    <3>1. i <= k + 1 /\ i \in 1..(k + 1) /\ ~(i <= k) /\ i - k = 1
      BY <1>1, <2>2
    <3> QED
      BY <1>4, <1>5, <1>6, <2>0, <2>2, <3>1
  <2>3. CASE ~(i <= k + 1)
    <3>1. ~(i <= k) /\ i # k + 1 /\ i - 1 \in 1..N /\ ~(i - 1 <= k) /\ (i - 1) - k = i - (k + 1)
      BY <1>1, <2>3
    <3> QED
      BY <1>6, <1>7, <2>0, <2>3, <3>1
  <2> QED
    BY <1>1, <2>1, <2>2, <2>3
<1>9. (k + 1) + (N - k) = N + 1
  BY <1>1
<1> QED
  BY <1>3, <1>6, <1>8, <1>9

Inserted(list, x, r) ==
  r \in Seq(Text) /\ InOrder(r) /\ Range(r) = Range(list) \cup {x}

LEMMA InsertKeepsOrder ==
  ASSUME NEW list \in Seq(Text), InOrder(list), NEW x \in Text
  PROVE  Inserted(list, x, Insert(list, x))
<1> DEFINE N == Len(list)
           k == CHOOSE m \in 0..N : Between(list, x, m)
           r == InsertAt(list, k + 1, x)
<1>1. N \in Nat /\ DOMAIN list = 1..N /\ \A i \in 1..N : list[i] \in Text
  BY LenProperties, ElementOfSeq
<1>2. Insert(list, x) = r
  BY DEF Insert, Between
<1>3. k \in 0..N /\ Between(list, x, k)
  BY BetweenExists
<1> HIDE DEF k
<1>4. /\ r \in Seq(Text) /\ Len(r) = N + 1
      /\ \A i \in 1..(N + 1) :
           r[i] = IF i <= k THEN list[i] ELSE IF i = k + 1 THEN x ELSE list[i - 1]
  BY <1>3, InsertedAt
<1> HIDE DEF r
<1>5. DOMAIN r = 1..(N + 1)
  BY <1>4, LenProperties
<1>6. ASSUME NEW i \in 1..(N + 1), NEW j \in 1..(N + 1), i < j
      PROVE  ~Before(r[j], r[i])
  <2>1. CASE j <= k
    <3>1. i <= k /\ i \in 1..N /\ j \in 1..N
      BY <1>1, <1>3, <1>6, <2>1
    <3> QED
      BY <1>4, <1>6, <2>1, <3>1 DEF InOrder
  <2>2. CASE j = k + 1
    <3>1. i <= k /\ i \in 1..k /\ ~(j <= k)
      BY <1>1, <1>3, <1>6, <2>2
    <3> QED
      BY <1>3, <1>4, <2>2, <3>1 DEF Between
  <2>3. CASE j > k + 1
    <3>1. j - 1 \in (k + 1)..N /\ j - 1 \in 1..N /\ ~(j <= k) /\ j # k + 1
      BY <1>1, <1>3, <2>3
    <3>2. r[j] = list[j - 1] /\ list[j - 1] \in Text
      BY <1>1, <1>4, <3>1
    <3>3. Before(x, list[j - 1])
      BY <1>3, <3>1 DEF Between
    <3>4. CASE i <= k
      <4>1. i \in 1..N /\ i < j - 1
        BY <1>1, <1>3, <2>3, <3>4
      <4> QED
        BY <1>4, <3>1, <3>2, <3>4, <4>1 DEF InOrder
    <3>5. CASE i = k + 1
      <4>1. r[i] = x
        BY <1>1, <1>3, <1>4, <3>5
      <4> QED
        BY <3>2, <3>3, <4>1, BeforeTransitive, BeforeIrreflexive
    <3>6. CASE i > k + 1
      <4>1. i - 1 \in 1..N /\ i - 1 < j - 1 /\ ~(i <= k) /\ i # k + 1
        BY <1>1, <1>3, <1>6, <3>6
      <4>2. r[i] = list[i - 1]
        BY <1>4, <4>1
      <4> QED
        BY <3>1, <3>2, <4>1, <4>2 DEF InOrder
    <3> QED
      BY <1>3, <3>4, <3>5, <3>6
  <2> QED
    BY <1>3, <2>1, <2>2, <2>3
<1>7. InOrder(r)
  BY <1>4, <1>6 DEF InOrder
<1>8. ASSUME NEW y \in Range(r)
      PROVE  y \in Range(list) \cup {x}
  <2>1. PICK i \in 1..(N + 1) : y = r[i]
    BY <1>5 DEF Range
  <2>2. (i <= k => i \in 1..N) /\ (~(i <= k) /\ i # k + 1 => i - 1 \in 1..N)
    BY <1>1, <1>3
  <2> QED
    BY <1>1, <1>4, <2>1, <2>2 DEF Range
<1>9. ASSUME NEW y \in Range(list) \cup {x}
      PROVE  y \in Range(r)
  <2>1. CASE y = x
    <3>1. k + 1 \in 1..(N + 1) /\ ~(k + 1 <= k)
      BY <1>1, <1>3
    <3>2. r[k + 1] = x
      BY <1>4, <3>1
    <3> QED
      BY <1>5, <2>1, <3>1, <3>2 DEF Range
  <2>2. CASE y \in Range(list)
    <3>1. PICK i \in 1..N : y = list[i]
      BY <1>1, <2>2 DEF Range
    <3>2. CASE i <= k
      <4>1. i \in 1..(N + 1) /\ r[i] = y
        BY <1>1, <1>4, <3>1, <3>2
      <4> QED
        BY <1>5, <4>1 DEF Range
    <3>3. CASE ~(i <= k)
      <4>1. i + 1 \in 1..(N + 1) /\ ~(i + 1 <= k) /\ i + 1 # k + 1 /\ (i + 1) - 1 = i
        BY <1>1, <1>3, <3>3
      <4>2. r[i + 1] = y
        BY <1>4, <3>1, <4>1
      <4> QED
        BY <1>5, <4>1, <4>2 DEF Range
    <3> QED
      BY <3>2, <3>3
  <2> QED
    BY <2>1, <2>2
<1> QED
  BY <1>2, <1>4, <1>7, <1>8, <1>9 DEF Inserted

SortTurn(list, h) ==
  [n \in 0..Len(list) |-> IF n = 0 THEN <<>> ELSE Insert(h[n - 1], list[n])]

\* What sorting makes of a list.
InOrderAlike(list, r) ==
  r \in Seq(Text) /\ InOrder(r) /\ Range(r) = Range(list)

LEMMA Sorts ==
  ASSUME NEW list \in Seq(Text)
  PROVE  InOrderAlike(list, sort_unstable(list))
<1> DEFINE N == Len(list)
           V == {p \in Seq(Text) : InOrder(p)}
           step == [n \in 1..N |-> [p \in V |-> Insert(p, list[n])]]
           h == CHOOSE g : g = SortTurn(list, g)
<1>1. N \in Nat /\ DOMAIN list = 1..N /\ \A n \in 1..N : list[n] \in Text
  BY LenProperties, ElementOfSeq
<1>2. <<>> \in V
  <2>1. <<>> \in Seq(Text) /\ Len(<<>>) = 0
    OBVIOUS
  <2> QED
    BY <2>1 DEF InOrder
<1>3. \A n \in 1..N, p \in V : Inserted(p, list[n], Insert(p, list[n]))
  BY <1>1, InsertKeepsOrder
<1>4. step \in [1..N -> [V -> V]]
  <2>1. \A n \in 1..N, p \in V : Insert(p, list[n]) \in V
    BY <1>3 DEF Inserted
  <2> HIDE DEF V
  <2> QED
    BY <2>1
<1>5. \A n \in 1..N, p \in V : step[n][p] = Insert(p, list[n])
  OBVIOUS
<1> HIDE DEF step, N, V
<1>6. \E f : Steps(f, N, V, <<>>, step)
  BY <1>1, <1>2, <1>4, Recursion
<1>7. PICK f \in [0..N -> V] :
        f[0] = <<>> /\ \A n \in 1..N : f[n] = step[n][f[n - 1]]
  BY <1>6 DEF Steps
<1>8. f = SortTurn(list, f)
  <2>1. f = [n \in 0..N |-> f[n]]
    BY <1>7
  <2>2. ASSUME NEW n \in 0..N
        PROVE  f[n] = IF n = 0 THEN <<>> ELSE Insert(f[n - 1], list[n])
    <3>1. n = 0 \/ (n # 0 /\ n \in 1..N /\ n - 1 \in 0..N)
      BY <1>1
    <3> QED
      BY <1>5, <1>7, <3>1
  <2> QED
    BY <2>1, <2>2 DEF SortTurn, N
<1>9. h = SortTurn(list, h)
  BY <1>8
<1>10. sort_unstable(list) = h[N]
  BY DEF sort_unstable, SortTurn, h, N
<1> HIDE DEF h
<1>11. \A n \in 0..N : h[n] = IF n = 0 THEN <<>> ELSE Insert(h[n - 1], list[n])
  BY <1>9 DEF SortTurn, N
<1> DEFINE found(n) == {list[i] : i \in 1..n}
           T == {n \in 0..N : h[n] \in V /\ Range(h[n]) = found(n)}
<1>12. 0 \in T
  <2>1. 0 \in 0..N /\ h[0] = <<>> /\ Range(<<>>) = {} /\ found(0) = {}
    BY <1>1, <1>11 DEF Range
  <2> QED
    BY <1>2, <2>1
<1>13. ASSUME NEW n \in 1..N, n - 1 \in T
       PROVE  n \in T
  <2>1. n \in 0..N /\ n # 0
    BY <1>1
  <2>2. h[n - 1] \in V /\ Range(h[n - 1]) = found(n - 1)
    BY <1>13
  <2>3. \A i : i \in 1..n <=> i \in 1..(n - 1) \/ i = n
    BY <1>1
  <2>4. found(n) = found(n - 1) \cup {list[n]}
    BY <2>3
  <2> HIDE DEF found
  <2>5. h[n] = Insert(h[n - 1], list[n])
    BY <1>11, <2>1
  <2>6. Inserted(h[n - 1], list[n], h[n])
    BY <1>3, <2>2, <2>5
  <2>7. h[n] \in V /\ Range(h[n]) = found(n)
    BY <2>2, <2>4, <2>6 DEF Inserted, V
  <2> QED
    BY <2>1, <2>7
<1> HIDE DEF T
<1>14. 0..N \subseteq T
  BY <1>1, <1>12, <1>13, Upwards
<1>15. h[N] \in V /\ Range(h[N]) = found(N)
  <2>1. N \in T
    BY <1>1, <1>14
  <2> QED
    BY <2>1 DEF T
<1>16. found(N) = Range(list)
  BY <1>1 DEF Range
<1> QED
  BY <1>10, <1>15, <1>16 DEF InOrderAlike, V

\* A text after all the others goes to the end.
LEMMA StrictAppend ==
  ASSUME NEW p \in Seq(Text), Strict(p), NEW x \in Text,
         p # <<>> => Before(Last(p), x)
  PROVE  Strict(Append(p, x))
<1> DEFINE n == Len(p)
           q == Append(p, x)
<1>1. n \in Nat /\ \A i \in 1..n : p[i] \in Text
  BY LenProperties, ElementOfSeq
<1>2. Len(q) = n + 1 /\ q[n + 1] = x /\ \A i \in 1..n : q[i] = p[i]
  BY AppendProperties
<1> HIDE DEF q
<1>3. ASSUME NEW i \in 1..Len(q), NEW j \in 1..Len(q), i < j
      PROVE  Before(q[i], q[j])
  <2>1. CASE j \in 1..n
    <3>1. i \in 1..n
      BY <1>1, <1>3, <2>1
    <3> QED
      BY <1>2, <1>3, <2>1, <3>1 DEF Strict
  <2>2. CASE j = n + 1
    <3>1. i \in 1..n /\ n \in 1..n /\ n # 0
      BY <1>1, <1>3, <2>2
    <3>2. p # <<>> /\ Last(p) = p[n]
      BY <3>1, EmptySeq DEF Last
    <3>3. Before(p[n], x)
      BY <3>2
    <3>4. i = n \/ Before(p[i], p[n])
      BY <1>1, <3>1 DEF Strict
    <3>5. Before(p[i], x)
      BY <1>1, <3>1, <3>3, <3>4, BeforeTransitive
    <3> QED
      BY <1>2, <2>2, <3>1, <3>5
  <2> QED
    BY <1>1, <1>2, <2>1, <2>2
<1> QED
  BY <1>3 DEF Strict, q

DedupTurn(list, h) ==
  [n \in 0..Len(list) |->
     IF n = 0 THEN <<>>
     ELSE IF n # 1 /\ Last(h[n - 1]) = list[n] THEN h[n - 1]
     ELSE Append(h[n - 1], list[n])]

\* Of a list in order each text stays once.
StrictAlike(list, r) ==
  r \in Seq(Text) /\ Strict(r) /\ Range(r) = Range(list)

LEMMA Dedups ==
  ASSUME NEW list \in Seq(Text), InOrder(list)
  PROVE  StrictAlike(list, dedup(list))
<1> DEFINE N == Len(list)
           V == Seq(Text)
           next(n, p) == IF n # 1 /\ Last(p) = list[n] THEN p ELSE Append(p, list[n])
           step == [n \in 1..N |-> [p \in V |-> next(n, p)]]
           h == CHOOSE g : g = DedupTurn(list, g)
<1>1. N \in Nat /\ DOMAIN list = 1..N /\ \A n \in 1..N : list[n] \in Text
  BY LenProperties, ElementOfSeq
<1>2. <<>> \in V
  OBVIOUS
<1>3. step \in [1..N -> [V -> V]]
  <2>1. \A n \in 1..N, p \in V : next(n, p) \in V
    BY <1>1, AppendProperties
  <2> HIDE DEF V, next
  <2> QED
    BY <2>1
<1>4. \A n \in 1..N, p \in V : step[n][p] = next(n, p)
  OBVIOUS
<1> HIDE DEF step, N, V, next
<1>5. \E f : Steps(f, N, V, <<>>, step)
  BY <1>1, <1>2, <1>3, Recursion
<1>6. PICK f \in [0..N -> V] :
        f[0] = <<>> /\ \A n \in 1..N : f[n] = step[n][f[n - 1]]
  BY <1>5 DEF Steps
<1>7. f = DedupTurn(list, f)
  <2>1. f = [n \in 0..N |-> f[n]]
    BY <1>6
  <2>2. ASSUME NEW n \in 0..N
        PROVE  f[n] = IF n = 0 THEN <<>> ELSE next(n, f[n - 1])
    <3>1. n = 0 \/ (n # 0 /\ n \in 1..N /\ n - 1 \in 0..N)
      BY <1>1
    <3> QED
      BY <1>4, <1>6, <3>1
  <2> QED
    BY <2>1, <2>2 DEF DedupTurn, N, next
<1>8. h = DedupTurn(list, h)
  BY <1>7
<1>9. dedup(list) = h[N]
  BY DEF dedup, DedupTurn, h, N
<1> HIDE DEF h
<1>10. \A n \in 0..N : h[n] = IF n = 0 THEN <<>> ELSE next(n, h[n - 1])
  BY <1>8 DEF DedupTurn, N, next
<1> DEFINE found(n) == {list[i] : i \in 1..n}
           good(n) == /\ h[n] \in Seq(Text) /\ Strict(h[n]) /\ Range(h[n]) = found(n)
                      /\ n # 0 => h[n] # <<>> /\ Last(h[n]) = list[n]
           T == {n \in 0..N : good(n)}
<1>11. 0 \in T
  <2>1. 0 \in 0..N /\ h[0] = <<>> /\ Range(<<>>) = {} /\ found(0) = {}
    BY <1>1, <1>10 DEF Range
  <2>2. <<>> \in Seq(Text) /\ Len(<<>>) = 0
    OBVIOUS
  <2>3. Strict(<<>>)
    BY <2>2 DEF Strict
  <2> QED
    BY <2>1, <2>2, <2>3
<1>12. ASSUME NEW n \in 1..N, n - 1 \in T
       PROVE  n \in T
  <2> DEFINE p == h[n - 1]
             x == list[n]
  <2>1. n \in 0..N /\ n # 0 /\ n - 1 \in Nat /\ n \in Nat
    BY <1>1
  <2>2. /\ p \in Seq(Text) /\ Strict(p) /\ Range(p) = found(n - 1)
        /\ n - 1 # 0 => p # <<>> /\ Last(p) = list[n - 1]
    BY <1>12
  <2>3. \A i : i \in 1..n <=> i \in 1..(n - 1) \/ i = n
    BY <1>1
  <2>4. found(n) = found(n - 1) \cup {x}
    BY <2>3
  <2> HIDE DEF found
  <2>5. h[n] = next(n, p)
    BY <1>10, <2>1
  <2>6. x \in Text
    BY <1>1
  <2>8. CASE n # 1 /\ Last(p) = x
    <3>1. h[n] = p
      BY <2>5, <2>8 DEF next
    <3>2. n - 1 # 0 /\ p # <<>>
      BY <2>1, <2>2, <2>8
    <3>3. x \in found(n - 1)
      <4>1. Len(p) \in DOMAIN p
        BY <2>2, <3>2, LenProperties, EmptySeq
      <4> QED
        BY <2>2, <2>8, <4>1 DEF Last, Range
    <3>4. good(n)
      BY <2>2, <2>4, <2>8, <3>1, <3>2, <3>3
    <3> QED
      BY <2>1, <3>4
  <2>9. CASE ~(n # 1 /\ Last(p) = x)
    <3>1. h[n] = Append(p, x)
      BY <2>5, <2>9 DEF next
    <3>2. p # <<>> => Before(Last(p), x)
      <4>1. CASE n = 1
        <5>1. Range(p) = {}
          <6>1. \A i : i \notin 1..(n - 1)
            BY <4>1
          <6> QED
            BY <2>2, <6>1 DEF found
        <5>2. p = <<>>
          <6>1. 1 \in DOMAIN p => p[1] \in Range(p)
            BY DEF Range
          <6> QED
            BY <2>2, <5>1, <6>1, LenProperties, EmptySeq
        <5> QED
          BY <5>2
      <4>2. CASE n # 1
        <5>1. /\ n - 1 \in 1..N /\ n - 1 < n /\ Last(p) = list[n - 1] /\ Last(p) # x
          BY <1>1, <2>1, <2>2, <2>9, <4>2
        <5>2. ~Before(x, list[n - 1])
          BY <5>1 DEF InOrder, N
        <5>3. list[n - 1] \in Text
          BY <1>1, <5>1
        <5> QED
          BY <2>6, <5>1, <5>2, <5>3, BeforeTotal
      <4> QED
        BY <4>1, <4>2
    <3> HIDE DEF p, x
    <3>3. Strict(Append(p, x))
      BY <2>2, <2>6, <3>2, StrictAppend
    <3>4. Append(p, x) \in Seq(Text) /\ Append(p, x) # <<>> /\ Last(Append(p, x)) = x
      BY <2>2, <2>6, EndsOfAppend
    <3>5. Range(Append(p, x)) = Range(p) \cup {x}
      BY <2>2, <2>6, RangeAppend
    <3>6. good(n)
      BY <2>2, <2>4, <3>1, <3>3, <3>4, <3>5 DEF x
    <3> QED
      BY <2>1, <3>6
  <2> QED
    BY <2>8, <2>9
<1> HIDE DEF T
<1>13. 0..N \subseteq T
  BY <1>1, <1>11, <1>12, Upwards
<1>14. h[N] \in Seq(Text) /\ Strict(h[N]) /\ Range(h[N]) = found(N)
  <2>1. N \in T
    BY <1>1, <1>13
  <2> QED
    BY <2>1 DEF T
<1>15. found(N) = Range(list)
  BY <1>1 DEF Range
<1> QED
  BY <1>9, <1>14, <1>15 DEF StrictAlike

\* A strict list is known by its texts.
LEMMA StrictKnown ==
  ASSUME NEW a \in Seq(Text), NEW b \in Seq(Text), Strict(a), Strict(b),
         Range(a) = Range(b)
  PROVE  a = b
<1> DEFINE Alike(m) == m <= Len(a) /\ m <= Len(b) /\ a[m] = b[m]
<1>1. /\ Len(a) \in Nat /\ DOMAIN a = 1..Len(a) /\ \A i \in 1..Len(a) : a[i] \in Text
      /\ Len(b) \in Nat /\ DOMAIN b = 1..Len(b) /\ \A i \in 1..Len(b) : b[i] \in Text
  BY LenProperties, ElementOfSeq
\* The next text of the one is that of the other, or comes before it.
<1>2. ASSUME NEW u \in Seq(Text), NEW v \in Seq(Text), Strict(u), Strict(v),
             Range(u) = Range(v), NEW m \in Nat \ {0}, m <= Len(u),
             \A i \in 1..(m - 1) : i <= Len(u) /\ i <= Len(v) /\ u[i] = v[i]
      PROVE  m <= Len(v) /\ (u[m] = v[m] \/ Before(v[m], u[m]))
  <2>1. /\ Len(u) \in Nat /\ DOMAIN u = 1..Len(u)
        /\ Len(v) \in Nat /\ DOMAIN v = 1..Len(v) /\ \A i \in 1..Len(u) : u[i] \in Text
    BY <1>2, LenProperties, ElementOfSeq
  <2>2. m \in 1..Len(u)
    BY <1>2, <2>1
  <2>3. PICK k \in 1..Len(v) : v[k] = u[m]
    BY <1>2, <2>1, <2>2 DEF Range
  <2>4. m <= k
    <3>1. ASSUME ~(m <= k)
          PROVE  FALSE
      <4>1. k \in 1..(m - 1)
        BY <1>2, <2>1, <3>1
      <4>2. k \in 1..Len(u) /\ k < m /\ u[k] = u[m]
        BY <1>2, <2>1, <2>3, <4>1
      <4>3. Before(u[k], u[m]) /\ u[m] \in Text
        BY <1>2, <2>1, <2>2, <4>2 DEF Strict
      <4> QED
        BY <4>2, <4>3, BeforeIrreflexive
    <3> QED
      BY <3>1
  <2>5. m \in 1..Len(v)
    BY <1>2, <2>1, <2>4
  <2>6. m = k \/ Before(v[m], v[k])
    BY <1>2, <2>4, <2>5 DEF Strict
  <2> QED
    BY <2>3, <2>5, <2>6
<1> DEFINE L == IF Len(a) <= Len(b) THEN Len(b) ELSE Len(a)
           T == {m \in 0..L : \A i \in 1..m : Alike(i)}
<1>3. L \in Nat /\ Len(a) <= L /\ Len(b) <= L /\ (L = Len(a) \/ L = Len(b))
  BY <1>1
<1> HIDE DEF L
<1>4. 0 \in T
  BY <1>3
<1>5. ASSUME NEW m \in 1..L, m - 1 \in T
      PROVE  m \in T
  <2>1. \A i \in 1..(m - 1) : Alike(i)
    BY <1>5
  <2>2. m \in Nat \ {0} /\ m \in 0..L
    BY <1>3
  <2>3. m <= Len(a) \/ m <= Len(b)
    BY <1>3
  <2>4. m <= Len(a) => m <= Len(b) /\ (a[m] = b[m] \/ Before(b[m], a[m]))
    BY <1>2, <2>1, <2>2
  <2>5. m <= Len(b) => m <= Len(a) /\ (b[m] = a[m] \/ Before(a[m], b[m]))
    BY <1>2, <2>1, <2>2
  <2>6. a[m] \in Text /\ b[m] \in Text
    BY <1>1, <2>2, <2>3, <2>4, <2>5
  <2>7. Alike(m)
    BY <2>3, <2>4, <2>5, <2>6, BeforeTransitive, BeforeIrreflexive
  <2>8. \A i \in 1..m : i \in 1..(m - 1) \/ i = m
    BY <2>2
  <2> HIDE DEF Alike
  <2> QED
    BY <2>1, <2>2, <2>7, <2>8
<1> HIDE DEF T
<1>6. 0..L \subseteq T
  BY <1>3, <1>4, <1>5, Upwards
<1>7. \A i \in 1..L : Alike(i)
  <2>1. L \in T
    BY <1>3, <1>6
  <2> QED
    BY <2>1 DEF T
<1>8. Len(a) = Len(b)
  <2>1. L # 0 => L \in 1..L
    BY <1>3
  <2>2. L # 0 => L <= Len(a) /\ L <= Len(b)
    BY <1>7, <2>1
  <2>3. Len(a) \in Nat /\ Len(b) \in Nat
    BY <1>1
  <2>4. CASE L = 0
    BY <1>3, <2>3, <2>4
  <2>5. CASE L # 0
    BY <1>3, <2>2, <2>3, <2>5
  <2> QED
    BY <2>4, <2>5
<1> QED
  BY <1>1, <1>3, <1>7, <1>8, SeqEqual

\* A strict list is as long as it has texts.
LEMMA StrictCounts ==
  ASSUME NEW a \in Seq(Text), Strict(a)
  PROVE  IsFiniteSet(Range(a)) /\ Len(a) = Cardinality(Range(a))
<1>1. Len(a) \in Nat /\ DOMAIN a = 1..Len(a) /\ \A i \in 1..Len(a) : a[i] \in Text
  BY LenProperties, ElementOfSeq
<1>2. a \in Bijection(1..Len(a), Range(a))
  <2>1. a \in [1..Len(a) -> Range(a)]
    <3>1. a = [i \in 1..Len(a) |-> a[i]]
      BY <1>1, SeqDef
    <3>2. \A i \in 1..Len(a) : a[i] \in Range(a)
      BY <1>1 DEF Range
    <3> QED
      BY <3>1, <3>2
  <2>2. ASSUME NEW i \in 1..Len(a), NEW j \in 1..Len(a), a[i] = a[j]
        PROVE  i = j
    <3>1. ~Before(a[i], a[j]) /\ ~Before(a[j], a[i])
      BY <1>1, <2>2, BeforeIrreflexive
    <3>2. ~(i < j) /\ ~(j < i)
      BY <3>1 DEF Strict
    <3> QED
      BY <1>1, <3>2
  <2>3. \A y \in Range(a) : \E i \in 1..Len(a) : a[i] = y
    BY <1>1 DEF Range
  <2> QED
    BY <2>1, <2>2, <2>3, Fun_IsBij
<1>3. ExistsBijection(1..Len(a), Range(a))
  BY <1>2, Fun_ExistsBij
<1> QED
  BY <1>1, <1>3, FS_CountingElements, FS_NatBijection
-----------------------------------------------------------------------------
(* Spellings of a domain. *)

LEMMA TrimTyped ==
  ASSUME NEW s \in Text
  PROVE  /\ trim_end_matches(s) \in Text
         /\ trim_end_matches(s) = <<>> \/ Last(trim_end_matches(s)) # Dot
<1> DEFINE t == trim_end_matches(s)
<1>1. PICK n \in 0..Len(s) : t = SubSeq(s, 1, n) /\ (n # 0 => s[n] # Dot)
  BY Trimmed
<1>2. Len(s) \in Nat /\ n \in Nat
  BY LenProperties DEF Text
<1>3. t \in Text /\ Len(t) = n /\ \A i \in 1..n : t[i] = s[i]
  BY <1>1, StartOf DEF Text
<1> HIDE DEF t
<1>4. CASE n = 0
  <2>1. t = <<>>
    BY <1>3, <1>4, EmptySeq DEF Text
  <2> QED
    BY <1>3, <2>1 DEF t
<1>5. CASE n # 0
  <2>1. n \in 1..n
    BY <1>2, <1>5
  <2>2. Last(t) = s[n]
    BY <1>3, <2>1 DEF Last
  <2> QED
    BY <1>1, <1>3, <1>5, <2>2 DEF t
<1> QED
  BY <1>4, <1>5

LEMMA TrimNothing ==
  ASSUME NEW s \in Text, s = <<>> \/ Last(s) # Dot
  PROVE  trim_end_matches(s) = s
<1>1. Len(s) \in Nat
  BY LenProperties DEF Text
<1>2. PICK n \in 0..Len(s) : /\ trim_end_matches(s) = SubSeq(s, 1, n)
                             /\ \A i \in (n + 1)..Len(s) : s[i] = Dot
  BY Trimmed
<1>3. n = Len(s)
  <2>1. ASSUME n # Len(s)
        PROVE  FALSE
    <3>1. Len(s) \in (n + 1)..Len(s) /\ Len(s) # 0
      BY <1>1, <1>2, <2>1
    <3>2. s # <<>>
      BY <3>1
    <3> QED
      BY <1>2, <3>1, <3>2 DEF Last
  <2> QED
    BY <2>1
<1> QED
  BY <1>2, <1>3, SubSeqFull DEF Text

\* The text a domain is kept as.
Canonical(s) == to_ascii_lowercase(trim_end_matches(s))

LEMMA CanonicalTyped ==
  ASSUME NEW s \in Text
  PROVE  /\ Canonical(s) \in Text
         /\ trim_end_matches(Canonical(s)) = Canonical(s)
         /\ to_ascii_lowercase(Canonical(s)) = Canonical(s)
<1> DEFINE t == trim_end_matches(s)
           l == to_ascii_lowercase(t)
<1>1. t \in Text /\ (t = <<>> \/ Last(t) # Dot)
  BY TrimTyped
<1>2. Canonical(s) = l
  BY DEF Canonical
<1> HIDE DEF t
<1>3. /\ l \in Text /\ Len(l) = Len(t)
      /\ \A i \in 1..Len(t) : l[i] = IF t[i] \in Upper THEN t[i] + 32 ELSE t[i]
  BY <1>1, LowerTyped
<1>4. to_ascii_lowercase(l) = l
  BY <1>1, LowerTwice
<1> HIDE DEF l
<1>5. l = <<>> \/ Last(l) # Dot
  <2>1. CASE t = <<>>
    <3>1. Len(l) = 0
      BY <1>3, <2>1
    <3> QED
      BY <1>3, <3>1, EmptySeq DEF Text
  <2>2. CASE t # <<>>
    <3> DEFINE n == Len(t)
    <3>1. n \in 1..n /\ t[n] \in Nat /\ t[n] # Dot
      <4>1. n \in 1..n
        BY <1>1, <2>2, LenProperties, EmptySeq DEF Text
      <4> QED
        BY <1>1, <2>2, <4>1, ElementOfSeq DEF Text, Last
    <3>2. l[n] = IF t[n] \in Upper THEN t[n] + 32 ELSE t[n]
      BY <1>3, <3>1
    <3>3. \A c \in Upper : c + 32 # Dot
      BY DEF Upper, Dot
    <3>4. Last(l) = l[n]
      BY <1>3 DEF Last
    <3> HIDE DEF n
    <3> QED
      BY <3>1, <3>2, <3>3, <3>4
  <2> QED
    BY <2>1, <2>2
<1>6. trim_end_matches(l) = l
  BY <1>3, <1>5, TrimNothing
<1> QED
  BY <1>2, <1>3, <1>4, <1>6

\* What a list of domains denotes, by the texts its domains are kept as.
Kept(list) == {Canonical(list[i]) : i \in DOMAIN list}

LEMMA DenotedKept ==
  ASSUME NEW list \in Seq(Text)
  PROVE  Kept(list) \subseteq Text /\ Denoted(list) = {split(t) : t \in Kept(list)}
<1>1. DOMAIN list = 1..Len(list) /\ \A i \in 1..Len(list) : list[i] \in Text
  BY LenProperties, ElementOfSeq
<1>2. \A i \in DOMAIN list : Canonical(list[i]) \in Text
  BY <1>1, CanonicalTyped
<1>3. \A i \in DOMAIN list : Labels(trim_end_matches(list[i])) = split(Canonical(list[i]))
  BY DEF Labels, Canonical
<1>4. Denoted(list) = {split(Canonical(list[i])) : i \in DOMAIN list}
  BY <1>3 DEF Denoted
<1> QED
  BY <1>2, <1>4 DEF Kept

\* Normalised is the one list, in strict order, of the texts the domains are kept as.
NormalForm(list, r) ==
  r \in Seq(Text) /\ Strict(r) /\ Range(r) = Kept(list)

LEMMA Normalizes ==
  ASSUME NEW list \in Seq(Text)
  PROVE  NormalForm(list, normalize_domains(list))
<1> DEFINE c == [i \in DOMAIN list |-> Canonical(list[i])]
           s == sort_unstable(c)
<1>1. Len(list) \in Nat /\ DOMAIN list = 1..Len(list) /\ \A i \in 1..Len(list) : list[i] \in Text
  BY LenProperties, ElementOfSeq
<1>2. \A i \in 1..Len(list) : Canonical(list[i]) \in Text
  BY <1>1, CanonicalTyped
<1>3. c \in Seq(Text)
  BY <1>1, <1>2
<1>4. Range(c) = Kept(list)
  BY DEF Range, Kept
<1>5. normalize_domains(list) = dedup(s)
  BY DEF normalize_domains, Canonical
<1> HIDE DEF c
<1>6. InOrderAlike(c, s)
  BY <1>3, Sorts
<1> HIDE DEF s
<1>7. StrictAlike(s, dedup(s))
  BY <1>6, Dedups DEF InOrderAlike
<1> QED
  BY <1>4, <1>5, <1>6, <1>7 DEF InOrderAlike, StrictAlike, NormalForm

\* Normalised, a list denotes what it denoted, no domain twice; and two lists, whatever
\* the order, the case, the final dots and the repetitions of either, become the same
\* exactly if they denote the same domains.
NormalizedAsDenoted(a, b) ==
  /\ Denoted(normalize_domains(a)) = Denoted(a)
  /\ Len(normalize_domains(a)) = Cardinality(Denoted(a))
  /\ normalize_domains(a) = normalize_domains(b) <=> Denoted(a) = Denoted(b)

\* So it is for any two lists of texts, valid or not: what makes two configurations equal.
THEOREM EqualIfDenotedAlike ==
  ASSUME NEW a \in Seq(Text), NEW b \in Seq(Text)
  PROVE  NormalizedAsDenoted(a, b)
<1> DEFINE u == normalize_domains(a)
           v == normalize_domains(b)
<1>1. /\ u \in Seq(Text) /\ Strict(u) /\ Range(u) = Kept(a)
      /\ v \in Seq(Text) /\ Strict(v) /\ Range(v) = Kept(b)
  BY Normalizes DEF NormalForm
<1> HIDE DEF u, v
<1>2. /\ Kept(a) \subseteq Text /\ Denoted(a) = {split(t) : t \in Kept(a)}
      /\ Kept(b) \subseteq Text /\ Denoted(b) = {split(t) : t \in Kept(b)}
      /\ Denoted(u) = {split(t) : t \in Kept(u)}
  BY <1>1, DenotedKept
<1>3. \A s, t \in Text : split(s) = split(t) => s = t
  BY SplitInjective
<1>4. Denoted(a) = Denoted(b) => Kept(a) = Kept(b)
  <2>1. ASSUME NEW S \in SUBSET Text, NEW T \in SUBSET Text,
               {split(t) : t \in S} = {split(t) : t \in T}, NEW s \in S
        PROVE  s \in T
    <3>1. split(s) \in {split(t) : t \in T}
      BY <2>1
    <3>2. PICK t \in T : split(s) = split(t)
      BY <3>1
    <3> QED
      BY <1>3, <3>2
  <2> DEFINE A == Kept(a)
             B == Kept(b)
  <2>2. A \in SUBSET Text /\ B \in SUBSET Text
    BY <1>2
  <2>3. Denoted(a) = {split(t) : t \in A} /\ Denoted(b) = {split(t) : t \in B}
    BY <1>2
  <2> HIDE DEF A, B
  <2>4. Denoted(a) = Denoted(b) => A \subseteq B /\ B \subseteq A
    BY <2>1, <2>2, <2>3
  <2> QED
    BY <2>4 DEF A, B
<1>5. Kept(u) = Kept(a)
  <2>1. \A i \in DOMAIN u : Canonical(u[i]) = u[i]
    <3>1. ASSUME NEW i \in DOMAIN u
          PROVE  Canonical(u[i]) = u[i]
      <4>1. u[i] \in Kept(a)
        BY <1>1 DEF Range
      <4>2. PICK j \in DOMAIN a : u[i] = Canonical(a[j])
        BY <4>1 DEF Kept
      <4>3. a[j] \in Text
        BY <4>2, LenProperties, ElementOfSeq
      <4>4. trim_end_matches(u[i]) = u[i] /\ to_ascii_lowercase(u[i]) = u[i]
        BY <4>2, <4>3, CanonicalTyped
      <4> QED
        BY <4>4 DEF Canonical
    <3> QED
      BY <3>1
  <2>2. Kept(u) = Range(u)
    BY <2>1 DEF Kept, Range
  <2> QED
    BY <1>1, <2>2
<1>6. Denoted(u) = Denoted(a)
  BY <1>2, <1>5
<1>7. u = v <=> Kept(a) = Kept(b)
  <2>1. Kept(a) = Kept(b) => u = v
    BY <1>1, StrictKnown
  <2> QED
    BY <1>1, <2>1
<1>8. Len(u) = Cardinality(Denoted(a))
  <2> DEFINE K == Kept(a)
             D == Denoted(a)
             f == [t \in K |-> split(t)]
  <2>1. IsFiniteSet(K) /\ Len(u) = Cardinality(K)
    BY <1>1, StrictCounts
  <2>2. K \subseteq Text /\ D = {split(t) : t \in K}
    BY <1>2
  <2> HIDE DEF K, D
  <2>3. f \in [K -> D]
    BY <2>2
  <2>4. \A s, t \in K : f[s] = f[t] => s = t
    BY <1>3, <2>2
  <2>5. \A d \in D : \E t \in K : f[t] = d
    BY <2>2
  <2> HIDE DEF f
  <2>6. f \in Bijection(K, D)
    BY <2>3, <2>4, <2>5, Fun_IsBij
  <2>7. ExistsBijection(K, D)
    BY <2>6, Fun_ExistsBij
  <2>8. Cardinality(D) = Cardinality(K)
    BY <2>1, <2>7, FS_Bijection
  <2> QED
    BY <2>1, <2>8 DEF D
<1>9. Denoted(a) = Denoted(b) <=> Kept(a) = Kept(b)
  BY <1>2, <1>4
<1> QED
  BY <1>6, <1>7, <1>8, <1>9 DEF NormalizedAsDenoted, u, v
-----------------------------------------------------------------------------
(* The runs' properties, for names of any length over the runs' characters. *)

NameInv == name \in Seq(Characters)

LEMMA NameInvariance ==
  Spec => []NameInv
<1>1. Init => NameInv
  BY DEF Init, NameInv
<1>2. NameInv /\ [Next]_vars => NameInv'
  <2> SUFFICES ASSUME NameInv, [Next]_vars PROVE NameInv'
    OBVIOUS
  <2>1. CASE AddCharacter
    <3>1. PICK c \in Characters : name' = Append(name, c)
      BY <2>1 DEF AddCharacter
    <3> QED
      BY <3>1, AppendProperties DEF NameInv
  <2>2. CASE AddOctet
    BY <2>2 DEF AddOctet, NameInv
  <2>3. CASE AddServer
    BY <2>3 DEF AddServer, NameInv
  <2>4. CASE AddDomain
    BY <2>4 DEF AddDomain, NameInv
  <2>5. CASE AddRoutingDomain
    BY <2>5 DEF AddRoutingDomain, NameInv
  <2>6. CASE UNCHANGED vars
    BY <2>6 DEF NameInv, vars
  <2> QED
    BY <2>1, <2>2, <2>3, <2>4, <2>5, <2>6 DEF Next
<1> QED
  BY <1>1, <1>2, PTL DEF Spec

LEMMA CharactersTyped ==
  /\ Characters \subseteq Nat
  /\ \A c \in Characters : c \in Ldh \cup {Dot} <=> c # 91
<1>1. Characters \subseteq Nat
  BY DEF Characters, Dot, Hyphen
<1>2. 91 \notin Ldh \cup {Dot}
  BY DEF Ldh, Upper, Lower, Digit, Hyphen, Dot
<1>3. 90 \in Upper /\ 122 \in Lower
  BY DEF Upper, Lower
<1>4. Hyphen # 91 /\ Dot # 91
  BY DEF Hyphen, Dot
<1> QED
  BY <1>1, <1>2, <1>3, <1>4 DEF Characters, Ldh

\* Routing domains of every length are accepted as the runs say of short ones.
THEOREM DomainsAccepted ==
  Spec => []AcceptsExactlyDomains
<1>1. NameInv => AcceptsExactlyDomains
  <2> SUFFICES ASSUME NameInv PROVE AcceptsExactlyDomains
    OBVIOUS
  <2>1. name \in Seq(Nat) /\ name \in Text
    BY CharactersTyped, SeqMonotonic DEF NameInv, Text
  <2>2. is_valid_domain(name) <=> IsDomain(name)
    BY <2>1, DomainsAreLabels
  <2>3. DOMAIN name = 1..Len(name) /\ \A i \in DOMAIN name : name[i] \in Characters
    BY LenProperties, ElementOfSeq DEF NameInv
  <2>4. Range(name) \subseteq Ldh \cup {Dot} <=> \A i \in DOMAIN name : name[i] # 91
    <3> DEFINE C == Ldh \cup {Dot}
    <3>1. \A i \in DOMAIN name : name[i] \in C <=> name[i] # 91
      BY <2>3, CharactersTyped
    <3> HIDE DEF C
    <3>2. Range(name) \subseteq C <=> \A i \in DOMAIN name : name[i] \in C
      BY DEF Range
    <3> QED
      BY <3>1, <3>2 DEF C
  <2> QED
    BY <2>2, <2>4 DEF IsDomain, AcceptsExactlyDomains
<1> QED
  BY <1>1, NameInvariance, PTL

\* The texts of the suffixes and of the map.
LEMMA SampleTexts ==
  /\ Served \subseteq Text
  /\ <<122>> \in Text /\ <<Hyphen, Dot, 122>> \in Text
  /\ to_ascii_lowercase(<<122>>) = <<122>>
  /\ to_ascii_lowercase(<<Hyphen, Dot, 122>>) = <<Hyphen, Dot, 122>>
<1>1. Served \subseteq Text
  BY DEF Served, Text, Hyphen, Dot
<1>2. <<122>> \in Text /\ <<Hyphen, Dot, 122>> \in Text
  BY DEF Text, Hyphen, Dot
<1>3. \A i \in 1..3 : <<Hyphen, Dot, 122>>[i] \notin Upper
  BY DEF Hyphen, Dot, Upper
<1>4. \A s \in Text : (\A i \in 1..Len(s) : s[i] \notin Upper) => to_ascii_lowercase(s) = s
  <2>1. ASSUME NEW s \in Text, \A i \in 1..Len(s) : s[i] \notin Upper
        PROVE  to_ascii_lowercase(s) = s
    <3> DEFINE l == to_ascii_lowercase(s)
    <3>1. l \in Text /\ Len(l) = Len(s) /\ \A i \in 1..Len(s) : l[i] = s[i]
      BY <2>1, LowerTyped
    <3> HIDE DEF l
    <3>2. l = s
      BY <3>1, SeqEqual DEF Text
    <3> QED
      BY <3>2 DEF l
  <2> QED
    BY <2>1
<1>5. to_ascii_lowercase(<<122>>) = <<122>>
  <2>1. Len(<<122>>) = 1 /\ <<122>>[1] \notin Upper
    BY DEF Upper
  <2> QED
    BY <1>2, <1>4, <2>1
<1>6. to_ascii_lowercase(<<Hyphen, Dot, 122>>) = <<Hyphen, Dot, 122>>
  <2>1. Len(<<Hyphen, Dot, 122>>) = 3
    OBVIOUS
  <2> QED
    BY <1>2, <1>3, <1>4, <2>1
<1> QED
  BY <1>1, <1>2, <1>5, <1>6

\* Both names of the map are under the suffix.
LEMMA SampleLabels ==
  /\ split(<<122>>) = << <<122>> >>
  /\ Last(split(<<Hyphen, Dot, 122>>)) = <<122>>
<1> DEFINE z == <<122>>
           e == << <<>> >>
           h == <<Hyphen, Dot>>
<1>0. 122 \in Nat /\ 122 # Dot /\ Dot \in Nat /\ Hyphen \in Nat
  BY DEF Dot, Hyphen
<1>1. Append(<<>>, 122) = z /\ <<>> \in Text
  BY DEF Text
<1>2. Front(e) = <<>> /\ Last(e) = <<>>
  <2>1. Append(<<>>, <<>>) = e /\ <<>> \in Seq(Text)
    OBVIOUS
  <2> HIDE DEF e
  <2> QED
    BY <1>1, <2>1, EndsOfAppend, ZenonT(60)
<1>3. split(z) = SplitStep(e, 122)
  BY <1>0, <1>1, SplitAppend, SplitEmpty
<1>4. SplitStep(e, 122) = Append(<<>>, z)
  BY <1>0, <1>1, <1>2 DEF SplitStep
<1>5. split(z) = <<z>>
  BY <1>3, <1>4
<1>6. h \in Text /\ <<Hyphen>> \in Text /\ h = Append(<<Hyphen>>, Dot)
      /\ <<Hyphen, Dot, 122>> = Append(h, 122)
  BY <1>0 DEF Text
<1>7. split(<<Hyphen>>) \in Parts /\ split(h) = SplitStep(split(<<Hyphen>>), Dot)
  BY <1>0, <1>6, SplitAppend
<1> HIDE DEF h
<1>8. Last(split(h)) = <<>> /\ split(h) \in Parts
  <2> DEFINE p == split(<<Hyphen>>)
  <2> HIDE DEF p
  <2>1. p \in Parts /\ split(h) = SplitStep(p, Dot)
    BY <1>7 DEF p
  <2> QED
    BY <1>0, <2>1, StepShows, StepTyped
<1>9. split(Append(h, 122)) = SplitStep(split(h), 122)
  BY <1>0, <1>6, SplitAppend
<1>10. Last(split(Append(h, 122))) = Append(<<>>, 122)
  <2> DEFINE p == split(h)
  <2> HIDE DEF p
  <2>1. p \in Parts /\ Last(p) = <<>> /\ split(Append(h, 122)) = SplitStep(p, 122)
    BY <1>8, <1>9 DEF p
  <2>2. Last(SplitStep(p, 122)) = Append(Last(p), 122)
    BY <1>0, <2>1, StepShows
  <2> QED
    BY <2>1, <2>2
<1> QED
  BY <1>1, <1>5, <1>6, <1>10

\* Questions of every length are answered as the runs say of short ones.
THEOREM OthersRefused ==
  Spec => []RefusesExactlyOthers
<1> DEFINE z == <<122>>
           b == <<Hyphen, Dot, 122>>
           D == {z, b}
<1>1. /\ z \in Text /\ b \in Text /\ Labels(z) = <<z>> /\ Last(Labels(b)) = z
      /\ to_ascii_lowercase(z) = z /\ to_ascii_lowercase(b) = b
  BY SampleTexts, SampleLabels DEF Labels
<1>2. Last(<<z>>) = z
  BY DEF Last
<1> HIDE DEF z, b
<1>3. DOMAIN AddressMap = D /\ AddressMap \in [D -> Address46]
  BY DEF AddressMap, Address46, z, b
<1>4. ASSUME NameInv
      PROVE  RefusesExactlyOthers
  <2>1. name \in Text
    BY <1>4, CharactersTyped, SeqMonotonic DEF NameInv, Text
  <2>2. \A suffix \in Served :
          matches_suffix(name, suffix) <=> IsSuffix(Labels(suffix), Labels(name))
    BY <2>1, SampleTexts, SuffixesAreLabels
  <2>3. Labels(name) \in Parts /\ (IsSuffix(Labels(z), Labels(name)) <=> Last(Labels(name)) = z)
    <3> DEFINE p == Labels(name)
    <3>1. p \in Parts
      BY <2>1, LabelsTyped
    <3> HIDE DEF p
    <3>2. IsSuffix(<<z>>, p) <=> Last(p) = z
      BY <1>1, <3>1, LastLabel
    <3> QED
      BY <1>1, <3>1, <3>2 DEF p
  <2>4. \A n \in D : Last(Labels(n)) = z
    BY <1>1, <1>2
  <2>5. ASSUME NEW qtype \in {1, 15, 28}
        PROVE  LET reply == ReplyTo(AddressMap, z, [qname |-> name, qtype |-> qtype])
                   mapped == {n \in DOMAIN AddressMap : Labels(n) = Labels(name)}
                   asked == IF qtype = 1 THEN 4 ELSE IF qtype = 28 THEN 6 ELSE 0
               IN  /\ (reply.rcode = "Refused") <=> (Last(Labels(name)) # z)
                   /\ reply.rcode = "NoError" <=> mapped # {}
                   /\ ToSet(reply.answers) =
                        {addr \in {AddressMap[n] : n \in mapped} : addr.family = asked}
    <3> DEFINE question == [qname |-> name, qtype |-> qtype]
               reply == ReplyTo(AddressMap, z, question)
               under == IsSuffix(Labels(z), Labels(name))
               mapped == {n \in D : Labels(n) = Labels(name)}
    <3>1. question \in [qname : Text, qtype : Nat]
      BY <2>1
    <3>2. question.qname = name /\ question.qtype = qtype
      OBVIOUS
    <3> HIDE DEF question
    <3>3. D \in SUBSET Text /\ \A n \in D : to_ascii_lowercase(n) = n
      BY <1>1
    <3> HIDE DEF D
    <3>4. AnswersByLabels(AddressMap, z, question, reply)
      BY <1>1, <1>3, <3>1, <3>3, RepliesFollowLabels
    <3> HIDE DEF reply
    <3>5. {n \in D : under /\ Labels(n) = Labels(name)} = mapped
      BY <2>3, <2>4
    <3> QED
      BY <1>3, <2>3, <3>2, <3>4, <3>5 DEF AnswersByLabels, reply, question
  <2> QED
    BY <2>2, <2>5 DEF RefusesExactlyOthers, z
<1> QED
  BY <1>4, NameInvariance, PTL

DomainsInv == routing_domains \in Seq(Spellings)

LEMMA DomainsInvariance ==
  Spec => []DomainsInv
<1>1. Init => DomainsInv
  BY DEF Init, DomainsInv
<1>2. DomainsInv /\ [Next]_vars => DomainsInv'
  <2> SUFFICES ASSUME DomainsInv, [Next]_vars PROVE DomainsInv'
    OBVIOUS
  <2>1. CASE AddRoutingDomain
    <3>1. PICK d \in Spellings : routing_domains' = Append(routing_domains, d)
      BY <2>1 DEF AddRoutingDomain
    <3> QED
      BY <3>1, AppendProperties DEF DomainsInv
  <2>2. CASE AddOctet
    BY <2>2 DEF AddOctet, DomainsInv
  <2>3. CASE AddServer
    BY <2>3 DEF AddServer, DomainsInv
  <2>4. CASE AddDomain
    BY <2>4 DEF AddDomain, DomainsInv
  <2>5. CASE AddCharacter
    BY <2>5 DEF AddCharacter, DomainsInv
  <2>6. CASE UNCHANGED vars
    BY <2>6 DEF DomainsInv, vars
  <2> QED
    BY <2>1, <2>2, <2>3, <2>4, <2>5, <2>6 DEF Next
<1> QED
  BY <1>1, <1>2, PTL DEF Spec

\* What makes a short text a domain.
LEMMA ShortDomains ==
  /\ \A c \in Nat : IsDomain(<<c>>) <=> c \in Ldh
  /\ \A c, d \in Nat : IsDomain(<<c, d>>) <=> c \in Ldh /\ d \in Ldh \cup {Dot}
  /\ \A c, d, e \in Nat :
       IsDomain(<<c, d, e>>) <=> /\ c \in Ldh /\ d \in Ldh \cup {Dot} /\ e \in Ldh \cup {Dot}
  /\ \A c, d, e, f \in Nat :
       IsDomain(<<c, d, e, f>>) <=>
         /\ c \in Ldh /\ d \in Ldh \cup {Dot} /\ e \in Ldh \cup {Dot} /\ f \in Ldh \cup {Dot}
         /\ ~(d = Dot /\ e = Dot /\ f # Dot)
<1> DEFINE L == Ldh
           C == Ldh \cup {Dot}
<1>0. Dot \notin L /\ C = L \cup {Dot}
  BY DEF Ldh, Upper, Lower, Digit, Hyphen, Dot
<1> HIDE DEF L
<1>1. ASSUME NEW c \in Nat
      PROVE  IsDomain(<<c>>) <=> c \in L
  <2>1. Range(<<c>>) = {c} /\ \A i : i \notin 1..(1 - 2)
    BY DEF Range
  <2> QED
    BY <1>0, <2>1 DEF IsDomain, L
<1>2. ASSUME NEW c \in Nat, NEW d \in Nat
      PROVE  IsDomain(<<c, d>>) <=> c \in L /\ d \in C
  <2>1. Range(<<c, d>>) = {c, d} /\ \A i : i \notin 1..(2 - 2)
    BY DEF Range
  <2> QED
    BY <1>0, <2>1 DEF IsDomain, L
<1>3. ASSUME NEW c \in Nat, NEW d \in Nat, NEW e \in Nat
      PROVE  IsDomain(<<c, d, e>>) <=> c \in L /\ d \in C /\ e \in C
  <2>1. Range(<<c, d, e>>) = {c, d, e} /\ 1..(3 - 2) = {1}
    BY DEF Range
  <2> QED
    BY <1>0, <2>1 DEF IsDomain, L
<1>4. ASSUME NEW c \in Nat, NEW d \in Nat, NEW e \in Nat, NEW f \in Nat
      PROVE  IsDomain(<<c, d, e, f>>) <=>
               c \in L /\ d \in C /\ e \in C /\ f \in C /\ ~(d = Dot /\ e = Dot /\ f # Dot)
  <2>1. Range(<<c, d, e, f>>) = {c, d, e, f} /\ 1..(4 - 2) = {1, 2}
    BY DEF Range
  <2> QED
    BY <1>0, <2>1 DEF IsDomain, L
<1> QED
  BY <1>1, <1>2, <1>3, <1>4 DEF L

LEMMA SpellingsTyped ==
  /\ Spellings \subseteq Text
  /\ \A d \in Spellings : is_valid_domain(d) <=> d \notin {<<Dot, 122>>, <<91>>}
<1>1. Spellings \subseteq Text
  BY DEF Spellings, Text, Hyphen, Dot
<1>2. /\ 122 \in Ldh /\ 90 \in Ldh /\ Hyphen \in Ldh /\ 91 \notin Ldh /\ Dot \notin Ldh
      /\ Dot # 122 /\ Hyphen # 122 /\ Dot \in Nat /\ Hyphen \in Nat /\ Dot # 91 /\ Dot # Hyphen
  BY DEF Ldh, Upper, Lower, Digit, Hyphen, Dot
<1>3. /\ IsDomain(<<122>>) /\ IsDomain(<<90>>) /\ IsDomain(<<122, Dot>>)
      /\ IsDomain(<<122, Dot, Dot>>) /\ IsDomain(<<Hyphen>>) /\ IsDomain(<<90, Dot, 122>>)
      /\ IsDomain(<<122, Dot, 90, Dot>>) /\ IsDomain(<<Hyphen, Dot, 122>>)
      /\ ~IsDomain(<<Dot, 122>>) /\ ~IsDomain(<<91>>)
  BY <1>2, ShortDomains
<1>4. \A d \in Spellings : IsDomain(d) <=> d \notin {<<Dot, 122>>, <<91>>}
  BY <1>2, <1>3 DEF Spellings
<1>5. \A d \in Spellings : is_valid_domain(d) <=> IsDomain(d)
  BY <1>1, DomainsAreLabels
<1> QED
  BY <1>1, <1>4, <1>5

\* What new makes of servers and a list of routing domains.
LEMMA NewConfig ==
  ASSUME NEW servers, servers # <<>>, NEW list \in Seq(Text),
         NEW bad, bad = {i \in DOMAIN list : ~is_valid_domain(list[i])}
  PROVE  /\ bad = {} => new(servers, list) =
                          [servers |-> servers, routing_domains |-> normalize_domains(list)]
         /\ bad # {} => \E i \in bad :
                          /\ \A j \in bad : i <= j
                          /\ new(servers, list) = [err |-> "InvalidDomain", domain |-> list[i]]
<1>1. CASE bad = {}
  BY <1>1 DEF new
<1>2. CASE bad # {}
  <2> DEFINE first == CHOOSE i \in bad : \A j \in bad : i <= j
  <2>1. bad \subseteq Nat
    BY LenProperties
  <2>2. first \in bad /\ \A j \in bad : first <= j
    BY <1>2, <2>1, LeastNumber
  <2>3. new(servers, list) = [err |-> "InvalidDomain", domain |-> list[first]]
    BY <1>2 DEF new
  <2> QED
    BY <1>2, <2>2, <2>3
<1> QED
  BY <1>1, <1>2

\* Two configurations are equal exactly if their routing domains denote the same, and the
\* first text that is not a domain is the one reported, for lists of every length over
\* the runs' spellings.
THEOREM ConfigsRouteAlike ==
  Spec => []EqualConfigsRouteAlike
<1> DEFINE servers == <<Server>>
           config(list) == new(servers, list)
           badOf(list) == {i \in DOMAIN list : list[i] \in {<<Dot, 122>>, <<91>>}}
<1>1. \A list \in Seq(Spellings) :
        list \in Seq(Text) /\ badOf(list) = {i \in DOMAIN list : ~is_valid_domain(list[i])}
  <2>1. ASSUME NEW list \in Seq(Spellings)
        PROVE  list \in Seq(Text) /\ badOf(list) = {i \in DOMAIN list : ~is_valid_domain(list[i])}
    <3>1. list \in Seq(Text)
      BY SpellingsTyped, SeqMonotonic
    <3>2. \A i \in DOMAIN list : list[i] \in Spellings
      BY LenProperties, ElementOfSeq
    <3> QED
      BY <3>1, <3>2, SpellingsTyped
  <2> QED
    BY <2>1
<1>2. servers # <<>>
  OBVIOUS
<1> HIDE DEF servers, badOf
<1>3. ASSUME NEW list \in Seq(Spellings)
      PROVE  /\ badOf(list) = {} => config(list) =
                  [servers |-> servers, routing_domains |-> normalize_domains(list)]
             /\ badOf(list) # {} => \E i \in badOf(list) :
                  /\ \A j \in badOf(list) : i <= j
                  /\ config(list) = [err |-> "InvalidDomain", domain |-> list[i]]
  <2> DEFINE bad == badOf(list)
  <2>1. list \in Seq(Text) /\ bad = {i \in DOMAIN list : ~is_valid_domain(list[i])}
    BY <1>1
  <2> HIDE DEF bad
  <2> QED
    BY <1>2, <2>1, NewConfig DEF bad
<1>4. ASSUME DomainsInv
      PROVE  EqualConfigsRouteAlike
  <2> DEFINE mine == config(routing_domains)
             bad == badOf(routing_domains)
             lists == {<<>>} \cup {<<d, e>> : d, e \in Spellings}
  <2>1. routing_domains \in Seq(Spellings) /\ routing_domains \in Seq(Text)
    BY <1>1, <1>4 DEF DomainsInv
  <2>2. bad # {} => \E i \in bad :
          /\ \A j \in bad : i <= j
          /\ mine = [err |-> "InvalidDomain", domain |-> routing_domains[i]]
    BY <1>3, <2>1
  <2>3. ASSUME bad = {}
        PROVE  /\ Denoted(mine.routing_domains) = Denoted(routing_domains)
               /\ Len(mine.routing_domains) = Cardinality(Denoted(routing_domains))
               /\ \A list \in lists :
                    mine = config(list) <=>
                      "err" \notin DOMAIN config(list) /\ Denoted(list) = Denoted(routing_domains)
    <3> DEFINE norm(list) == normalize_domains(list)
               record(list) == [servers |-> servers, routing_domains |-> norm(list)]
    <3>1. mine = record(routing_domains)
      BY <1>3, <2>1, <2>3
    <3>2. mine.routing_domains = norm(routing_domains) /\ "err" \notin DOMAIN mine
      BY <3>1
    <3>3. ASSUME NEW list \in Seq(Text)
          PROVE  NormalizedAsDenoted(routing_domains, list)
      BY <2>1, EqualIfDenotedAlike
    <3>4. /\ Denoted(norm(routing_domains)) = Denoted(routing_domains)
          /\ Len(norm(routing_domains)) = Cardinality(Denoted(routing_domains))
      BY <2>1, <3>3 DEF NormalizedAsDenoted
    <3>5. lists \subseteq Seq(Spellings)
      <4>1. ASSUME NEW S, NEW d \in S, NEW e \in S
            PROVE  <<d, e>> \in Seq(S)
        OBVIOUS
      <4>2. <<>> \in Seq(Spellings)
        OBVIOUS
      <4> DEFINE S == Spellings
      <4> HIDE DEF S
      <4>3. <<>> \in Seq(S) /\ \A d, e \in S : <<d, e>> \in Seq(S)
        BY <4>1, <4>2 DEF S
      <4>4. ASSUME NEW x \in {<<>>} \cup {<<d, e>> : d, e \in S}
            PROVE  x \in Seq(S)
        <5>1. x = <<>> \/ \E d, e \in S : x = <<d, e>>
          OBVIOUS
        <5>2. CASE x = <<>>
          BY <4>3, <5>2
        <5>3. CASE \E d, e \in S : x = <<d, e>>
          <6>1. PICK d \in S, e \in S : x = <<d, e>>
            BY <5>3
          <6> DEFINE de == <<d, e>>
          <6>2. de \in Seq(S)
            BY <4>3
          <6> HIDE DEF de
          <6> QED
            BY <6>1, <6>2 DEF de
        <5> QED
          BY <5>1, <5>2, <5>3
      <4> QED
        BY <4>4 DEF S
    <3>6. ASSUME NEW list \in lists
          PROVE  mine = config(list) <=>
                   "err" \notin DOMAIN config(list) /\ Denoted(list) = Denoted(routing_domains)
      <4>1. list \in Seq(Spellings) /\ list \in Seq(Text)
        BY <1>1, <3>5
      <4>2. norm(routing_domains) = norm(list) <=> Denoted(list) = Denoted(routing_domains)
        BY <3>3, <4>1 DEF NormalizedAsDenoted
      <4> HIDE DEF norm, lists
      <4>3. CASE badOf(list) = {}
        <5>1. config(list) = record(list)
          BY <1>3, <4>1, <4>3 DEF norm
        <5>2. "err" \notin DOMAIN config(list)
          BY <5>1
        <5>3. record(routing_domains) = record(list) <=> norm(routing_domains) = norm(list)
          OBVIOUS
        <5> QED
          BY <3>1, <4>2, <5>1, <5>2, <5>3
      <4>4. CASE badOf(list) # {}
        <5>1. PICK i \in badOf(list) : config(list) = [err |-> "InvalidDomain", domain |-> list[i]]
          BY <1>3, <4>1, <4>4
        <5>2. "err" \in DOMAIN config(list)
          BY <5>1
        <5> QED
          BY <3>2, <5>2
      <4> QED
        BY <4>3, <4>4
    <3> HIDE DEF norm, lists, mine
    <3> QED
      BY <3>2, <3>4, <3>6
  <2> QED
    BY <2>2, <2>3 DEF EqualConfigsRouteAlike, badOf, servers
<1> QED
  BY <1>4, DomainsInvariance, PTL
=============================================================================
