------------------------- MODULE SubsequencesProofs -------------------------
(***************************************************************************)
(* Lemmas on Chosen, for every sequence and every set of places: that its  *)
(* list is well defined, how it grows, and that it leaves out nothing; and *)
(* on FlattenSeq, which puts many sequences into one.                      *)
(***************************************************************************)
EXTENDS Subsequences, Integers, SequencesExt, WellFoundedInduction, TLAPS

\* Induction on a set of numbers.
LEMMA InductionBySet ==
  ASSUME NEW S, 0 \in S, \A n \in Nat : n \in S => n + 1 \in S
  PROVE Nat \subseteq S
<1> DEFINE T == Nat \ S
           R == {ss \in Nat \X Nat : ss[1] < ss[2]}
<1>1. IsWellFoundedOn(R, Nat)
  BY NatLessThanWellFounded DEF OpToRel
<1>2. SUFFICES ASSUME T # {} PROVE FALSE
  OBVIOUS
<1>3. PICK x \in T : \A y \in T : ~(<<y, x>> \in R)
  <2> HIDE DEF R
  <2> QED BY <1>1, <1>2, WFMin
<1>4. x # 0
  BY <1>3
<1>5. x - 1 \in Nat /\ <<x - 1, x>> \in R
  BY <1>3, <1>4
<1>6. x - 1 \in S
  BY <1>3, <1>5
<1> QED BY <1>5, <1>6, <1>3

\* The list after n elements of s.
Step(s, places, list, n) ==
  IF n = 0 THEN <<>>
  ELSE IF n \in places THEN Append(list[n - 1], s[n])
  ELSE list[n - 1]

IsList(list, X, s, places, m) ==
  /\ list \in [0..m -> Seq(X)]
  /\ \A n \in 0..m : list[n] = Step(s, places, list, n)

\* The recursion has a solution on every prefix.
LEMMA PrefixExists ==
  ASSUME NEW X, NEW s \in Seq(X), NEW places
  PROVE \A m \in 0..Len(s) : \E list : IsList(list, X, s, places, m)
<1> DEFINE P(m) == \E list : IsList(list, X, s, places, m)
           S == {m \in Nat : m <= Len(s) => P(m)}
<1>1. 0 \in S
  <2> DEFINE empty == [n \in 0..0 |-> <<>>]
  <2>1. empty \in [0..0 -> Seq(X)]
    OBVIOUS
  <2>2. \A n \in 0..0 : empty[n] = Step(s, places, empty, n)
    BY DEF Step
  <2>3. P(0)
    BY <2>1, <2>2 DEF IsList
  <2> QED BY <2>3
<1>2. ASSUME NEW m \in Nat, m \in S PROVE m + 1 \in S
  <2> SUFFICES ASSUME m + 1 <= Len(s) PROVE P(m + 1)
    <3> HIDE DEF P
    <3> QED OBVIOUS
  <2>1. PICK list : IsList(list, X, s, places, m)
    BY <1>2
  <2> DEFINE longer ==
        [n \in 0..(m + 1) |-> IF n <= m THEN list[n]
                              ELSE IF n \in places THEN Append(list[m], s[n]) ELSE list[m]]
  <2>2. s[m + 1] \in X /\ list[m] \in Seq(X)
    BY <2>1 DEF IsList
  <2>3. longer \in [0..(m + 1) -> Seq(X)]
    BY <2>1, <2>2 DEF IsList
  <2>4. ASSUME NEW n \in 0..(m + 1) PROVE longer[n] = Step(s, places, longer, n)
    <3>1. CASE n <= m
      <4>1. n = 0 \/ longer[n - 1] = list[n - 1]
        BY <3>1
      <4>2. longer[n] = list[n] /\ list[n] = Step(s, places, list, n)
        BY <3>1, <2>1 DEF IsList
      <4> HIDE DEF longer
      <4> QED BY <4>1, <4>2 DEF Step
    <3>2. CASE n = m + 1
      <4>1. longer[n - 1] = list[m] /\ n # 0
        BY <3>2
      <4> QED BY <4>1, <3>2 DEF Step
    <3> QED BY <3>1, <3>2
  <2> QED BY <2>3, <2>4 DEF IsList
<1>3. Nat \subseteq S
  <2> HIDE DEF S
  <2> QED BY <1>1, <1>2, InductionBySet
<1> QED BY <1>3

\* The recursion of ChosenAmong, as equations.
LEMMA ChosenAmongIs ==
  ASSUME NEW X, NEW s \in Seq(X), NEW places
  PROVE /\ ChosenAmong(s, places) \in [0..Len(s) -> Seq(X)]
        /\ ChosenAmong(s, places)[0] = <<>>
        /\ \A n \in 1..Len(s) :
             ChosenAmong(s, places)[n] =
               IF n \in places THEN Append(ChosenAmong(s, places)[n - 1], s[n])
               ELSE ChosenAmong(s, places)[n - 1]
<1> DEFINE F(list) == [n \in 0..Len(s) |-> Step(s, places, list, n)]
<1>1. PICK list : IsList(list, X, s, places, Len(s))
  <2>1. Len(s) \in 0..Len(s)
    OBVIOUS
  <2> QED BY <2>1, PrefixExists
<1>2. list = F(list)
  BY <1>1 DEF IsList
<1>3. ChosenAmong(s, places) = CHOOSE l : l = F(l)
  BY DEF ChosenAmong, Step
<1>4. ChosenAmong(s, places) = F(ChosenAmong(s, places))
  <2> HIDE DEF F
  <2> QED BY <1>2, <1>3
<1> DEFINE c == ChosenAmong(s, places)
           S == {n \in Nat : n <= Len(s) => c[n] \in Seq(X)}
<1>5. \A n \in 0..Len(s) : c[n] = Step(s, places, c, n)
  <2> HIDE DEF c
  <2>1. c = F(c)
    BY <1>4 DEF c
  <2> QED BY <2>1
<1>6. 0 \in S
  <2>1. c[0] = Step(s, places, c, 0)
    BY <1>5
  <2> HIDE DEF c
  <2>2. c[0] = <<>>
    BY <2>1 DEF Step
  <2>3. <<>> \in Seq(X)
    OBVIOUS
  <2> QED BY <2>2, <2>3
<1>7. ASSUME NEW n \in Nat, n \in S PROVE n + 1 \in S
  <2> SUFFICES ASSUME n + 1 <= Len(s) PROVE c[n + 1] \in Seq(X)
    OBVIOUS
  <2>1. c[n] \in Seq(X) /\ s[n + 1] \in X
    BY <1>7
  <2>2. c[n + 1] = Step(s, places, c, n + 1)
    BY <1>5
  <2> HIDE DEF c
  <2> QED BY <2>1, <2>2 DEF Step
<1>8. Nat \subseteq S
  <2> HIDE DEF S
  <2> QED BY <1>6, <1>7, InductionBySet
<1>9. c = [n \in 0..Len(s) |-> Step(s, places, c, n)]
  BY <1>4
<1> HIDE DEF c
<1>10. c \in [0..Len(s) -> Seq(X)]
  BY <1>8, <1>9
<1>11. c[0] = <<>>
  BY <1>5 DEF Step
<1>12. \A n \in 1..Len(s) : c[n] = IF n \in places THEN Append(c[n - 1], s[n]) ELSE c[n - 1]
  BY <1>5 DEF Step
<1> QED BY <1>10, <1>11, <1>12 DEF c

\* What is chosen is a list of elements of the same kind.
THEOREM ChosenType ==
  ASSUME NEW X, NEW s \in Seq(X), NEW places
  PROVE Chosen(s, places) \in Seq(X)
BY ChosenAmongIs DEF Chosen

\* Every element at one of the places is in the list, from there on.
THEOREM ChosenCovers ==
  ASSUME NEW X, NEW s \in Seq(X), NEW places
  PROVE \A m \in 0..Len(s) : \A i \in 1..m :
          i \in places => \E k \in 1..Len(ChosenAmong(s, places)[m]) :
                            ChosenAmong(s, places)[m][k] = s[i]
<1> DEFINE c == ChosenAmong(s, places)
           P(m) == \A i \in 1..m : i \in places => \E k \in 1..Len(c[m]) : c[m][k] = s[i]
           S == {m \in Nat : m <= Len(s) => P(m)}
<1>1. c \in [0..Len(s) -> Seq(X)]
  BY ChosenAmongIs
<1>2. \A n \in 1..Len(s) : c[n] = IF n \in places THEN Append(c[n - 1], s[n]) ELSE c[n - 1]
  BY ChosenAmongIs
<1> HIDE DEF c
<1>3. 0 \in S
  OBVIOUS
<1>4. ASSUME NEW m \in Nat, m \in S PROVE m + 1 \in S
  <2> SUFFICES ASSUME m + 1 <= Len(s), NEW i \in 1..(m + 1), i \in places
               PROVE \E k \in 1..Len(c[m + 1]) : c[m + 1][k] = s[i]
    OBVIOUS
  <2>1. c[m] \in Seq(X) /\ s[m + 1] \in X
    BY <1>1
  <2>2. c[m + 1] = IF m + 1 \in places THEN Append(c[m], s[m + 1]) ELSE c[m]
    BY <1>2
  <2>3. CASE i = m + 1
    <3>1. c[m + 1] = Append(c[m], s[i])
      BY <2>2, <2>3
    <3>2. Len(c[m + 1]) = Len(c[m]) + 1 /\ c[m + 1][Len(c[m]) + 1] = s[i]
      BY <2>1, <2>3, <3>1
    <3>3. Len(c[m]) + 1 \in 1..Len(c[m + 1])
      BY <2>1, <3>2
    <3> QED BY <3>2, <3>3
  <2>4. CASE i \in 1..m
    <3>1. PICK k \in 1..Len(c[m]) : c[m][k] = s[i]
      BY <1>4, <2>4
    <3>2. k \in 1..Len(c[m + 1]) /\ c[m + 1][k] = c[m][k]
      BY <2>1, <2>2
    <3> QED BY <3>1, <3>2
  <2> QED BY <2>3, <2>4
<1>5. Nat \subseteq S
  <2> HIDE DEF S
  <2> QED BY <1>3, <1>4, InductionBySet
<1> QED BY <1>5 DEF c

-----------------------------------------------------------------------------
\* Sequences of sequences.
Seqs(X) == Seq(Seq(X))

\* The first i of several sequences, one after the other.
Flat(seqs, f, i) == IF i = 1 THEN seqs[i] ELSE f[i - 1] \o seqs[i]

\* What FlattenSeq builds, up to the m-th of them.
IsFlat(f, X, seqs, m) ==
  f \in [1..m -> Seq(X)] /\ \A i \in 1..m : f[i] = Flat(seqs, f, i)

\* Its recursion has a solution on every prefix.
LEMMA FlatExists ==
  ASSUME NEW X, NEW seqs \in Seqs(X)
  PROVE \A m \in 0..Len(seqs) : \E f : IsFlat(f, X, seqs, m)
<1> DEFINE P(m) == \E f : IsFlat(f, X, seqs, m)
           S == {m \in Nat : m <= Len(seqs) => P(m)}
<1>1. 0 \in S
  <2> DEFINE none == [i \in 1..0 |-> <<>>]
  <2>1. none \in [1..0 -> Seq(X)] /\ \A i \in 1..0 : none[i] = Flat(seqs, none, i)
    OBVIOUS
  <2>2. P(0)
    <3> HIDE DEF none
    <3> QED BY <2>1 DEF IsFlat
  <2> QED BY <2>2
<1>2. ASSUME NEW m \in Nat, m \in S PROVE m + 1 \in S
  <2> SUFFICES ASSUME m + 1 <= Len(seqs) PROVE P(m + 1)
    <3> HIDE DEF P
    <3> QED OBVIOUS
  <2>1. PICK f : f \in [1..m -> Seq(X)] /\ \A i \in 1..m : f[i] = Flat(seqs, f, i)
    BY <1>2 DEF IsFlat
  <2> DEFINE g == [i \in 1..(m + 1) |-> IF i <= m THEN f[i] ELSE Flat(seqs, f, m + 1)]
  <2>2. seqs[m + 1] \in Seq(X) /\ (m > 0 => f[m] \in Seq(X))
    BY <2>1 DEF Seqs
  <2>3. Flat(seqs, f, m + 1) \in Seq(X)
    BY <2>2 DEF Flat
  <2>4. g \in [1..(m + 1) -> Seq(X)]
    BY <2>1, <2>3
  <2>5. ASSUME NEW i \in 1..(m + 1) PROVE g[i] = Flat(seqs, g, i)
    <3>1. g[i] = Flat(seqs, f, i)
      BY <2>1
    <3>2. i = 1 \/ g[i - 1] = f[i - 1]
      OBVIOUS
    <3> HIDE DEF g
    <3> QED BY <3>1, <3>2 DEF Flat
  <2> QED BY <2>4, <2>5 DEF IsFlat
<1>3. Nat \subseteq S
  <2> HIDE DEF S
  <2> QED BY <1>1, <1>2, InductionBySet
<1> QED BY <1>3

\* FlattenSeq, as the last of a list of sequences that each go on from the one before.
LEMMA FlattenIs ==
  ASSUME NEW X, NEW seqs \in Seqs(X), seqs # <<>>
  PROVE \E f \in [1..Len(seqs) -> Seq(X)] :
          /\ FlattenSeq(seqs) = f[Len(seqs)]
          /\ f[1] = seqs[1]
          /\ \A i \in 2..Len(seqs) : f[i] = f[i - 1] \o seqs[i]
<1>0. Len(seqs) \in Nat /\ Len(seqs) # 0
  BY DEF Seqs
<1> DEFINE F(f) == [i \in 1..Len(seqs) |-> Flat(seqs, f, i)]
           flat == CHOOSE f : f = F(f)
<1>1. PICK f : IsFlat(f, X, seqs, Len(seqs))
  <2>1. Len(seqs) \in 0..Len(seqs)
    BY <1>0
  <2> QED BY <2>1, FlatExists
<1>2. f = F(f)
  BY <1>1 DEF IsFlat
<1>3. flat = F(flat)
  <2> HIDE DEF F
  <2> QED BY <1>2
<1>4. FlattenSeq(seqs) = flat[Len(seqs)]
  BY <1>0 DEF FlattenSeq, Flat
<1> HIDE DEF flat
<1>5. \A i \in 1..Len(seqs) : flat[i] = Flat(seqs, flat, i)
  BY <1>3
<1> DEFINE S == {m \in Nat : m + 1 <= Len(seqs) => flat[m + 1] \in Seq(X)}
<1>6. 0 \in S
  BY <1>0, <1>5 DEF Flat, Seqs
<1>7. ASSUME NEW m \in Nat, m \in S PROVE m + 1 \in S
  <2> SUFFICES ASSUME m + 2 <= Len(seqs) PROVE flat[m + 2] \in Seq(X)
    OBVIOUS
  <2>1. flat[m + 1] \in Seq(X) /\ seqs[m + 2] \in Seq(X)
    BY <1>7 DEF Seqs
  <2>2. flat[m + 2] = Flat(seqs, flat, m + 2)
    BY <1>5
  <2>3. m + 2 # 1 /\ (m + 2) - 1 = m + 1
    OBVIOUS
  <2>4. flat[m + 2] = flat[m + 1] \o seqs[m + 2]
    BY <2>2, <2>3 DEF Flat
  <2> QED BY <2>1, <2>4
<1>8. Nat \subseteq S
  <2> HIDE DEF S
  <2> QED BY <1>6, <1>7, InductionBySet
<1>9. ASSUME NEW i \in 1..Len(seqs) PROVE flat[i] \in Seq(X)
  <2>1. i - 1 \in S
    <3> HIDE DEF S
    <3> QED BY <1>8
  <2> QED BY <2>1
<1>10. flat \in [1..Len(seqs) -> Seq(X)]
  <2>1. flat = [i \in 1..Len(seqs) |-> Flat(seqs, flat, i)]
    BY <1>3
  <2> QED BY <1>9, <2>1
<1>11. flat[1] = seqs[1]
  BY <1>0, <1>5 DEF Flat
<1>12. ASSUME NEW i \in 2..Len(seqs) PROVE flat[i] = flat[i - 1] \o seqs[i]
  <2>1. flat[i] = Flat(seqs, flat, i) /\ i # 1
    BY <1>5
  <2> QED BY <2>1 DEF Flat
<1> QED BY <1>4, <1>10, <1>11, <1>12

\* Two sequences, one after the other, keep their places.
LEMMA ConcatIs ==
  ASSUME NEW X, NEW s \in Seq(X), NEW t \in Seq(X), NEW r, r = s \o t
  PROVE /\ r \in Seq(X) /\ Len(r) = Len(s) + Len(t)
        /\ \A i \in 1..Len(s) : r[i] = s[i]
        /\ \A i \in 1..Len(t) : r[Len(s) + i] = t[i]
<1>1. r \in Seq(X) /\ Len(r) = Len(s) + Len(t) /\ Len(s) \in Nat /\ Len(t) \in Nat
  OBVIOUS
<1>2. \A i \in 1..(Len(s) + Len(t)) : r[i] = IF i <= Len(s) THEN s[i] ELSE t[i - Len(s)]
  OBVIOUS
<1>3. ASSUME NEW i \in 1..Len(t) PROVE r[Len(s) + i] = t[i]
  <2>1. (Len(s) + i) - Len(s) = i
    BY <1>1
  <2> QED BY <1>1, <1>2, <2>1
<1> QED BY <1>1, <1>2, <1>3

\* Sequences of four, one after the other, keep their places.
LEMMA FlattenFours ==
  ASSUME NEW X, NEW seqs \in Seqs(X), \A i \in 1..Len(seqs) : Len(seqs[i]) = 4
  PROVE /\ FlattenSeq(seqs) \in Seq(X)
        /\ Len(FlattenSeq(seqs)) = 4 * Len(seqs)
        /\ \A i \in 1..Len(seqs) : \A k \in 1..4 :
             FlattenSeq(seqs)[4 * (i - 1) + k] = seqs[i][k]
<1>1. CASE seqs = <<>>
  <2>1. Len(seqs) = 0 /\ FlattenSeq(seqs) = <<>>
    BY <1>1 DEF FlattenSeq
  <2> QED BY <2>1
<1>2. CASE seqs # <<>>
  <2>1. PICK f \in [1..Len(seqs) -> Seq(X)] :
          /\ FlattenSeq(seqs) = f[Len(seqs)]
          /\ f[1] = seqs[1]
          /\ \A i \in 2..Len(seqs) : f[i] = f[i - 1] \o seqs[i]
    BY <1>2, FlattenIs
  <2>2. Len(seqs) \in Nat \ {0}
    BY <1>2 DEF Seqs
  <2>3. \A i \in 1..Len(seqs) : seqs[i] \in Seq(X)
    BY DEF Seqs
  <2> DEFINE P(m) == /\ Len(f[m]) = 4 * m
                     /\ \A i \in 1..m : \A k \in 1..4 : f[m][4 * (i - 1) + k] = seqs[i][k]
             S == {m \in Nat : m + 1 <= Len(seqs) => P(m + 1)}
  <2>4. 0 \in S
    <3>1. P(1)
      BY <2>1, <2>2, <2>3
    <3> QED BY <3>1
  <2>5. ASSUME NEW m \in Nat, m \in S PROVE m + 1 \in S
    <3> SUFFICES ASSUME m + 2 <= Len(seqs) PROVE P(m + 2)
      <4> HIDE DEF P
      <4>1. (m + 1) + 1 = m + 2
        OBVIOUS
      <4> QED BY <4>1
    <3>1. P(m + 1)
      <4> HIDE DEF P
      <4> QED BY <2>5
    <3>2. PICK a \in Seq(X) : a = f[m + 1]
      <4>1. m + 1 \in 1..Len(seqs)
        OBVIOUS
      <4>2. f[m + 1] \in Seq(X)
        BY <4>1
      <4> QED BY <4>2
    <3>3. PICK b \in Seq(X) : b = seqs[m + 2]
      BY <2>3
    <3>4. PICK c \in Seq(X) : c = f[m + 2]
      <4>1. m + 2 \in 1..Len(seqs)
        OBVIOUS
      <4>2. f[m + 2] \in Seq(X)
        BY <4>1
      <4> QED BY <4>2
    <3>5. c = a \o b
      <4>1. m + 2 \in 2..Len(seqs) /\ (m + 2) - 1 = m + 1
        OBVIOUS
      <4> QED BY <2>1, <3>2, <3>3, <3>4, <4>1
    <3>6. Len(a) = 4 * m + 4 /\ Len(b) = 4
      <4>1. Len(f[m + 1]) = 4 * (m + 1)
        BY <3>1
      <4>2. 4 * (m + 1) = 4 * m + 4 /\ m + 2 \in 1..Len(seqs)
        OBVIOUS
      <4> QED BY <3>2, <3>3, <4>1, <4>2
    <3>7. /\ Len(c) = Len(a) + Len(b)
          /\ \A i \in 1..Len(a) : c[i] = a[i]
          /\ \A i \in 1..Len(b) : c[Len(a) + i] = b[i]
      BY <3>5, ConcatIs
    <3>8. Len(c) = 4 * (m + 2)
      BY <3>6, <3>7
    <3>9. ASSUME NEW i \in 1..(m + 2), NEW k \in 1..4 PROVE c[4 * (i - 1) + k] = seqs[i][k]
      <4>1. CASE i <= m + 1
        <5>1. 4 * (i - 1) + k \in 1..Len(a)
          BY <3>6, <4>1
        <5>2. c[4 * (i - 1) + k] = a[4 * (i - 1) + k]
          BY <3>7, <5>1
        <5>3. i \in 1..(m + 1)
          BY <4>1
        <5>4. f[m + 1][4 * (i - 1) + k] = seqs[i][k]
          BY <3>1, <5>3
        <5> QED BY <3>2, <5>2, <5>4
      <4>2. CASE i = m + 2
        <5>1. 4 * (i - 1) + k = Len(a) + k
          BY <3>6, <4>2
        <5>2. c[Len(a) + k] = b[k]
          BY <3>6, <3>7
        <5> QED BY <3>3, <4>2, <5>1, <5>2
      <4> QED BY <4>1, <4>2
    <3> QED BY <3>4, <3>8, <3>9
  <2>6. Nat \subseteq S
    <3> HIDE DEF S
    <3> QED BY <2>4, <2>5, InductionBySet
  <2>7. P(Len(seqs))
    <3>1. Len(seqs) - 1 \in S
      <4> HIDE DEF S
      <4> QED BY <2>2, <2>6
    <3>2. (Len(seqs) - 1) + 1 = Len(seqs)
      BY <2>2
    <3> HIDE DEF P
    <3> QED BY <2>2, <3>1, <3>2
  <2> QED BY <2>1, <2>2, <2>7
<1> QED BY <1>1, <1>2
=============================================================================
