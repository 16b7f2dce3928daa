----------------------------- MODULE DataLemmas -----------------------------
(***************************************************************************)
(* What FoldLeft computes, for an operator of two arguments and a start:   *)
(* of the empty sequence the start, of a longer one the operator of the    *)
(* fold of all but the last element, and that element; so it stays in any  *)
(* set that has the start and that the operator does not leave.  The       *)
(* operator is a parameter of the module, so that an INSTANCE gives these  *)
(* facts for each fold the models are built from.  And what it takes to    *)
(* count in a finite linear order, which needs no operator.                *)
(*                                                                         *)
(* Induction is done on sets of naturals: every set of them that is not    *)
(* empty has a least element, which follows from the library's statement   *)
(* that < is well founded.                                                 *)
(***************************************************************************)
EXTENDS Integers, SequencesExt, FiniteSets, SequenceTheorems, FiniteSetTheorems, WellFoundedInduction,
        TLAPS

CONSTANT Op(_, _)

Fold(base, seq) == FoldLeft(Op, base, seq)

-----------------------------------------------------------------------------
(* Induction. *)

\* Every set of naturals that is not empty has a least element.
LEMMA LeastNatural ==
  ASSUME NEW T \in SUBSET Nat, T # {}
  PROVE  \E x \in T : \A y \in T : x <= y
<1> DEFINE R == {ss \in Nat \X Nat : ss[1] < ss[2]}
<1>1. IsWellFoundedOn(R, Nat)
  BY NatLessThanWellFounded DEF OpToRel
<1>2. PICK x \in T : \A y \in T : ~ (<<y, x>> \in R)
  BY <1>1, WFMin
<1>3. ASSUME NEW y \in T PROVE x <= y
  <2>1. <<y, x>> \notin R
    BY <1>2
  <2>2. ~ (y < x)
    BY <2>1
  <2> QED BY <2>2
<1> QED BY <1>3

\* A set that has 0, and with each number the next, has all of them.
LEMMA InductionOnSets ==
  ASSUME NEW T \in SUBSET Nat, 0 \in T, \A n \in T : n + 1 \in T
  PROVE  T = Nat
<1> SUFFICES ASSUME Nat \ T # {} PROVE FALSE
  OBVIOUS
<1>1. PICK x \in Nat \ T : \A y \in Nat \ T : x <= y
  <2>1. Nat \ T \in SUBSET Nat
    OBVIOUS
  <2> QED BY <2>1, LeastNatural
<1>2. x - 1 \in Nat /\ x - 1 \notin Nat \ T
  BY <1>1
<1> QED BY <1>1, <1>2

-----------------------------------------------------------------------------
(* The recursive function inside FoldLeft, which takes the greatest index of *)
(* a set of them away at each step.                                        *)

Steps(base, seq, n, g) ==
  g = [s \in SUBSET (1..n) |-> IF s = {} THEN base ELSE Op(g[s \ {Max(s)}], seq[Max(s)])]

\* The greatest index of a set of indices.
LEMMA MaxOfIndices ==
  ASSUME NEW n \in Nat, NEW s \in SUBSET (1..n), s # {}
  PROVE  Max(s) \in s /\ \A y \in s : y <= Max(s)
<1> DEFINE T == {n - x : x \in s}
<1>1. PICK m \in T : \A y \in T : m <= y
  <2>1. \A x \in s : n - x \in Nat
    OBVIOUS
  <2>2. T \in SUBSET Nat /\ T # {}
    BY <2>1
  <2> QED BY <2>2, LeastNatural
<1>2. PICK x \in s : m = n - x
  OBVIOUS
<1>3. ASSUME NEW y \in s PROVE x >= y
  <2>1. n - x <= n - y
    BY <1>1, <1>2
  <2>2. x \in 1..n /\ y \in 1..n
    OBVIOUS
  <2> QED BY <2>1, <2>2
<1>4. \E z \in s : \A y \in s : z >= y
  BY <1>3
<1>5. Max(s) \in s /\ \A y \in s : Max(s) >= y
  BY <1>4 DEF Max
<1>6. ASSUME NEW y \in s PROVE y <= Max(s)
  <2>1. Max(s) \in 1..n /\ y \in 1..n /\ Max(s) >= y
    BY <1>5
  <2> QED BY <2>1
<1> QED BY <1>5, <1>6

LEMMA MaxOfAll ==
  ASSUME NEW k \in Nat
  PROVE  Max(1..(k + 1)) = k + 1
<1>1. k + 1 \in Nat /\ 1..(k + 1) \in SUBSET (1..(k + 1)) /\ k + 1 \in 1..(k + 1)
  OBVIOUS
<1>2. Max(1..(k + 1)) \in 1..(k + 1) /\ k + 1 <= Max(1..(k + 1))
  <2>1. 1..(k + 1) # {}
    BY <1>1
  <2> QED BY <1>1, <2>1, MaxOfIndices
<1> QED BY <1>2

LEMMA FoldIsSteps ==
  ASSUME NEW base, NEW seq, NEW n \in Nat, DOMAIN seq = 1..n
  PROVE  Fold(base, seq) = (CHOOSE g : Steps(base, seq, n, g))[1..n]
BY DEF Fold, FoldLeft, MapThenFoldSet, Steps

\* There is a function that satisfies the recursive equation.
LEMMA StepsExist ==
  ASSUME NEW base, NEW seq
  PROVE  \A n \in Nat : \E g : Steps(base, seq, n, g)
<1> DEFINE T == {n \in Nat : \E g : Steps(base, seq, n, g)}
<1>1. 0 \in T
  <2>1. Steps(base, seq, 0, [s \in {{}} |-> base])
    <3>1. SUBSET (1..0) = {{}}
      OBVIOUS
    <3> QED BY <3>1 DEF Steps
  <2> QED BY <2>1
<1>2. ASSUME NEW n \in Nat, n \in T PROVE n + 1 \in T
  <2>1. PICK g : Steps(base, seq, n, g)
    BY <1>2
  <2> DEFINE h == [s \in SUBSET (1..(n + 1)) |->
                     IF n + 1 \in s THEN Op(g[s \ {n + 1}], seq[n + 1]) ELSE g[s]]
  <2>2. ASSUME NEW s \in SUBSET (1..(n + 1)), s # {}
        PROVE h[s] = Op(h[s \ {Max(s)}], seq[Max(s)])
    <3>1. Max(s) \in s /\ \A y \in s : y <= Max(s)
      <4>1. n + 1 \in Nat
        OBVIOUS
      <4> QED BY <2>2, <4>1, MaxOfIndices
    <3>2. s \ {Max(s)} \in SUBSET (1..n)
      <4>1. ASSUME NEW y \in s, y # Max(s) PROVE y \in 1..n
        <5>1. y \in 1..(n + 1) /\ Max(s) \in 1..(n + 1) /\ y <= Max(s)
          BY <3>1
        <5> QED BY <5>1, <4>1
      <4> QED BY <4>1
    <3>3. h[s \ {Max(s)}] = g[s \ {Max(s)}]
      BY <3>2
    <3>4. CASE n + 1 \in s
      <4>1. Max(s) = n + 1
        <5>1. Max(s) \in 1..(n + 1) /\ n + 1 <= Max(s)
          BY <3>1, <3>4
        <5> QED BY <5>1
      <4> QED BY <4>1, <3>3, <3>4
    <3>5. CASE n + 1 \notin s
      <4>1. s \in SUBSET (1..n)
        BY <3>5
      <4>2. g[s] = Op(g[s \ {Max(s)}], seq[Max(s)])
        BY <2>1, <4>1, <2>2 DEF Steps
      <4> QED BY <4>2, <3>3, <3>5
    <3> QED BY <3>4, <3>5
  <2>3. h[{}] = base
    <3>1. {} \in SUBSET (1..n) /\ n + 1 \notin {}
      OBVIOUS
    <3>2. g[{}] = base
      BY <2>1, <3>1 DEF Steps
    <3> QED BY <3>1, <3>2
  <2>4. Steps(base, seq, n + 1, h)
    <3> HIDE DEF h
    <3>1. h = [s \in SUBSET (1..(n + 1)) |-> h[s]]
      BY DEF h
    <3> QED BY <2>2, <2>3, <3>1 DEF Steps
  <2> QED BY <2>4
<1>3. T = Nat
  BY <1>1, <1>2, InductionOnSets
<1> QED BY <1>3

\* What such a function says of the first j indices.
UpTo(s, front, j) == s = 1..j /\ front = s \ {j}

LEMMA StepAt ==
  ASSUME NEW base, NEW seq, NEW n \in Nat, NEW g, Steps(base, seq, n, g),
         NEW j \in 1..n, NEW s, NEW front, UpTo(s, front, j)
  PROVE  g[s] = Op(g[front], seq[j])
<1> USE DEF UpTo
<1>1. s \in SUBSET (1..n) /\ j \in s
  OBVIOUS
<1>2. Max(s) = j
  <2>1. j - 1 \in Nat /\ (j - 1) + 1 = j
    OBVIOUS
  <2>2. Max(1..((j - 1) + 1)) = (j - 1) + 1
    BY <2>1, MaxOfAll
  <2> QED BY <2>1, <2>2
<1>3. s # {}
  BY <1>1
<1>4. g[s] = Op(g[s \ {Max(s)}], seq[Max(s)])
  BY ONLY Steps(base, seq, n, g), <1>1, <1>3 DEF Steps
<1> QED BY <1>2, <1>4

\* Two of them agree on the indices up to n if the sequences do.
LEMMA StepsAgree ==
  ASSUME NEW base, NEW seq, NEW seq2, NEW n \in Nat, NEW m \in Nat, NEW g, NEW h, n <= m,
         \A i \in 1..n : seq[i] = seq2[i],
         Steps(base, seq, n, g), Steps(base, seq2, m, h)
  PROVE  g[1..n] = h[1..n]
<1> DEFINE T == {k \in Nat : k <= n => g[1..k] = h[1..k]}
<1>1. 0 \in T
  <2>1. 1..0 = {}
    OBVIOUS
  <2> QED BY <2>1 DEF Steps
<1>2. ASSUME NEW k \in Nat, k \in T PROVE k + 1 \in T
  <2> DEFINE j == k + 1
             s == 1..j
             front == 1..k
  <2> SUFFICES ASSUME j <= n PROVE g[s] = h[s]
    OBVIOUS
  <2>1. g[front] = h[front] /\ seq[j] = seq2[j]
    BY <1>2
  <2>2. j \in 1..n /\ j \in 1..m /\ UpTo(s, front, j)
    BY DEF UpTo
  <2> HIDE DEF T, j, s, front
  <2>3. g[s] = Op(g[front], seq[j])
    BY ONLY Steps(base, seq, n, g), n \in Nat, <2>2, StepAt
  <2>4. h[s] = Op(h[front], seq2[j])
    BY ONLY Steps(base, seq2, m, h), m \in Nat, <2>2, StepAt
  <2> QED BY ONLY <2>1, <2>3, <2>4
<1>3. T = Nat
  BY <1>1, <1>2, InductionOnSets
<1> QED BY <1>3

-----------------------------------------------------------------------------
(* The two facts. *)

\* Nothing folded is the start.
LEMMA FoldEmpty == \A base : Fold(base, <<>>) = base
<1> SUFFICES ASSUME NEW base PROVE Fold(base, <<>>) = base
  OBVIOUS
<1>1. DOMAIN <<>> = 1..0
  OBVIOUS
<1>2. PICK g : g = CHOOSE f : Steps(base, <<>>, 0, f)
  OBVIOUS
<1>3. Steps(base, <<>>, 0, g)
  BY <1>2, StepsExist
<1>4. {} \in SUBSET (1..0) /\ 1..0 = {}
  OBVIOUS
<1>5. g[1..0] = base
  BY <1>3, <1>4 DEF Steps
<1> QED BY <1>1, <1>2, <1>5, FoldIsSteps

\* A sequence is folded from left to right: an element appended to it, a line to
\* a log, is handled last and on the result of all before it.
LEMMA FoldAppend ==
  ASSUME NEW base, NEW S, NEW seq \in Seq(S), NEW x \in S
  PROVE  Fold(base, Append(seq, x)) = Op(Fold(base, seq), x)
<1> DEFINE n == Len(seq)
           long == Append(seq, x)
<1>1. n \in Nat /\ DOMAIN seq = 1..n /\ DOMAIN long = 1..(n + 1)
  BY AppendProperties, LenProperties
<1>2. \A i \in 1..n : seq[i] = long[i]
  BY AppendProperties
<1>3. long[n + 1] = x
  BY AppendProperties
<1> HIDE DEF long, n
<1>4. PICK g : g = CHOOSE f : Steps(base, seq, n, f)
  OBVIOUS
<1>5. PICK h : h = CHOOSE f : Steps(base, long, n + 1, f)
  OBVIOUS
<1>6. Steps(base, seq, n, g)
  BY <1>1, <1>4, StepsExist
<1>7. Steps(base, long, n + 1, h)
  <2>1. \E f : Steps(base, long, n + 1, f)
    <3>1. n + 1 \in Nat
      BY <1>1
    <3> QED BY <3>1, StepsExist
  <2> QED BY <1>5, <2>1
<1>8. g[1..n] = h[1..n]
  <2>1. n + 1 \in Nat /\ n <= n + 1
    BY <1>1
  <2> QED BY <1>1, <1>2, <1>6, <1>7, <2>1, StepsAgree
<1>9. 1..(n + 1) \in SUBSET (1..(n + 1)) /\ n + 1 \in 1..(n + 1) /\ (1..(n + 1)) \ {n + 1} = 1..n
  BY <1>1
<1>10. Max(1..(n + 1)) = n + 1
  BY <1>1, MaxOfAll
<1>11. h[1..(n + 1)] = Op(h[1..n], long[n + 1])
  BY <1>7, <1>9, <1>10 DEF Steps
<1>12. Fold(base, seq) = g[1..n]
  BY <1>1, <1>4, FoldIsSteps
<1>13. Fold(base, long) = h[1..(n + 1)]
  <2>1. n + 1 \in Nat
    BY <1>1
  <2>2. DOMAIN long = 1..(n + 1)
    BY <1>1
  <2> QED BY <1>5, <2>1, <2>2, FoldIsSteps
<1> QED BY <1>3, <1>8, <1>11, <1>12, <1>13 DEF long

\* A sequence that is not empty has a last element and what comes before it.
LEMMA LastOfSeq ==
  ASSUME NEW S, NEW n \in Nat, NEW q \in Seq(S), Len(q) = n + 1
  PROVE  \E front \in Seq(S), last \in S : q = Append(front, last)
<1>1. q # <<>>
  BY EmptySeq
<1> QED BY <1>1, SequenceEmptyOrAppend

LEMMA LenOfFront ==
  ASSUME NEW S, NEW n \in Nat, NEW front \in Seq(S), NEW last \in S,
         Len(Append(front, last)) = n + 1
  PROVE  Len(front) = n
BY AppendProperties, LenProperties

\* A fold stays in a set that has its start and that no element leads out of.
LEMMA FoldStays ==
  ASSUME NEW T, NEW base \in T, NEW S, \A a \in T, x \in S : Op(a, x) \in T,
         NEW seq \in Seq(S)
  PROVE  Fold(base, seq) \in T
<1> DEFINE Lengths == {n \in Nat : \A q \in Seq(S) : Len(q) = n => Fold(base, q) \in T}
<1>1. 0 \in Lengths
  <2>1. \A q \in Seq(S) : Len(q) = 0 => q = <<>>
    BY EmptySeq
  <2> QED BY <2>1, FoldEmpty
<1>2. ASSUME NEW n \in Nat, n \in Lengths PROVE n + 1 \in Lengths
  <2> SUFFICES ASSUME NEW q \in Seq(S), Len(q) = n + 1 PROVE Fold(base, q) \in T
    OBVIOUS
  <2>0. PICK front \in Seq(S), last \in S : q = Append(front, last)
    BY LastOfSeq
  <2>1. Len(front) = n /\ q = Append(front, last)
    BY <2>0, LenOfFront
  <2>2. Fold(base, front) \in T
    BY <1>2, <2>1
  <2> QED BY <2>1, <2>2, FoldAppend
<1>3. Lengths = Nat
  BY <1>1, <1>2, InductionOnSets
<1> QED BY <1>3, LenProperties

\* Two folds of one sequence stay related if their starts are and each element
\* keeps them so.
LEMMA FoldRelates ==
  ASSUME NEW R, NEW left, NEW right, <<left, right>> \in R, NEW S,
         \A a, b : <<a, b>> \in R => \A x \in S : <<Op(a, x), Op(b, x)>> \in R,
         NEW seq \in Seq(S)
  PROVE  <<Fold(left, seq), Fold(right, seq)>> \in R
<1> DEFINE Lengths == {n \in Nat : \A q \in Seq(S) :
                         Len(q) = n => <<Fold(left, q), Fold(right, q)>> \in R}
<1>1. 0 \in Lengths
  <2>1. \A q \in Seq(S) : Len(q) = 0 => q = <<>>
    BY EmptySeq
  <2> QED BY <2>1, FoldEmpty
<1>2. ASSUME NEW n \in Nat, n \in Lengths PROVE n + 1 \in Lengths
  <2> SUFFICES ASSUME NEW q \in Seq(S), Len(q) = n + 1
               PROVE  <<Fold(left, q), Fold(right, q)>> \in R
    OBVIOUS
  <2>0. PICK front \in Seq(S), last \in S : q = Append(front, last)
    BY LastOfSeq
  <2>1. Len(front) = n /\ q = Append(front, last)
    BY <2>0, LenOfFront
  <2>2. <<Fold(left, front), Fold(right, front)>> \in R
    BY <1>2, <2>1
  <2>3. <<Op(Fold(left, front), last), Op(Fold(right, front), last)>> \in R
    BY <2>1, <2>2
  <2>4. /\ Fold(left, q) = Op(Fold(left, front), last)
        /\ Fold(right, q) = Op(Fold(right, front), last)
    BY <2>1, FoldAppend
  <2> QED BY <2>3, <2>4
<1>3. Lengths = Nat
  BY <1>1, <1>2, InductionOnSets
<1> QED BY <1>3, LenProperties

\* Folding one sequence and then another is folding both as one.
LEMMA FoldConcat ==
  ASSUME NEW base, NEW S, NEW first \in Seq(S), NEW second \in Seq(S)
  PROVE  Fold(base, first \o second) = Fold(Fold(base, first), second)
<1> DEFINE Lengths == {n \in Nat : \A q \in Seq(S) :
                         Len(q) = n => Fold(base, first \o q) = Fold(Fold(base, first), q)}
<1>1. 0 \in Lengths
  <2>1. \A q \in Seq(S) : Len(q) = 0 => q = <<>>
    BY EmptySeq
  <2>2. first \o <<>> = first
    BY ConcatEmptySeq
  <2> QED BY <2>1, <2>2, FoldEmpty
<1>2. ASSUME NEW n \in Nat, n \in Lengths PROVE n + 1 \in Lengths
  <2> SUFFICES ASSUME NEW q \in Seq(S), Len(q) = n + 1
               PROVE  Fold(base, first \o q) = Fold(Fold(base, first), q)
    OBVIOUS
  <2>0. PICK front \in Seq(S), last \in S : q = Append(front, last)
    BY LastOfSeq
  <2>1. Len(front) = n /\ q = Append(front, last)
    BY <2>0, LenOfFront
  <2>2. Fold(base, first \o front) = Fold(Fold(base, first), front)
    BY <1>2, <2>1
  <2>3. first \o q = Append(first \o front, last)
    <3>1. /\ front \o <<last>> = q /\ <<last>> \in Seq(S)
          /\ Append(first \o front, last) = (first \o front) \o <<last>>
      BY <2>1, AppendIsConcat, ConcatProperties
    <3> QED BY <2>1, <3>1, ConcatAssociative
  <2>4. first \o front \in Seq(S)
    BY <2>1, ConcatProperties
  <2>5. Fold(base, first \o q) = Op(Fold(base, first \o front), last)
    <3> HIDE DEF Lengths
    <3> DEFINE whole == first \o front
    <3>1. whole \in Seq(S) /\ last \in S
      BY <2>4
    <3> HIDE DEF whole
    <3>2. Fold(base, Append(whole, last)) = Op(Fold(base, whole), last)
      BY <3>1, FoldAppend
    <3> QED BY <2>3, <3>2 DEF whole
  <2>6. Fold(Fold(base, first), q) = Op(Fold(Fold(base, first), front), last)
    BY <2>1, FoldAppend
  <2> QED BY <2>2, <2>5, <2>6
<1>3. Lengths = Nat
  BY <1>1, <1>2, InductionOnSets
<1> QED BY <1>3, LenProperties

-----------------------------------------------------------------------------
(* Finite linear orders, as sets of pairs: what comes before an element of a *)
(* set, and how much of it.                                                  *)

Below(S, R, w) == {v \in S : <<v, w>> \in R}
Rank(S, R, w) == Cardinality(Below(S, R, w))

LinearOrder(S, R) ==
  /\ \A v, w \in S : <<v, w>> \in R => <<w, v>> \notin R
  /\ \A u, v, w \in S : <<u, v>> \in R /\ <<v, w>> \in R => <<u, w>> \in R
  /\ \A v, w \in S : v = w \/ <<v, w>> \in R \/ <<w, v>> \in R

LEMMA RankGrows ==
  ASSUME NEW S, IsFiniteSet(S), NEW R, LinearOrder(S, R),
         NEW v \in S, NEW w \in S, <<v, w>> \in R
  PROVE  Rank(S, R, v) < Rank(S, R, w)
<1>1. Below(S, R, v) \subseteq Below(S, R, w)
  BY DEF LinearOrder, Below
<1>2. v \in Below(S, R, w) /\ v \notin Below(S, R, v)
  BY DEF LinearOrder, Below
<1>3. IsFiniteSet(Below(S, R, w))
  <2>1. Below(S, R, w) \subseteq S
    BY DEF Below
  <2> QED
    BY <2>1, FS_Subset
<1>4. /\ Cardinality(Below(S, R, v)) \in Nat /\ Cardinality(Below(S, R, w)) \in Nat
      /\ Cardinality(Below(S, R, v)) <= Cardinality(Below(S, R, w))
      /\ Cardinality(Below(S, R, v)) # Cardinality(Below(S, R, w))
  <2>1. IsFiniteSet(Below(S, R, v))
    BY <1>1, <1>3, FS_Subset
  <2>2. Cardinality(Below(S, R, v)) \in Nat /\ Cardinality(Below(S, R, w)) \in Nat
    BY <1>3, <2>1, FS_CardinalityType
  <2>3. Below(S, R, v) # Below(S, R, w)
    BY <1>2
  <2> QED
    BY <1>1, <1>3, <2>2, <2>3, FS_Subset
<1> QED
  BY <1>4 DEF Rank

LEMMA RankType ==
  ASSUME NEW S, IsFiniteSet(S), NEW R, LinearOrder(S, R), NEW w \in S
  PROVE  Cardinality(S) \in Nat /\ Rank(S, R, w) \in 0..(Cardinality(S) - 1)
<1>1. Below(S, R, w) \subseteq S /\ Below(S, R, w) # S
  BY DEF Below, LinearOrder
<1>2. IsFiniteSet(Below(S, R, w))
  BY <1>1, FS_Subset
<1>3. Cardinality(Below(S, R, w)) <= Cardinality(S)
  BY <1>1, FS_Subset
<1>4. Cardinality(Below(S, R, w)) # Cardinality(S)
  BY <1>1, FS_Subset
<1>5. Cardinality(Below(S, R, w)) \in Nat /\ Cardinality(S) \in Nat
  BY <1>2, FS_CardinalityType
<1> QED
  BY <1>3, <1>4, <1>5 DEF Rank

LEMMA RankTells ==
  ASSUME NEW S, IsFiniteSet(S), NEW R, LinearOrder(S, R), NEW v \in S, NEW w \in S,
         Rank(S, R, v) = Rank(S, R, w)
  PROVE  v = w
<1>1. Rank(S, R, v) \in Int
  BY RankType
<1>2. ~(Rank(S, R, v) < Rank(S, R, w)) /\ ~(Rank(S, R, w) < Rank(S, R, v))
  BY <1>1
<1>3. <<v, w>> \notin R /\ <<w, v>> \notin R
  BY <1>2, RankGrows
<1> QED
  BY <1>3 DEF LinearOrder

\* Some element has each rank below the size of the set,
LEMMA RankOnto ==
  ASSUME NEW S, IsFiniteSet(S), NEW R, LinearOrder(S, R),
         NEW i \in 0..(Cardinality(S) - 1)
  PROVE  \E w \in S : Rank(S, R, w) = i
<1> DEFINE n == Cardinality(S)
           f == [w \in S |-> Rank(S, R, w)]
<1>1. n \in Nat
  BY FS_CardinalityType
<1>2. IsFiniteSet(0..(n - 1)) /\ Cardinality(0..(n - 1)) = n
  <2>1. 0 \in Int /\ n - 1 \in Int
    BY <1>1
  <2> HIDE DEF n
  <2> QED
    BY <1>1, <2>1, FS_Interval
<1>3. f \in Injection(S, 0..(n - 1))
  <2>1. f \in [S -> 0..(n - 1)]
    BY RankType
  <2>2. \A v, w \in S : f[v] = f[w] => v = w
    BY RankTells
  <2> HIDE DEF f, n
  <2> QED
    BY <2>1, <2>2 DEF Injection, IsInjective
<1> HIDE DEF f
<1>4. f \in Surjection(S, 0..(n - 1))
  BY <1>2, <1>3, FS_Injection
<1>5. \E w \in S : f[w] = i
  BY <1>4 DEF Surjection
<1> QED
  BY <1>5 DEF f

\* so few have few before them.
LEMMA FewBelow ==
  ASSUME NEW S, IsFiniteSet(S), NEW R, LinearOrder(S, R), NEW k \in Nat
  PROVE  LET T == {w \in S : Rank(S, R, w) < k}
         IN  IsFiniteSet(T) /\ Cardinality(T) \in Nat /\ Cardinality(T) <= k
<1> DEFINE T == {w \in S : Rank(S, R, w) < k}
           f == [w \in T |-> Rank(S, R, w)]
<1>1. IsFiniteSet(0..(k - 1)) /\ Cardinality(0..(k - 1)) = k
  <2>1. 0 \in Int /\ k - 1 \in Int
    OBVIOUS
  <2> QED
    BY <2>1, FS_Interval
<1>2. f \in Injection(T, 0..(k - 1))
  <2>1. \A w \in T : w \in S /\ Rank(S, R, w) \in 0..(k - 1)
    <3>1. \A w \in S : Rank(S, R, w) \in Nat
      BY RankType
    <3> QED
      BY <3>1
  <2>2. f \in [T -> 0..(k - 1)]
    BY <2>1
  <2>3. \A v, w \in T : f[v] = f[w] => v = w
    BY RankTells
  <2> HIDE DEF f, T
  <2> QED
    BY <2>2, <2>3 DEF Injection, IsInjective
<1> HIDE DEF f, T
<1>3. IsFiniteSet(T) /\ Cardinality(T) <= k
  BY <1>1, <1>2, FS_Injection
<1>4. Cardinality(T) \in Nat
  BY <1>3, FS_CardinalityType
<1> QED
  BY <1>3, <1>4 DEF T

\* And those that have fewer than k before them are k, or all.
LEMMA CountBelow ==
  ASSUME NEW S, IsFiniteSet(S), NEW R, LinearOrder(S, R), NEW k \in Nat
  PROVE  LET T == {w \in S : Rank(S, R, w) < k}
         IN  /\ IsFiniteSet(T) /\ Cardinality(S) \in Nat
             /\ Cardinality(T) = IF k <= Cardinality(S) THEN k ELSE Cardinality(S)
<1> DEFINE n == Cardinality(S)
           m == IF k <= n THEN k ELSE n
           T == {w \in S : Rank(S, R, w) < k}
           f == [w \in T |-> Rank(S, R, w)]
<1>1. n \in Nat /\ m \in Nat
  <2>1. n \in Nat
    BY FS_CardinalityType
  <2> HIDE DEF n
  <2> QED
    BY <2>1
<1>2. \A w \in S : Rank(S, R, w) \in 0..(n - 1)
  BY RankType
<1>3. \A i \in 0..(n - 1) : \E w \in S : Rank(S, R, w) = i
  BY RankOnto
<1>4. \A v, w \in S : Rank(S, R, v) = Rank(S, R, w) => v = w
  BY RankTells
<1> HIDE DEF n
<1>5. f \in [T -> 0..(m - 1)]
  BY <1>1, <1>2
<1>6. \A i \in 0..(m - 1) : \E w \in T : f[w] = i
  BY <1>1, <1>3
<1>7. \A v, w \in T : f[v] = f[w] => v = w
  BY <1>4
<1>8. T \subseteq S
  OBVIOUS
<1> HIDE DEF f, T, m
<1>9. f \in Injection(T, 0..(m - 1)) /\ f \in Surjection(T, 0..(m - 1))
  BY <1>5, <1>6, <1>7 DEF Injection, IsInjective, Surjection
<1>10. IsFiniteSet(T)
  BY <1>8, FS_Subset
<1>11. ExistsBijection(T, 0..(m - 1))
  BY <1>9 DEF Bijection, ExistsBijection
<1>12. Cardinality(0..(m - 1)) = Cardinality(T)
  BY <1>10, <1>11, FS_Bijection
<1>13. Cardinality(0..(m - 1)) = m
  <2>1. 0 \in Int /\ m - 1 \in Int
    BY <1>1
  <2>2. Cardinality(0..(m - 1)) = IF 0 > m - 1 THEN 0 ELSE (m - 1) - 0 + 1
    BY <2>1, FS_Interval
  <2> QED
    BY <1>1, <2>2
<1> QED
  BY <1>1, <1>10, <1>12, <1>13 DEF T, n, m

\* A set that is not empty has a first element.
LEMMA RankZero ==
  ASSUME NEW S, IsFiniteSet(S), S # {}, NEW R, LinearOrder(S, R)
  PROVE  \E w \in S : Rank(S, R, w) = 0 /\ \A v \in S : v = w \/ <<w, v>> \in R
<1>1. Cardinality(S) \in Nat /\ Cardinality(S) # 0
  BY FS_CardinalityType, FS_EmptySet
<1>2. 0 \in 0..(Cardinality(S) - 1)
  BY <1>1
<1>3. PICK w \in S : Rank(S, R, w) = 0
  BY <1>2, RankOnto
<1>4. IsFiniteSet(Below(S, R, w))
  <2>1. Below(S, R, w) \subseteq S
    BY DEF Below
  <2> QED
    BY <2>1, FS_Subset
<1>5. Below(S, R, w) = {}
  BY <1>3, <1>4, FS_EmptySet DEF Rank
<1>6. \A v \in S : v = w \/ <<w, v>> \in R
  BY <1>5 DEF Below, LinearOrder
<1> QED
  BY <1>3, <1>6
=============================================================================
