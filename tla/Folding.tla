------------------------------ MODULE Folding ------------------------------
(***************************************************************************)
(* What a fold from the left does, for every operator: a fold of a         *)
(* sequence with one more element is one more step, and a fold can be cut  *)
(* in two anywhere.  The operator is a constant, so that a module that     *)
(* folds with one of its own instantiates this one and cites its facts.    *)
(***************************************************************************)
EXTENDS Integers, SequencesExt, SequenceTheorems, WellFoundedInduction, TLAPS

CONSTANT Op(_, _)   \* the operator that is folded

Fold(base, s) == FoldLeft(Op, base, s)

\* Induction over the naturals, of a set.
LEMMA Induction ==
  ASSUME NEW T, 0 \in T, \A n \in Nat : n \in T => n + 1 \in T
  PROVE  Nat \subseteq T
<1> DEFINE R == OpToRel(<, Nat)
<1>1. SUFFICES ASSUME Nat \ T # {} PROVE FALSE
  OBVIOUS
<1>2. IsWellFoundedOn(R, Nat)
  BY NatLessThanWellFounded
<1>3. PICK m \in Nat \ T : \A n \in Nat \ T : ~(<<n, m>> \in R)
  <2> HIDE DEF R
  <2> QED
    BY <1>1, <1>2, WFMin
<1>4. \A n \in Nat \ T : ~(n < m)
  BY <1>3 DEF OpToRel
<1>5. m # 0 /\ m - 1 \in Nat /\ m - 1 < m
  OBVIOUS
<1>6. m - 1 \in T
  BY <1>4, <1>5
<1>7. (m - 1) + 1 \in T
  BY <1>5, <1>6
<1> QED
  BY <1>7

\* h folds each set of indices of s, the greatest last.
Folds(h, base, s, n) ==
  h = [I \in SUBSET (1 .. n) |->
         IF I = {} THEN base ELSE Op(h[I \ {Max(I)}], s[Max(I)])]

\* The last of some indices.
LEMMA LastIndex ==
  ASSUME NEW n \in Nat, NEW I \in SUBSET (1 .. n + 1), n + 1 \in I
  PROVE  Max(I) = n + 1
<1>1. \A y \in I : n + 1 >= y
  OBVIOUS
<1>2. \A x \in I : (\A y \in I : x >= y) => x = n + 1
  OBVIOUS
<1> QED
  BY <1>1, <1>2 DEF Max

\* There is such a function, whatever the length.
LEMMA FoldsExist ==
  ASSUME NEW base, NEW s
  PROVE  \A n \in Nat : \E h : Folds(h, base, s, n)
<1> DEFINE T == {n \in Nat : \E h : Folds(h, base, s, n)}
<1>1. 0 \in T
  <2> DEFINE h == [I \in SUBSET (1 .. 0) |-> base]
  <2>1. \A I \in SUBSET (1 .. 0) : I = {}
    OBVIOUS
  <2>2. Folds(h, base, s, 0)
    BY <2>1 DEF Folds
  <2> QED
    BY <2>2
<1>2. ASSUME NEW n \in Nat, n \in T PROVE n + 1 \in T
  <2>1. PICK h : Folds(h, base, s, n)
    BY <1>2
  <2> DEFINE k == [I \in SUBSET (1 .. n + 1) |->
                     IF n + 1 \in I THEN Op(h[I \ {n + 1}], s[n + 1]) ELSE h[I]]
  <2>2. ASSUME NEW I \in SUBSET (1 .. n + 1)
        PROVE  k[I] = IF I = {} THEN base ELSE Op(k[I \ {Max(I)}], s[Max(I)])
    <3>1. CASE n + 1 \in I
      <4>1. Max(I) = n + 1 /\ I \ {n + 1} \in SUBSET (1 .. n) /\ I # {}
        BY <3>1, LastIndex
      <4>2. k[I \ {n + 1}] = h[I \ {n + 1}]
        BY <4>1
      <4> QED
        BY <3>1, <4>1, <4>2
    <3>2. CASE n + 1 \notin I
      <4>1. I \in SUBSET (1 .. n)
        BY <3>2
      <4>2. h[I] = IF I = {} THEN base ELSE Op(h[I \ {Max(I)}], s[Max(I)])
        BY <2>1, <4>1 DEF Folds
      <4>3. k[I] = h[I] /\ k[I \ {Max(I)}] = h[I \ {Max(I)}]
        BY <3>2, <4>1
      <4> QED
        BY <4>2, <4>3
    <3> QED
      BY <3>1, <3>2
  <2> DEFINE l == [I \in SUBSET (1 .. n + 1) |->
                     IF I = {} THEN base ELSE Op(k[I \ {Max(I)}], s[Max(I)])]
  <2>3. k = l
    <3> HIDE DEF l
    <3>1. l = [I \in SUBSET (1 .. n + 1) |-> k[I]]
      BY <2>2 DEF l
    <3> QED
      BY <3>1
  <2>4. Folds(k, base, s, n + 1)
    BY <2>3 DEF Folds
  <2> QED
    BY <2>4
<1>3. Nat \subseteq T
  <2> HIDE DEF T
  <2> QED
    BY <1>1, <1>2, Induction
<1> QED
  BY <1>3

\* Two such functions agree on where both go, as far as the sequences do.
LEMMA FoldsAgree ==
  ASSUME NEW base, NEW s, NEW t, NEW m \in Nat, NEW n \in Nat, NEW h, NEW k,
         Folds(h, base, s, m), Folds(k, base, t, n),
         m <= n, \A i \in 1 .. m : s[i] = t[i]
  PROVE  h[1 .. m] = k[1 .. m]
<1> DEFINE T == {i \in Nat : i <= m => h[1 .. i] = k[1 .. i]}
<1>1. 0 \in T
  <2>1. 1 .. 0 = {} /\ {} \in SUBSET (1 .. m) /\ {} \in SUBSET (1 .. n)
    OBVIOUS
  <2>2. h[{}] = base /\ k[{}] = base
    BY <2>1 DEF Folds
  <2> QED
    BY <2>1, <2>2
<1>2. ASSUME NEW i \in Nat, i \in T PROVE i + 1 \in T
  <2>1. SUFFICES ASSUME i + 1 <= m PROVE h[1 .. i + 1] = k[1 .. i + 1]
    OBVIOUS
  <2>2. h[1 .. i] = k[1 .. i] /\ s[i + 1] = t[i + 1]
    BY <1>2, <2>1
  <2> DEFINE I == 1 .. i + 1
  <2>3. I \in SUBSET (1 .. m) /\ I \in SUBSET (1 .. n) /\ I # {} /\ I \ {i + 1} = 1 .. i
    BY <2>1
  <2>4. Max(I) = i + 1
    BY LastIndex
  <2> HIDE DEF I
  <2>5. h[I] = Op(h[I \ {Max(I)}], s[Max(I)]) /\ k[I] = Op(k[I \ {Max(I)}], t[Max(I)])
    BY <2>3 DEF Folds
  <2> QED
    BY <2>2, <2>3, <2>4, <2>5 DEF I
<1>3. Nat \subseteq T
  <2> HIDE DEF T
  <2> QED
    BY <1>1, <1>2, Induction
<1> QED
  BY <1>3

\* A fold is such a function's value.
LEMMA FoldIsFolds ==
  ASSUME NEW base, NEW S, NEW s \in Seq(S)
  PROVE  \E h : Folds(h, base, s, Len(s)) /\ Fold(base, s) = h[1 .. Len(s)]
<1> DEFINE h == CHOOSE g : g = [I \in SUBSET DOMAIN s |->
                  IF I = {} THEN base ELSE Op(g[I \ {Max(I)}], s[Max(I)])]
<1>1. Fold(base, s) = h[DOMAIN s]
  BY DEF Fold, FoldLeft, MapThenFoldSet
<1>2. DOMAIN s = 1 .. Len(s) /\ Len(s) \in Nat
  OBVIOUS
<1>3. \E g : Folds(g, base, s, Len(s))
  BY <1>2, FoldsExist
<1>4. h = CHOOSE g : Folds(g, base, s, Len(s))
  BY <1>2 DEF Folds
<1>5. Folds(h, base, s, Len(s))
  BY <1>3, <1>4
<1> QED
  BY <1>1, <1>2, <1>5

\* A fold of nothing.
LEMMA FoldNothing ==
  ASSUME NEW base
  PROVE  Fold(base, << >>) = base
<1>1. << >> \in Seq({}) /\ Len(<< >>) = 0 /\ 1 .. 0 = {}
  OBVIOUS
<1>2. PICK h : Folds(h, base, << >>, 0) /\ Fold(base, << >>) = h[1 .. 0]
  BY <1>1, FoldIsFolds
<1>3. {} \in SUBSET (1 .. 0)
  OBVIOUS
<1> QED
  BY <1>1, <1>2, <1>3 DEF Folds

\* A fold of one element more is one more step.
LEMMA FoldOneMore ==
  ASSUME NEW base, NEW S, NEW s \in Seq(S), NEW e \in S
  PROVE  Fold(base, Append(s, e)) = Op(Fold(base, s), e)
<1> DEFINE t == Append(s, e)
           n == Len(s)
<1>1. /\ t \in Seq(S) /\ Len(t) = n + 1 /\ n \in Nat /\ t[n + 1] = e
      /\ \A i \in 1 .. n : t[i] = s[i]
  OBVIOUS
<1>2. PICK h : Folds(h, base, t, n + 1) /\ Fold(base, t) = h[1 .. n + 1]
  BY <1>1, FoldIsFolds
<1>3. PICK k : Folds(k, base, s, n) /\ Fold(base, s) = k[1 .. n]
  BY FoldIsFolds
<1> HIDE DEF t
<1>4. k[1 .. n] = h[1 .. n]
  BY <1>1, <1>2, <1>3, FoldsAgree
<1> DEFINE I == 1 .. n + 1
<1>5. I \in SUBSET (1 .. n + 1) /\ I # {} /\ I \ {n + 1} = 1 .. n /\ Max(I) = n + 1
  BY <1>1, LastIndex
<1> HIDE DEF I
<1>6. h[I] = Op(h[I \ {Max(I)}], t[Max(I)])
  BY <1>2, <1>5 DEF Folds
<1> QED
  BY <1>1, <1>2, <1>3, <1>4, <1>5, <1>6 DEF I, t

\* A fold can be cut in two.
LEMMA FoldInTwo ==
  ASSUME NEW base, NEW S, NEW s \in Seq(S), NEW t \in Seq(S)
  PROVE  Fold(base, s \o t) = Fold(Fold(base, s), t)
<1> DEFINE u(i) == SubSeq(t, 1, i)
           T == {i \in Nat : i <= Len(t) =>
                   Fold(base, s \o u(i)) = Fold(Fold(base, s), u(i))}
<1>1. 0 \in T
  <2>1. u(0) = << >> /\ s \o << >> = s
    OBVIOUS
  <2> QED
    BY <2>1, FoldNothing
<1>2. ASSUME NEW i \in Nat, i \in T PROVE i + 1 \in T
  <2>1. SUFFICES ASSUME i + 1 <= Len(t)
                 PROVE  Fold(base, s \o u(i + 1))
                          = Fold(Fold(base, s), u(i + 1))
    OBVIOUS
  <2>2. t[i + 1] \in S /\ u(i) \in Seq(S) /\ s \o u(i) \in Seq(S)
    BY <2>1
  <2>3. u(i + 1) = Append(u(i), t[i + 1])
    BY <2>1
  <2>4. s \o u(i + 1) = Append(s \o u(i), t[i + 1])
    BY <2>2, <2>3
  <2>5. Fold(base, s \o u(i)) = Fold(Fold(base, s), u(i))
    BY <1>2, <2>1
  <2> DEFINE v == u(i)
             w == s \o v
             e == t[i + 1]
             b == Fold(base, s)
  <2>6. v \in Seq(S) /\ w \in Seq(S) /\ e \in S
    BY <2>2
  <2> HIDE DEF u, v, w, e, b
  <2>7. Fold(base, Append(w, e)) = Op(Fold(base, w), e)
    BY <2>6, FoldOneMore
  <2>8. Fold(b, Append(v, e)) = Op(Fold(b, v), e)
    BY <2>6, FoldOneMore
  <2> QED
    BY <2>3, <2>4, <2>5, <2>7, <2>8 DEF v, w, e, b
<1>3. Nat \subseteq T
  <2> HIDE DEF T
  <2> QED
    BY <1>1, <1>2, Induction
<1>4. Len(t) \in Nat /\ u(Len(t)) = t
  OBVIOUS
<1> HIDE DEF u
<1> QED
  BY <1>3, <1>4

\* The first element is folded first.
LEMMA FoldFirst ==
  ASSUME NEW base, NEW S, NEW s \in Seq(S), s # << >>
  PROVE  Fold(base, s) = Fold(Op(base, Head(s)), Tail(s))
<1>1. /\ Head(s) \in S /\ Tail(s) \in Seq(S) /\ <<Head(s)>> \in Seq(S)
      /\ s = <<Head(s)>> \o Tail(s) /\ <<Head(s)>> = Append(<< >>, Head(s)) /\ << >> \in Seq(S)
  OBVIOUS
<1> DEFINE x == Head(s)
           t == Tail(s)
           none == << >>
           one == <<x>>
<1>2. x \in S /\ t \in Seq(S) /\ none \in Seq(S) /\ one \in Seq(S)
  BY <1>1
<1>3. one = Append(none, x)
  BY <1>1
<1>4. s = one \o t
  BY <1>1
<1>5. Fold(base, none) = base
  BY FoldNothing
<1> HIDE DEF x, t, none, one
<1>6. Fold(base, one) = Op(base, x)
  BY <1>2, <1>3, <1>5, FoldOneMore
<1>7. Fold(base, one \o t) = Fold(Fold(base, one), t)
  BY <1>2, FoldInTwo
<1> QED
  BY <1>4, <1>6, <1>7 DEF x, t

\* What every step keeps, a fold keeps.
LEMMA FoldKeeps ==
  ASSUME NEW I, NEW S, NEW base \in I, NEW s \in Seq(S),
         \A v \in I, e \in S : Op(v, e) \in I
  PROVE  Fold(base, s) \in I
<1> DEFINE u(i) == SubSeq(s, 1, i)
           T == {i \in Nat : i <= Len(s) => Fold(base, u(i)) \in I}
<1>1. 0 \in T
  <2>1. u(0) = << >>
    OBVIOUS
  <2> QED
    BY <2>1, FoldNothing
<1>2. ASSUME NEW i \in Nat, i \in T PROVE i + 1 \in T
  <2>1. SUFFICES ASSUME i + 1 <= Len(s) PROVE Fold(base, u(i + 1)) \in I
    OBVIOUS
  <2> DEFINE v == u(i)
             e == s[i + 1]
  <2>2. e \in S /\ v \in Seq(S) /\ u(i + 1) = Append(v, e)
    BY <2>1
  <2>3. Fold(base, v) \in I
    BY <1>2, <2>1
  <2> HIDE DEF u, v, e
  <2>4. Fold(base, Append(v, e)) = Op(Fold(base, v), e)
    BY <2>2, FoldOneMore
  <2> QED
    BY <2>2, <2>3, <2>4
<1>3. Nat \subseteq T
  <2> HIDE DEF T
  <2> QED
    BY <1>1, <1>2, Induction
<1>4. Len(s) \in Nat /\ u(Len(s)) = s
  OBVIOUS
<1> HIDE DEF u
<1> QED
  BY <1>3, <1>4

\* What every step keeps of two values, two folds keep.
LEMMA FoldsKeep ==
  ASSUME NEW R, NEW S, NEW a, NEW b, <<a, b>> \in R, NEW s \in Seq(S),
         \A v, w : <<v, w>> \in R => \A e \in S : <<Op(v, e), Op(w, e)>> \in R
  PROVE  <<Fold(a, s), Fold(b, s)>> \in R
<1> DEFINE u(i) == SubSeq(s, 1, i)
           T == {i \in Nat : i <= Len(s) => <<Fold(a, u(i)), Fold(b, u(i))>> \in R}
<1>1. 0 \in T
  <2>1. u(0) = << >>
    OBVIOUS
  <2>2. Fold(a, << >>) = a /\ Fold(b, << >>) = b
    BY FoldNothing
  <2> QED
    BY <2>1, <2>2
<1>2. ASSUME NEW i \in Nat, i \in T PROVE i + 1 \in T
  <2>1. SUFFICES ASSUME i + 1 <= Len(s) PROVE <<Fold(a, u(i + 1)), Fold(b, u(i + 1))>> \in R
    OBVIOUS
  <2> DEFINE v == u(i)
             e == s[i + 1]
  <2>2. e \in S /\ v \in Seq(S) /\ u(i + 1) = Append(v, e)
    BY <2>1
  <2>3. <<Fold(a, v), Fold(b, v)>> \in R
    BY <1>2, <2>1
  <2> HIDE DEF u, v, e
  <2>4. Fold(a, Append(v, e)) = Op(Fold(a, v), e) /\ Fold(b, Append(v, e)) = Op(Fold(b, v), e)
    BY <2>2, FoldOneMore
  <2> QED
    BY <2>2, <2>3, <2>4
<1>3. Nat \subseteq T
  <2> HIDE DEF T
  <2> QED
    BY <1>1, <1>2, Induction
<1>4. Len(s) \in Nat /\ u(Len(s)) = s
  OBVIOUS
<1> HIDE DEF u
<1> QED
  BY <1>3, <1>4

(***************************************************************************)
(* Flattening, which needs no operator.                                    *)
(***************************************************************************)
\* h joins more and more of the sequences ss.
Joins(h, ss, n) == h = [i \in 1 .. n |-> IF i = 1 THEN ss[i] ELSE h[i - 1] \o ss[i]]

\* There is such a function, however many they are.
LEMMA JoinsExist ==
  ASSUME NEW ss
  PROVE  \A n \in Nat : \E h : Joins(h, ss, n)
<1> DEFINE T == {n \in Nat : \E h : Joins(h, ss, n)}
<1>1. 0 \in T
  <2> DEFINE h == [i \in 1 .. 0 |-> i]
  <2>1. 1 .. 0 = {}
    OBVIOUS
  <2>2. Joins(h, ss, 0)
    BY <2>1 DEF Joins
  <2> QED
    BY <2>2
<1>2. ASSUME NEW n \in Nat, n \in T PROVE n + 1 \in T
  <2>1. PICK h : Joins(h, ss, n)
    BY <1>2
  <2> DEFINE k == [i \in 1 .. n + 1 |->
                     IF i = 1 THEN ss[1] ELSE IF i = n + 1 THEN h[n] \o ss[n + 1] ELSE h[i]]
             l == [i \in 1 .. n + 1 |-> IF i = 1 THEN ss[i] ELSE k[i - 1] \o ss[i]]
  <2>2. ASSUME NEW i \in 1 .. n + 1 PROVE k[i] = l[i]
    <3>1. CASE i = 1
      BY <3>1
    <3>2. CASE i # 1
      <4>1. i - 1 \in 1 .. n /\ i \in Nat /\ i - 1 # n + 1
        BY <3>2
      <4>2. k[i - 1] = h[i - 1]
        BY <2>1, <4>1 DEF Joins
      <4>3. l[i] = k[i - 1] \o ss[i]
        <5> HIDE DEF k
        <5> QED
          BY <3>2, Zenon
      <4>4. k[i] = h[i - 1] \o ss[i]
        <5>1. CASE i = n + 1
          <6>1. k[i] = h[n] \o ss[n + 1]
            BY <3>2, <5>1, Zenon
          <6>2. i - 1 = n
            BY <5>1
          <6> QED
            BY <5>1, <6>1, <6>2, Zenon
        <5>2. CASE i # n + 1
          <6>1. k[i] = h[i] /\ i \in 1 .. n
            BY <3>2, <4>1, <5>2
          <6>2. h[i] = h[i - 1] \o ss[i]
            BY <2>1, <3>2, <6>1, Zenon DEF Joins
          <6> QED
            BY <6>1, <6>2, Zenon
        <5> QED
          BY <5>1, <5>2
      <4> QED
        BY <4>2, <4>3, <4>4, Zenon
    <3> QED
      BY <3>1, <3>2
  <2>3. k = l
    BY <2>2
  <2>4. Joins(k, ss, n + 1)
    BY <2>3 DEF Joins
  <2> QED
    BY <2>4
<1>3. Nat \subseteq T
  <2> HIDE DEF T
  <2> QED
    BY <1>1, <1>2, Induction
<1> QED
  BY <1>3

\* Flattening comes to the last of them.
LEMMA FlattenJoins ==
  ASSUME NEW ss, Len(ss) \in Nat, Len(ss) # 0
  PROVE  \E h : Joins(h, ss, Len(ss)) /\ FlattenSeq(ss) = h[Len(ss)]
<1> DEFINE n == Len(ss)
           h == CHOOSE f : f = [i \in 1 .. Len(ss) |-> IF i = 1 THEN ss[i] ELSE f[i - 1] \o ss[i]]
<1>1. FlattenSeq(ss) = h[n]
  BY DEF FlattenSeq
<1>2. Joins(h, ss, n)
  <2>1. PICK k : Joins(k, ss, n)
    BY JoinsExist
  <2>2. h = CHOOSE f : Joins(f, ss, n)
    BY DEF Joins
  <2> QED
    BY <2>1, <2>2
<1> HIDE DEF h
<1> QED
  BY <1>1, <1>2

\* What is flattened is all there, and nothing else.
LEMMA Flattened ==
  ASSUME NEW S, NEW ss \in Seq(Seq(S))
  PROVE  /\ FlattenSeq(ss) \in Seq(S)
         /\ \A j \in DOMAIN ss : \A i \in DOMAIN ss[j] :
              \E k \in DOMAIN FlattenSeq(ss) : FlattenSeq(ss)[k] = ss[j][i]
<1>1. CASE Len(ss) = 0
  BY <1>1 DEF FlattenSeq
<1>2. CASE Len(ss) # 0
  <2> DEFINE n == Len(ss)
  <2>1. n \in Nat /\ n >= 1 /\ DOMAIN ss = 1 .. n /\ \A i \in 1 .. n : ss[i] \in Seq(S)
    BY <1>2
  <2>3. PICK h : Joins(h, ss, n) /\ FlattenSeq(ss) = h[n]
    BY <1>2, <2>1, FlattenJoins
  <2>2. FlattenSeq(ss) = h[n]
    BY <2>3
  <2> DEFINE Has(i) == /\ h[i] \in Seq(S)
                       /\ \A j \in 1 .. i : \A e \in DOMAIN ss[j] :
                            \E k \in DOMAIN h[i] : h[i][k] = ss[j][e]
             T == {i \in Nat : i \in 1 .. n => Has(i)}
  <2> HIDE DEF n
  <2>4. \A i \in 1 .. n : h[i] = IF i = 1 THEN ss[i] ELSE h[i - 1] \o ss[i]
    BY <2>3 DEF Joins
  <2>5. 0 \in T
    OBVIOUS
  <2>6. ASSUME NEW i \in Nat, i \in T PROVE i + 1 \in T
    <3>1. SUFFICES ASSUME i + 1 \in 1 .. n PROVE Has(i + 1)
      OBVIOUS
    <3>2. CASE i = 0
      <4>1. h[1] = ss[1] /\ 1 \in 1 .. n
        BY <2>1, <2>4
      <4>2. \A j \in 1 .. 1 : j = 1
        OBVIOUS
      <4> QED
        BY <2>1, <3>2, <4>1, <4>2
    <3>3. CASE i # 0
      <4>1. i \in 1 .. n /\ Has(i) /\ h[i + 1] = h[i] \o ss[i + 1] /\ ss[i + 1] \in Seq(S)
        <5>1. i \in 1 .. n /\ i + 1 # 1 /\ (i + 1) - 1 = i
          BY <2>1, <3>1, <3>3
        <5> QED
          BY <2>1, <2>4, <2>6, <3>1, <5>1
      <4> DEFINE a == h[i]
                 b == ss[i + 1]
      <4>2. a \in Seq(S) /\ b \in Seq(S) /\ h[i + 1] = a \o b
        BY <4>1
      <4>3. \A j \in 1 .. i : \A e \in DOMAIN ss[j] : \E k \in DOMAIN a : a[k] = ss[j][e]
        BY <4>1
      <4> HIDE DEF a
      <4>4. /\ a \o b \in Seq(S)
            /\ \A k \in DOMAIN a : k \in DOMAIN (a \o b) /\ (a \o b)[k] = a[k]
            /\ \A k \in DOMAIN b : Len(a) + k \in DOMAIN (a \o b) /\ (a \o b)[Len(a) + k] = b[k]
        BY <4>2
      <4>5. ASSUME NEW j \in 1 .. i + 1, NEW e \in DOMAIN ss[j]
            PROVE  \E k \in DOMAIN (a \o b) : (a \o b)[k] = ss[j][e]
        <5>1. CASE j = i + 1
          BY <4>4, <5>1
        <5>2. CASE j # i + 1
          <6>1. j \in 1 .. i
            BY <5>2
          <6> QED
            BY <4>3, <4>4, <6>1
        <5> QED
          BY <5>1, <5>2
      <4> QED
        BY <4>2, <4>4, <4>5
    <3> QED
      BY <3>2, <3>3
  <2>7. Nat \subseteq T
    <3> HIDE DEF T
    <3> QED
      BY <2>5, <2>6, Induction
  <2>8. n \in T /\ n \in 1 .. n
    BY <2>1, <2>7
  <2>9. Has(n)
    BY <2>8
  <2> QED
    BY <2>1, <2>2, <2>9
<1>3. Len(ss) \in Nat
  OBVIOUS
<1> QED
  BY <1>1, <1>2

\* Two such functions agree as far as the sequences they join do.
LEMMA JoinsAgree ==
  ASSUME NEW ss, NEW tt, NEW m \in Nat, NEW n \in Nat, NEW h, NEW k,
         Joins(h, ss, m), Joins(k, tt, n), m <= n, \A i \in 1 .. m : ss[i] = tt[i]
  PROVE  \A i \in 1 .. m : h[i] = k[i]
<1> DEFINE T == {i \in Nat : i \in 1 .. m => h[i] = k[i]}
<1>1. 0 \in T
  OBVIOUS
<1>2. ASSUME NEW i \in Nat, i \in T PROVE i + 1 \in T
  <2>1. SUFFICES ASSUME i + 1 \in 1 .. m PROVE h[i + 1] = k[i + 1]
    OBVIOUS
  <2>2. i + 1 \in 1 .. n /\ ss[i + 1] = tt[i + 1] /\ (i + 1) - 1 = i
    BY <2>1
  <2>3. /\ h[i + 1] = IF i + 1 = 1 THEN ss[i + 1] ELSE h[i] \o ss[i + 1]
        /\ k[i + 1] = IF i + 1 = 1 THEN tt[i + 1] ELSE k[i] \o tt[i + 1]
    BY <2>1, <2>2 DEF Joins
  <2>4. CASE i = 0
    BY <2>2, <2>3, <2>4
  <2>5. CASE i # 0
    <3>1. h[i] = k[i]
      BY <1>2, <2>1, <2>5
    <3> QED
      BY <2>2, <2>3, <2>5, <3>1
  <2> QED
    BY <2>4, <2>5
<1>3. Nat \subseteq T
  <2> HIDE DEF T
  <2> QED
    BY <1>1, <1>2, Induction
<1> QED
  BY <1>3

\* So does the function that joins one more.
LEMMA JoinsAgreeBefore ==
  ASSUME NEW ss, NEW tt, NEW n \in Nat, NEW h, NEW k,
         Joins(h, ss, n), Joins(k, tt, n + 1), \A i \in 1 .. n : ss[i] = tt[i]
  PROVE  \A i \in 1 .. n : h[i] = k[i]
<1> DEFINE l == n + 1
<1>1. l \in Nat /\ n <= l /\ Joins(k, tt, l)
  OBVIOUS
<1> HIDE DEF l
<1> QED
  BY <1>1, JoinsAgree

\* Flattening one sequence more.
LEMMA FlattenAfter ==
  ASSUME NEW ss, NEW tt, NEW n \in Nat, n # 0, Len(ss) = n, Len(tt) = n + 1,
         \A i \in 1 .. n : ss[i] = tt[i]
  PROVE  FlattenSeq(tt) = FlattenSeq(ss) \o tt[n + 1]
<1>1. PICK h : Joins(h, ss, n) /\ FlattenSeq(ss) = h[n]
  BY FlattenJoins
<1>2. PICK k : Joins(k, tt, n + 1) /\ FlattenSeq(tt) = k[n + 1]
  <2>1. Len(tt) \in Nat /\ Len(tt) # 0
    OBVIOUS
  <2> QED
    BY <2>1, FlattenJoins
<1>3. h[n] = k[n]
  BY <1>1, <1>2, JoinsAgreeBefore
<1>4. n + 1 \in 1 .. n + 1 /\ (n + 1) - 1 = n /\ n + 1 # 1
  OBVIOUS
<1>5. k[n + 1] = k[n] \o tt[n + 1]
  BY <1>2, <1>4 DEF Joins
<1> QED
  BY <1>1, <1>2, <1>3, <1>5

\* Flattening none, and a sequence more.
LEMMA FlattenMore ==
  ASSUME NEW S, NEW ss \in Seq(Seq(S)), NEW t \in Seq(S)
  PROVE  /\ FlattenSeq(<< >>) = << >>
         /\ FlattenSeq(Append(ss, t)) = FlattenSeq(ss) \o t
<1> DEFINE n == Len(ss)
           tt == Append(ss, t)
<1>1. /\ n \in Nat /\ tt \in Seq(Seq(S)) /\ Len(tt) = n + 1 /\ tt[n + 1] = t
      /\ \A i \in 1 .. n : tt[i] = ss[i]
  OBVIOUS
<1>2. FlattenSeq(<< >>) = << >>
  BY DEF FlattenSeq
<1> HIDE DEF tt
<1>3. CASE n = 0
  <2>1. ss = << >> /\ FlattenSeq(ss) = << >> /\ << >> \o t = t
    BY <1>2, <1>3
  <2>2. Len(tt) \in Nat /\ Len(tt) = 1 /\ tt[1] = t
    BY <1>1, <1>3
  <2>3. PICK k : Joins(k, tt, 1) /\ FlattenSeq(tt) = k[1]
    <3>1. Len(tt) \in Nat /\ Len(tt) # 0
      BY <2>2
    <3> QED
      BY <2>2, <3>1, FlattenJoins
  <2>4. k[1] = tt[1]
    BY <2>3 DEF Joins
  <2> QED
    BY <1>2, <2>1, <2>2, <2>3, <2>4 DEF tt
<1>4. CASE n # 0
  <2>1. n \in Nat /\ Len(ss) = n /\ Len(tt) = n + 1 /\ \A i \in 1 .. n : ss[i] = tt[i]
    BY <1>1
  <2> HIDE DEF n
  <2>2. FlattenSeq(tt) = FlattenSeq(ss) \o tt[n + 1]
    BY <1>4, <2>1, FlattenAfter
  <2> QED
    BY <1>1, <1>2, <2>2 DEF tt
<1> QED
  BY <1>3, <1>4

\* Flattening can be cut in two.
LEMMA FlattenInTwo ==
  ASSUME NEW S, NEW ss \in Seq(Seq(S)), NEW tt \in Seq(Seq(S))
  PROVE  FlattenSeq(ss \o tt) = FlattenSeq(ss) \o FlattenSeq(tt)
<1> DEFINE u(i) == SubSeq(tt, 1, i)
           T == {i \in Nat : i <= Len(tt) => FlattenSeq(ss \o u(i)) = FlattenSeq(ss) \o FlattenSeq(u(i))}
<1>1. 0 \in T
  <2>1. u(0) = << >> /\ ss \o << >> = ss /\ << >> \in Seq(S)
    OBVIOUS
  <2>2. FlattenSeq(<< >>) = << >> /\ FlattenSeq(ss) \in Seq(S)
    BY <2>1, FlattenMore, Flattened
  <2>3. FlattenSeq(ss) \o << >> = FlattenSeq(ss)
    BY <2>2
  <2> QED
    BY <2>1, <2>2, <2>3
<1>2. ASSUME NEW i \in Nat, i \in T PROVE i + 1 \in T
  <2>1. SUFFICES ASSUME i + 1 <= Len(tt)
                 PROVE  FlattenSeq(ss \o u(i + 1)) = FlattenSeq(ss) \o FlattenSeq(u(i + 1))
    OBVIOUS
  <2> DEFINE v == u(i)
             w == ss \o v
             e == tt[i + 1]
  <2>2. e \in Seq(S) /\ v \in Seq(Seq(S)) /\ w \in Seq(Seq(S))
    BY <2>1
  <2>3. u(i + 1) = Append(v, e)
    BY <2>1
  <2>4. ss \o u(i + 1) = Append(w, e)
    BY <2>2, <2>3
  <2>5. FlattenSeq(w) = FlattenSeq(ss) \o FlattenSeq(v)
    BY <1>2, <2>1
  <2> HIDE DEF u, v, w, e
  <2>6. FlattenSeq(Append(w, e)) = FlattenSeq(w) \o e /\ FlattenSeq(Append(v, e)) = FlattenSeq(v) \o e
    BY <2>2, FlattenMore
  <2>7. FlattenSeq(ss) \in Seq(S) /\ FlattenSeq(v) \in Seq(S)
    BY <2>2, Flattened
  <2> DEFINE a == FlattenSeq(ss)
             b == FlattenSeq(v)
  <2> HIDE DEF a, b
  <2>8. (a \o b) \o e = a \o (b \o e)
    BY <2>2, <2>7 DEF a, b
  <2> QED
    BY <2>3, <2>4, <2>5, <2>6, <2>8 DEF a, b
<1>3. Nat \subseteq T
  <2> HIDE DEF T
  <2> QED
    BY <1>1, <1>2, Induction
<1>4. Len(tt) \in Nat /\ Len(tt) <= Len(tt) /\ u(Len(tt)) = tt
  OBVIOUS
<1> HIDE DEF u
<1>5. \A i \in T : i <= Len(tt) => FlattenSeq(ss \o u(i)) = FlattenSeq(ss) \o FlattenSeq(u(i))
  OBVIOUS
<1> HIDE DEF T
<1>6. Len(tt) \in T
  BY <1>3, <1>4
<1>7. FlattenSeq(ss \o u(Len(tt))) = FlattenSeq(ss) \o FlattenSeq(u(Len(tt)))
  BY <1>4, <1>5, <1>6
<1> QED
  BY <1>4, <1>7

\* A fold of some sequences one after the other goes through what each of them
\* makes of what those before it made.
LEMMA FoldThrough ==
  ASSUME NEW S, NEW ss \in Seq(Seq(S)), NEW f,
         \A i \in 1 .. Len(ss) : Fold(f[i - 1], ss[i]) = f[i]
  PROVE  Fold(f[0], FlattenSeq(ss)) = f[Len(ss)]
<1> DEFINE upto(n) == SubSeq(ss, 1, n)
           T == {n \in Nat : n <= Len(ss) => Fold(f[0], FlattenSeq(upto(n))) = f[n]}
<1>1. 0 \in T
  <2>1. upto(0) = << >>
    BY SubSeqProperties
  <2>2. FlattenSeq(<< >>) = << >> /\ Fold(f[0], << >>) = f[0]
    BY FlattenMore, FoldNothing
  <2> QED
    BY <2>1, <2>2
<1>2. ASSUME NEW n \in Nat, n \in T PROVE n + 1 \in T
  <2> SUFFICES ASSUME n + 1 <= Len(ss) PROVE Fold(f[0], FlattenSeq(upto(n + 1))) = f[n + 1]
    OBVIOUS
  <2>1. Len(ss) \in Nat /\ n + 1 \in 1 .. Len(ss) /\ ss[n + 1] \in Seq(S)
    BY ElementOfSeq
  <2>2. upto(n) \in Seq(Seq(S)) /\ upto(n + 1) = Append(upto(n), ss[n + 1])
    <3>1. /\ upto(n) \in Seq(Seq(S)) /\ Len(upto(n)) = n /\ \A i \in 1 .. n : upto(n)[i] = ss[i]
          /\ upto(n + 1) \in Seq(Seq(S)) /\ Len(upto(n + 1)) = n + 1
          /\ \A i \in 1 .. n + 1 : upto(n + 1)[i] = ss[i]
      BY <2>1, SubSeqProperties
    <3> DEFINE a == upto(n)
               b == upto(n + 1)
               c == Append(a, ss[n + 1])
    <3> HIDE DEF a, b
    <3>2. /\ c \in Seq(Seq(S)) /\ Len(c) = n + 1 /\ c[n + 1] = ss[n + 1]
          /\ \A i \in 1 .. n : c[i] = a[i]
      BY <2>1, <3>1, AppendProperties DEF a
    <3> HIDE DEF c
    <3>3. \A i \in 1 .. Len(b) : b[i] = c[i]
      BY <3>1, <3>2 DEF a, b
    <3>4. b = c
      BY <3>1, <3>2, <3>3, SeqEqual DEF b
    <3> QED
      BY <3>1, <3>4 DEF a, b, c
  <2> HIDE DEF upto
  <2>3. FlattenSeq(upto(n + 1)) = FlattenSeq(upto(n)) \o ss[n + 1] /\ FlattenSeq(upto(n)) \in Seq(S)
    BY <2>1, <2>2, FlattenMore, Flattened
  <2> DEFINE p == FlattenSeq(upto(n))
  <2>4. Fold(f[0], p) = f[n]
    BY <1>2, <2>1
  <2> HIDE DEF p
  <2>5. Fold(f[0], p \o ss[n + 1]) = Fold(Fold(f[0], p), ss[n + 1])
    BY <2>1, <2>3, FoldInTwo DEF p
  <2>6. Fold(f[n], ss[n + 1]) = f[n + 1]
    <3>1. Fold(f[(n + 1) - 1], ss[n + 1]) = f[n + 1] /\ (n + 1) - 1 = n
      BY <2>1
    <3> QED
      BY <3>1
  <2> QED
    BY <2>3, <2>4, <2>5, <2>6 DEF p
<1> HIDE DEF T, upto
<1>3. Len(ss) \in T
  BY <1>1, <1>2, Induction
<1>4. upto(Len(ss)) = ss
  BY SubSeqProperties, SeqEqual DEF upto
<1> QED
  BY <1>3, <1>4 DEF T

\* A fold of one element is one step.
LEMMA FoldOne ==
  ASSUME NEW base, NEW e
  PROVE  Fold(base, <<e>>) = Op(base, e)
<1>1. << >> \in Seq({e}) /\ e \in {e} /\ Append(<< >>, e) = <<e>>
  OBVIOUS
<1>2. Fold(base, Append(<< >>, e)) = Op(Fold(base, << >>), e)
  BY <1>1, FoldOneMore
<1> QED
  BY <1>1, <1>2, FoldNothing
=============================================================================
