----------------------------- MODULE FoldLemmas -----------------------------
(***************************************************************************)
(* What the folds of the community modules compute, for data of any size:  *)
(* MapThenSumSet adds up naturals, and FlattenSeq joins what was cut.      *)
(*                                                                         *)
(* Both are recursive functions, chosen by their equation.  So two things  *)
(* have to be shown: that some function satisfies it, by writing one down, *)
(* and that no other does.  For the second, a least place where two differ *)
(* is one where they do not.  A sum of naturals is written down as a       *)
(* number of pairs, which makes sums comparable by comparing sets.         *)
(***************************************************************************)
EXTENDS Integers, FiniteSetsExt, SequencesExt,
        FiniteSetTheorems, SequenceTheorems, WellFoundedInduction, TLAPS

-----------------------------------------------------------------------------
(* Sums                                                                    *)

\* A sum of naturals counts pairs: an element and a number up to its weight.
Weights(f, s) == {w \in s \X Nat : w[2] \in 1..f[w[1]]}

AnyOf(s) == CHOOSE x \in s : TRUE

\* The function of the partial sums that MapThenSumSet folds with.
Partial(g, f, S) ==
  g = [s \in SUBSET S |-> IF s = {} THEN 0 ELSE f[AnyOf(s)] + g[s \ {AnyOf(s)}]]

LEMMA OneWeight ==
  ASSUME NEW x, NEW n \in Nat
  PROVE  IsFiniteSet({x} \X (1..n)) /\ Cardinality({x} \X (1..n)) = n
<1>1. IsFiniteSet({x}) /\ Cardinality({x}) = 1
  BY FS_Singleton
<1>2. IsFiniteSet(1..n) /\ Cardinality(1..n) = n
  BY FS_Interval
<1>3. /\ IsFiniteSet({x} \X (1..n))
      /\ Cardinality({x} \X (1..n)) = Cardinality({x}) * Cardinality(1..n)
  BY <1>1, <1>2, FS_Product
<1> QED
  BY <1>1, <1>2, <1>3

LEMMA WeightsFinite ==
  ASSUME NEW S, IsFiniteSet(S), NEW f \in [S -> Nat]
  PROVE  IsFiniteSet(Weights(f, S)) /\ Cardinality(Weights(f, S)) \in Nat
<1> DEFINE h == [x \in S |-> {x} \X (1..f[x])]
           T == {h[x] : x \in S}
<1>1. h \in Surjection(S, T)
  BY DEF Surjection
<1>2. IsFiniteSet(T)
  BY <1>1, FS_Surjection
<1>3. \A t \in T : IsFiniteSet(t)
  <2> SUFFICES ASSUME NEW x \in S PROVE IsFiniteSet({x} \X (1..f[x]))
    OBVIOUS
  <2> QED
    BY OneWeight
<1>4. IsFiniteSet(UNION T)
  BY <1>2, <1>3, FS_UNION
<1>5. Weights(f, S) \in SUBSET UNION T
  <2> SUFFICES ASSUME NEW w \in Weights(f, S) PROVE \E x \in S : w \in h[x]
    OBVIOUS
  <2>1. w = <<w[1], w[2]>> /\ w[1] \in S /\ w[2] \in 1..f[w[1]]
    BY DEF Weights
  <2>2. w \in h[w[1]]
    BY <2>1
  <2> QED
    BY <2>1, <2>2
<1>6. IsFiniteSet(Weights(f, S))
  BY <1>4, <1>5, FS_Subset
<1> QED
  BY <1>6, FS_CardinalityType

\* The weights of one element are added to those of the others.
LEMMA WeightsAdd ==
  ASSUME NEW S, IsFiniteSet(S), NEW f \in [S -> Nat], NEW s \in SUBSET S, NEW x \in s
  PROVE  Cardinality(Weights(f, s)) = f[x] + Cardinality(Weights(f, s \ {x}))
<1> DEFINE one == {x} \X (1..f[x])
           others == Weights(f, s \ {x})
<1>1. f[x] \in Nat
  OBVIOUS
<1>2. IsFiniteSet(Weights(f, S))
  BY WeightsFinite
<1>3. others \in SUBSET Weights(f, S)
  BY DEF Weights
<1>4. IsFiniteSet(others) /\ Cardinality(others) \in Nat
  BY <1>2, <1>3, FS_Subset, FS_CardinalityType
<1>5. Weights(f, s) = one \cup others
  BY <1>1 DEF Weights
<1>6. one \cap others = {}
  BY DEF Weights
<1>7. IsFiniteSet(one) /\ Cardinality(one) = f[x]
  BY <1>1, OneWeight
<1>8. Cardinality(one \cup others) = Cardinality(one) + Cardinality(others) - Cardinality(one \cap others)
  BY <1>4, <1>7, FS_Union
<1>9. Cardinality(one \cap others) = 0
  BY <1>6, FS_EmptySet
<1> QED
  BY <1>1, <1>4, <1>5, <1>7, <1>8, <1>9

LEMMA NoWeights == ASSUME NEW f PROVE Cardinality(Weights(f, {})) = 0
<1>1. Weights(f, {}) = {}
  BY DEF Weights
<1> QED
  BY <1>1, FS_EmptySet

LEMMA AnyIsOneOf == ASSUME NEW s, s # {} PROVE AnyOf(s) \in s
  BY DEF AnyOf

\* There are partial sums: the numbers of weights.
LEMMA PartialSumsExist ==
  ASSUME NEW S, IsFiniteSet(S), NEW f \in [S -> Nat]
  PROVE  \E g : Partial(g, f, S)
<1> DEFINE g == [s \in SUBSET S |-> Cardinality(Weights(f, s))]
           h == [s \in SUBSET S |-> IF s = {} THEN 0 ELSE f[AnyOf(s)] + g[s \ {AnyOf(s)}]]
<1>1. ASSUME NEW s \in SUBSET S PROVE g[s] = h[s]
  <2>1. CASE s = {}
    BY <2>1, NoWeights
  <2>2. CASE s # {}
    <3>1. AnyOf(s) \in s
      BY <2>2, AnyIsOneOf
    <3>2. s \ {AnyOf(s)} \in SUBSET S
      OBVIOUS
    <3>3. Cardinality(Weights(f, s)) = f[AnyOf(s)] + Cardinality(Weights(f, s \ {AnyOf(s)}))
      BY <3>1, WeightsAdd
    <3> QED
      BY <2>2, <3>2, <3>3
  <2> QED
    BY <2>1, <2>2
<1>2. g = h
  BY <1>1
<1>3. Partial(g, f, S)
  BY <1>2 DEF Partial
<1> QED
  BY <1>3

\* And no others: the smallest set with another sum would have an element.
LEMMA PartialSumsCount ==
  ASSUME NEW S, IsFiniteSet(S), NEW f \in [S -> Nat], NEW g, Partial(g, f, S)
  PROVE  g[S] = Cardinality(Weights(f, S))
<1> DEFINE Other == {s \in SUBSET S : g[s] # Cardinality(Weights(f, s))}
<1> SUFFICES ASSUME Other # {} PROVE FALSE
  OBVIOUS
<1>1. IsWellFoundedOn(StrictSubsetOrdering(S), SUBSET S)
  BY FS_StrictSubsetOrderingWellFounded, FS_FiniteSubsetsOfFinite
<1>2. PICK s \in Other : \A t \in Other : ~(<<t, s>> \in StrictSubsetOrdering(S))
  BY <1>1, WFMin
<1>3. g[s] = IF s = {} THEN 0 ELSE f[AnyOf(s)] + g[s \ {AnyOf(s)}]
  BY DEF Partial
<1>4. CASE s = {}
  BY <1>3, <1>4, NoWeights
<1>5. CASE s # {}
  <2>1. AnyOf(s) \in s
    BY <1>5, AnyIsOneOf
  <2> DEFINE t == s \ {AnyOf(s)}
  <2>2. t \in SUBSET S /\ <<t, s>> \in StrictSubsetOrdering(S)
    BY <2>1 DEF StrictSubsetOrdering
  <2>3. g[t] = Cardinality(Weights(f, t))
    BY <1>2, <2>2
  <2>4. Cardinality(Weights(f, s)) = f[AnyOf(s)] + Cardinality(Weights(f, t))
    BY <2>1, WeightsAdd
  <2> QED
    BY <1>3, <1>5, <2>3, <2>4
<1> QED
  BY <1>4, <1>5

\* What MapThenSumSet adds up is the number of weights.
LEMMA SumIsCount ==
  ASSUME NEW S, IsFiniteSet(S), NEW f \in [S -> Nat]
  PROVE  MapThenSumSet(LAMBDA x : f[x], S) = Cardinality(Weights(f, S))
<1> DEFINE g == CHOOSE g : Partial(g, f, S)
<1>1. Partial(g, f, S)
  BY PartialSumsExist
<1>2. MapThenSumSet(LAMBDA x : f[x], S) = g[S]
  BY DEF MapThenSumSet, MapThenFoldSet, Partial, AnyOf
<1> HIDE DEF g
<1> QED
  BY <1>1, <1>2, PartialSumsCount

\* A sum that is not zero has a part that is not.
LEMMA SomeWeight ==
  ASSUME NEW R, IsFiniteSet(R), NEW f \in [R -> Nat], Cardinality(Weights(f, R)) >= 1
  PROVE  \E r \in R : f[r] >= 1
<1>1. Weights(f, R) # {}
  BY FS_EmptySet
<1>2. PICK w \in Weights(f, R) : TRUE
  BY <1>1
<1>3. w[1] \in R /\ 1 <= w[2] /\ w[2] <= f[w[1]] /\ w[2] \in Nat
  BY <1>2 DEF Weights
<1> QED
  BY <1>3

\* If every element has a partner of its own that weighs as much, the partners
\* weigh as much together.
LEMMA PartnersWeigh ==
  ASSUME NEW R, IsFiniteSet(R), NEW f \in [R -> Nat],
         NEW S, IsFiniteSet(S), NEW g \in [S -> Nat],
         NEW h \in [R -> S], \A q, r \in R : h[q] = h[r] => q = r,
         \A r \in R : f[r] <= g[h[r]]
  PROVE  Cardinality(Weights(f, R)) <= Cardinality(Weights(g, S))
<1> DEFINE F == Weights(f, R)
           G == Weights(g, S)
           m == [w \in F |-> <<h[w[1]], w[2]>>]
<1>1. ASSUME NEW w \in F PROVE m[w] \in G
  <2>1. w[1] \in R /\ w[2] \in Nat /\ w[2] \in 1..f[w[1]]
    BY DEF Weights
  <2>2. h[w[1]] \in S /\ f[w[1]] <= g[h[w[1]]] /\ f[w[1]] \in Nat /\ g[h[w[1]]] \in Nat
    BY <2>1
  <2>3. w[2] \in 1..g[h[w[1]]]
    BY <2>1, <2>2
  <2> QED
    BY <2>1, <2>2, <2>3 DEF Weights
<1>2. ASSUME NEW v \in F, NEW w \in F, m[v] = m[w] PROVE v = w
  <2>1. v = <<v[1], v[2]>> /\ w = <<w[1], w[2]>> /\ v[1] \in R /\ w[1] \in R
    BY DEF Weights
  <2>2. h[v[1]] = h[w[1]] /\ v[2] = w[2]
    BY <1>2
  <2>3. v[1] = w[1]
    BY <2>1, <2>2
  <2> QED
    BY <2>1, <2>2, <2>3
<1>3. m \in Injection(F, G)
  BY <1>1, <1>2 DEF Injection, IsInjective
<1>4. IsFiniteSet(G)
  BY WeightsFinite
<1> HIDE DEF m, F, G
<1>5. Cardinality(F) <= Cardinality(G)
  BY <1>3, <1>4, FS_Injection
<1> QED
  BY <1>5 DEF F, G

-----------------------------------------------------------------------------
(* Joined sequences                                                        *)

Less == {d \in Nat \X Nat : d[1] < d[2]}
\* The naturals are well-ordered by <.
LEMMA LeastExists ==
  ASSUME NEW S, S \subseteq Nat, S # {}
  PROVE  \E m \in S : \A n \in S : m <= n
<1>1. IsWellFoundedOn(OpToRel(<, Nat), Nat)
  BY NatLessThanWellFounded
<1>2. Less \cap (Nat \X Nat) \subseteq OpToRel(<, Nat)
  BY DEF OpToRel, Less
<1>3. IsWellFoundedOn(Less, Nat)
  BY <1>1, <1>2, IsWellFoundedOnSubrelation
<1>4. PICK m \in S : \A n \in S : ~(<<n, m>> \in Less)
  BY <1>3, WFMin
<1>5. ASSUME NEW n \in S PROVE m <= n
  <2>1. n \in Nat /\ m \in Nat /\ ~(<<n, m>> \in Less)
    BY <1>4
  <2>2. ~(n < m)
    BY <2>1 DEF Less
  <2> QED
    BY <2>1, <2>2
<1> QED
  BY <1>5

\* q cuts s at the places c.
CutsAt(q, s, c, n) ==
  /\ c \in [0..n -> 0..Len(s)] /\ c[0] = 0 /\ c[n] = Len(s)
  /\ \A i \in 1..n : c[i - 1] <= c[i] /\ q[i] = SubSeq(s, c[i - 1] + 1, c[i])

\* What FlattenSeq builds from the front of q.
Joined(g, q, n) ==
  g = [i \in 1..n |-> IF i = 1 THEN q[i] ELSE g[i - 1] \o q[i]]

\* A sequence that was cut is what joining the pieces gives.
LEMMA JoinsWhatWasCut ==
  ASSUME NEW X, NEW s \in Seq(X), NEW n \in Nat \ {0}, NEW q, NEW c, CutsAt(q, s, c, n)
  PROVE  /\ \E g : Joined(g, q, n)
         /\ \A g : Joined(g, q, n) => g[n] = s
<1> DEFINE g0 == [i \in 1..n |-> SubSeq(s, 1, c[i])]
<1>0. Len(s) \in Nat /\ \A i \in 0..n : c[i] \in 0..Len(s)
  BY LenProperties DEF CutsAt
<1>1. ASSUME NEW i \in 1..n, i # 1
      PROVE  SubSeq(s, 1, c[i - 1]) \o q[i] = SubSeq(s, 1, c[i])
  <2>1. c[i - 1] \in 0..Len(s) /\ c[i] \in c[i - 1]..Len(s) /\ q[i] = SubSeq(s, c[i - 1] + 1, c[i])
    BY <1>0 DEF CutsAt
  <2>2. 1 \in 1..Len(s)+1 /\ c[i - 1] \in (1 - 1)..Len(s)
    BY <1>0, <2>1
  <2> QED
    BY <2>1, <2>2, ConcatAdjacentSubSeq
<1>2. q[1] = SubSeq(s, 1, c[1])
  <2>1. c[1 - 1] = 0 /\ q[1] = SubSeq(s, c[1 - 1] + 1, c[1])
    BY DEF CutsAt
  <2> QED
    BY <2>1
<1>3. Joined(g0, q, n)
  <2>1. ASSUME NEW i \in 1..n PROVE g0[i] = IF i = 1 THEN q[i] ELSE g0[i - 1] \o q[i]
    <3>1. CASE i = 1
      BY <1>2, <3>1
    <3>2. CASE i # 1
      <4>1. i - 1 \in 1..n
        BY <3>2
      <4>2. g0[i - 1] = SubSeq(s, 1, c[i - 1])
        BY <4>1
      <4> QED
        BY <1>1, <3>2, <4>2
    <3> QED
      BY <3>1, <3>2
  <2> DEFINE h == [i \in 1..n |-> IF i = 1 THEN q[i] ELSE g0[i - 1] \o q[i]]
  <2>2. g0 = h
    BY <2>1
  <2> QED
    BY <2>2 DEF Joined
<1>4. ASSUME NEW g, Joined(g, q, n) PROVE g[n] = s
  <2> DEFINE Other == {i \in 1..n : g[i] # SubSeq(s, 1, c[i])}
  <2>1. Other = {}
    <3> SUFFICES ASSUME Other # {} PROVE FALSE
      OBVIOUS
    <3>0. Other \subseteq Nat
      OBVIOUS
    <3>1. PICK i \in Other : \A j \in Other : i <= j
      <4> HIDE DEF Other
      <4> QED
        BY <3>0, LeastExists
    <3>2. g[i] = IF i = 1 THEN q[i] ELSE g[i - 1] \o q[i]
      BY <1>4 DEF Joined
    <3>3. i # 1
      BY <1>2, <3>2
    <3>4. i - 1 \in 1..n /\ i - 1 \notin Other
      BY <3>1, <3>3
    <3>5. g[i - 1] = SubSeq(s, 1, c[i - 1])
      BY <3>4
    <3> QED
      BY <1>1, <3>2, <3>3, <3>5
  <2>2. g[n] = SubSeq(s, 1, Len(s))
    <3>1. n \in 1..n /\ c[n] = Len(s)
      BY DEF CutsAt
    <3> QED
      BY <2>1, <3>1
  <2> QED
    BY <2>2, SubSeqFull
<1> QED
  BY <1>3, <1>4

LEMMA FlattenGivesWhole ==
  ASSUME NEW X, NEW s \in Seq(X), NEW n \in Nat \ {0}, NEW q, NEW c, CutsAt(q, s, c, n),
         Len(q) = n
  PROVE  FlattenSeq(q) = s
<1> DEFINE g == CHOOSE g : Joined(g, q, n)
<1>1. Joined(g, q, n)
  BY JoinsWhatWasCut
<1>2. FlattenSeq(q) = IF n = 0 THEN q ELSE g[n]
  BY DEF FlattenSeq, Joined
<1> HIDE DEF g
<1> QED
  BY <1>1, <1>2, JoinsWhatWasCut
=============================================================================
