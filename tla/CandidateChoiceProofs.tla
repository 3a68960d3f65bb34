------------------------ MODULE CandidateChoiceProofs ------------------------
(***************************************************************************)
(* The choice of a stage's candidates is diverse, for any pool, caps and   *)
(* room.  The argument has three strands.  A cap that lets nobody of a     *)
(* class through never does again, as counts only grow: so whoever still   *)
(* fits has not been put aside and waits.  A family that still waits has   *)
(* had its turn in every round, and no family has had more.  And a round   *)
(* without progress has emptied the queues that it has passed.             *)
(*                                                                         *)
(* That the queues hold every candidate rests on EveryRankIsTaken: ranks   *)
(* under a strict total order are different numbers below the number of    *)
(* elements, so each number is somebody's rank.                            *)
(***************************************************************************)
EXTENDS CandidateChoice, FiniteSetTheorems, SequenceTheorems, TLAPS

-----------------------------------------------------------------------------
(* Orders                                                                  *)

\* A strict total order on S.
Orders(before, S) ==
  /\ \A x \in S : <<x, x>> \notin before
  /\ \A x, y, z \in S : <<x, y>> \in before /\ <<y, z>> \in before => <<x, z>> \in before
  /\ \A x, y \in S : x # y => <<x, y>> \in before \/ <<y, x>> \in before

Before(x, S, before) == {y \in S : <<y, x>> \in before}

\* How many come before an element tells which it is, and every number does.
LEMMA EveryRankIsTaken ==
  ASSUME NEW S, IsFiniteSet(S), NEW before, Orders(before, S)
  PROVE  /\ Cardinality(S) \in Nat
         /\ \A i \in 1..Cardinality(S) :
              \E x \in S : Cardinality(Before(x, S, before)) = i - 1
         /\ \A x \in S : Cardinality(Before(x, S, before)) \in 0..(Cardinality(S) - 1)
         /\ \A x, y \in S :
              Cardinality(Before(x, S, before)) = Cardinality(Before(y, S, before)) => x = y
<1> DEFINE n == Cardinality(S)
           rank(x) == Cardinality(Before(x, S, before))
           f == [x \in S |-> rank(x)]
           T == 0..(n - 1)
<1>1. n \in Nat
  BY FS_CardinalityType
<1>2. ASSUME NEW x \in S PROVE IsFiniteSet(Before(x, S, before)) /\ rank(x) \in T
  <2>1. Before(x, S, before) \in SUBSET (S \ {x})
    BY DEF Before, Orders
  <2>2. IsFiniteSet(S \ {x}) /\ Cardinality(S \ {x}) = n - 1
    BY FS_RemoveElement
  <2>3. IsFiniteSet(Before(x, S, before)) /\ rank(x) <= n - 1
    BY <2>1, <2>2, FS_Subset
  <2>4. rank(x) \in Nat
    BY <2>3, FS_CardinalityType
  <2> QED
    BY <1>1, <2>3, <2>4
<1>3. ASSUME NEW x \in S, NEW y \in S, <<x, y>> \in before PROVE rank(x) < rank(y)
  <2> DEFINE upto == Before(x, S, before) \cup {x}
  <2>1. x \notin Before(x, S, before) /\ upto \in SUBSET Before(y, S, before)
    BY <1>3 DEF Before, Orders
  <2>2. Cardinality(upto) = rank(x) + 1
    BY <1>2, <2>1, FS_AddElement
  <2>3. rank(x) + 1 <= rank(y)
    BY <1>2, <2>1, <2>2, FS_Subset
  <2> QED
    BY <1>1, <1>2, <2>3
<1>4. ASSUME NEW x \in S, NEW y \in S, rank(x) = rank(y) PROVE x = y
  <2>1. rank(x) \in Int
    BY <1>1, <1>2
  <2>2. <<x, y>> \notin before /\ <<y, x>> \notin before
    BY <1>3, <1>4, <2>1
  <2> QED
    BY <2>2 DEF Orders
<1> HIDE DEF rank
<1>5. f \in Injection(S, T)
  BY <1>2, <1>4 DEF Injection, IsInjective
<1>6. IsFiniteSet(T) /\ Cardinality(T) = n
  BY <1>1, FS_Interval
<1> HIDE DEF f, T, n
<1>7. f \in Surjection(S, T)
  BY <1>5, <1>6, FS_Injection DEF n
<1>8. \A r \in T : \E x \in S : f[x] = r
  BY <1>7 DEF Surjection
<1>9. \A i \in 1..n : \E x \in S : rank(x) = i - 1
  <2> SUFFICES ASSUME NEW i \in 1..n PROVE \E x \in S : rank(x) = i - 1
    OBVIOUS
  <2>1. i - 1 \in T
    BY <1>1 DEF T
  <2>2. PICK x \in S : f[x] = i - 1
    BY <1>8, <2>1
  <2> QED
    BY <2>2 DEF f
<1>10. \A x \in S : rank(x) \in 0..(n - 1)
  BY <1>1, <1>2 DEF T
<1> QED
  BY <1>1, <1>4, <1>9, <1>10 DEF rank, n

\* InOrder is the sequence of S's elements, each of them once.
LEMMA InOrderLists ==
  ASSUME NEW S, IsFiniteSet(S), NEW before, Orders(before, S)
  PROVE  /\ InOrder(S, before) \in Seq(S)
         /\ \A i, j \in DOMAIN InOrder(S, before) :
              InOrder(S, before)[i] = InOrder(S, before)[j] => i = j
         /\ \A x \in S : \E i \in DOMAIN InOrder(S, before) : InOrder(S, before)[i] = x
<1> DEFINE q == InOrder(S, before)
           n == Cardinality(S)
           rank(x) == Cardinality(Before(x, S, before))
<1>1. n \in Nat
  BY EveryRankIsTaken
<1>2. \A i \in 1..n : \E x \in S : rank(x) = i - 1
  BY EveryRankIsTaken
<1>3. \A x \in S : rank(x) \in 0..(n - 1)
  BY EveryRankIsTaken
<1>4. \A x, y \in S : rank(x) = rank(y) => x = y
  BY EveryRankIsTaken
<1>5. q = [i \in 1..n |-> CHOOSE x \in S : rank(x) = i - 1]
  BY DEF InOrder, Before
<1> HIDE DEF q, n, rank
<1>6. ASSUME NEW i \in 1..n PROVE q[i] \in S /\ rank(q[i]) = i - 1
  BY <1>2, <1>5
<1>7. q \in [1..n -> S] /\ DOMAIN q = 1..n
  BY <1>5, <1>6
<1>8. q \in Seq(S)
  BY <1>1, <1>7
<1>9. ASSUME NEW i \in 1..n, NEW j \in 1..n, q[i] = q[j] PROVE i = j
  <2>1. i - 1 = j - 1
    BY <1>6, <1>9
  <2> QED
    BY <1>1, <2>1
<1>10. ASSUME NEW x \in S PROVE \E i \in 1..n : q[i] = x
  <2> DEFINE r == rank(x)
  <2> HIDE DEF r
  <2>1. r \in 0..(n - 1) /\ r = rank(x)
    BY <1>3 DEF r
  <2>2. r + 1 \in 1..n /\ (r + 1) - 1 = r
    BY <1>1, <2>1
  <2>3. rank(q[r + 1]) = rank(x) /\ q[r + 1] \in S
    BY <1>6, <2>1, <2>2
  <2> QED
    BY <1>4, <2>2, <2>3
<1> QED
  BY <1>7, <1>8, <1>9, <1>10 DEF q

-----------------------------------------------------------------------------
(* The queues                                                              *)

\* A pool is finite, and so are its families, which are named by numbers.
LEMMA PoolIsFinite ==
  ASSUME NEW p \in Pools
  PROVE  /\ p \in Seq(Kinds) /\ Len(p) \in Nat /\ DOMAIN p = 1..Len(p)
         /\ \A c \in DOMAIN p : p[c] \in Kinds /\ Bucket(p[c]) \in Int
         /\ IsFiniteSet(DOMAIN p)
         /\ \A f : IsFiniteSet(Members(p, f)) /\ Cardinality(Members(p, f)) \in Nat
         /\ IsFiniteSet(Families(p)) /\ Families(p) \subseteq Int
<1>1. p \in Seq(Kinds)
  BY ChoiceConstants DEF ChoiceConstants
<1>2. Len(p) \in Nat /\ DOMAIN p = 1..Len(p) /\ \A c \in DOMAIN p : p[c] \in Kinds
  BY <1>1
<1>3. \A c \in DOMAIN p : Bucket(p[c]) \in Int
  BY <1>2, ChoiceConstants DEF ChoiceConstants, Bucket
<1>4. IsFiniteSet(DOMAIN p)
  BY <1>2, FS_Interval
<1>5. ASSUME NEW f PROVE IsFiniteSet(Members(p, f)) /\ Cardinality(Members(p, f)) \in Nat
  <2>1. Members(p, f) \in SUBSET DOMAIN p
    BY DEF Members
  <2> QED
    BY <1>4, <2>1, FS_Subset, FS_CardinalityType
<1>6. IsFiniteSet(Families(p))
  <2> DEFINE g == [c \in DOMAIN p |-> Bucket(p[c])]
  <2>1. g \in Surjection(DOMAIN p, Families(p))
    BY DEF Surjection, Families
  <2> QED
    BY <1>4, <2>1, FS_Surjection
<1>7. Families(p) \subseteq Int
  BY <1>3 DEF Families
<1> QED
  BY <1>1, <1>2, <1>3, <1>4, <1>5, <1>6, <1>7

\* Every family has one queue, and every candidate waits in its family's.
LEMMA AllAreWaiting ==
  ASSUME NEW p \in Pools
  PROVE  /\ OrderedFamilies(p) \in Seq(Families(p))
         /\ \A i, j \in DOMAIN OrderedFamilies(p) :
              OrderedFamilies(p)[i] = OrderedFamilies(p)[j] => i = j
         /\ \A f \in Families(p) :
              \E i \in DOMAIN OrderedFamilies(p) : OrderedFamilies(p)[i] = f
         /\ Waiting(p) \in Seq(Seq(DOMAIN p))
         /\ DOMAIN Waiting(p) = DOMAIN OrderedFamilies(p)
         /\ \A i \in DOMAIN Waiting(p) : \A c \in ToSet(Waiting(p)[i]) :
              Bucket(p[c]) = OrderedFamilies(p)[i]
         /\ \A c \in DOMAIN p : \E i \in DOMAIN Waiting(p) : c \in ToSet(Waiting(p)[i])
<1> DEFINE families == OrderedFamilies(p)
           size(f) == Cardinality(Members(p, f))
<1>1. Orders(LargerFirst(p), Families(p))
  <2>1. \A f \in Families(p) : f \in Int /\ size(f) \in Nat
    BY PoolIsFinite
  <2>2. \A f, g \in Families(p) : <<f, g>> \in LargerFirst(p) <=>
          size(f) > size(g) \/ (size(f) = size(g) /\ f < g)
    BY DEF LargerFirst
  <2> HIDE DEF size
  <2> QED
    BY <2>1, <2>2 DEF Orders
<1>2. /\ families \in Seq(Families(p))
      /\ \A i, j \in DOMAIN families : families[i] = families[j] => i = j
      /\ \A f \in Families(p) : \E i \in DOMAIN families : families[i] = f
  BY <1>1, InOrderLists, PoolIsFinite DEF OrderedFamilies
<1>3. ASSUME NEW f
      PROVE  /\ InOrder(Members(p, f), AsListed(p)) \in Seq(Members(p, f))
             /\ \A x \in Members(p, f) : \E i \in DOMAIN InOrder(Members(p, f), AsListed(p)) :
                  InOrder(Members(p, f), AsListed(p))[i] = x
  <2>1. Orders(AsListed(p), Members(p, f))
    <3>1. \A c, d \in Members(p, f) : <<c, d>> \in AsListed(p) <=> c < d
      BY DEF Members, AsListed
    <3>2. \A c \in Members(p, f) : c \in Int
      BY PoolIsFinite DEF Members
    <3> QED
      BY <3>1, <3>2 DEF Orders
  <2> QED
    BY <2>1, InOrderLists, PoolIsFinite
<1> DEFINE queue(f) == InOrder(Members(p, f), AsListed(p))
<1>4. Waiting(p) = [i \in DOMAIN families |-> queue(families[i])]
  BY DEF Waiting
<1> HIDE DEF families, queue
<1>5. \A f : queue(f) \in Seq(DOMAIN p)
  <2>1. \A f : Members(p, f) \subseteq DOMAIN p
    BY DEF Members
  <2> QED
    BY <1>3, <2>1, SeqMonotonic DEF queue
<1>6. DOMAIN families = 1..Len(families) /\ Len(families) \in Nat
  BY <1>2
<1>7. Waiting(p) \in Seq(Seq(DOMAIN p)) /\ DOMAIN Waiting(p) = DOMAIN families
  BY <1>4, <1>5, <1>6
<1>8. ASSUME NEW i \in DOMAIN Waiting(p), NEW c \in ToSet(Waiting(p)[i])
      PROVE  Bucket(p[c]) = families[i]
  <2>1. Waiting(p)[i] = queue(families[i]) /\ queue(families[i]) \in Seq(Members(p, families[i]))
    BY <1>3, <1>4, <1>7 DEF queue
  <2>2. c \in Members(p, families[i])
    BY <1>8, <2>1 DEF ToSet
  <2> QED
    BY <2>2 DEF Members
<1>9. ASSUME NEW c \in DOMAIN p PROVE \E i \in DOMAIN Waiting(p) : c \in ToSet(Waiting(p)[i])
  <2>1. Bucket(p[c]) \in Families(p) /\ c \in Members(p, Bucket(p[c]))
    BY DEF Families, Members
  <2>2. PICK i \in DOMAIN families : families[i] = Bucket(p[c])
    BY <1>2, <2>1
  <2>3. Waiting(p)[i] = queue(Bucket(p[c])) /\ i \in DOMAIN Waiting(p)
    BY <1>4, <2>2
  <2>4. c \in ToSet(queue(Bucket(p[c])))
    BY <1>3, <2>1 DEF queue, ToSet
  <2> QED
    BY <2>3, <2>4
<1> QED
  BY <1>2, <1>7, <1>8, <1>9 DEF families

-----------------------------------------------------------------------------
(* Counting                                                                *)

\* The candidates chosen, as the invariant below has them.
Picked == chosen \in Seq(DOMAIN pool) /\ IsFiniteSet(DOMAIN pool)

\* Of any class, one more is chosen when one of the class is taken that was not.
LEMMA OneMoreOf ==
  ASSUME Picked, NEW h \in DOMAIN pool, chosen' = Append(chosen, h), NEW Z
  PROVE  /\ ToSet(chosen') = ToSet(chosen) \cup {h}
         /\ Cardinality(ToSet(chosen) \cap Z) \in Nat
         /\ Cardinality(ToSet(chosen') \cap Z) = Cardinality(ToSet(chosen) \cap Z)
              + (IF h \in Z \ ToSet(chosen) THEN 1 ELSE 0)
<1>1. /\ chosen' \in Seq(DOMAIN pool) /\ Len(chosen') = Len(chosen) + 1
      /\ \A i \in 1..Len(chosen) : chosen'[i] = chosen[i]
      /\ chosen'[Len(chosen) + 1] = h
  BY AppendProperties DEF Picked
<1>2. DOMAIN chosen = 1..Len(chosen) /\ DOMAIN chosen' = 1..(Len(chosen) + 1) /\ Len(chosen) \in Nat
  BY <1>1 DEF Picked
<1>3. ToSet(chosen') = ToSet(chosen) \cup {h}
  BY <1>1, <1>2 DEF ToSet
<1>4. ToSet(chosen) \in SUBSET DOMAIN pool
  BY DEF Picked, ToSet
<1>5. IsFiniteSet(ToSet(chosen) \cap Z)
  <2>1. ToSet(chosen) \cap Z \in SUBSET DOMAIN pool
    BY <1>4
  <2> QED
    BY <2>1, FS_Subset DEF Picked
<1>6. Cardinality(ToSet(chosen) \cap Z) \in Nat
  BY <1>5, FS_CardinalityType
<1> DEFINE A == ToSet(chosen) \cap Z
           B == ToSet(chosen') \cap Z
<1>7. IF h \in Z \ ToSet(chosen) THEN h \notin A /\ B = A \cup {h} ELSE B = A
  BY <1>3
<1>8. IsFiniteSet(A) /\ Cardinality(A) \in Nat
  BY <1>5, <1>6
<1> HIDE DEF A, B
<1>9. CASE h \in Z \ ToSet(chosen)
  <2>1. h \notin A /\ B = A \cup {h}
    BY <1>7, <1>9
  <2>2. Cardinality(B) = Cardinality(A) + 1
    BY <1>8, <2>1, FS_AddElement
  <2> QED
    BY <1>3, <1>8, <1>9, <2>2 DEF A, B
<1>10. CASE ~(h \in Z \ ToSet(chosen))
  <2>1. Cardinality(B) = Cardinality(A) + 0
    BY <1>7, <1>8, <1>10
  <2> QED
    BY <1>3, <1>8, <1>10, <2>1 DEF A, B
<1> QED
  BY <1>9, <1>10

\* The counts by name: with an operator for an argument they are out of SMT's reach.
OfExpression(k) == Alike(k, Expression)
OfBase(k) == Alike(k, Base)
OfField(k) == Alike(k, FieldHint)
OfFamily(k) == Alike(k, FamilyHint)
OfSkeleton(k) == Alike(k, SkeletonHint)
OfPrice(k) == Alike(k, IsPrice)

\* How many are alike, before and after one is taken.
Grows(before, after, same) == before \in Nat /\ after = before + (IF same THEN 1 ELSE 0)

LEMMA AlikeGrows ==
  ASSUME Picked, NEW h \in DOMAIN pool, h \notin ToSet(chosen), chosen' = Append(chosen, h),
         pool' = pool, NEW k
  PROVE  /\ Grows(OfExpression(k), OfExpression(k)', Expression(pool[h]) = Expression(k))
         /\ Grows(OfBase(k), OfBase(k)', Base(pool[h]) = Base(k))
         /\ Grows(OfField(k), OfField(k)', FieldHint(pool[h]) = FieldHint(k))
         /\ Grows(OfFamily(k), OfFamily(k)', FamilyHint(pool[h]) = FamilyHint(k))
         /\ Grows(OfSkeleton(k), OfSkeleton(k)', SkeletonHint(pool[h]) = SkeletonHint(k))
         /\ Grows(OfPrice(k), OfPrice(k)', IsPrice(pool[h]) = IsPrice(k))
  <1>1. Grows(OfExpression(k), OfExpression(k)', Expression(pool[h]) = Expression(k))
  <2> DEFINE Z == {c \in DOMAIN pool : Expression(pool[c]) = Expression(k)}
  <2>1. {c \in ToSet(chosen) : Expression(pool[c]) = Expression(k)} = ToSet(chosen) \cap Z
    BY DEF Picked, ToSet
  <2>2. {c \in ToSet(chosen') : Expression(pool'[c]) = Expression(k)} = ToSet(chosen') \cap Z
    BY OneMoreOf DEF Picked, ToSet
  <2>3. OfExpression(k) = Cardinality(ToSet(chosen) \cap Z) /\ OfExpression(k)' = Cardinality(ToSet(chosen') \cap Z)
    BY <2>1, <2>2 DEF OfExpression, Alike, Expression
  <2>4. h \in Z \ ToSet(chosen) <=> Expression(pool[h]) = Expression(k)
    OBVIOUS
  <2> HIDE DEF Z
  <2> QED
    BY <2>3, <2>4, OneMoreOf DEF Grows
<1>2. Grows(OfBase(k), OfBase(k)', Base(pool[h]) = Base(k))
  <2> DEFINE Z == {c \in DOMAIN pool : Base(pool[c]) = Base(k)}
  <2>1. {c \in ToSet(chosen) : Base(pool[c]) = Base(k)} = ToSet(chosen) \cap Z
    BY DEF Picked, ToSet
  <2>2. {c \in ToSet(chosen') : Base(pool'[c]) = Base(k)} = ToSet(chosen') \cap Z
    BY OneMoreOf DEF Picked, ToSet
  <2>3. OfBase(k) = Cardinality(ToSet(chosen) \cap Z) /\ OfBase(k)' = Cardinality(ToSet(chosen') \cap Z)
    BY <2>1, <2>2 DEF OfBase, Alike, Base
  <2>4. h \in Z \ ToSet(chosen) <=> Base(pool[h]) = Base(k)
    OBVIOUS
  <2> HIDE DEF Z
  <2> QED
    BY <2>3, <2>4, OneMoreOf DEF Grows
<1>3. Grows(OfField(k), OfField(k)', FieldHint(pool[h]) = FieldHint(k))
  <2> DEFINE Z == {c \in DOMAIN pool : FieldHint(pool[c]) = FieldHint(k)}
  <2>1. {c \in ToSet(chosen) : FieldHint(pool[c]) = FieldHint(k)} = ToSet(chosen) \cap Z
    BY DEF Picked, ToSet
  <2>2. {c \in ToSet(chosen') : FieldHint(pool'[c]) = FieldHint(k)} = ToSet(chosen') \cap Z
    BY OneMoreOf DEF Picked, ToSet
  <2>3. OfField(k) = Cardinality(ToSet(chosen) \cap Z) /\ OfField(k)' = Cardinality(ToSet(chosen') \cap Z)
    BY <2>1, <2>2 DEF OfField, Alike, FieldHint
  <2>4. h \in Z \ ToSet(chosen) <=> FieldHint(pool[h]) = FieldHint(k)
    OBVIOUS
  <2> HIDE DEF Z
  <2> QED
    BY <2>3, <2>4, OneMoreOf DEF Grows
<1>4. Grows(OfFamily(k), OfFamily(k)', FamilyHint(pool[h]) = FamilyHint(k))
  <2> DEFINE Z == {c \in DOMAIN pool : FamilyHint(pool[c]) = FamilyHint(k)}
  <2>1. {c \in ToSet(chosen) : FamilyHint(pool[c]) = FamilyHint(k)} = ToSet(chosen) \cap Z
    BY DEF Picked, ToSet
  <2>2. {c \in ToSet(chosen') : FamilyHint(pool'[c]) = FamilyHint(k)} = ToSet(chosen') \cap Z
    BY OneMoreOf DEF Picked, ToSet
  <2>3. OfFamily(k) = Cardinality(ToSet(chosen) \cap Z) /\ OfFamily(k)' = Cardinality(ToSet(chosen') \cap Z)
    BY <2>1, <2>2 DEF OfFamily, Alike, FamilyHint
  <2>4. h \in Z \ ToSet(chosen) <=> FamilyHint(pool[h]) = FamilyHint(k)
    OBVIOUS
  <2> HIDE DEF Z
  <2> QED
    BY <2>3, <2>4, OneMoreOf DEF Grows
<1>5. Grows(OfSkeleton(k), OfSkeleton(k)', SkeletonHint(pool[h]) = SkeletonHint(k))
  <2> DEFINE Z == {c \in DOMAIN pool : SkeletonHint(pool[c]) = SkeletonHint(k)}
  <2>1. {c \in ToSet(chosen) : SkeletonHint(pool[c]) = SkeletonHint(k)} = ToSet(chosen) \cap Z
    BY DEF Picked, ToSet
  <2>2. {c \in ToSet(chosen') : SkeletonHint(pool'[c]) = SkeletonHint(k)} = ToSet(chosen') \cap Z
    BY OneMoreOf DEF Picked, ToSet
  <2>3. OfSkeleton(k) = Cardinality(ToSet(chosen) \cap Z) /\ OfSkeleton(k)' = Cardinality(ToSet(chosen') \cap Z)
    BY <2>1, <2>2 DEF OfSkeleton, Alike, SkeletonHint
  <2>4. h \in Z \ ToSet(chosen) <=> SkeletonHint(pool[h]) = SkeletonHint(k)
    OBVIOUS
  <2> HIDE DEF Z
  <2> QED
    BY <2>3, <2>4, OneMoreOf DEF Grows
<1>6. Grows(OfPrice(k), OfPrice(k)', IsPrice(pool[h]) = IsPrice(k))
  <2> DEFINE Z == {c \in DOMAIN pool : IsPrice(pool[c]) = IsPrice(k)}
  <2>1. {c \in ToSet(chosen) : IsPrice(pool[c]) = IsPrice(k)} = ToSet(chosen) \cap Z
    BY DEF Picked, ToSet
  <2>2. {c \in ToSet(chosen') : IsPrice(pool'[c]) = IsPrice(k)} = ToSet(chosen') \cap Z
    BY OneMoreOf DEF Picked, ToSet
  <2>3. OfPrice(k) = Cardinality(ToSet(chosen) \cap Z) /\ OfPrice(k)' = Cardinality(ToSet(chosen') \cap Z)
    BY <2>1, <2>2 DEF OfPrice, Alike, IsPrice
  <2>4. h \in Z \ ToSet(chosen) <=> IsPrice(pool[h]) = IsPrice(k)
    OBVIOUS
  <2> HIDE DEF Z
  <2> QED
    BY <2>3, <2>4, OneMoreOf DEF Grows
<1> QED
  BY <1>1, <1>2, <1>3, <1>4, <1>5, <1>6

\* Candidates that are counted under the same have the same count.
LEMMA SameCount ==
  ASSUME NEW k, NEW l
  PROVE  /\ Expression(k) = Expression(l) => OfExpression(k) = OfExpression(l)
         /\ Base(k) = Base(l) => OfBase(k) = OfBase(l)
         /\ FieldHint(k) = FieldHint(l) => OfField(k) = OfField(l)
         /\ FamilyHint(k) = FamilyHint(l) => OfFamily(k) = OfFamily(l)
         /\ SkeletonHint(k) = SkeletonHint(l) => OfSkeleton(k) = OfSkeleton(l)
         /\ IsPrice(k) = IsPrice(l) => OfPrice(k) = OfPrice(l)
BY DEF Alike, OfExpression, OfBase, OfField, OfFamily, OfSkeleton, OfPrice, Expression, Base, FieldHint, FamilyHint, SkeletonHint, IsPrice

\* What fits, and what keeps the caps, in terms of the counts.
LEMMA FitsByCounts ==
  ASSUME NEW k
  PROVE  Fits(k) <=>
           /\ OfExpression(k) = 0
           /\ k.base = NoName \/ OfBase(k) < Cap(BaseShare)
           /\ OfField(k) < Cap(FieldShare)
           /\ OfFamily(k) < Cap(FamilyShare)
           /\ OfSkeleton(k) < Cap(SkeletonShare)
           /\ FamilyHint(k) \in Downweighted => OfFamily(k) < FloorCap(DownShare)
           /\ k.price => OfPrice(k) < FloorCap(PriceShare)
BY Zenon DEF Fits, OfExpression, OfBase, OfField, OfFamily, OfSkeleton, OfPrice

LEMMA CapsByCounts ==
  ASSUME NEW k
  PROVE  KeepsCaps(k) <=>
           /\ OfExpression(k) = 1
           /\ k.base # NoName => OfBase(k) <= Cap(BaseShare)
           /\ OfField(k) <= Cap(FieldShare)
           /\ OfFamily(k) <= Cap(FamilyShare)
           /\ OfSkeleton(k) <= Cap(SkeletonShare)
           /\ FamilyHint(k) \in Downweighted => OfFamily(k) <= FloorCap(DownShare)
           /\ k.price => OfPrice(k) <= FloorCap(PriceShare)
BY Zenon DEF KeepsCaps, OfExpression, OfBase, OfField, OfFamily, OfSkeleton, OfPrice

\* Caps are whole numbers.
LEMMA CapsAreNumbers ==
  ASSUME room \in Nat
  PROVE  /\ Cap(BaseShare) \in Int /\ Cap(FieldShare) \in Int /\ Cap(FamilyShare) \in Int
         /\ Cap(SkeletonShare) \in Int /\ FloorCap(DownShare) \in Int /\ FloorCap(PriceShare) \in Int
<1>1. ASSUME NEW share \in 0..100 PROVE Cap(share) \in Int /\ FloorCap(share) \in Int
  <2>1. room * share \in Int /\ room * share + 99 \in Int
    OBVIOUS
  <2>2. (room * share + 99) \div 100 \in Int /\ (room * share) \div 100 \in Int
    BY <2>1
  <2> QED
    BY <2>2 DEF Cap, FloorCap, Most
<1> QED
  BY <1>1, ChoiceConstants DEF ChoiceConstants

\* A candidate that fits is new, keeps every cap and breaks none, and lets nobody
\* fit who did not.
LEMMA TakingKeepsCaps ==
  ASSUME Picked, pool \in Pools, room \in Nat, NEW h \in DOMAIN pool, Fits(pool[h]),
         \A c \in ToSet(chosen) : KeepsCaps(pool[c]),
         chosen' = Append(chosen, h), UNCHANGED <<pool, room, measured>>
  PROVE  /\ h \notin ToSet(chosen)
         /\ \A c \in ToSet(chosen') : KeepsCaps(pool[c])'
         /\ \A c \in DOMAIN pool : Fits(pool[c])' => Fits(pool[c])
<1>1. h \notin ToSet(chosen)
  BY FitsByCounts, CapsByCounts
<1>2. /\ \A s : Cap(s)' = Cap(s) /\ FloorCap(s)' = FloorCap(s)
      /\ Downweighted' = Downweighted
  BY DEF Cap, FloorCap, Downweighted
<1>3. ASSUME NEW k
      PROVE  /\ Grows(OfExpression(k), OfExpression(k)', Expression(pool[h]) = Expression(k))
             /\ Grows(OfBase(k), OfBase(k)', Base(pool[h]) = Base(k))
             /\ Grows(OfField(k), OfField(k)', FieldHint(pool[h]) = FieldHint(k))
             /\ Grows(OfFamily(k), OfFamily(k)', FamilyHint(pool[h]) = FamilyHint(k))
             /\ Grows(OfSkeleton(k), OfSkeleton(k)', SkeletonHint(pool[h]) = SkeletonHint(k))
             /\ Grows(OfPrice(k), OfPrice(k)', IsPrice(pool[h]) = IsPrice(k))
  BY <1>1, AlikeGrows
<1>4. ASSUME NEW k, Fits(k)' PROVE Fits(k)
  <2>1. /\ OfExpression(k)' = 0
        /\ k.base = NoName \/ OfBase(k)' < Cap(BaseShare)
        /\ OfField(k)' < Cap(FieldShare)
        /\ OfFamily(k)' < Cap(FamilyShare)
        /\ OfSkeleton(k)' < Cap(SkeletonShare)
        /\ FamilyHint(k) \in Downweighted => OfFamily(k)' < FloorCap(DownShare)
        /\ k.price => OfPrice(k)' < FloorCap(PriceShare)
    BY <1>2, <1>4 DEF Fits, OfExpression, OfBase, OfField, OfFamily, OfSkeleton, OfPrice
  <2>2. ASSUME NEW before, NEW after, NEW same, Grows(before, after, same)
        PROVE  /\ after = 0 => before = 0
               /\ \A n \in Int : after < n => before < n
    BY <2>2 DEF Grows
  <2>3. /\ OfExpression(k) = 0
        /\ k.base = NoName \/ OfBase(k) < Cap(BaseShare)
        /\ OfField(k) < Cap(FieldShare)
        /\ OfFamily(k) < Cap(FamilyShare)
        /\ OfSkeleton(k) < Cap(SkeletonShare)
        /\ FamilyHint(k) \in Downweighted => OfFamily(k) < FloorCap(DownShare)
        /\ k.price => OfPrice(k) < FloorCap(PriceShare)
    BY <1>3, <2>1, <2>2, CapsAreNumbers
  <2> QED
    BY <2>3, FitsByCounts
<1>5. ASSUME NEW k, k.price \in BOOLEAN, k = pool[h] \/ KeepsCaps(k) PROVE KeepsCaps(k)'
  <2>1. ASSUME NEW before, NEW after, NEW same, Grows(before, after, same)
        PROVE  \A n \in Int : before < n \/ (~same /\ before <= n) => after <= n
    BY <2>1 DEF Grows
  <2>2. OfExpression(k)' = 1
    <3>1. CASE k = pool[h]
      BY <1>3, <3>1, FitsByCounts DEF Grows
    <3>2. CASE KeepsCaps(k)
      <4>1. OfExpression(k) = 1 /\ OfExpression(pool[h]) = 0
        BY <3>2, FitsByCounts, CapsByCounts
      <4>2. Expression(pool[h]) # Expression(k)
        BY <4>1, SameCount
      <4> QED
        BY <1>3, <4>1, <4>2 DEF Grows
    <3> QED
      BY <1>5, <3>1, <3>2
  <2>3. ASSUME NEW n \in Int PROVE
        /\ k.base # NoName /\ n = Cap(BaseShare) => OfBase(k) < n \/ (Base(pool[h]) # Base(k) /\ OfBase(k) <= n)
        /\ n = Cap(FieldShare) => OfField(k) < n \/ (FieldHint(pool[h]) # FieldHint(k) /\ OfField(k) <= n)
        /\ n = Cap(FamilyShare) => OfFamily(k) < n \/ (FamilyHint(pool[h]) # FamilyHint(k) /\ OfFamily(k) <= n)
        /\ n = Cap(SkeletonShare) => OfSkeleton(k) < n \/ (SkeletonHint(pool[h]) # SkeletonHint(k) /\ OfSkeleton(k) <= n)
        /\ FamilyHint(k) \in Downweighted /\ n = FloorCap(DownShare) =>
             OfFamily(k) < n \/ (FamilyHint(pool[h]) # FamilyHint(k) /\ OfFamily(k) <= n)
        /\ k.price /\ n = FloorCap(PriceShare) => OfPrice(k) < n \/ (IsPrice(pool[h]) # IsPrice(k) /\ OfPrice(k) <= n)
    BY <1>5, FitsByCounts, CapsByCounts, SameCount DEF Base, IsPrice
  <2>4. /\ k.base # NoName => OfBase(k)' <= Cap(BaseShare)
        /\ OfField(k)' <= Cap(FieldShare)
        /\ OfFamily(k)' <= Cap(FamilyShare)
        /\ OfSkeleton(k)' <= Cap(SkeletonShare)
        /\ FamilyHint(k) \in Downweighted => OfFamily(k)' <= FloorCap(DownShare)
        /\ k.price => OfPrice(k)' <= FloorCap(PriceShare)
    BY <1>3, <2>1, <2>3, CapsAreNumbers
  <2> QED
    BY <1>2, <2>2, <2>4 DEF KeepsCaps, OfExpression, OfBase, OfField, OfFamily, OfSkeleton, OfPrice
<1>6. \A c \in DOMAIN pool : pool[c].price \in BOOLEAN
  BY PoolIsFinite, ChoiceConstants DEF ChoiceConstants
<1>7. ToSet(chosen') = ToSet(chosen) \cup {h} /\ ToSet(chosen) \subseteq DOMAIN pool
  BY OneMoreOf DEF Picked, ToSet
<1>8. ASSUME NEW c \in ToSet(chosen') PROVE KeepsCaps(pool[c])'
  BY <1>5, <1>6, <1>7
<1> QED
  BY <1>1, <1>4, <1>8

-----------------------------------------------------------------------------
(* The invariant                                                           *)

\* What a family has been given.
Taken(f) == Cardinality({c \in ToSet(chosen) : Bucket(pool[c]) = f})

CapsAreKept == \A c \in ToSet(chosen) : KeepsCaps(pool[c])

\* Who could still be taken waits.
NothingIsLost ==
  \A c \in DOMAIN pool \ ToSet(chosen) :
    Fits(pool[c]) => \E i \in DOMAIN queues : c \in ToSet(queues[i])

QueuesAreFamilies ==
  /\ pool \in Pools /\ DOMAIN queues = DOMAIN OrderedFamilies(pool)
  /\ \A i \in DOMAIN queues : \A c \in ToSet(queues[i]) :
       Bucket(pool[c]) = OrderedFamilies(pool)[i]

\* After r rounds a family that waits has r, or one more if it has had its turn,
\* and no family has more.
Had(r, i) == IF i < turn THEN r + 1 ELSE r
RoundsAre(r) ==
  \A i \in DOMAIN queues :
    /\ Taken(OrderedFamilies(pool)[i]) <= Had(r, i)
    /\ queues[i] # <<>> => Taken(OrderedFamilies(pool)[i]) = Had(r, i)

\* A round without progress leaves nothing behind it.
RoundGoesOn == ~made_progress => \A i \in DOMAIN queues : i < turn => queues[i] = <<>>

Sharing ==
  /\ CapsAreKept /\ NothingIsLost /\ QueuesAreFamilies /\ RoundGoesOn
  /\ \E r \in Nat : RoundsAre(r)
  /\ choiceAt = "chooses" => Len(chosen) < room
  /\ choiceAt = "done" => Len(chosen) = room \/ \A i \in DOMAIN queues : queues[i] = <<>>

ChoiceTypes ==
  /\ room \in Nat /\ turn \in Nat \ {0} /\ made_progress \in BOOLEAN
  /\ chosen \in Seq(DOMAIN pool) /\ Len(chosen) <= room
  /\ queues \in Seq(Seq(DOMAIN pool)) /\ choiceAt \in {"idle", "chooses", "done"}

ChoiceInv ==
  /\ ChoiceTypes
  /\ choiceAt = "idle" => turn = 1 /\ ~made_progress
  /\ choiceAt = "chooses" => Len(pool) > room /\ Sharing
  /\ choiceAt = "done" => IF Len(pool) > room THEN Sharing ELSE ToSet(chosen) = DOMAIN pool

-----------------------------------------------------------------------------
(* The steps                                                               *)

\* The empty sequence.
LEMMA NothingInNone == ToSet(<<>>) = {} /\ Len(<<>>) = 0 /\ \A S : <<>> \in Seq(S)
<1>1. \A S : <<>> \in Seq(S) /\ Len(<<>>) = 0
  BY EmptySeq
<1>2. DOMAIN <<>> = 1..0
  BY <1>1
<1> QED
  BY <1>1, <1>2 DEF ToSet

\* At the start nothing is chosen.
LEMMA ChoiceStarts == ChoiceInit => ChoiceInv
<1> SUFFICES ASSUME ChoiceInit PROVE ChoiceInv
  OBVIOUS
<1>1. ChoiceTypes
  <2>1. chosen \in Seq(DOMAIN pool) /\ Len(chosen) = 0 /\ queues \in Seq(Seq(DOMAIN pool))
    BY NothingInNone DEF ChoiceInit
  <2>2. room \in Nat /\ turn \in Nat \ {0} /\ Len(chosen) <= room
    BY <2>1 DEF ChoiceInit
  <2>3. made_progress \in BOOLEAN /\ choiceAt \in {"idle", "chooses", "done"}
    BY DEF ChoiceInit
  <2> QED
    BY <2>1, <2>2, <2>3 DEF ChoiceTypes
<1> QED
  BY <1>1 DEF ChoiceInit, ChoiceInv

\* A queue is its head and the rest.
LEMMA HeadAndTail ==
  ASSUME NEW S, NEW q \in Seq(S), q # <<>>
  PROVE  /\ Head(q) \in S /\ Tail(q) \in Seq(S)
         /\ ToSet(q) = {Head(q)} \cup ToSet(Tail(q))
<1>1. /\ Len(q) \in Nat \ {0} /\ DOMAIN q = 1..Len(q) /\ Head(q) = q[1] /\ Head(q) \in S
      /\ Tail(q) \in Seq(S) /\ Len(Tail(q)) = Len(q) - 1 /\ DOMAIN Tail(q) = 1..(Len(q) - 1)
      /\ \A i \in 1..(Len(q) - 1) : Tail(q)[i] = q[i + 1]
  BY HeadTailProperties, EmptySeq
<1>2. ASSUME NEW x \in ToSet(q) PROVE x \in {Head(q)} \cup ToSet(Tail(q))
  <2>1. PICK i \in 1..Len(q) : x = q[i]
    BY <1>1 DEF ToSet
  <2>2. CASE i = 1
    BY <1>1, <2>1, <2>2
  <2>3. CASE i # 1
    <3>1. i - 1 \in 1..(Len(q) - 1) /\ (i - 1) + 1 = i
      BY <1>1, <2>3
    <3>2. Tail(q)[i - 1] = x
      BY <1>1, <2>1, <3>1
    <3> QED
      BY <1>1, <3>1, <3>2 DEF ToSet
  <2> QED
    BY <2>2, <2>3
<1>3. ASSUME NEW x \in {Head(q)} \cup ToSet(Tail(q)) PROVE x \in ToSet(q)
  BY <1>1 DEF ToSet
<1> QED
  BY <1>1, <1>2, <1>3

\* Taking one of a family counts for that family alone.
LEMMA TakenGrows ==
  ASSUME Picked, NEW h \in DOMAIN pool, h \notin ToSet(chosen), chosen' = Append(chosen, h),
         pool' = pool, NEW f
  PROVE  Taken(f) \in Nat /\ Taken(f)' = Taken(f) + (IF Bucket(pool[h]) = f THEN 1 ELSE 0)
<1> DEFINE Z == {c \in DOMAIN pool : Bucket(pool[c]) = f}
<1>1. {c \in ToSet(chosen) : Bucket(pool[c]) = f} = ToSet(chosen) \cap Z
  BY DEF Picked, ToSet
<1>2. {c \in ToSet(chosen') : Bucket(pool'[c]) = f} = ToSet(chosen') \cap Z
  BY OneMoreOf DEF Picked, ToSet
<1>3. Taken(f) = Cardinality(ToSet(chosen) \cap Z) /\ Taken(f)' = Cardinality(ToSet(chosen') \cap Z)
  BY <1>1, <1>2 DEF Taken
<1>4. h \in Z \ ToSet(chosen) <=> Bucket(pool[h]) = f
  OBVIOUS
<1> HIDE DEF Z
<1> QED
  BY <1>3, <1>4, OneMoreOf

\* What a family has been given is a number.
LEMMA TakenIsCounted ==
  ASSUME chosen \in Seq(DOMAIN pool), pool \in Pools, NEW f
  PROVE  Taken(f) \in Nat
<1>1. {c \in ToSet(chosen) : Bucket(pool[c]) = f} \in SUBSET DOMAIN pool
  BY DEF ToSet
<1> QED
  BY <1>1, PoolIsFinite, FS_Subset, FS_CardinalityType DEF Taken

\* The room is what there is or what is left.
LEMMA LeastOfTwo ==
  ASSUME NEW m \in Nat, NEW n \in Nat
  PROVE  IF n <= m THEN Least(m, n) = n ELSE Least(m, n) = m
BY DEF Least

\* All fit, or nobody is chosen yet and all wait.
LEMMA PreparesKeeps == ASSUME ChoiceInv, Prepares PROVE ChoiceInv'
<1>1. PICK p \in Pools, n \in Rooms, m \in Measures :
       /\ pool' = p /\ room' = Least(n, Len(p)) /\ measured' = m
       /\ IF Len(p) <= n
            THEN choiceAt' = "done" /\ queues' = <<>> /\ chosen' = [c \in DOMAIN p |-> c]
            ELSE choiceAt' = "chooses" /\ queues' = Waiting(p) /\ chosen' = <<>>
  BY DEF Prepares
<1>2. /\ turn' = 1 /\ made_progress' = FALSE
  BY DEF Prepares, ChoiceInv, ChoiceTypes
<1>3. Len(p) \in Nat /\ DOMAIN p = 1..Len(p) /\ n \in Nat \ {0}
  BY PoolIsFinite, ChoiceConstants DEF ChoiceConstants
<1>4. CASE Len(p) <= n
  <2>1. room' = Len(p) /\ chosen' \in [1..Len(p) -> DOMAIN p] /\ \A c \in DOMAIN p : chosen'[c] = c
    <3>1. room' = Len(p)
      <4>1. Least(n, Len(p)) = Len(p)
        BY <1>3, <1>4, LeastOfTwo
      <4> QED
        BY <1>1, <4>1
    <3>2. chosen' = [c \in 1..Len(p) |-> c]
      BY <1>1, <1>3, <1>4
    <3> QED
      BY <1>3, <3>1, <3>2
  <2>2. chosen' \in Seq(DOMAIN p) /\ Len(chosen') = Len(p) /\ DOMAIN chosen' = DOMAIN p
    BY <1>3, <2>1
  <2>3. ToSet(chosen') = DOMAIN p
    BY <2>1, <2>2 DEF ToSet
  <2> QED
    <3>1. pool' = p /\ queues' = <<>> /\ choiceAt' = "done" /\ ~(Len(p) > room')
      BY <1>1, <1>3, <1>4, <2>1
    <3>2. ChoiceTypes'
      <4>1. room' \in Nat /\ turn' \in Nat \ {0}
        BY <1>2, <1>3, <2>1
      <4>5. made_progress' \in BOOLEAN
        BY <1>2
      <4>2. chosen' \in Seq(DOMAIN pool') /\ Len(chosen') <= room'
        BY <1>3, <2>1, <2>2, <3>1
      <4>3. queues' \in Seq(Seq(DOMAIN pool'))
        BY <3>1, NothingInNone
      <4>4. choiceAt' \in {"idle", "chooses", "done"}
        BY <3>1
      <4> QED
        BY <4>1, <4>2, <4>3, <4>4, <4>5 DEF ChoiceTypes
    <3> QED
      BY <2>3, <3>1, <3>2 DEF ChoiceInv
<1>5. CASE Len(p) > n
  <2>1. /\ choiceAt' = "chooses" /\ queues' = Waiting(p) /\ chosen' = <<>> /\ room' = n
        /\ ToSet(chosen') = {} /\ Len(chosen') = 0 /\ chosen' \in Seq(DOMAIN p)
    <3>1. ~(Len(p) <= n) /\ Least(n, Len(p)) = n
      BY <1>3, <1>5, LeastOfTwo
    <3> QED
      BY <1>1, <3>1, NothingInNone
  <2>2. ChoiceTypes'
    <3>1. Waiting(p) \in Seq(Seq(DOMAIN p))
      BY AllAreWaiting
    <3> QED
      <4>1. room' \in Nat /\ turn' \in Nat \ {0}
        BY <1>1, <1>2, <1>3, <2>1
      <4>2. made_progress' \in BOOLEAN
        BY <1>2
      <4>3. chosen' \in Seq(DOMAIN pool')
        BY <1>1, <2>1
      <4>4. Len(chosen') <= room'
        BY <1>3, <2>1
      <4>5. queues' \in Seq(Seq(DOMAIN pool'))
        BY <1>1, <2>1, <3>1
      <4>6. choiceAt' \in {"idle", "chooses", "done"}
        BY <2>1
      <4> QED
        BY <4>1, <4>2, <4>3, <4>4, <4>5, <4>6 DEF ChoiceTypes
  <2>3. CapsAreKept' /\ RoundGoesOn'
    BY <1>2, <2>1, AllAreWaiting, PoolIsFinite DEF CapsAreKept, RoundGoesOn
  <2>4. NothingIsLost' /\ QueuesAreFamilies'
    BY <1>1, <2>1, AllAreWaiting DEF NothingIsLost, QueuesAreFamilies
  <2>5. RoundsAre(0)'
    <3>1. \A f : Taken(f)' = 0
      BY <2>1, FS_EmptySet DEF Taken
    <3>2. \A i \in DOMAIN queues' : i \in Nat \ {0}
      BY <2>1, AllAreWaiting
    <3> QED
      BY <1>2, <3>1, <3>2 DEF RoundsAre, Had
  <2> QED
    BY <1>1, <1>3, <1>5, <2>1, <2>2, <2>3, <2>4, <2>5 DEF ChoiceInv, Sharing
<1> QED
  BY <1>3, <1>4, <1>5

\* While it chooses: the sequence of queues, and what the pool is.
LEMMA WhileChoosing ==
  ASSUME ChoiceInv, Chooses
  PROVE  /\ Sharing /\ ChoiceTypes /\ pool \in Pools /\ Picked /\ Len(pool) > room
         /\ UNCHANGED <<pool, room, measured>>
         /\ Len(queues) \in Nat /\ DOMAIN queues = 1..Len(queues)
         /\ turn \in Nat \ {0}
         /\ \A i \in DOMAIN queues : queues[i] \in Seq(DOMAIN pool)
<1>1. Sharing /\ ChoiceTypes /\ Len(pool) > room /\ UNCHANGED <<pool, room, measured>>
  BY DEF Chooses, ChoiceInv
<1>2. pool \in Pools
  BY <1>1 DEF Sharing, QueuesAreFamilies
<1>3. queues \in Seq(Seq(DOMAIN pool)) /\ chosen \in Seq(DOMAIN pool) /\ turn \in Nat \ {0}
  BY <1>1 DEF ChoiceTypes
<1> QED
  BY <1>1, <1>2, <1>3, PoolIsFinite DEF Picked

\* The candidate whose turn it is leaves its queue.
LEMMA HeadLeaves ==
  ASSUME ChoiceInv, Chooses, turn \in DOMAIN queues, queues[turn] # <<>>,
         queues' = [queues EXCEPT ![turn] = Tail(@)]
  PROVE  LET h == Head(queues[turn]) IN
         /\ h \in DOMAIN pool /\ Bucket(pool[h]) = OrderedFamilies(pool)[turn]
         /\ queues' \in Seq(Seq(DOMAIN pool)) /\ QueuesAreFamilies'
         /\ DOMAIN queues' = DOMAIN queues
         /\ \A i \in DOMAIN queues : i # turn => queues'[i] = queues[i]
         /\ \A c \in DOMAIN pool \ {h} : \A i \in DOMAIN queues :
              c \in ToSet(queues[i]) => c \in ToSet(queues'[i])
<1> DEFINE h == Head(queues[turn])
           t == Tail(queues[turn])
<1>1. /\ queues[turn] \in Seq(DOMAIN pool) /\ queues \in Seq(Seq(DOMAIN pool))
      /\ pool' = pool /\ QueuesAreFamilies
  BY WhileChoosing DEF ChoiceTypes, Sharing
<1>2. h \in DOMAIN pool /\ t \in Seq(DOMAIN pool) /\ ToSet(queues[turn]) = {h} \cup ToSet(t)
  BY <1>1, HeadAndTail
<1>3. Bucket(pool[h]) = OrderedFamilies(pool)[turn]
  BY <1>1, <1>2 DEF QueuesAreFamilies
<1>4. queues' = [queues EXCEPT ![turn] = t]
  OBVIOUS
<1> HIDE DEF h, t
<1>5. /\ queues' \in Seq(Seq(DOMAIN pool)) /\ DOMAIN queues' = DOMAIN queues
      /\ queues'[turn] = t /\ \A i \in DOMAIN queues : i # turn => queues'[i] = queues[i]
  BY <1>1, <1>2, <1>4, WhileChoosing, ExceptSeq
<1>6. \A i \in DOMAIN queues : ToSet(queues'[i]) \subseteq ToSet(queues[i])
  BY <1>2, <1>5
<1>7. QueuesAreFamilies'
  BY <1>1, <1>5, <1>6 DEF QueuesAreFamilies
<1>8. ASSUME NEW c \in DOMAIN pool \ {h}, NEW i \in DOMAIN queues, c \in ToSet(queues[i])
      PROVE  c \in ToSet(queues'[i])
  BY <1>2, <1>5, <1>8
<1> QED
  BY <1>2, <1>3, <1>5, <1>7, <1>8 DEF h

\* Taking the head of a queue.
LEMMA TakesKeeps == ASSUME ChoiceInv, Takes PROVE ChoiceInv'
<1> DEFINE h == Head(queues[turn])
<1>1. /\ Chooses /\ turn \in DOMAIN queues /\ queues[turn] # <<>> /\ Fits(pool[h])
      /\ chosen' = Append(chosen, h) /\ queues' = [queues EXCEPT ![turn] = Tail(@)]
      /\ turn' = turn + 1 /\ made_progress' = TRUE
      /\ choiceAt' = IF Len(chosen') >= room THEN "done" ELSE "chooses"
  BY DEF Takes, NextTurn
<1>2. /\ Sharing /\ ChoiceTypes /\ pool \in Pools /\ Picked /\ Len(pool) > room
      /\ UNCHANGED <<pool, room, measured>> /\ turn \in Nat \ {0}
      /\ Len(queues) \in Nat /\ DOMAIN queues = 1..Len(queues)
      /\ choiceAt = "chooses" /\ Len(chosen) < room /\ room \in Nat
  BY <1>1, WhileChoosing DEF Chooses, Sharing, ChoiceTypes
<1>3. /\ h \in DOMAIN pool /\ Bucket(pool[h]) = OrderedFamilies(pool)[turn]
      /\ queues' \in Seq(Seq(DOMAIN pool)) /\ QueuesAreFamilies'
      /\ DOMAIN queues' = DOMAIN queues
      /\ \A i \in DOMAIN queues : i # turn => queues'[i] = queues[i]
      /\ \A c \in DOMAIN pool \ {h} : \A i \in DOMAIN queues :
           c \in ToSet(queues[i]) => c \in ToSet(queues'[i])
  BY <1>1, HeadLeaves
<1> HIDE DEF h
<1>4. /\ h \notin ToSet(chosen) /\ CapsAreKept'
      /\ \A c \in DOMAIN pool : Fits(pool[c])' => Fits(pool[c])
  BY <1>1, <1>2, <1>3, TakingKeepsCaps DEF CapsAreKept, Sharing
<1>5. ToSet(chosen') = ToSet(chosen) \cup {h}
  BY <1>1, <1>2, <1>3, OneMoreOf
<1>6. NothingIsLost'
  <2> SUFFICES ASSUME NEW c \in DOMAIN pool, c \notin ToSet(chosen'), Fits(pool[c])'
               PROVE  \E i \in DOMAIN queues' : c \in ToSet(queues'[i])
    BY <1>2 DEF NothingIsLost
  <2> QED
    BY <1>2, <1>3, <1>4, <1>5 DEF NothingIsLost, Sharing
<1>7. RoundGoesOn'
  BY <1>1 DEF RoundGoesOn
<1>8. \E r \in Nat : RoundsAre(r)'
  <2>1. PICK r \in Nat : RoundsAre(r)
    BY <1>2 DEF Sharing
  <2>2. ASSUME NEW i \in DOMAIN queues
        PROVE  LET f == OrderedFamilies(pool)[i] IN
               /\ Taken(f)' <= Had(r, i)'
               /\ queues'[i] # <<>> => Taken(f)' = Had(r, i)'
    <3> DEFINE f == OrderedFamilies(pool)[i]
    <3>1. Taken(f) \in Nat /\ Taken(f)' = Taken(f) + (IF Bucket(pool[h]) = f THEN 1 ELSE 0)
      BY <1>1, <1>2, <1>3, <1>4, TakenGrows
    <3>2. Bucket(pool[h]) = f <=> i = turn
      <4>1. DOMAIN queues = DOMAIN OrderedFamilies(pool)
        BY <1>2 DEF QueuesAreFamilies, Sharing
      <4> QED
        BY <1>1, <1>2, <1>3, <4>1, AllAreWaiting
    <3>3. Taken(f) <= Had(r, i) /\ (queues[i] # <<>> => Taken(f) = Had(r, i))
      BY <2>1 DEF RoundsAre
    <3>4. i \in Nat
      BY <1>2
    <3> HIDE DEF f
    <3>5. CASE i = turn
      <4>1. Had(r, i) = r /\ Had(r, i)' = r + 1
        BY <1>1, <1>2, <3>5 DEF Had
      <4> QED
        BY <1>1, <3>1, <3>2, <3>3, <3>5, <4>1 DEF f
    <3>6. CASE i # turn
      <4>1. Had(r, i)' = Had(r, i)
        BY <1>1, <1>2, <3>4, <3>6 DEF Had
      <4> QED
        BY <1>3, <3>1, <3>2, <3>3, <3>6, <4>1 DEF f
    <3> QED
      BY <3>5, <3>6
  <2> QED
    BY <1>2, <1>3, <2>2 DEF RoundsAre
<1>9. chosen' \in Seq(DOMAIN pool) /\ Len(chosen') = Len(chosen) + 1 /\ Len(chosen) \in Nat
  BY <1>1, <1>2, <1>3, AppendProperties DEF Picked
<1>10. \/ choiceAt' = "done" /\ Len(chosen') = room
       \/ choiceAt' = "chooses" /\ Len(chosen') < room
  <2>1. CASE Len(chosen') >= room
    <3>1. Len(chosen') = room
      BY <1>2, <1>9, <2>1
    <3>2. choiceAt' = "done"
      BY <1>1, <2>1, Zenon
    <3> QED
      BY <3>1, <3>2
  <2>2. CASE ~(Len(chosen') >= room)
    <3>1. Len(chosen') < room
      BY <1>2, <1>9, <2>2
    <3> QED
      BY <1>1, <2>2, <3>1
  <2> QED
    BY <2>1, <2>2
<1>11. Sharing'
  BY <1>2, <1>3, <1>4, <1>6, <1>7, <1>8, <1>10 DEF Sharing
<1>12. ChoiceTypes'
  <2>1. turn' \in Nat \ {0}
    BY <1>1, <1>2
  <2>2. made_progress' \in BOOLEAN
    BY <1>1
  <2>3. Len(chosen') <= room' /\ room' \in Nat
    BY <1>2, <1>9
  <2>4. chosen' \in Seq(DOMAIN pool') /\ queues' \in Seq(Seq(DOMAIN pool'))
    BY <1>2, <1>3, <1>9
  <2>5. choiceAt' \in {"idle", "chooses", "done"}
    BY <1>10
  <2> QED
    BY <2>1, <2>2, <2>3, <2>4, <2>5 DEF ChoiceTypes
<1> QED
  BY <1>2, <1>10, <1>11, <1>12 DEF ChoiceInv

\* Putting it aside.
LEMMA PutsAsideKeeps == ASSUME ChoiceInv, PutsAside PROVE ChoiceInv'
<1> DEFINE h == Head(queues[turn])
<1>1. /\ Chooses /\ turn \in DOMAIN queues /\ queues[turn] # <<>> /\ ~Fits(pool[h])
      /\ queues' = [queues EXCEPT ![turn] = Tail(@)]
      /\ UNCHANGED <<turn, made_progress, chosen, choiceAt>>
  BY DEF PutsAside
<1>2. /\ Sharing /\ ChoiceTypes /\ Len(pool) > room /\ UNCHANGED <<pool, room, measured>>
      /\ choiceAt = "chooses" /\ turn \in Nat
  BY <1>1, WhileChoosing DEF Chooses
<1>3. /\ h \in DOMAIN pool /\ queues' \in Seq(Seq(DOMAIN pool)) /\ QueuesAreFamilies'
      /\ DOMAIN queues' = DOMAIN queues
      /\ \A i \in DOMAIN queues : i # turn => queues'[i] = queues[i]
      /\ \A c \in DOMAIN pool \ {h} : \A i \in DOMAIN queues :
           c \in ToSet(queues[i]) => c \in ToSet(queues'[i])
  BY <1>1, HeadLeaves
<1> HIDE DEF h
<1>4. \A k : Fits(k)' <=> Fits(k)
  BY <1>1, <1>2
  DEF Fits, Alike, Cap, FloorCap, Downweighted
<1>5. CapsAreKept'
  <2>1. \A k : KeepsCaps(k)' <=> KeepsCaps(k)
    BY <1>1, <1>2 DEF KeepsCaps, Alike, Cap, FloorCap, Downweighted
  <2> QED
    BY <1>1, <1>2, <2>1 DEF CapsAreKept, Sharing
<1>6. NothingIsLost'
  BY <1>1, <1>2, <1>3, <1>4 DEF NothingIsLost, Sharing
<1>7. RoundGoesOn'
  <2>1. \A i \in DOMAIN queues : i < turn => i # turn
    BY <1>2
  <2> QED
    BY <1>1, <1>2, <1>3, <2>1 DEF RoundGoesOn, Sharing
<1>8. \E r \in Nat : RoundsAre(r)'
  <2>1. PICK r \in Nat : RoundsAre(r)
    BY <1>2 DEF Sharing
  <2>2. (\A f : Taken(f)' = Taken(f)) /\ \A i : Had(r, i)' = Had(r, i)
    BY <1>1, <1>2 DEF Taken, Had
  <2>3. \A i \in DOMAIN queues : queues'[i] # <<>> => queues[i] # <<>>
    BY <1>1, <1>3
  <2> QED
    BY <1>2, <1>3, <2>1, <2>2, <2>3 DEF RoundsAre
<1>9. Sharing'
  BY <1>1, <1>2, <1>3, <1>5, <1>6, <1>7, <1>8 DEF Sharing
<1>10. ChoiceTypes'
  BY <1>1, <1>2, <1>3 DEF ChoiceTypes
<1> QED
  BY <1>1, <1>2, <1>9, <1>10 DEF ChoiceInv

\* A turn that is passed over, and the end of a round, leave chosen and waiting
\* candidates as they are.
LEMMA NobodyMoves ==
  ASSUME ChoiceInv, Chooses, UNCHANGED <<queues, chosen>>, turn' \in Nat \ {0},
         made_progress' \in BOOLEAN, choiceAt' \in {"chooses", "done"}, RoundGoesOn',
         \E r \in Nat : RoundsAre(r)',
         choiceAt' = "done" => \A i \in DOMAIN queues : queues[i] = <<>>
  PROVE  ChoiceInv'
<1>1. /\ Sharing /\ ChoiceTypes /\ Len(pool) > room /\ UNCHANGED <<pool, room, measured>>
      /\ choiceAt = "chooses"
  BY WhileChoosing DEF Chooses
<1>2. \A k : Fits(k)' <=> Fits(k)
  BY <1>1 DEF Fits, Alike, Cap, FloorCap, Downweighted
<1>3. \A k : KeepsCaps(k)' <=> KeepsCaps(k)
  BY <1>1 DEF KeepsCaps, Alike, Cap, FloorCap, Downweighted
<1>4. CapsAreKept' /\ NothingIsLost' /\ QueuesAreFamilies'
  BY <1>1, <1>2, <1>3 DEF CapsAreKept, NothingIsLost, QueuesAreFamilies, Sharing
<1>5. Sharing'
  BY <1>1, <1>4 DEF Sharing
<1>6. ChoiceTypes'
  BY <1>1 DEF ChoiceTypes
<1> QED
  BY <1>1, <1>5, <1>6 DEF ChoiceInv

\* A family without a queue.
LEMMA PassesOverKeeps == ASSUME ChoiceInv, PassesOver PROVE ChoiceInv'
<1>1. /\ Chooses /\ turn \in DOMAIN queues /\ queues[turn] = <<>> /\ turn' = turn + 1
      /\ UNCHANGED <<queues, made_progress, chosen, choiceAt>> /\ choiceAt = "chooses"
  BY DEF PassesOver, Chooses
<1>2. /\ Sharing /\ ChoiceTypes /\ turn \in Nat \ {0} /\ pool' = pool /\ pool \in Pools
      /\ DOMAIN queues = 1..Len(queues) /\ Len(queues) \in Nat
  BY <1>1, WhileChoosing
<1>3. \A i \in DOMAIN queues : i < turn' => i < turn \/ i = turn
  BY <1>1, <1>2
<1>4. RoundGoesOn'
  BY <1>1, <1>2, <1>3 DEF RoundGoesOn, Sharing
<1>5. \E r \in Nat : RoundsAre(r)'
  <2>1. PICK r \in Nat : RoundsAre(r)
    BY <1>2 DEF Sharing
  <2>2. \A f : Taken(f)' = Taken(f) /\ Taken(f) \in Nat
    BY <1>1, <1>2, TakenIsCounted DEF Taken, ChoiceTypes
  <2>3. \A i \in DOMAIN queues :
          /\ Had(r, i) \in Nat /\ Had(r, i)' \in Nat /\ Had(r, i) <= Had(r, i)'
          /\ i # turn => Had(r, i)' = Had(r, i)
    BY <1>1, <1>2 DEF Had
  <2>4. \A i \in DOMAIN queues :
          /\ Taken(OrderedFamilies(pool)[i]) <= Had(r, i)'
          /\ queues[i] # <<>> => Taken(OrderedFamilies(pool)[i]) = Had(r, i)'
    BY <1>1, <2>1, <2>2, <2>3 DEF RoundsAre
  <2> QED
    BY <1>1, <1>2, <2>2, <2>4 DEF RoundsAre
<1>6. turn' \in Nat \ {0} /\ choiceAt' = "chooses"
  BY <1>1, <1>2
<1>7. made_progress' \in BOOLEAN
  BY <1>1, <1>2 DEF ChoiceTypes
<1> QED
  BY <1>1, <1>4, <1>5, <1>6, <1>7, NobodyMoves

\* A round ends: another one, or nobody waits.
LEMMA RoundEndsKeeps == ASSUME ChoiceInv, RoundEnds PROVE ChoiceInv'
<1>1. /\ Chooses /\ turn > Len(queues) /\ UNCHANGED <<queues, chosen>> /\ choiceAt = "chooses"
  BY DEF RoundEnds, Chooses
<1>2. /\ Sharing /\ ChoiceTypes /\ turn \in Nat \ {0} /\ pool' = pool /\ pool \in Pools
      /\ DOMAIN queues = 1..Len(queues) /\ Len(queues) \in Nat
  BY <1>1, WhileChoosing
<1>3. \A i \in DOMAIN queues : i < turn /\ i \in Nat \ {0}
  BY <1>1, <1>2
<1>4. PICK r \in Nat : RoundsAre(r)
  BY <1>2 DEF Sharing
<1>5. \A f : Taken(f)' = Taken(f)
  BY <1>1, <1>2 DEF Taken
<1>6. CASE made_progress /\ \E i \in DOMAIN queues : queues[i] # <<>>
  <2>1. turn' = 1 /\ made_progress' = FALSE /\ choiceAt' = "chooses"
    BY <1>1, <1>6 DEF RoundEnds
  <2>2. RoundsAre(r + 1)'
    <3>1. \A i \in DOMAIN queues : Had(r + 1, i)' = Had(r, i)
      BY <1>3, <2>1 DEF Had
    <3> QED
      BY <1>1, <1>2, <1>4, <1>5, <3>1 DEF RoundsAre
  <2>3. RoundGoesOn'
    BY <1>1, <1>3, <2>1 DEF RoundGoesOn
  <2> QED
    <3>1. r + 1 \in Nat /\ turn' \in Nat \ {0}
      BY <2>1
    <3>2. made_progress' \in BOOLEAN /\ choiceAt' \in {"chooses", "done"} /\ choiceAt' # "done"
      BY <2>1
    <3> QED
      BY <1>1, <2>2, <2>3, <3>1, <3>2, NobodyMoves
<1>7. CASE ~(made_progress /\ \E i \in DOMAIN queues : queues[i] # <<>>)
  <2>1. choiceAt' = "done" /\ UNCHANGED <<turn, made_progress>>
    BY <1>1, <1>7, Zenon DEF RoundEnds
  <2>2. \A i \in DOMAIN queues : queues[i] = <<>>
    BY <1>2, <1>3, <1>7 DEF RoundGoesOn, Sharing
  <2>3. RoundsAre(r)'
    BY <1>1, <1>2, <1>4, <1>5, <2>1 DEF RoundsAre, Had
  <2>4. RoundGoesOn'
    BY <1>1, <2>2 DEF RoundGoesOn
  <2>5. made_progress' \in BOOLEAN
    BY <1>2, <2>1 DEF ChoiceTypes
  <2> QED
    BY <1>1, <1>2, <2>1, <2>2, <2>3, <2>4, <2>5, NobodyMoves
<1> QED
  BY <1>6, <1>7

\* Every step keeps the invariant.
LEMMA ChoiceSteps == ChoiceInv /\ [ChoiceNext]_choiceVars => ChoiceInv'
<1> SUFFICES ASSUME ChoiceInv, [ChoiceNext]_choiceVars PROVE ChoiceInv'
  OBVIOUS
<1>1. CASE ChoiceNext
  BY <1>1, PreparesKeeps, TakesKeeps, PutsAsideKeeps, PassesOverKeeps, RoundEndsKeeps
  DEF ChoiceNext
<1>2. CASE UNCHANGED choiceVars
  <2>1. \A k : Fits(k)' <=> Fits(k)
    BY <1>2 DEF choiceVars, Fits, Alike, Cap, FloorCap, Downweighted
  <2>2. \A k : KeepsCaps(k)' <=> KeepsCaps(k)
    BY <1>2 DEF choiceVars, KeepsCaps, Alike, Cap, FloorCap, Downweighted
  <2>3. Sharing' <=> Sharing
    BY <1>2, <2>1, <2>2
    DEF choiceVars, Sharing, CapsAreKept, NothingIsLost, QueuesAreFamilies, RoundGoesOn,
        RoundsAre, Had, Taken
  <2> QED
    BY <1>2, <2>3 DEF choiceVars, ChoiceInv, ChoiceTypes
<1> QED
  BY <1>1, <1>2

\* The invariant holds throughout.
LEMMA ChoiceInvariant == ChoiceSpec => []ChoiceInv
BY ChoiceStarts, ChoiceSteps, PTL DEF ChoiceSpec

LEMMA ChoiceIsTyped == ChoiceInv => ChoiceTypeOK
<1> SUFFICES ASSUME ChoiceInv PROVE ChoiceTypeOK
  OBVIOUS
<1>1. ChoiceTypes
  BY DEF ChoiceInv
<1>2. /\ chosen \in Seq(DOMAIN pool) /\ queues \in Seq(Seq(DOMAIN pool))
      /\ Len(chosen) <= room /\ turn \in Nat \ {0}
      /\ choiceAt \in {"idle", "chooses", "done"}
  BY <1>1 DEF ChoiceTypes
<1>3. made_progress \in BOOLEAN
  BY <1>1 DEF ChoiceTypes
<1>4. ToSet(chosen) \subseteq DOMAIN pool
  BY <1>2 DEF ToSet
<1>5. UNION {ToSet(queues[i]) : i \in DOMAIN queues} \subseteq DOMAIN pool
  <2>1. ASSUME NEW i \in DOMAIN queues PROVE ToSet(queues[i]) \subseteq DOMAIN pool
    <3>1. queues[i] \in Seq(DOMAIN pool)
      BY <1>2
    <3> QED
      BY <3>1 DEF ToSet
  <2> QED
    BY <2>1
<1> QED
  BY <1>2, <1>3, <1>4, <1>5 DEF ChoiceTypeOK

-----------------------------------------------------------------------------
\* The choice and its queues are positions of the pool, and no more are chosen than
\* there is room for.
THEOREM ChoiceTypeCorrect == ChoiceSpec => []ChoiceTypeOK
BY ChoiceIsTyped, ChoiceInvariant, PTL

\* workflow/candidates.py: the loop that goes round the families and looks at no
\* candidate twice keeps every cap, puts nobody aside there was still room for, and
\* leaves no family more than one behind another that still had somebody to give.
THEOREM ChoicesAreDiverse == ChoiceSpec => []ChoiceIsDiverse
<1>1. ASSUME ChoiceInv, choiceAt = "done", Len(pool) > room, Sharing,
             NEW c \in DOMAIN pool \ ToSet(chosen), Fits(pool[c])
      PROVE  /\ Len(chosen) = room
             /\ \A d \in ToSet(chosen) : Alike(pool[d], Bucket) <= Alike(pool[c], Bucket) + 1
  <2>1. PICK i \in DOMAIN queues : c \in ToSet(queues[i])
    BY <1>1 DEF Sharing, NothingIsLost
  <2>2. queues[i] # <<>>
    BY <2>1, NothingInNone
  <2>3. Len(chosen) = room
    BY <1>1, <2>1, <2>2 DEF Sharing
  <2>4. /\ pool \in Pools /\ DOMAIN queues = DOMAIN OrderedFamilies(pool)
        /\ Bucket(pool[c]) = OrderedFamilies(pool)[i]
    BY <1>1, <2>1 DEF Sharing, QueuesAreFamilies
  <2>5. \A k : Alike(k, Bucket) = Taken(Bucket(k))
    BY DEF Alike, Taken
  <2>6. PICK r \in Nat : RoundsAre(r)
    BY <1>1 DEF Sharing
  <2>7. chosen \in Seq(DOMAIN pool)
    BY <1>1 DEF ChoiceInv, ChoiceTypes
  <2>8. \A j : Had(r, j) \in {r, r + 1}
    BY DEF Had
  <2>9. \A f : Taken(f) \in Nat
    BY <2>4, <2>7, TakenIsCounted
  <2>10. Taken(Bucket(pool[c])) >= r
    BY <2>1, <2>2, <2>4, <2>6, <2>8 DEF RoundsAre
  <2>11. ASSUME NEW d \in ToSet(chosen) PROVE Taken(Bucket(pool[d])) <= r + 1
    <3>1. Bucket(pool[d]) \in Families(pool)
      BY <2>7 DEF ToSet, Families
    <3>2. PICK j \in DOMAIN queues : OrderedFamilies(pool)[j] = Bucket(pool[d])
      BY <2>4, <3>1, AllAreWaiting
    <3> QED
      BY <2>6, <2>8, <2>9, <3>2 DEF RoundsAre
  <2>12. ASSUME NEW d \in ToSet(chosen)
         PROVE  Taken(Bucket(pool[d])) <= Taken(Bucket(pool[c])) + 1
    BY <2>9, <2>10, <2>11
  <2>13. ASSUME NEW d \in ToSet(chosen)
         PROVE  Alike(pool[d], Bucket) <= Alike(pool[c], Bucket) + 1
    <3>1. Alike(pool[d], Bucket) = Taken(Bucket(pool[d])) /\ Alike(pool[c], Bucket) = Taken(Bucket(pool[c]))
      BY <2>5, Zenon
    <3> QED
      BY <2>12, <3>1, Zenon
  <2> QED
    BY <2>3, <2>13, Zenon
<1>2. ASSUME ChoiceInv PROVE ChoiceIsDiverse
  <2>1. CASE Len(pool) > room
    <3>1. choiceAt = "done" => Sharing
      BY <1>2, <2>1 DEF ChoiceInv
    <3>2. choiceAt = "done" => \A c \in ToSet(chosen) : KeepsCaps(pool[c])
      BY <3>1 DEF Sharing, CapsAreKept
    <3> QED
      BY <1>1, <1>2, <2>1, <3>1, <3>2, Zenon DEF ChoiceIsDiverse
  <2>2. CASE ~(Len(pool) > room)
    <3>1. choiceAt = "done" => DOMAIN pool \ ToSet(chosen) = {}
      BY <1>2, <2>2 DEF ChoiceInv
    <3> QED
      BY <2>2, <3>1, Zenon DEF ChoiceIsDiverse
  <2> QED
    BY <2>1, <2>2
<1> QED
  BY <1>2, ChoiceInvariant, PTL
=============================================================================
