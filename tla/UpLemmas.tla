------------------------------ MODULE UpLemmas ------------------------------
(***************************************************************************)
(* Lemmas that the proofs about several modules rest on: least elements,   *)
(* which stand in for induction, lists, and the sums over finite sets that *)
(* SumFunction of the community modules computes.                          *)
(***************************************************************************)
EXTENDS Integers, Sequences, Functions, FiniteSetTheorems, WellFoundedInduction, TLAPS

-----------------------------------------------------------------------------
(* Least elements.                                                         *)

\* A set of naturals has a least element.
LEMMA LeastOfNaturals ==
  ASSUME NEW T \in SUBSET Nat, T # {}
  PROVE  \E x \in T : \A y \in T : x <= y
<1> DEFINE R == OpToRel(<, Nat)
<1>1. IsWellFoundedOn(R, Nat)
  BY NatLessThanWellFounded
<1>2. PICK x \in T : \A y \in T : ~ (<<y, x>> \in R)
  BY <1>1, WFMin
<1>3. \A y \in T : ~ (y < x)
  BY <1>2 DEF OpToRel
<1> QED
  BY <1>3

\* A set of places in a list has a greatest.
LEMMA GreatestIndex ==
  ASSUME NEW n \in Nat, NEW T \in SUBSET (1..n), T # {}
  PROVE  \E x \in T : \A y \in T : y <= x
<1> DEFINE U == {n - y : y \in T}
<1>1. U \in SUBSET Nat /\ U # {}
  <2>1. \A y \in T : n - y \in Nat
    OBVIOUS
  <2>2. \A u \in U : u \in Nat
    BY <2>1
  <2>3. PICK y \in T : TRUE
    OBVIOUS
  <2>4. n - y \in U
    BY <2>3
  <2> QED
    BY <2>2, <2>4
<1>2. PICK u \in U : \A v \in U : u <= v
  <2> HIDE DEF U
  <2> QED
    BY <1>1, LeastOfNaturals
<1>3. PICK x \in T : u = n - x
  OBVIOUS
<1>4. ASSUME NEW y \in T PROVE y <= x
  <2>1. u <= n - y
    BY <1>2
  <2> QED
    BY <1>3, <2>1
<1> QED
  BY <1>4

\* Of the subsets of a finite set in B, there is one none of whose parts is in B.
LEMMA SmallestSubset ==
  ASSUME NEW S, IsFiniteSet(S), NEW B \in SUBSET (SUBSET S), B # {}
  PROVE  \E s \in B : \A t \in SUBSET s : t # s => t \notin B
<1> DEFINE T == {Cardinality(s) : s \in B}
<1>1. \A s \in SUBSET S : IsFiniteSet(s) /\ Cardinality(s) \in Nat
  BY FS_Subset, FS_CardinalityType
<1>2. T \in SUBSET Nat /\ T # {}
  BY <1>1
<1>3. PICK n \in T : \A m \in T : n <= m
  <2> HIDE DEF T
  <2> QED
    BY <1>2, LeastOfNaturals
<1>4. PICK s \in B : n = Cardinality(s)
  OBVIOUS
<1>5. ASSUME NEW t \in SUBSET s, t # s, t \in B PROVE FALSE
  <2>1. IsFiniteSet(s) /\ Cardinality(s) \in Nat /\ Cardinality(t) \in Nat
    BY <1>1
  <2>2. Cardinality(s) <= Cardinality(t)
    BY <1>3, <1>4, <1>5
  <2>3. Cardinality(t) <= Cardinality(s) /\ (Cardinality(s) = Cardinality(t) => s = t)
    BY <2>1, FS_Subset
  <2> QED
    BY <1>5, <2>1, <2>2, <2>3
<1> QED
  BY <1>4, <1>5

\* One of the places in a list that satisfy a condition is the first.
LEMMA LeastIndex ==
  ASSUME NEW S, NEW l \in Seq(S), NEW T \in SUBSET (DOMAIN l), T # {}
  PROVE  \E i \in T : \A j \in T : i <= j
<1>1. T \in SUBSET Nat
  OBVIOUS
<1> QED
  BY <1>1, LeastOfNaturals

\* Induction up to n, over the members of a set.
LEMMA InductionUpTo ==
  ASSUME NEW n \in Nat, NEW J, 0 \in J, \A m \in 1..n : m - 1 \in J => m \in J
  PROVE  \A m \in 0..n : m \in J
<1> DEFINE T == {m \in 0..n : m \notin J}
<1> SUFFICES ASSUME T # {} PROVE FALSE
  OBVIOUS
<1>1. PICK m \in T : \A k \in T : m <= k
  <2>1. T \in SUBSET Nat
    OBVIOUS
  <2> HIDE DEF T
  <2> QED
    BY <2>1, LeastOfNaturals
<1>2. m \in 0..n /\ m \notin J /\ m # 0
  OBVIOUS
<1>3. m \in 1..n /\ m - 1 \in 0..n /\ ~(m <= m - 1)
  BY <1>2
<1>4. m - 1 \notin T
  <2> HIDE DEF T
  <2> QED
    BY <1>1, <1>3
<1> QED
  BY <1>2, <1>3, <1>4

\* A loop: what f[m] is after m rounds, the first of which finds base.
Loops(n, base, step, f) == f[0] = base /\ \A m \in 1..n : f[m] = step[m][f[m - 1]]

\* A loop over a set of values has a value after each round.
LEMMA LoopEnds ==
  ASSUME NEW n \in Nat, NEW P, NEW base \in P, NEW step \in [1..n -> [P -> P]]
  PROVE  \E f \in [0..n -> P] : Loops(n, base, step, f)
<1> DEFINE Ends(m) == \E f \in [0..m -> P] : Loops(m, base, step, f)
           J == {m \in 0..n : Ends(m)}
<1>1. 0 \in J
  <2> DEFINE f == [m \in 0..0 |-> base]
  <2>1. f \in [0..0 -> P] /\ Loops(0, base, step, f)
    BY DEF Loops
  <2> QED
    BY <2>1
<1>2. ASSUME NEW m \in 1..n, m - 1 \in J PROVE m \in J
  <2>1. PICK before \in [0..(m - 1) -> P] : Loops(m - 1, base, step, before)
    BY <1>2
  <2> DEFINE this == step[m][before[m - 1]]
             f == [k \in 0..m |-> IF k = m THEN this ELSE before[k]]
  <2>2. this \in P
    <3>1. m - 1 \in 0..(m - 1)
      BY <1>2
    <3> QED
      BY <3>1
  <2>3. \A k \in 0..(m - 1) : k \in 0..m /\ k # m
    BY <1>2
  <2>4. f \in [0..m -> P]
    <3> HIDE DEF this
    <3>1. \A k \in 0..m : k # m => k \in 0..(m - 1)
      BY <1>2
    <3> QED
      BY <2>2, <3>1
  <2>5. f[m] = this /\ \A k \in 0..(m - 1) : f[k] = before[k]
    BY <1>2, <2>3
  <2> HIDE DEF f
  <2>6. ASSUME NEW k \in 1..m PROVE f[k] = step[k][f[k - 1]]
    <3>1. k - 1 \in 0..(m - 1) /\ (k # m => k \in 1..(m - 1) /\ k \in 0..(m - 1))
      BY <1>2, <2>6
    <3>2. f[k - 1] = before[k - 1]
      BY <2>5, <3>1
    <3>3. CASE k = m
      BY <2>5, <3>2, <3>3
    <3>4. CASE k # m
      BY <2>1, <2>5, <3>1, <3>2, <3>4, Zenon DEF Loops
    <3> QED
      BY <3>3, <3>4
  <2>7. 0 \in 0..(m - 1)
    BY <1>2
  <2>8. f[0] = base
    BY <2>1, <2>5, <2>7, Zenon DEF Loops
  <2>9. Ends(m)
    BY <2>4, <2>6, <2>8, Zenon DEF Loops
  <2> QED
    BY <2>9
<1>3. n \in 0..n
  OBVIOUS
<1> HIDE DEF J
<1>4. \A m \in 0..n : m \in J
  BY <1>1, <1>2, InductionUpTo
<1> QED
  BY <1>3, <1>4 DEF J

\* It stays in that set.
LEMMA LoopStays ==
  ASSUME NEW n \in Nat, NEW P, NEW f, f[0] \in P, \A m \in 1..n : f[m - 1] \in P => f[m] \in P
  PROVE  \A m \in 0..n : f[m] \in P
<1> DEFINE J == {m \in 0..n : f[m] \in P}
<1>1. 0 \in J
  OBVIOUS
<1>2. \A m \in 1..n : m - 1 \in J => m \in J
  OBVIOUS
<1> HIDE DEF J
<1>3. \A m \in 0..n : m \in J
  BY <1>1, <1>2, InductionUpTo
<1> QED
  BY <1>3 DEF J

\* The set of a list's elements is finite.
LEMMA ListIsFinite ==
  ASSUME NEW S, NEW l \in Seq(S)
  PROVE  IsFiniteSet(Range(l))
<1>1. DOMAIN l = 1..Len(l) /\ Len(l) \in Nat
  OBVIOUS
<1>2. IsFiniteSet(1..Len(l))
  BY <1>1, FS_Interval
<1>3. l \in Surjection(1..Len(l), Range(l))
  BY <1>1 DEF Surjection, Range
<1> QED
  BY <1>2, <1>3, FS_Surjection

-----------------------------------------------------------------------------
(* Sums over finite sets.                                                  *)

\* The element SumFunction takes next.
AnyOf(s) == CHOOSE x \in s : TRUE

\* The recursion behind SumFunction: g sums v over the subsets of S.
Summing(S, v, g) ==
  g = [s \in SUBSET S |->
     IF s = {} THEN 0
     ELSE v[AnyOf(s)] + g[s \ {AnyOf(s)}]]

\* The sums of v over the subsets of S.
Sums(S, v) == CHOOSE g : Summing(S, v, g)

\* What SumFunction adds up.
LEMMA SumFunctionIsSum ==
  ASSUME NEW v
  PROVE  SumFunction(v) = Sums(DOMAIN v, v)[DOMAIN v]
BY DEF SumFunction, SumFunctionOnSet, FoldFunctionOnSet, MapThenFoldSet, Sums, Summing, AnyOf

\* What a sum over a set is.
LEMMA SumIs ==
  ASSUME NEW S, NEW v, NEW g, Summing(S, v, g), NEW s \in SUBSET S
  PROVE  /\ s = {} => g[s] = 0
         /\ s # {} => /\ AnyOf(s) \in s
                      /\ s \ {AnyOf(s)} \in SUBSET S /\ s \ {AnyOf(s)} # s
                      /\ g[s] = v[AnyOf(s)] + g[s \ {AnyOf(s)}]
<1>1. s # {} => AnyOf(s) \in s
  BY DEF AnyOf
<1> QED
  BY <1>1 DEF Summing

\* Sums over one set are the same, whichever larger set they are part of.
LEMMA SumsAgree ==
  ASSUME NEW S, NEW T, NEW v, NEW g, NEW h, IsFiniteSet(S),
         Summing(S, v, g), Summing(T, v, h),
         NEW s \in SUBSET S, s \in SUBSET T
  PROVE  g[s] = h[s]
<1> DEFINE B == {t \in SUBSET s : g[t] # h[t]}
<1> SUFFICES ASSUME B # {} PROVE FALSE
  OBVIOUS
<1>1. IsFiniteSet(s)
  BY FS_Subset
<1>2. PICK t \in B : \A u \in SUBSET t : u # t => u \notin B
  <2> HIDE DEF B
  <2>1. B \in SUBSET (SUBSET s)
    BY DEF B
  <2> QED
    BY <1>1, <2>1, SmallestSubset
<1>3. t \in SUBSET s /\ t \in SUBSET S /\ t \in SUBSET T /\ g[t] # h[t]
  OBVIOUS
<1> HIDE DEF B
<1>4. t # {}
  BY <1>3, SumIs
<1>5. /\ t \ {AnyOf(t)} \in SUBSET S /\ AnyOf(t) \in t
      /\ g[t] = v[AnyOf(t)] + g[t \ {AnyOf(t)}]
  BY <1>3, <1>4, SumIs
<1>6. h[t] = v[AnyOf(t)] + h[t \ {AnyOf(t)}]
  BY <1>3, <1>4, SumIs
<1>7. g[t \ {AnyOf(t)}] = h[t \ {AnyOf(t)}]
  <2> DEFINE u == t \ {AnyOf(t)}
  <2>1. u \in SUBSET t /\ u # t /\ u \in SUBSET s
    BY <1>3, <1>5
  <2> HIDE DEF u
  <2>2. u \notin B
    BY <1>2, <2>1
  <2>3. g[u] = h[u]
    BY <2>1, <2>2 DEF B
  <2> QED
    BY <2>3 DEF u
<1> QED
  BY <1>3, <1>5, <1>6, <1>7

\* The sums over the subsets of a finite set exist.
LEMMA SumsExist ==
  ASSUME NEW S, NEW v, IsFiniteSet(S)
  PROVE  Summing(S, v, Sums(S, v))
<1> DEFINE Has(t) == \E g : Summing(t, v, g)
           B == {t \in SUBSET S : ~Has(t)}
<1>0. SUFFICES Has(S)
  BY <1>0 DEF Sums
<1> SUFFICES ASSUME B # {} PROVE FALSE
  OBVIOUS
<1>1. PICK t \in B : \A u \in SUBSET t : u # t => u \notin B
  <2> HIDE DEF B
  <2>1. B \in SUBSET (SUBSET S)
    BY DEF B
  <2> QED
    BY <2>1, SmallestSubset
<1>2. t \in SUBSET S /\ ~Has(t)
  OBVIOUS
<1>3. \A u \in SUBSET t : u # t => Has(u)
  BY <1>1
<1>4. ASSUME NEW u \in SUBSET t, u # t
      PROVE  Summing(u, v, Sums(u, v)) /\ IsFiniteSet(u)
  BY <1>2, <1>3, <1>4, FS_Subset DEF Sums
<1> DEFINE part(s) == Sums(s, v)[s]
           Of(s) == IF s = {} THEN 0 ELSE v[AnyOf(s)] + part(s \ {AnyOf(s)})
           g == [s \in SUBSET t |-> Of(s)]
<1>5. ASSUME NEW r \in SUBSET t, r # t
      PROVE  g[r] = part(r)
  <2> DEFINE q == r \ {AnyOf(r)}
  <2>1. CASE r = {}
    BY <1>4, <1>5, <2>1, SumIs
  <2>2. CASE r # {}
    <3>1. /\ q \in SUBSET r /\ q \in SUBSET t /\ q # t
          /\ part(r) = v[AnyOf(r)] + Sums(r, v)[q]
      BY <1>4, <1>5, <2>2, SumIs
    <3>2. g[r] = v[AnyOf(r)] + part(q)
      BY <2>2
    <3> HIDE DEF q
    <3>3. Sums(r, v)[q] = Sums(q, v)[q]
      BY <1>4, <1>5, <3>1, SumsAgree
    <3> QED
      BY <3>1, <3>2, <3>3
  <2> QED
    BY <2>1, <2>2
<1>6. Summing(t, v, g)
  <2> DEFINE Then(s) == IF s = {} THEN 0 ELSE v[AnyOf(s)] + g[s \ {AnyOf(s)}]
  <2>1. ASSUME NEW s \in SUBSET t PROVE Of(s) = Then(s)
    <3>1. CASE s # {}
      <4>1. s \ {AnyOf(s)} \in SUBSET t /\ s \ {AnyOf(s)} # t
        BY <3>1 DEF AnyOf
      <4> QED
        BY <1>5, <3>1, <4>1
    <3> QED
      BY <3>1
  <2> HIDE DEF Of, Then
  <2>2. g = [s \in SUBSET t |-> Then(s)]
    BY <2>1
  <2> QED
    BY <2>2 DEF Summing, Then
<1> HIDE DEF g
<1> QED
  BY <1>2, <1>6

\* Sums of natural numbers, by the element that is taken next.
LEMMA SumNat ==
  ASSUME NEW S, IsFiniteSet(S), NEW v \in [S -> Nat]
  PROVE  /\ \A s \in SUBSET S : Sums(S, v)[s] \in Nat
         /\ Sums(S, v)[{}] = 0
         /\ \A s \in SUBSET S : s # {} =>
              /\ AnyOf(s) \in s
              /\ Sums(S, v)[s] = v[AnyOf(s)] + Sums(S, v)[s \ {AnyOf(s)}]
<1> DEFINE g == Sums(S, v)
           B == {s \in SUBSET S : g[s] \notin Nat}
<1>1. Summing(S, v, g)
  BY SumsExist
<1> HIDE DEF g
<1>2. g[{}] = 0
  BY <1>1, SumIs
<1>3. ASSUME NEW s \in SUBSET S, s # {}
      PROVE  /\ AnyOf(s) \in s /\ s \ {AnyOf(s)} \in SUBSET s /\ s \ {AnyOf(s)} # s
             /\ g[s] = v[AnyOf(s)] + g[s \ {AnyOf(s)}]
  BY <1>1, <1>3, SumIs
<1>4. ASSUME B # {} PROVE FALSE
  <2>1. PICK t \in B : \A u \in SUBSET t : u # t => u \notin B
    <3> HIDE DEF B
    <3>1. B \in SUBSET (SUBSET S)
      BY DEF B
    <3> QED
      BY <1>4, <3>1, SmallestSubset
  <2>2. t \in SUBSET S /\ g[t] \notin Nat /\ t # {}
    BY <1>2
  <2>3. t \ {AnyOf(t)} \in SUBSET S /\ g[t \ {AnyOf(t)}] \in Nat /\ v[AnyOf(t)] \in Nat
    BY <1>3, <2>1, <2>2
  <2> QED
    BY <1>3, <2>2, <2>3
<1> QED
  BY <1>2, <1>3, <1>4 DEF g

\* A sum of naturals is one.
LEMMA SumFunctionNat ==
  ASSUME NEW S, IsFiniteSet(S), NEW v \in [S -> Nat]
  PROVE  SumFunction(v) \in Nat
BY SumNat, SumFunctionIsSum

\* A sum of one number.
LEMMA SumOfOne ==
  ASSUME NEW d, NEW v \in [{d} -> Nat]
  PROVE  SumFunction(v) = v[d]
<1>1. IsFiniteSet({d})
  BY FS_Singleton
<1>2. AnyOf({d}) \in {d} /\ Sums({d}, v)[{d}] = v[AnyOf({d})] + Sums({d}, v)[{d} \ {AnyOf({d})}]
  BY <1>1, SumNat
<1>3. {d} \ {AnyOf({d})} = {} /\ AnyOf({d}) = d
  BY <1>2
<1>4. Sums({d}, v)[{d} \ {AnyOf({d})}] = 0
  BY <1>1, <1>3, SumNat
<1> QED
  BY <1>2, <1>3, <1>4, SumFunctionIsSum

\* A sum of positive numbers.
LEMMA SumPositive ==
  ASSUME NEW S, IsFiniteSet(S), S # {}, NEW v \in [S -> Nat], \A d \in S : v[d] > 0
  PROVE  SumFunction(v) > 0
<1>1. /\ AnyOf(S) \in S /\ S \ {AnyOf(S)} \in SUBSET S
      /\ Sums(S, v)[S] = v[AnyOf(S)] + Sums(S, v)[S \ {AnyOf(S)}]
  BY SumNat
<1>2. Sums(S, v)[S \ {AnyOf(S)}] \in Nat
  BY <1>1, SumNat
<1>3. v[AnyOf(S)] \in Nat /\ v[AnyOf(S)] > 0
  BY <1>1
<1> QED
  BY <1>1, <1>2, <1>3, SumFunctionIsSum

\* A share of each of two parts is one of both.
LEMMA ShareOfTwo ==
  ASSUME NEW a \in Nat, NEW b \in Nat, NEW c \in Nat, NEW e \in Nat, NEW k \in Nat, NEW m \in Nat,
         k * b <= m * a, k * c <= m * e
  PROVE  k * (b + c) <= m * (a + e)
OBVIOUS

\* When each part e[d] is at least the share k / m of f[d], so is the sum.
LEMMA ShareOfSums ==
  ASSUME NEW S, IsFiniteSet(S), NEW e \in [S -> Nat], NEW f \in [S -> Nat], NEW k \in Nat,
         NEW m \in Nat, \A d \in S : k * f[d] <= m * e[d]
  PROVE  k * SumFunction(f) <= m * SumFunction(e)
<1> DEFINE E == Sums(S, e)
           F == Sums(S, f)
<1>1. /\ E[{}] = 0 /\ \A s \in SUBSET S : E[s] \in Nat
      /\ \A s \in SUBSET S : s # {} =>
           AnyOf(s) \in s /\ E[s] = e[AnyOf(s)] + E[s \ {AnyOf(s)}]
  BY SumNat
<1>2. /\ F[{}] = 0 /\ \A s \in SUBSET S : F[s] \in Nat
      /\ \A s \in SUBSET S : s # {} =>
           AnyOf(s) \in s /\ F[s] = f[AnyOf(s)] + F[s \ {AnyOf(s)}]
  BY SumNat
<1> DEFINE B == {s \in SUBSET S : ~(k * F[s] <= m * E[s])}
<1> SUFFICES B = {}
  BY SumFunctionIsSum
<1> SUFFICES ASSUME B # {} PROVE FALSE
  OBVIOUS
<1> HIDE DEF E, F
<1>3. PICK t \in B : \A u \in SUBSET t : u # t => u \notin B
  <2> HIDE DEF B
  <2>1. B \in SUBSET (SUBSET S)
    BY DEF B
  <2> QED
    BY <2>1, SmallestSubset
<1>4. t \in SUBSET S /\ ~(k * F[t] <= m * E[t]) /\ t # {}
  <2>1. k * 0 <= m * 0
    OBVIOUS
  <2>2. k * F[{}] <= m * E[{}]
    BY <1>1, <1>2, <2>1
  <2> QED
    BY <2>2
<1> DEFINE x == AnyOf(t)
           u == t \ {x}
<1>5. /\ x \in t /\ u \in SUBSET S /\ u \in SUBSET t /\ u # t
      /\ E[t] = e[x] + E[u] /\ F[t] = f[x] + F[u]
  BY <1>1, <1>2, <1>4
<1>6. E[u] \in Nat /\ F[u] \in Nat /\ e[x] \in Nat /\ f[x] \in Nat
  BY <1>1, <1>2, <1>4, <1>5
<1> HIDE DEF x, u
<1>7. k * F[u] <= m * E[u]
  BY <1>3, <1>5
<1>8. k * f[x] <= m * e[x]
  BY <1>4, <1>5
<1> QED
  BY <1>4, <1>5, <1>6, <1>7, <1>8, ShareOfTwo

\* The whole quotient of two natural numbers.
LEMMA DivNat ==
  ASSUME NEW a \in Nat, NEW b \in Nat, b > 0
  PROVE  a \div b \in Nat
OBVIOUS

\* A whole quotient reaches k when the number does.
LEMMA DivBound ==
  ASSUME NEW a \in Nat, NEW b \in Nat, b > 0, NEW k \in Nat
  PROVE  (a \div b >= k) <=> (a >= k * b)
OBVIOUS
=============================================================================
