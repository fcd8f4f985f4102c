------------------------------ MODULE SetSums ------------------------------
(***************************************************************************)
(* Sums of weights over a finite set, as the folds of the community        *)
(* modules compute them: one element, chosen, and the others.  They depend *)
(* neither on the choice nor on weights outside the set.                   *)
(***************************************************************************)
EXTENDS Integers, FiniteSets, Functions, Folds, FiniteSetTheorems, WellFoundedInduction, TLAPS

\* A non-empty set of naturals has a least element.
LEMMA SomethingLeast ==
  ASSUME NEW S \in SUBSET Nat, S # {}
  PROVE  \E x \in S : \A y \in S : x <= y
<1> DEFINE R == OpToRel(<, Nat)
<1>1. \A x, y \in Nat : y < x => <<y, x>> \in R
  BY DEF OpToRel
<1>2. IsWellFoundedOn(R, Nat)
  BY NatLessThanWellFounded
<1> HIDE DEF R
<1>3. PICK x \in S : \A y \in S : ~ (<<y, x>> \in R)
  BY <1>2, WFMin
<1>4. \A y \in S : ~ (y < x)
  BY <1>1, <1>3
<1> QED BY <1>4

\* A set of finite sets has one of fewest elements.
LEMMA SomethingSmallest ==
  ASSUME NEW B, B # {}, \A s \in B : IsFiniteSet(s)
  PROVE  \E s \in B : \A t \in B : Cardinality(s) <= Cardinality(t)
<1> DEFINE N == {Cardinality(s) : s \in B}
<1>1. N \in SUBSET Nat /\ N # {}
  BY FS_CardinalityType
<1> HIDE DEF N
<1>2. PICK n \in N : \A k \in N : n <= k
  BY <1>1, SomethingLeast
<1> QED BY <1>2 DEF N

\* A set without one of its elements is smaller.
LEMMA Smaller ==
  ASSUME NEW s, IsFiniteSet(s), NEW x \in s
  PROVE  IsFiniteSet(s \ {x}) /\ ~(Cardinality(s) <= Cardinality(s \ {x}))
<1>1. IsFiniteSet(s \ {x}) /\ Cardinality(s \ {x}) = Cardinality(s) - 1
  BY FS_RemoveElement, Zenon
<1>2. Cardinality(s) \in Nat
  BY FS_CardinalityType
<1> QED BY <1>1, <1>2

\* A function h gives the sum of the weights g over each subset of S.
One(s) == CHOOSE x \in s : TRUE
Sums(h, g, S) ==
  h = [s \in SUBSET S |-> IF s = {} THEN 0 ELSE g[One(s)] + h[s \ {One(s)}]]

LEMMA SumsAt ==
  ASSUME NEW h, NEW g, NEW S, Sums(h, g, S), NEW s \in SUBSET S
  PROVE  h[s] = IF s = {} THEN 0 ELSE g[One(s)] + h[s \ {One(s)}]
BY DEF Sums

LEMMA OneIsIn ==
  ASSUME NEW s, s # {}
  PROVE  One(s) \in s
BY DEF One

\* The sum over a set depends on the weights of its elements and on nothing else.
LEMMA SumsAgree ==
  ASSUME NEW S, NEW T, NEW g, NEW e, NEW h, NEW k, Sums(h, g, S), Sums(k, e, T),
         NEW s \in SUBSET S, s \in SUBSET T, IsFiniteSet(s), \A x \in s : g[x] = e[x]
  PROVE  h[s] = k[s]
<1> DEFINE B == {t \in SUBSET s : h[t] # k[t]}
<1>1. SUFFICES ASSUME B # {} PROVE FALSE
  OBVIOUS
<1>2. \A t \in B : IsFiniteSet(t)
  BY FS_Subset
<1>3. PICK t \in B : \A r \in B : Cardinality(t) <= Cardinality(r)
  <2> HIDE DEF B
  <2> QED BY <1>1, <1>2, SomethingSmallest
<1>4. /\ h[t] = IF t = {} THEN 0 ELSE g[One(t)] + h[t \ {One(t)}]
      /\ k[t] = IF t = {} THEN 0 ELSE e[One(t)] + k[t \ {One(t)}]
  <2>1. t \in SUBSET S /\ t \in SUBSET T
    BY <1>3
  <2> QED BY <2>1, SumsAt
<1>5. t # {}
  BY <1>4
<1>6. One(t) \in t
  BY <1>5, OneIsIn
<1>7. t \ {One(t)} \notin B
  BY <1>2, <1>3, <1>6, Smaller
<1>8. h[t \ {One(t)}] = k[t \ {One(t)}]
  BY <1>7
<1> QED BY <1>4, <1>5, <1>6, <1>8

\* There is such a function.
LEMMA SumsExist ==
  ASSUME NEW S, IsFiniteSet(S), NEW g
  PROVE  \E h : Sums(h, g, S)
<1> DEFINE B == {s \in SUBSET S : ~\E h : Sums(h, g, s)}
<1>1. SUFFICES ASSUME B # {} PROVE FALSE
  OBVIOUS
<1>2. \A s \in SUBSET S : IsFiniteSet(s)
  BY FS_Subset
<1>3. PICK s \in B : \A t \in B : Cardinality(s) <= Cardinality(t)
  <2>1. \A t \in B : IsFiniteSet(t)
    BY <1>2
  <2> HIDE DEF B
  <2> QED BY <1>1, <2>1, SomethingSmallest
<1> DEFINE Part(t) == CHOOSE h : Sums(h, g, t)
           Rest(t) == t \ {One(t)}
           whole == [t \in SUBSET s |-> IF t = {} THEN 0 ELSE g[One(t)] + Part(Rest(t))[Rest(t)]]
<1>4. ASSUME NEW t \in SUBSET s, t # {}
      PROVE  Sums(Part(Rest(t)), g, Rest(t)) /\ Rest(t) \in SUBSET s
  <2>1. One(t) \in t /\ t \in SUBSET S
    BY <1>4, OneIsIn
  <2>2. Cardinality(t) <= Cardinality(s)
    BY <1>2, FS_Subset
  <2>3. IsFiniteSet(t) /\ Rest(t) \in SUBSET S
    BY <1>2, <2>1
  <2>4. ~(Cardinality(t) <= Cardinality(Rest(t)))
    BY <2>1, <2>3, Smaller
  <2>5. ~(Cardinality(s) <= Cardinality(Rest(t)))
    <3>1. Cardinality(t) \in Nat /\ Cardinality(s) \in Nat /\ Cardinality(Rest(t)) \in Nat
      BY <1>2, <2>3, FS_CardinalityType
    <3> QED BY <2>2, <2>4, <3>1
  <2>6. Rest(t) \notin B
    BY <1>3, <2>5
  <2>7. \E h : Sums(h, g, Rest(t))
    BY <2>3, <2>6
  <2> QED BY <2>7
<1>5. ASSUME NEW t \in SUBSET s, t # {}
      PROVE  whole[Rest(t)] = Part(Rest(t))[Rest(t)]
  <2> DEFINE r == Rest(t)
  <2> SUFFICES whole[r] = Part(r)[r]
    OBVIOUS
  <2>1. r \in SUBSET s /\ Sums(Part(r), g, r)
    BY <1>4, <1>5
  <2>2. Part(r)[r] = IF r = {} THEN 0 ELSE g[One(r)] + Part(r)[Rest(r)]
    <3> HIDE DEF Part, r
    <3>1. r \in SUBSET r
      OBVIOUS
    <3> QED BY <2>1, <3>1, SumsAt
  <2>3. CASE r = {}
    <3>1. whole[r] = 0
      <4> HIDE DEF r, Part
      <4> QED BY <2>1, <2>3
    <3> QED BY <2>2, <2>3, <3>1
  <2>4. CASE r # {}
    <3>1. Sums(Part(Rest(r)), g, Rest(r)) /\ Rest(r) \in SUBSET s
      <4> HIDE DEF r, Part
      <4> QED BY <1>4, <2>1, <2>4
    <3>2. IsFiniteSet(Rest(r))
      BY <1>2, <3>1
    <3>3. Part(r)[Rest(r)] = Part(Rest(r))[Rest(r)]
      <4>1. Rest(r) \in SUBSET r /\ Rest(r) \in SUBSET Rest(r)
        OBVIOUS
      <4> HIDE DEF r, Part, Rest
      <4> QED BY <2>1, <3>1, <3>2, <4>1, SumsAgree
    <3>4. whole[r] = g[One(r)] + Part(Rest(r))[Rest(r)]
      <4> HIDE DEF r, Part
      <4> QED BY <2>1, <2>4
    <3> HIDE DEF whole, r, Part
    <3> QED BY <2>2, <2>4, <3>3, <3>4
  <2> QED BY <2>3, <2>4
<1>6. Sums(whole, g, s)
  <2>1. \A t \in SUBSET s : whole[t] = IF t = {} THEN 0 ELSE g[One(t)] + whole[Rest(t)]
    <3> SUFFICES ASSUME NEW t \in SUBSET s
                 PROVE  whole[t] = IF t = {} THEN 0 ELSE g[One(t)] + whole[Rest(t)]
      OBVIOUS
    <3>1. whole[t] = IF t = {} THEN 0 ELSE g[One(t)] + Part(Rest(t))[Rest(t)]
      <4> HIDE DEF Part
      <4> QED OBVIOUS
    <3> HIDE DEF whole, Part
    <3> QED BY <1>5, <3>1
  <2>2. whole = [t \in SUBSET s |-> whole[t]]
    <3> HIDE DEF Part
    <3> QED OBVIOUS
  <2> HIDE DEF whole, Part
  <2> QED BY <2>1, <2>2 DEF Sums
<1> QED BY <1>6

\* Whichever element is taken first.
LEMMA SumsTake ==
  ASSUME NEW S, IsFiniteSet(S), NEW g \in [S -> Nat], NEW h, Sums(h, g, S)
  PROVE  /\ \A s \in SUBSET S : h[s] \in Nat
         /\ \A s \in SUBSET S : \A x \in s : h[s] = g[x] + h[s \ {x}]
<1>1. \A s \in SUBSET S : IsFiniteSet(s)
  BY FS_Subset
<1>2. ASSUME NEW s \in SUBSET S, s # {}
      PROVE  /\ One(s) \in s /\ s \ {One(s)} \in SUBSET S
             /\ h[s] = g[One(s)] + h[s \ {One(s)}]
             /\ ~(Cardinality(s) <= Cardinality(s \ {One(s)}))
  BY <1>1, <1>2, SumsAt, OneIsIn, Smaller
<1>3. \A s \in SUBSET S : h[s] \in Nat
  <2> DEFINE B == {s \in SUBSET S : h[s] \notin Nat}
  <2>1. SUFFICES ASSUME B # {} PROVE FALSE
    OBVIOUS
  <2>2. PICK s \in B : \A t \in B : Cardinality(s) <= Cardinality(t)
    <3>1. \A t \in B : IsFiniteSet(t)
      BY <1>1
    <3> HIDE DEF B
    <3> QED BY <2>1, <3>1, SomethingSmallest
  <2>3. s # {}
    BY SumsAt
  <2>4. s \ {One(s)} \notin B
    BY <1>2, <2>2, <2>3
  <2>5. h[s \ {One(s)}] \in Nat /\ g[One(s)] \in Nat
    BY <1>2, <2>3, <2>4
  <2>6. h[s] = g[One(s)] + h[s \ {One(s)}]
    BY <1>2, <2>3
  <2> QED BY <2>2, <2>5, <2>6
<1>4. ASSUME NEW s \in SUBSET S, NEW x \in s
      PROVE  h[s] = g[x] + h[s \ {x}]
  <2> DEFINE B == {t \in SUBSET S : \E y \in t : h[t] # g[y] + h[t \ {y}]}
  <2>1. SUFFICES ASSUME B # {} PROVE FALSE
    BY <1>4
  <2>2. PICK t \in B : \A r \in B : Cardinality(t) <= Cardinality(r)
    <3>1. \A r \in B : IsFiniteSet(r)
      BY <1>1
    <3> HIDE DEF B
    <3> QED BY <2>1, <3>1, SomethingSmallest
  <2>3. PICK y \in t : h[t] # g[y] + h[t \ {y}]
    OBVIOUS
  <2> DEFINE z == One(t)
  <2>4. z \in t /\ h[t] = g[z] + h[t \ {z}] /\ ~(Cardinality(t) <= Cardinality(t \ {z}))
    BY <1>2, <2>3
  <2> HIDE DEF z
  <2>5. y # z
    BY <2>3, <2>4
  <2>6. ~(Cardinality(t) <= Cardinality(t \ {y}))
    BY <1>1, <2>3, Smaller
  <2>7. h[t \ {z}] = g[y] + h[(t \ {z}) \ {y}]
    BY <2>2, <2>4, <2>5
  <2>8. h[t \ {y}] = g[z] + h[(t \ {y}) \ {z}]
    BY <2>2, <2>4, <2>5, <2>6
  <2>9. h[(t \ {z}) \ {y}] = h[(t \ {y}) \ {z}]
    <3>1. (t \ {z}) \ {y} = (t \ {y}) \ {z}
      OBVIOUS
    <3> QED BY <3>1, Zenon
  <2>10. g[y] \in Nat /\ g[z] \in Nat /\ h[(t \ {y}) \ {z}] \in Nat
    BY <1>3, <2>4
  <2> QED BY <2>3, <2>4, <2>7, <2>8, <2>9, <2>10
<1> QED BY <1>3, <1>4

LEMMA SumsGrow ==
  ASSUME NEW S, IsFiniteSet(S), NEW g \in [S -> Nat], NEW h, Sums(h, g, S),
         NEW t \in SUBSET S, NEW s \in SUBSET t
  PROVE  h[s] <= h[t]
<1>1. /\ \A r \in SUBSET S : h[r] \in Nat /\ IsFiniteSet(r)
      /\ \A r \in SUBSET S : \A x \in r : h[r] = g[x] + h[r \ {x}]
  BY SumsTake, FS_Subset
<1> DEFINE B == {r \in SUBSET t : s \subseteq r /\ ~(h[s] <= h[r])}
<1>2. SUFFICES ASSUME B # {} PROVE FALSE
  OBVIOUS
<1>3. PICK r \in B : \A q \in B : Cardinality(r) <= Cardinality(q)
  <2>1. \A r \in B : IsFiniteSet(r)
    BY <1>1
  <2> HIDE DEF B
  <2> QED BY <1>2, <2>1, SomethingSmallest
<1>4. r # s
  BY <1>1, <1>3
<1>5. PICK x \in r : x \notin s
  BY <1>4
<1>6. r \ {x} \notin B
  BY <1>1, <1>3, <1>5, Smaller
<1>7. h[s] <= h[r \ {x}] /\ h[r] = g[x] + h[r \ {x}]
  BY <1>1, <1>5, <1>6
<1>8. g[x] \in Nat /\ h[r \ {x}] \in Nat /\ h[s] \in Nat
  BY <1>1
<1> QED BY <1>7, <1>8

LEMMA SumsAdd ==
  ASSUME NEW S, IsFiniteSet(S), NEW g \in [S -> Nat], NEW h, Sums(h, g, S),
         NEW s \in SUBSET S, NEW t \in SUBSET S, s \cap t = {}
  PROVE  h[s \cup t] = h[s] + h[t]
<1>1. /\ \A r \in SUBSET S : h[r] \in Nat /\ IsFiniteSet(r)
      /\ \A r \in SUBSET S : \A x \in r : h[r] = g[x] + h[r \ {x}]
  BY SumsTake, FS_Subset
<1> DEFINE B == {r \in SUBSET t : h[s \cup r] # h[s] + h[r]}
<1>2. SUFFICES ASSUME B # {} PROVE FALSE
  OBVIOUS
<1>3. PICK r \in B : \A q \in B : Cardinality(r) <= Cardinality(q)
  <2>1. \A r \in B : IsFiniteSet(r)
    BY <1>1
  <2> HIDE DEF B
  <2> QED BY <1>2, <2>1, SomethingSmallest
<1>4. r # {}
  <2>1. h[{}] = 0
    BY SumsAt
  <2>2. s \cup {} = s
    OBVIOUS
  <2>3. h[s \cup {}] = h[s] /\ h[s] \in Nat
    BY <1>1, <2>2, Zenon
  <2>4. h[s \cup {}] = h[s] + h[{}]
    BY <2>1, <2>3
  <2> QED BY <1>3, <2>4
<1>5. PICK x : x \in r
  BY <1>4
<1>6. r \ {x} \notin B
  BY <1>1, <1>3, <1>5, Smaller
<1>7. h[s \cup (r \ {x})] = h[s] + h[r \ {x}]
  BY <1>6
<1>8. (s \cup r) \ {x} = s \cup (r \ {x})
  BY <1>5
<1>9. h[s \cup r] = g[x] + h[s \cup (r \ {x})] /\ h[r] = g[x] + h[r \ {x}]
  BY <1>1, <1>5, <1>8
<1>10. g[x] \in Nat /\ h[r \ {x}] \in Nat /\ h[s] \in Nat
  BY <1>1, <1>5
<1> QED BY <1>3, <1>7, <1>9, <1>10

\* SumFunction takes the weights of a function one by one, in some order.
LEMMA SumFunctionIsSum ==
  ASSUME NEW S, IsFiniteSet(S), NEW g \in [S -> Nat], NEW h, Sums(h, g, S)
  PROVE  SumFunction(g) = h[S]
<1> DEFINE Iter(it) == it = [r \in SUBSET S |-> IF r = {} THEN 0 ELSE g[One(r)] + it[r \ {One(r)}]]
           k == CHOOSE it : Iter(it)
<1>1. Iter(h)
  BY DEF Sums
<1>2. Iter(k)
  <2> HIDE DEF Iter
  <2> QED BY <1>1
<1>3. Sums(k, g, S)
  <2> HIDE DEF k
  <2> QED BY <1>2 DEF Sums
<1>4. SumFunction(g) = k[S]
  BY DEF SumFunction, SumFunctionOnSet, FoldFunctionOnSet, MapThenFoldSet, One
<1> HIDE DEF k
<1>5. k[S] = h[S]
  BY <1>3, SumsAgree
<1> QED BY <1>4, <1>5

\* The sum of a sequence up to a place is that before the place and what is there.
LEMMA PrefixSums ==
  ASSUME NEW n \in Nat, NEW f, \A i \in 1..n : f[i] \in Nat
  PROVE  /\ SumFunction([i \in 1..n |-> f[i]]) \in Nat
         /\ n > 0 => SumFunction([i \in 1..n |-> f[i]])
                       = SumFunction([i \in 1..(n - 1) |-> f[i]]) + f[n]
         /\ n = 0 => SumFunction([i \in 1..n |-> f[i]]) = 0
<1> DEFINE g == [i \in 1..n |-> f[i]]
           e == [i \in 1..(n - 1) |-> f[i]]
           S == 1..n
           T == 1..(n - 1)
<1> SUFFICES /\ SumFunction(g) \in Nat
             /\ n > 0 => SumFunction(g) = SumFunction(e) + f[n]
             /\ n = 0 => SumFunction(g) = 0
  OBVIOUS
<1>1. /\ IsFiniteSet(S) /\ IsFiniteSet(T) /\ g \in [S -> Nat] /\ e \in [T -> Nat]
      /\ T \in SUBSET S /\ T \in SUBSET T /\ S \in SUBSET S
      /\ (n > 0 => n \in S /\ S \ {n} = T /\ g[n] = f[n])
      /\ (n = 0 => S = {}) /\ (\A i \in T : e[i] = g[i])
  <2>1. IsFiniteSet(S) /\ IsFiniteSet(T)
    BY FS_Interval
  <2>2. T \in SUBSET S /\ T \in SUBSET T /\ S \in SUBSET S
    OBVIOUS
  <2>3. g \in [S -> Nat] /\ e \in [T -> Nat] /\ (\A i \in T : e[i] = g[i])
    OBVIOUS
  <2>4. (n > 0 => n \in S /\ S \ {n} = T /\ g[n] = f[n]) /\ (n = 0 => S = {})
    OBVIOUS
  <2> QED BY <2>1, <2>2, <2>3, <2>4
<1> HIDE DEF g, e, S, T
<1>2. PICK h : Sums(h, g, S)
  BY <1>1, SumsExist
<1>3. PICK k : Sums(k, e, T)
  BY <1>1, SumsExist
<1>4. SumFunction(g) = h[S] /\ SumFunction(e) = k[T]
  BY <1>1, <1>2, <1>3, SumFunctionIsSum
<1>5. k[T] = h[T]
  BY <1>1, <1>2, <1>3, SumsAgree
<1>6. h[S] \in Nat /\ (n > 0 => h[S] = g[n] + h[S \ {n}]) /\ h[T] \in Nat
  BY <1>1, <1>2, SumsTake
<1>7. n = 0 => h[S] = 0
  BY <1>1, <1>2, SumsAt
<1> QED BY <1>1, <1>4, <1>5, <1>6, <1>7
=============================================================================
