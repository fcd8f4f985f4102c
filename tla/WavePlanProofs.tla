--------------------------- MODULE WavePlanProofs ---------------------------
(***************************************************************************)
(* What WavePlan computes, for any number of proposers, sizes and limits:  *)
(* every plan has a place for each proposer and asks for no more than      *)
(* there is, and where waves are allowed no plan that keeps the order has  *)
(* fewer of them.                                                          *)
(*                                                                         *)
(* The packing is a fold: its states after each footprint come first, then *)
(* what each of them keeps.  That there is no shorter plan holds because   *)
(* every wave but the last is full: in any other plan that fits, the waves *)
(* end no later than here.                                                 *)
(***************************************************************************)
EXTENDS WavePlan, SetSums

\* A set of places has a last one.
LEMMA SomethingLast ==
  ASSUME NEW n \in Nat, NEW s \in SUBSET (1..n), s # {}
  PROVE  Max(s) \in s /\ \A y \in s : Max(s) >= y
<1> DEFINE Left == {n - x : x \in s}
<1>1. Left \in SUBSET Nat /\ Left # {}
  <2>1. \A x \in s : n - x \in Nat
    OBVIOUS
  <2>2. \E x : x \in s
    OBVIOUS
  <2> QED BY <2>1, <2>2
<1>2. PICK m \in Left : \A k \in Left : m <= k
  <2> HIDE DEF Left
  <2> QED BY <1>1, SomethingLeast
<1>3. PICK x \in s : m = n - x
  BY <1>2
<1>4. ASSUME NEW y \in s PROVE x >= y
  <2>1. n - y \in Left /\ x \in Nat /\ y \in Nat
    OBVIOUS
  <2>2. n - x <= n - y
    BY <1>2, <1>3, <2>1
  <2> QED BY <2>1, <2>2
<1> QED BY <1>3, <1>4 DEF Max

\* A function h packs each subset of the first n footprints, the last of them last.
NothingPacked == [waves |-> <<>>, wave |-> <<>>, bytes |-> 0]
Packs(h, footprints, n) ==
  h = [s \in SUBSET (1..n) |->
         IF s = {} THEN NothingPacked ELSE Pack(h[s \ {Max(s)}], footprints[Max(s)])]

LEMMA PacksAt ==
  ASSUME NEW h, NEW footprints, NEW n, Packs(h, footprints, n), NEW s \in SUBSET (1..n)
  PROVE  h[s] = IF s = {} THEN NothingPacked ELSE Pack(h[s \ {Max(s)}], footprints[Max(s)])
BY DEF Packs

LEMMA PacksExist ==
  ASSUME NEW footprints, NEW n \in Nat
  PROVE  \E h : Packs(h, footprints, n)
<1> DEFINE B == {k \in Nat : ~\E h : Packs(h, footprints, k)}
<1>1. SUFFICES ASSUME B # {} PROVE FALSE
  OBVIOUS
<1>2. PICK k \in B : \A i \in B : k <= i
  <2>1. B \in SUBSET Nat
    OBVIOUS
  <2> HIDE DEF B
  <2> QED BY <1>1, <2>1, SomethingLeast
<1>3. k \in Nat /\ ~\E h : Packs(h, footprints, k)
  BY <1>2
<1>4. k # 0
  <2> DEFINE h == [s \in SUBSET (1..0) |-> NothingPacked]
  <2>1. \A s \in SUBSET (1..0) : s = {}
    OBVIOUS
  <2>2. Packs(h, footprints, 0)
    BY <2>1 DEF Packs
  <2> HIDE DEF h
  <2> QED BY <1>3, <2>2
<1>5. k - 1 \in Nat /\ k - 1 \notin B
  BY <1>2, <1>4
<1>6. PICK h : Packs(h, footprints, k - 1)
  BY <1>5
<1> DEFINE whole == [s \in SUBSET (1..k) |-> IF k \in s THEN Pack(h[s \ {k}], footprints[k]) ELSE h[s]]
           Step(s) == IF s = {} THEN NothingPacked ELSE Pack(whole[s \ {Max(s)}], footprints[Max(s)])
<1>7. ASSUME NEW s \in SUBSET (1..k) PROVE whole[s] = Step(s)
  <2>1. s \ {k} \in SUBSET (1..(k - 1))
    BY <1>3
  <2>2. CASE k \in s
    <3>1. Max(s) = k
      <4>1. Max(s) \in s /\ Max(s) >= k
        BY <1>3, <2>2, SomethingLast
      <4>2. Max(s) \in 1..k
        BY <4>1
      <4> HIDE DEF B
      <4> QED BY <1>3, <4>1, <4>2
    <3>2. whole[s] = Pack(h[s \ {k}], footprints[k]) /\ whole[s \ {k}] = h[s \ {k}]
      BY <2>2
    <3> HIDE DEF whole
    <3> QED BY <2>2, <3>1, <3>2
  <2>3. CASE k \notin s
    <3>1. s \in SUBSET (1..(k - 1))
      BY <2>1, <2>3
    <3>2. h[s] = IF s = {} THEN NothingPacked ELSE Pack(h[s \ {Max(s)}], footprints[Max(s)])
      BY <1>6, <3>1 DEF Packs
    <3>3. whole[s] = h[s] /\ whole[s \ {Max(s)}] = h[s \ {Max(s)}]
      BY <2>3
    <3> HIDE DEF whole
    <3> QED BY <3>2, <3>3
  <2> QED BY <2>2, <2>3
<1>8. Packs(whole, footprints, k)
  <2>1. whole = [s \in SUBSET (1..k) |-> whole[s]]
    OBVIOUS
  <2> HIDE DEF whole
  <2>2. whole = [s \in SUBSET (1..k) |-> Step(s)]
    BY <1>7, <2>1
  <2> QED BY <2>2 DEF Packs
<1> HIDE DEF whole
<1> QED BY <1>3, <1>8

\* The packing goes from one footprint to the next.
LEMMA PackedInSteps ==
  ASSUME NEW S, NEW footprints \in Seq(S)
  PROVE  \E at :
           /\ at[0] = NothingPacked
           /\ \A k \in 1..Len(footprints) : at[k] = Pack(at[k - 1], footprints[k])
           /\ Packed(footprints) =
                Append(at[Len(footprints)].waves, Len(at[Len(footprints)].wave))
<1> DEFINE n == Len(footprints)
           it == CHOOSE h : Packs(h, footprints, n)
           at == [k \in 0..n |-> it[1..k]]
<1>1. n \in Nat /\ DOMAIN footprints = 1..n
  OBVIOUS
<1>2. Packs(it, footprints, n)
  <2> HIDE DEF n
  <2> QED BY <1>1, PacksExist
<1>3. FoldLeft(Pack, NothingPacked, footprints) = it[1..n]
  BY <1>1 DEF FoldLeft, MapThenFoldSet, Packs
<1> HIDE DEF it, n
<1>4. at[0] = NothingPacked
  <2>1. 1..0 = {} /\ {} \in SUBSET (1..n)
    OBVIOUS
  <2>2. it[{}] = NothingPacked
    BY <1>2, <2>1, PacksAt
  <2>3. at[0] = it[1..0]
    BY <1>1
  <2> QED BY <2>1, <2>2, <2>3
<1>5. ASSUME NEW k \in 1..n PROVE at[k] = Pack(at[k - 1], footprints[k])
  <2>1. 1..k \in SUBSET (1..n) /\ 1..k # {} /\ (1..k) \ {k} = 1..(k - 1) /\ k - 1 \in 0..n
    BY <1>1
  <2> DEFINE s == 1..k
  <2>2. Max(s) = k
    <3>1. s \in SUBSET (1..n) /\ s # {} /\ k \in s
      BY <2>1
    <3>2. s \subseteq 1..k
      OBVIOUS
    <3> HIDE DEF s
    <3>3. Max(s) \in s /\ Max(s) >= k
      BY <1>1, <3>1, SomethingLast
    <3>4. k \in Nat /\ \A m \in 1..k : m >= k => m = k
      BY <1>1
    <3>5. Max(s) \in 1..k
      BY <3>2, <3>3, Zenon
    <3> QED BY <3>3, <3>4, <3>5, Zenon
  <2>3. it[s] = Pack(it[s \ {Max(s)}], footprints[Max(s)])
    <3>1. s \in SUBSET (1..n) /\ s # {}
      BY <2>1
    <3> HIDE DEF s
    <3>2. it[s] = IF s = {} THEN NothingPacked ELSE Pack(it[s \ {Max(s)}], footprints[Max(s)])
      BY <1>2, <3>1 DEF Packs
    <3> QED BY <3>1, <3>2, Zenon
  <2>4. it[1..k] = Pack(it[1..(k - 1)], footprints[k])
    <3>1. s \ {k} = 1..(k - 1)
      BY <2>1
    <3>2. it[s] = Pack(it[1..(k - 1)], footprints[k])
      <4> HIDE DEF s
      <4> QED BY <2>2, <2>3, <3>1, Zenon
    <3> QED BY <3>2
  <2>5. at[k] = it[1..k] /\ at[k - 1] = it[1..(k - 1)]
    BY <1>1, <2>1
  <2> QED BY <2>4, <2>5
<1>6. Packed(footprints) = Append(at[n].waves, Len(at[n].wave))
  <2>1. at[n] = it[1..n]
    BY <1>1
  <2> HIDE DEF at
  <2> QED BY <1>3, <2>1 DEF Packed, NothingPacked
<1> HIDE DEF at
<1> QED BY <1>4, <1>5, <1>6 DEF n

\* A wave begins where the one before it ended.
LEMMA WavesFollow ==
  ASSUME NEW plan \in Seq(Nat), NEW w \in 1..(Len(plan) + 1)
  PROVE  /\ Before(plan, w) \in Nat
         /\ w <= Len(plan) => Before(plan, w + 1) = Before(plan, w) + plan[w] /\ plan[w] \in Nat
<1>1. Len(plan) \in Nat /\ w \in Nat \ {0} /\ \A i \in 1..Len(plan) : plan[i] \in Nat
  OBVIOUS
<1>2. Before(plan, w) \in Nat
  <2>1. w - 1 \in Nat /\ \A i \in 1..(w - 1) : plan[i] \in Nat
    BY <1>1
  <2> QED BY <2>1, PrefixSums DEF Before
<1>3. ASSUME w <= Len(plan) PROVE Before(plan, w + 1) = Before(plan, w) + plan[w] /\ plan[w] \in Nat
  <2>1. w \in Nat /\ w > 0 /\ (\A i \in 1..w : plan[i] \in Nat) /\ (w + 1) - 1 = w /\ plan[w] \in Nat
    BY <1>1, <1>3
  <2>2. SumFunction([i \in 1..w |-> plan[i]]) = SumFunction([i \in 1..(w - 1) |-> plan[i]]) + plan[w]
    BY <2>1, PrefixSums
  <2> QED BY <2>1, <2>2 DEF Before
<1> QED BY <1>2, <1>3

LEMMA WavesAdd ==
  ASSUME NEW plan \in Seq(Nat)
  PROVE  /\ \A w \in 1..(Len(plan) + 1) : Before(plan, w) \in Nat
         /\ \A w \in 1..Len(plan) :
              Before(plan, w + 1) = Before(plan, w) + plan[w] /\ plan[w] \in Nat
<1>1. \A w \in 1..Len(plan) : w \in 1..(Len(plan) + 1) /\ w <= Len(plan)
  OBVIOUS
<1>2. \A w \in 1..(Len(plan) + 1) : Before(plan, w) \in Nat
  BY WavesFollow
<1>3. ASSUME NEW w \in 1..Len(plan)
      PROVE  Before(plan, w + 1) = Before(plan, w) + plan[w] /\ plan[w] \in Nat
  BY <1>1, WavesFollow
<1> QED BY <1>2, <1>3

LEMMA NothingBefore ==
  ASSUME NEW plan
  PROVE  Before(plan, 1) = 0
<1>1. 0 \in Nat /\ 1 - 1 = 0 /\ \A i \in 1..0 : plan[i] \in Nat
  OBVIOUS
<1>2. SumFunction([i \in 1..0 |-> plan[i]]) = 0
  BY <1>1, PrefixSums
<1> QED BY <1>1, <1>2 DEF Before

\* Where a wave begins does not depend on the waves after it.
LEMMA BeforeAppended ==
  ASSUME NEW plan \in Seq(Nat), NEW x, NEW w \in 1..(Len(plan) + 1)
  PROVE  Before(Append(plan, x), w) = Before(plan, w)
<1> DEFINE longer == Append(plan, x)
<1>1. \A i \in 1..(w - 1) : longer[i] = plan[i]
  <2>1. \A i \in 1..(w - 1) : i \in 1..Len(plan)
    OBVIOUS
  <2> QED BY <2>1
<1> HIDE DEF longer
<1>2. [i \in 1..(w - 1) |-> longer[i]] = [i \in 1..(w - 1) |-> plan[i]]
  BY <1>1
<1>3. Before(longer, w) = Before(plan, w)
  BY <1>2 DEF Before
<1> QED BY <1>3 DEF longer

\* Waves begin one after the other.
LEMMA BeforeGrows ==
  ASSUME NEW plan \in Seq(Nat), NEW v \in 1..(Len(plan) + 1), NEW w \in 1..(Len(plan) + 1), v <= w
  PROVE  Before(plan, v) <= Before(plan, w)
<1> DEFINE B == {k \in Nat : k \in v..w /\ ~(Before(plan, v) <= Before(plan, k))}
<1>1. SUFFICES ASSUME B # {} PROVE FALSE
  <2>1. w \in Nat /\ w \in v..w
    OBVIOUS
  <2> QED BY <2>1
<1>2. PICK k \in B : \A j \in B : k <= j
  <2>1. B \in SUBSET Nat
    OBVIOUS
  <2> HIDE DEF B
  <2> QED BY <1>1, <2>1, SomethingLeast
<1>3. \A j \in 1..(Len(plan) + 1) : Before(plan, j) \in Nat
  BY WavesFollow
<1>4. k # v
  BY <1>2, <1>3
<1>5. k - 1 \in v..w /\ k - 1 \in Nat /\ k - 1 \in 1..(Len(plan) + 1) /\ k - 1 <= Len(plan)
  BY <1>2, <1>4
<1>6. Before(plan, v) <= Before(plan, k - 1)
  BY <1>2, <1>5
<1>7. Before(plan, (k - 1) + 1) = Before(plan, k - 1) + plan[k - 1] /\ plan[k - 1] \in Nat
  BY <1>5, WavesFollow
<1>8. (k - 1) + 1 = k
  BY <1>2
<1>9. Before(plan, k) = Before(plan, k - 1) + plan[k - 1]
  BY <1>7, <1>8, Zenon
<1>10. Before(plan, v) \in Nat /\ Before(plan, k - 1) \in Nat
  BY <1>3, <1>5
<1>11. Before(plan, v) <= Before(plan, k)
  BY <1>6, <1>7, <1>9, <1>10
<1> QED BY <1>2, <1>11

----------------------------------------------------------------------------
(* Waves that fit.                                                         *)

Sized(footprints) == \A i \in DOMAIN footprints : footprints[i].size \in Nat
Part(footprints, slots) == {footprints[i] : i \in slots}

LEMMA PartIsFinite ==
  ASSUME NEW footprints, NEW slots, IsFiniteSet(slots)
  PROVE  IsFiniteSet(Part(footprints, slots))
<1> DEFINE f == [i \in slots |-> footprints[i]]
<1>1. f \in Surjection(slots, Part(footprints, slots))
  BY DEF Surjection, Part
<1> HIDE DEF f
<1> QED BY <1>1, FS_Surjection

\* The bytes of sets of models are sums of one function of their sizes.
LEMMA BytesAreSums ==
  ASSUME NEW M, IsFiniteSet(M), \A f \in M : f.size \in Nat
  PROVE  \E h : /\ Sums(h, [f \in M |-> f.size], M)
                /\ \A T \in SUBSET M : Bytes(T) = h[T]
<1> DEFINE g == [f \in M |-> f.size]
<1>1. g \in [M -> Nat]
  OBVIOUS
<1>2. PICK h : Sums(h, g, M)
  BY SumsExist
<1>3. ASSUME NEW T \in SUBSET M PROVE Bytes(T) = h[T]
  <2> DEFINE e == [f \in T |-> f.size]
  <2>1. e \in [T -> Nat] /\ (\A f \in T : e[f] = g[f]) /\ T \in SUBSET T
    OBVIOUS
  <2>2. IsFiniteSet(T)
    BY FS_Subset
  <2> HIDE DEF e, g
  <2>3. PICK k : Sums(k, e, T)
    BY <2>2, SumsExist
  <2>4. SumFunction(e) = k[T]
    BY <2>1, <2>2, <2>3, SumFunctionIsSum
  <2>5. k[T] = h[T]
    BY <1>2, <2>1, <2>2, <2>3, SumsAgree
  <2> QED BY <2>4, <2>5 DEF Bytes, e
<1> HIDE DEF g
<1> QED BY <1>2, <1>3 DEF g

LEMMA BytesGrow ==
  ASSUME NEW M, IsFiniteSet(M), \A f \in M : f.size \in Nat, NEW T \in SUBSET M
  PROVE  Bytes(T) \in Nat /\ Bytes(T) <= Bytes(M)
<1>1. PICK h : /\ Sums(h, [f \in M |-> f.size], M)
               /\ \A U \in SUBSET M : Bytes(U) = h[U]
  BY BytesAreSums
<1> DEFINE g == [f \in M |-> f.size]
<1>2. g \in [M -> Nat] /\ Sums(h, g, M)
  BY <1>1
<1> HIDE DEF g
<1>3. h[T] \in Nat /\ h[T] <= h[M]
  BY <1>2, SumsTake, SumsGrow
<1> QED BY <1>1, <1>3

LEMMA BytesAdd ==
  ASSUME NEW M, IsFiniteSet(M), \A f \in M : f.size \in Nat, NEW x, x.size \in Nat
  PROVE  /\ Bytes({}) = 0 /\ Bytes({x}) = x.size
         /\ Bytes(M \cup {x}) = Bytes(M) + (IF x \in M THEN 0 ELSE x.size)
<1> DEFINE N == M \cup {x}
           g == [f \in N |-> f.size]
<1>1. IsFiniteSet(N) /\ \A f \in N : f.size \in Nat
  BY FS_AddElement
<1>2. g \in [N -> Nat] /\ g[x] = x.size
  BY <1>1
<1>3. PICK h : Sums(h, g, N) /\ \A U \in SUBSET N : Bytes(U) = h[U]
  <2> HIDE DEF N
  <2> QED BY <1>1, BytesAreSums
<1>4. M \in SUBSET N /\ {x} \in SUBSET N /\ {} \in SUBSET N /\ N \in SUBSET N /\ x \in N
      /\ {x} \ {x} = {} /\ (x \notin M => N \ {x} = M) /\ (x \in M => N = M)
  OBVIOUS
<1> HIDE DEF g, N
<1>5. h[{}] = 0
  BY <1>3, <1>4, SumsAt
<1>6. h[{x}] = g[x] + h[{x} \ {x}] /\ h[N] = g[x] + h[N \ {x}] /\ h[M] \in Nat
  <2>1. /\ \A s \in SUBSET N : h[s] \in Nat
        /\ \A s \in SUBSET N : \A y \in s : h[s] = g[y] + h[s \ {y}]
    BY <1>1, <1>2, <1>3, SumsTake
  <2>2. x \in {x}
    OBVIOUS
  <2> QED BY <1>4, <2>1, <2>2
<1>7. /\ Bytes({x}) = h[{x}] /\ Bytes({}) = h[{}] /\ Bytes(N) = h[N] /\ Bytes(M) = h[M]
      /\ h[{x} \ {x}] = h[{}] /\ (x \notin M => h[N \ {x}] = h[M]) /\ (x \in M => h[N] = h[M])
  BY <1>3, <1>4, Zenon
<1>8. Bytes({x}) = x.size /\ Bytes({}) = 0
  BY <1>2, <1>5, <1>6, <1>7
<1>9. Bytes(N) = Bytes(M) + (IF x \in M THEN 0 ELSE x.size)
  <2>1. CASE x \in M
    BY <1>6, <1>7, <2>1
  <2>2. CASE x \notin M
    BY <1>2, <1>6, <1>7, <2>2
  <2> QED BY <2>1, <2>2
<1> QED BY <1>8, <1>9 DEF N

\* What fits still fits with fewer proposers.
LEMMA FewerFit ==
  ASSUME NEW known, NEW footprints, Sized(footprints), NEW t \in SUBSET DOMAIN footprints,
         IsFiniteSet(t), NEW s \in SUBSET t, WaveFits(known, footprints, t)
  PROVE  WaveFits(known, footprints, s)
<1>1. Cardinality(s) <= Cardinality(t) /\ IsFiniteSet(s) /\ Cardinality(s) \in Nat /\ Cardinality(t) \in Nat
  BY FS_Subset, FS_CardinalityType
<1>2. Cardinality(s) <= MaxParallel
  BY <1>1, PlanAssumption DEF WaveFits
<1> DEFINE M == Part(footprints, t)
           T == Part(footprints, s)
<1>3. IsFiniteSet(M) /\ T \in SUBSET M /\ (\A f \in M : f.size \in Nat)
  <2>1. IsFiniteSet(M)
    BY PartIsFinite
  <2> QED BY <2>1 DEF Part, Sized
<1>4. Bytes(T) \in Nat /\ Bytes(T) <= Bytes(M) /\ Bytes(M) \in Nat
  <2>1. M \in SUBSET M
    OBVIOUS
  <2> HIDE DEF M, T
  <2> QED BY <1>3, <2>1, BytesGrow
<1>5. ASSUME known, MemoryBudget > 0, Cardinality(s) > 1
      PROVE  Bytes(T) <= MemoryBudget
  <2>1. Cardinality(t) > 1
    BY <1>1, <1>5
  <2>2. Bytes(M) <= MemoryBudget
    BY <1>5, <2>1 DEF WaveFits, Part
  <2> QED BY <1>4, <2>2, PlanAssumption
<1> QED BY <1>2, <1>5 DEF WaveFits, Part

\* Proposers alone always fit.
LEMMA OneFits ==
  ASSUME NEW known, NEW footprints, NEW s, IsFiniteSet(s), Cardinality(s) <= 1
  PROVE  WaveFits(known, footprints, s)
<1>1. Cardinality(s) \in Nat
  BY FS_CardinalityType
<1> QED BY <1>1, PlanAssumption DEF WaveFits

----------------------------------------------------------------------------
(* The packing by memory.                                                  *)

\* After k footprints the closed waves and the open one hold them in their order.
PackFields == {"waves", "wave", "bytes"}
Closed(acc) == Before(acc.waves, Len(acc.waves) + 1)
PackedTo(acc, footprints, k) ==
  /\ DOMAIN acc = PackFields /\ acc.waves \in Seq(Nat) /\ acc.wave \in Seq(Range(footprints))
  /\ Closed(acc) + Len(acc.wave) = k
  /\ \A i \in 1..Len(acc.wave) : acc.wave[i] = footprints[Closed(acc) + i]
  /\ k > 0 => acc.wave # <<>>
  /\ Len(acc.wave) <= MaxParallel
  /\ \A w \in DOMAIN acc.waves : acc.waves[w] \in 1..MaxParallel

\* A wave with one proposer more does not fit.
Full(known, footprints, plan, w) ==
  ~WaveFits(known, footprints, (Before(plan, w) + 1)..(Before(plan, w) + plan[w] + 1))

\* The bytes counted are those of the open wave, which fits, and each closed wave fits
\* and is full.
SizedTo(acc, footprints, k) ==
  /\ acc.bytes = Bytes(Part(footprints, (Closed(acc) + 1)..k))
  /\ Len(acc.wave) > 1 => acc.bytes <= MemoryBudget
  /\ \A w \in DOMAIN acc.waves :
       /\ WaveFits(TRUE, footprints, Slots(acc.waves, w))
       /\ Full(TRUE, footprints, acc.waves, w)

LEMMA PackedNothing ==
  ASSUME NEW footprints
  PROVE  PackedTo(NothingPacked, footprints, 0) /\ SizedTo(NothingPacked, footprints, 0)
<1> DEFINE acc == NothingPacked
<1>1. /\ DOMAIN acc = PackFields /\ acc.waves = <<>> /\ acc.wave = <<>> /\ acc.bytes = 0
  BY DEF NothingPacked, PackFields
<1> HIDE DEF acc
<1>2. Closed(acc) = 0
  BY <1>1, NothingBefore DEF Closed
<1>3. PackedTo(acc, footprints, 0)
  BY <1>1, <1>2, PlanAssumption DEF PackedTo
<1>4. Part(footprints, 1..0) = {}
  BY DEF Part
<1>5. Bytes({}) = 0
  <2>1. IsFiniteSet({}) /\ \A f \in {} : f.size \in Nat
    BY FS_EmptySet
  <2>2. [size |-> 0].size \in Nat
    OBVIOUS
  <2> QED BY <2>1, <2>2, BytesAdd
<1>6. SizedTo(acc, footprints, 0)
  <2>1. Closed(acc) + 1 = 1
    BY <1>2
  <2>2. Bytes(Part(footprints, (Closed(acc) + 1)..0)) = 0
    BY <1>4, <1>5, <2>1, Zenon
  <2> QED BY <1>1, <2>2 DEF SizedTo
<1> QED BY <1>3, <1>6 DEF acc

\* One footprint more: the open wave is closed before it, or takes it.
Overflows(acc, f) ==
  /\ acc.wave # <<>>
  /\ acc.bytes + Weight(acc.wave, f) > MemoryBudget \/ Len(acc.wave) >= MaxParallel

LEMMA PackCloses ==
  ASSUME NEW acc, NEW f, Overflows(acc, f)
  PROVE  LET next == Pack(acc, f)
         IN /\ DOMAIN next = PackFields /\ next.waves = Append(acc.waves, Len(acc.wave))
            /\ next.wave = <<f>> /\ next.bytes = f.size
BY DEF Pack, Overflows, PackFields

LEMMA PackTakes ==
  ASSUME NEW acc, NEW f, ~Overflows(acc, f), DOMAIN acc = PackFields
  PROVE  LET next == Pack(acc, f)
         IN /\ DOMAIN next = PackFields /\ next.waves = acc.waves
            /\ next.wave = Append(acc.wave, f)
            /\ next.bytes = acc.bytes + Weight(acc.wave, f)
<1> DEFINE more == [acc EXCEPT !.wave = Append(@, f), !.bytes = @ + Weight(acc.wave, f)]
<1>1. Pack(acc, f) = more
  BY DEF Pack, Overflows
<1>2. /\ DOMAIN more = PackFields /\ more.waves = acc.waves /\ more.wave = Append(acc.wave, f)
      /\ more.bytes = acc.bytes + Weight(acc.wave, f)
  BY DEF PackFields
<1> HIDE DEF more
<1> QED BY <1>1, <1>2

LEMMA PackedOneMore ==
  ASSUME NEW S, NEW footprints \in Seq(S), NEW k \in 1..Len(footprints), NEW acc,
         PackedTo(acc, footprints, k - 1)
  PROVE  /\ PackedTo(Pack(acc, footprints[k]), footprints, k)
         /\ Closed(Pack(acc, footprints[k])) =
              IF Overflows(acc, footprints[k]) THEN k - 1 ELSE Closed(acc)
<1> DEFINE f == footprints[k]
           next == Pack(acc, f)
           R == Range(footprints)
           m == Len(acc.waves)
           l == Len(acc.wave)
           b == Closed(acc)
<1>1. /\ m \in Nat /\ l \in Nat /\ k \in Nat /\ k > 0 /\ k - 1 \in Nat
      /\ acc.waves \in Seq(Nat) /\ acc.wave \in Seq(R) /\ f \in R
      /\ DOMAIN acc.waves = 1..m /\ DOMAIN acc.wave = 1..l /\ DOMAIN acc = PackFields
  BY DEF PackedTo, Range
<1>2. b \in Nat
  <2>1. m + 1 \in 1..(m + 1)
    BY <1>1
  <2> QED BY <1>1, <2>1, WavesFollow DEF Closed
<1>3. /\ b + l = k - 1 /\ l <= MaxParallel /\ MaxParallel \in Nat \ {0}
      /\ \A i \in 1..l : acc.wave[i] = footprints[b + i]
      /\ \A w \in 1..m : acc.waves[w] \in 1..MaxParallel
  BY <1>1, PlanAssumption DEF PackedTo
<1>4. (acc.wave # <<>> => l > 0) /\ (acc.wave = <<>> => l = 0)
  BY <1>1
<1> HIDE DEF f, next, R, m, l, b
<1>5. CASE Overflows(acc, f)
  <2>1. /\ DOMAIN next = PackFields /\ next.waves = Append(acc.waves, l)
        /\ next.wave = <<f>> /\ next.bytes = f.size
    BY <1>5, PackCloses DEF next, l
  <2>2. next.waves \in Seq(Nat) /\ Len(next.waves) = m + 1 /\ DOMAIN next.waves = 1..(m + 1)
        /\ next.waves[m + 1] = l /\ \A w \in 1..m : next.waves[w] = acc.waves[w]
    BY <1>1, <2>1 DEF m
  <2>3. Before(next.waves, m + 1) = b
    <3>1. m + 1 \in 1..(Len(acc.waves) + 1)
      BY <1>1 DEF m
    <3> QED BY <1>1, <2>1, <3>1, BeforeAppended DEF Closed, m, b
  <2>4. Before(next.waves, (m + 1) + 1) = b + l
    <3>1. m + 1 \in 1..(Len(next.waves) + 1) /\ m + 1 <= Len(next.waves)
      BY <1>1, <2>2
    <3>2. Before(next.waves, (m + 1) + 1) = Before(next.waves, m + 1) + next.waves[m + 1]
      BY <2>2, <3>1, WavesFollow
    <3> QED BY <2>2, <2>3, <3>2
  <2>5. Closed(next) = k - 1
    BY <1>3, <2>2, <2>4 DEF Closed
  <2>6. l \in 1..MaxParallel
    BY <1>1, <1>3, <1>4, <1>5 DEF Overflows
  <2>7. \A w \in DOMAIN next.waves : next.waves[w] \in 1..MaxParallel
    <3>1. \A w \in 1..(m + 1) : w \in 1..m \/ w = m + 1
      BY <1>1
    <3> QED BY <1>3, <2>2, <2>6, <3>1, Zenon
  <2>8. next.wave \in Seq(R) /\ Len(next.wave) = 1 /\ next.wave # <<>> /\ next.wave[1] = f
    BY <1>1, <2>1
  <2>9. \A i \in 1..Len(next.wave) : next.wave[i] = footprints[Closed(next) + i]
    <3>1. \A i \in 1..1 : i = 1 /\ (k - 1) + i = k
      BY <1>1
    <3> QED BY <2>5, <2>8, <3>1 DEF f
  <2>10. Closed(next) + Len(next.wave) = k /\ Len(next.wave) <= MaxParallel
    BY <1>1, <1>3, <2>5, <2>8
  <2>11. PackedTo(next, footprints, k)
    BY <2>1, <2>2, <2>7, <2>8, <2>9, <2>10 DEF PackedTo, R
  <2> QED BY <1>5, <2>5, <2>11 DEF f, next
<1>6. CASE ~Overflows(acc, f)
  <2>1. /\ DOMAIN next = PackFields /\ next.waves = acc.waves
        /\ next.wave = Append(acc.wave, f)
    BY <1>1, <1>6, PackTakes DEF next
  <2>2. Closed(next) = b
    BY <2>1 DEF Closed, b
  <2>3. /\ next.wave \in Seq(R) /\ Len(next.wave) = l + 1 /\ next.wave[l + 1] = f
        /\ \A i \in 1..l : next.wave[i] = acc.wave[i]
    <3>1. acc.wave \in Seq(R) /\ f \in R /\ l = Len(acc.wave)
      BY <1>1 DEF l
    <3> QED BY <2>1, <3>1
  <2>4. l + 1 <= MaxParallel
    BY <1>1, <1>3, <1>4, <1>6 DEF Overflows, l
  <2>5. b + (l + 1) = k /\ (\A i \in 1..(l + 1) : i \in 1..l \/ i = l + 1) /\ next.wave # <<>>
    <3>1. b + l = k - 1 /\ b \in Nat /\ l \in Nat /\ k \in Nat
      BY <1>1, <1>2, <1>3
    <3>2. b + (l + 1) = k /\ (\A i \in 1..(l + 1) : i \in 1..l \/ i = l + 1)
      BY <3>1
    <3>3. Len(next.wave) # 0
      BY <2>3, <3>1
    <3> QED BY <3>2, <3>3
  <2>6. \A i \in 1..(l + 1) : next.wave[i] = footprints[b + i]
    <3>1. next.wave[l + 1] = footprints[b + (l + 1)]
      BY <2>3, <2>5 DEF f
    <3>2. \A i \in 1..l : next.wave[i] = footprints[b + i]
      BY <1>3, <2>3, Zenon
    <3> QED BY <2>5, <3>1, <3>2, Zenon
  <2>7. PackedTo(next, footprints, k)
    <3>1. \A w \in DOMAIN next.waves : next.waves[w] \in 1..MaxParallel
      BY <1>1, <1>3, <2>1
    <3> QED BY <1>1, <2>1, <2>2, <2>3, <2>4, <2>5, <2>6, <3>1 DEF PackedTo, R
  <2> QED BY <1>6, <2>2, <2>7 DEF f, next, b
<1> QED BY <1>5, <1>6 DEF f

\* The open wave loads the models of its proposers, each once.
LEMMA WeightOfName ==
  ASSUME NEW S, NEW footprints \in Seq(S), OneSizeEach(footprints), NEW k \in 1..Len(footprints),
         NEW acc, PackedTo(acc, footprints, k - 1)
  PROVE  Weight(acc.wave, footprints[k]) =
           IF footprints[k] \in Part(footprints, (Closed(acc) + 1)..(k - 1)) THEN 0
           ELSE footprints[k].size
<1> DEFINE f == footprints[k]
           b == Closed(acc)
<1>1. /\ Len(acc.waves) \in Nat /\ Len(acc.wave) \in Nat /\ DOMAIN acc.wave = 1..Len(acc.wave)
      /\ acc.waves \in Seq(Nat) /\ k \in Nat
  BY DEF PackedTo
<1>2. b \in Nat /\ b + Len(acc.wave) = k - 1
  <2>1. Len(acc.waves) + 1 \in 1..(Len(acc.waves) + 1)
    BY <1>1
  <2> QED BY <1>1, <2>1, WavesFollow DEF Closed, PackedTo
<1>3. \A i \in 1..Len(acc.wave) : acc.wave[i] = footprints[b + i] /\ b + i \in (b + 1)..(k - 1)
  <2>1. \A i \in 1..Len(acc.wave) : acc.wave[i] = footprints[b + i]
    BY DEF PackedTo
  <2> HIDE DEF b
  <2> QED BY <1>1, <1>2, <2>1
<1>4. \A j \in (b + 1)..(k - 1) : j - b \in 1..Len(acc.wave) /\ b + (j - b) = j /\ j \in DOMAIN footprints
  <2> HIDE DEF b
  <2> QED BY <1>1, <1>2
<1> HIDE DEF b
<1>5. \A j \in (b + 1)..(k - 1) : acc.wave[j - b] = footprints[j]
  BY <1>3, <1>4
<1>6. (\E i \in DOMAIN acc.wave : acc.wave[i].model = f.model) <=> f \in Part(footprints, (b + 1)..(k - 1))
  <2>1. ASSUME NEW i \in DOMAIN acc.wave, acc.wave[i].model = f.model
        PROVE  f \in Part(footprints, (b + 1)..(k - 1))
    <3>1. b + i \in (b + 1)..(k - 1) /\ acc.wave[i] = footprints[b + i]
      BY <1>1, <1>3, <2>1
    <3>2. b + i \in DOMAIN footprints /\ k \in DOMAIN footprints
      BY <1>4, <3>1
    <3>3. footprints[b + i] = f
      BY <2>1, <3>1, <3>2 DEF OneSizeEach
    <3> QED BY <3>1, <3>3 DEF Part
  <2>2. ASSUME f \in Part(footprints, (b + 1)..(k - 1))
        PROVE  \E i \in DOMAIN acc.wave : acc.wave[i].model = f.model
    <3>1. PICK j \in (b + 1)..(k - 1) : f = footprints[j]
      BY <2>2 DEF Part
    <3> HIDE DEF f
    <3>2. j - b \in DOMAIN acc.wave /\ acc.wave[j - b] = f
      BY <1>1, <1>4, <1>5, <3>1
    <3> QED BY <3>2
  <2> QED BY <2>1, <2>2
<1> HIDE DEF f
<1>7. Weight(acc.wave, f) = IF f \in Part(footprints, (b + 1)..(k - 1)) THEN 0 ELSE f.size
  BY <1>6 DEF Weight
<1> QED BY <1>7 DEF f, b

\* The bytes of the proposers from one place to another, one proposer more.
LEMMA PartGrows ==
  ASSUME NEW S, NEW footprints \in Seq(S), Sized(footprints), NEW k \in 1..Len(footprints),
         NEW b \in 0..(k - 1)
  PROVE  LET f == footprints[k]
             models == Part(footprints, (b + 1)..(k - 1))
         IN /\ Bytes(Part(footprints, (b + 1)..k))
                 = Bytes(models) + (IF f \in models THEN 0 ELSE f.size)
            /\ b = k - 1 => Bytes(Part(footprints, (b + 1)..k)) = f.size
            /\ f.size \in Nat /\ Bytes(models) \in Nat
<1> DEFINE f == footprints[k]
           models == Part(footprints, (b + 1)..(k - 1))
           more == Part(footprints, (b + 1)..k)
<1>1. k \in Nat /\ b \in Nat /\ k \in (b + 1)..k /\ (b + 1)..k = ((b + 1)..(k - 1)) \cup {k}
      /\ \A j \in (b + 1)..k : j \in DOMAIN footprints
  OBVIOUS
<1>2. more = models \cup {f}
  BY <1>1 DEF Part
<1>3. IsFiniteSet(models)
  <2>1. IsFiniteSet((b + 1)..(k - 1))
    BY <1>1, FS_Interval
  <2> QED BY <2>1, PartIsFinite
<1>4. f.size \in Nat /\ \A x \in models : x.size \in Nat
  BY <1>1 DEF Part, Sized
<1>5. b = k - 1 => models = {}
  <2>1. b = k - 1 => (b + 1)..(k - 1) = {}
    BY <1>1
  <2> QED BY <2>1 DEF Part
<1> HIDE DEF f, models, more
<1>6. /\ Bytes(more) = Bytes(models) + (IF f \in models THEN 0 ELSE f.size)
      /\ Bytes({}) = 0
  BY <1>2, <1>3, <1>4, BytesAdd
<1>7. Bytes(models) \in Nat
  <2>1. models \in SUBSET models
    OBVIOUS
  <2> QED BY <1>3, <1>4, <2>1, BytesGrow
<1>8. ASSUME b = k - 1 PROVE Bytes(more) = f.size
  <2>1. Bytes(models) = 0 /\ f \notin models
    BY <1>5, <1>6, <1>8
  <2> QED BY <1>4, <1>6, <2>1
<1> QED BY <1>4, <1>6, <1>7, <1>8 DEF f, models, more

LEMMA SizedOneMore ==
  ASSUME NEW S, NEW footprints \in Seq(S), Sized(footprints), OneSizeEach(footprints),
         MemoryBudget > 0, NEW k \in 1..Len(footprints), NEW acc,
         PackedTo(acc, footprints, k - 1), SizedTo(acc, footprints, k - 1)
  PROVE  SizedTo(Pack(acc, footprints[k]), footprints, k)
<1> DEFINE f == footprints[k]
           next == Pack(acc, f)
           m == Len(acc.waves)
           l == Len(acc.wave)
           b == Closed(acc)
           weight == Weight(acc.wave, f)
<1>1. /\ m \in Nat /\ l \in Nat /\ k \in Nat /\ k > 0 /\ k - 1 \in Nat
      /\ acc.waves \in Seq(Nat) /\ DOMAIN acc.waves = 1..m /\ DOMAIN acc = PackFields
      /\ acc.wave \in Seq(Range(footprints))
  BY DEF PackedTo
<1>2. b \in Nat
  <2>1. m + 1 \in 1..(m + 1)
    BY <1>1
  <2> QED BY <1>1, <2>1, WavesFollow DEF Closed
<1>3. b + l = k - 1 /\ l <= MaxParallel /\ MaxParallel \in Nat \ {0} /\ MemoryBudget \in Nat
  BY PlanAssumption DEF PackedTo
<1>4. b \in 0..(k - 1) /\ (acc.wave # <<>> => l > 0) /\ (acc.wave = <<>> => l = 0)
  <2>1. b <= k - 1
    BY <1>1, <1>2, <1>3
  <2>2. (acc.wave # <<>> => l > 0) /\ (acc.wave = <<>> => l = 0)
    BY <1>1
  <2> QED BY <1>1, <1>2, <2>1, <2>2
<1> DEFINE models == Part(footprints, (b + 1)..(k - 1))
           more == Part(footprints, (b + 1)..k)
<1>5. /\ Bytes(more) = Bytes(models) + (IF f \in models THEN 0 ELSE f.size)
      /\ b = k - 1 => Bytes(more) = f.size
      /\ f.size \in Nat /\ Bytes(models) \in Nat
  BY <1>4, PartGrows
<1>6. weight = IF f \in models THEN 0 ELSE f.size
  BY WeightOfName
<1>7. acc.bytes = Bytes(models) /\ (l > 1 => acc.bytes <= MemoryBudget)
  BY DEF SizedTo
<1>8. Bytes(more) = acc.bytes + weight /\ weight \in Nat /\ acc.bytes \in Nat
  <2> HIDE DEF models, more, weight, f
  <2> QED BY <1>5, <1>6, <1>7
<1>9. \A w \in 1..m : WaveFits(TRUE, footprints, Slots(acc.waves, w)) /\ Full(TRUE, footprints, acc.waves, w)
  BY <1>1 DEF SizedTo
<1>10. Closed(next) = IF Overflows(acc, f) THEN k - 1 ELSE b
  BY PackedOneMore
<1> HIDE DEF f, next, m, l, b, weight
<1>11. CASE Overflows(acc, f)
  <2>1. /\ DOMAIN next = PackFields /\ next.waves = Append(acc.waves, l)
        /\ next.wave = <<f>> /\ next.bytes = f.size
    BY <1>11, PackCloses DEF next, l
  <2>2. Closed(next) = k - 1
    BY <1>10, <1>11
  <2>3. next.bytes = Bytes(Part(footprints, (Closed(next) + 1)..k))
    <3>1. k - 1 \in 0..(k - 1)
      BY <1>1
    <3>2. Bytes(Part(footprints, ((k - 1) + 1)..k)) = f.size
      BY <3>1, PartGrows DEF f
    <3> QED BY <2>1, <2>2, <3>2
  <2>4. next.waves \in Seq(Nat) /\ Len(next.waves) = m + 1 /\ DOMAIN next.waves = 1..(m + 1)
        /\ next.waves[m + 1] = l /\ \A w \in 1..m : next.waves[w] = acc.waves[w]
    BY <1>1, <2>1 DEF m
  <2>5. \A w \in 1..(m + 1) : Before(next.waves, w) = Before(acc.waves, w)
    BY <1>1, <2>1, BeforeAppended DEF m
  <2>6. Before(next.waves, m + 1) = b
    <3>1. m + 1 \in 1..(m + 1)
      BY <1>1
    <3> QED BY <2>5, <3>1 DEF Closed, m, b
  <2>7. Slots(next.waves, m + 1) = (b + 1)..(k - 1)
    BY <1>3, <2>4, <2>6 DEF Slots
  <2>8. WaveFits(TRUE, footprints, (b + 1)..(k - 1))
    <3>1. Cardinality((b + 1)..(k - 1)) = l
      <4>1. b + 1 \in Int /\ k - 1 \in Int /\ (b + 1 > k - 1 => l = 0) /\ (k - 1) - (b + 1) + 1 = l
        BY <1>1, <1>2, <1>3
      <4> HIDE DEF models
      <4> QED BY <4>1, FS_Interval
    <3> QED BY <1>3, <1>7, <3>1 DEF WaveFits, Part
  <2>9. Full(TRUE, footprints, next.waves, m + 1)
    <3>1. (Before(next.waves, m + 1) + 1)..(Before(next.waves, m + 1) + next.waves[m + 1] + 1) = (b + 1)..k
      <4>1. b + l + 1 = k
        BY <1>1, <1>2, <1>3
      <4> QED BY <2>4, <2>6, <4>1
    <3>2. Cardinality((b + 1)..k) = l + 1
      <4>1. b + 1 \in Int /\ k \in Int /\ ~(b + 1 > k) /\ k - (b + 1) + 1 = l + 1
        BY <1>1, <1>2, <1>3
      <4> QED BY <4>1, FS_Interval
    <3>3. ~(Bytes(more) <= MemoryBudget) \/ ~(l + 1 <= MaxParallel)
      <4> HIDE DEF models, more
      <4>1. Bytes(more) > MemoryBudget \/ l >= MaxParallel
        BY <1>8, <1>11 DEF Overflows, l, weight
      <4> QED BY <1>1, <1>3, <1>8, <4>1
    <3>4. l + 1 > 1
      BY <1>1, <1>4, <1>11 DEF Overflows
    <3>5. ~WaveFits(TRUE, footprints, (b + 1)..k)
      BY <3>2, <3>3, <3>4 DEF WaveFits, Part
    <3> QED BY <3>1, <3>5 DEF Full
  <2>10. ASSUME NEW w \in 1..m
         PROVE  WaveFits(TRUE, footprints, Slots(next.waves, w)) /\ Full(TRUE, footprints, next.waves, w)
    <3>1. w \in 1..(m + 1)
      BY <1>1
    <3>2. Before(next.waves, w) = Before(acc.waves, w) /\ next.waves[w] = acc.waves[w]
      BY <2>4, <2>5, <3>1
    <3>3. Slots(next.waves, w) = Slots(acc.waves, w)
      BY <3>2 DEF Slots
    <3> QED BY <1>9, <3>2, <3>3 DEF Full
  <2>11. \A w \in 1..(m + 1) : w \in 1..m \/ w = m + 1
    BY <1>1
  <2>12. \A w \in DOMAIN next.waves : WaveFits(TRUE, footprints, Slots(next.waves, w)) /\ Full(TRUE, footprints, next.waves, w)
    BY <2>4, <2>7, <2>8, <2>9, <2>10, <2>11, Zenon
  <2>13. ~(Len(next.wave) > 1)
    BY <2>1
  <2>14. SizedTo(next, footprints, k)
    BY <2>3, <2>12, <2>13, Zenon DEF SizedTo
  <2> QED BY <2>14 DEF f, next
<1>12. CASE ~Overflows(acc, f)
  <2>1. /\ next.waves = acc.waves /\ next.wave = Append(acc.wave, f)
        /\ next.bytes = acc.bytes + weight
    BY <1>1, <1>12, PackTakes DEF next, weight
  <2>2. Closed(next) = b
    BY <1>10, <1>12
  <2>3. next.bytes = Bytes(Part(footprints, (Closed(next) + 1)..k))
    BY <1>8, <2>1, <2>2
  <2>4. Len(next.wave) > 1 => next.bytes <= MemoryBudget
    <3>1. Len(next.wave) = l + 1
      <4>1. acc.wave \in Seq(Range(footprints)) /\ f \in Range(footprints)
        BY <1>1 DEF f, Range
      <4> QED BY <2>1, <4>1 DEF l
    <3>2. l > 0 => acc.wave # <<>>
      BY <1>4
    <3>3. l > 0 => acc.bytes + weight <= MemoryBudget
      BY <1>3, <1>8, <1>12, <3>2 DEF Overflows, weight
    <3> QED BY <1>1, <2>1, <3>1, <3>3
  <2> QED BY <1>1, <1>9, <2>1, <2>3, <2>4 DEF SizedTo, f, next
<1> QED BY <1>11, <1>12

----------------------------------------------------------------------------
(* The plan by number.                                                     *)

LEMMA DivisionOfIntegers ==
  ASSUME NEW n \in Int, NEW m \in Int, m > 0
  PROVE  n = m * (n \div m) + (n % m)
BY SMTT(30)

LEMMA Division ==
  ASSUME NEW n \in Nat, NEW m \in Nat \ {0}
  PROVE  /\ n \div m \in Nat /\ n % m \in Nat
         /\ n = m * (n \div m) + (n % m) /\ n % m < m
<1>1. n \div m \in Nat /\ n % m \in Nat /\ n % m < m
  OBVIOUS
<1>2. n \in Int /\ m \in Int /\ m > 0
  OBVIOUS
<1>3. n = m * (n \div m) + (n % m)
  BY <1>2, DivisionOfIntegers, Zenon
<1> QED BY <1>1, <1>3, Zenon

LEMMA ProductsAreOrdered ==
  ASSUME NEW m \in Nat, NEW i \in Int, NEW j \in Int, i <= j
  PROVE  m * i <= m * j
<1>1. PICK d \in Nat : j = i + d
  <2>1. j - i \in Nat /\ j = i + (j - i)
    OBVIOUS
  <2> QED BY <2>1
<1>2. m * j = m * i + m * d
  BY <1>1
<1>3. m * d \in Nat /\ m * i \in Int
  OBVIOUS
<1> QED BY <1>2, <1>3

LEMMA RoundedUp ==
  ASSUME NEW n \in Nat, NEW m \in Nat \ {0}
  PROVE  LET k == (n + m - 1) \div m
         IN /\ k \in Nat /\ n <= m * k /\ m * k < n + m
            /\ m * k > n => n % m = n + m - m * k
<1> DEFINE k == (n + m - 1) \div m
           r == (n + m - 1) % m
           q == n \div m
           s == n % m
<1>1. /\ k \in Nat /\ r \in Nat /\ n + m - 1 = m * k + r /\ r < m
      /\ q \in Nat /\ s \in Nat /\ n = m * q + s /\ s < m
  <2>1. n + m - 1 \in Nat
    OBVIOUS
  <2> QED BY <2>1, Division
<1> HIDE DEF k, r, q, s
<1>2. m * k \in Nat /\ m * q \in Nat /\ m * (k - 1) = m * k - m /\ m * (q + 1) = m * q + m
  BY <1>1
<1>3. n <= m * k /\ m * k < n + m
  BY <1>1, <1>2
<1>4. ASSUME m * k > n PROVE s = n + m - m * k
  <2>1. ~(q <= k - 2)
    <3>1. SUFFICES ASSUME q + 1 <= k - 1 PROVE FALSE
      BY <1>1
    <3>2. m * (q + 1) <= m * (k - 1)
      BY <1>1, <3>1, ProductsAreOrdered
    <3> QED BY <1>1, <1>2, <1>3, <3>2
  <2>2. ~(k <= q)
    <3>1. SUFFICES ASSUME k <= q PROVE FALSE
      OBVIOUS
    <3>2. m * k <= m * q
      BY <1>1, <3>1, ProductsAreOrdered
    <3> QED BY <1>1, <1>2, <1>4, <3>2
  <2>3. q = k - 1
    BY <1>1, <2>1, <2>2
  <2>4. m * q = m * k - m
    BY <1>2, <2>3
  <2> QED BY <1>1, <1>2, <2>4
<1> QED BY <1>1, <1>3, <1>4 DEF k, s

\* Waves of one length begin at its multiples.
LEMMA EvenWaves ==
  ASSUME NEW plan \in Seq(Nat), NEW m \in Nat, NEW j \in 1..(Len(plan) + 1),
         \A w \in 1..(j - 1) : plan[w] = m
  PROVE  Before(plan, j) = m * (j - 1)
<1> DEFINE B == {w \in Nat : w \in 1..j /\ Before(plan, w) # m * (w - 1)}
<1>1. SUFFICES ASSUME B # {} PROVE FALSE
  <2>1. j \in Nat /\ j \in 1..j
    OBVIOUS
  <2> QED BY <2>1
<1>2. PICK w \in B : \A v \in B : w <= v
  <2>1. B \in SUBSET Nat
    OBVIOUS
  <2> HIDE DEF B
  <2> QED BY <1>1, <2>1, SomethingLeast
<1>3. w # 1
  <2>1. Before(plan, 1) = 0 /\ m * (1 - 1) = 0
    BY NothingBefore
  <2> QED BY <1>2, <2>1
<1> DEFINE v == w - 1
<1>4. v \in Nat /\ v \in 1..j /\ v \in 1..(j - 1) /\ v \in 1..(Len(plan) + 1) /\ v <= Len(plan)
      /\ w = v + 1 /\ ~(w <= v)
  BY <1>2, <1>3
<1>5. v \notin B
  BY <1>2, <1>4
<1> HIDE DEF v
<1>6. Before(plan, v) = m * (v - 1)
  BY <1>4, <1>5
<1>7. Before(plan, v + 1) = Before(plan, v) + plan[v] /\ plan[v] = m
  BY <1>4, WavesFollow
<1>8. m * (v - 1) + m = m * v /\ w - 1 = v
  BY <1>4
<1>9. Before(plan, w) = m * (w - 1)
  BY <1>4, <1>6, <1>7, <1>8
<1> QED BY <1>2, <1>9

\* A plan with a place for each of n proposers, in waves of the slots there are.
Whole(plan, n) ==
  /\ plan \in Seq(Nat) /\ Before(plan, Len(plan) + 1) = n
  /\ \A w \in DOMAIN plan : plan[w] \in 1..MaxParallel

LEMMA OneByOneIsWhole ==
  ASSUME NEW n \in Nat
  PROVE  Whole(OneByOne(n), n) /\ \A w \in DOMAIN OneByOne(n) : OneByOne(n)[w] = 1
<1> DEFINE plan == OneByOne(n)
<1>1. plan \in Seq(Nat) /\ Len(plan) = n /\ DOMAIN plan = 1..n /\ \A w \in 1..n : plan[w] = 1
  BY DEF OneByOne
<1> HIDE DEF plan
<1>2. Before(plan, n + 1) = 1 * ((n + 1) - 1)
  <2>1. n + 1 \in 1..(Len(plan) + 1) /\ (n + 1) - 1 = n /\ 1 \in Nat
    BY <1>1
  <2> QED BY <1>1, <2>1, EvenWaves
<1>3. 1 \in 1..MaxParallel /\ 1 * ((n + 1) - 1) = n
  BY PlanAssumption
<1> QED BY <1>1, <1>2, <1>3 DEF Whole, plan

LEMMA ByCountIsWhole ==
  ASSUME NEW n \in Nat \ {0}
  PROVE  /\ Whole(PlanByCount(n), n)
         /\ WavesAllowed => \A w \in 1..(Len(PlanByCount(n)) - 1) : PlanByCount(n)[w] = MaxParallel
<1> DEFINE plan == PlanByCount(n)
           M == MaxParallel
<1>1. M \in Nat \ {0} /\ n \in Nat /\ n > 0
  BY PlanAssumption
<1>2. CASE M >= n
  <2>1. plan = <<n>>
    BY <1>1, <1>2 DEF PlanByCount
  <2>2. plan \in Seq(Nat) /\ Len(plan) = 1 /\ DOMAIN plan = 1..1 /\ plan[1] = n
    BY <1>1, <2>1
  <2> HIDE DEF plan
  <2>3. Before(plan, 1 + 1) = n
    <3>1. 1 \in 1..(Len(plan) + 1) /\ 1 <= Len(plan)
      BY <2>2
    <3>2. Before(plan, 1 + 1) = Before(plan, 1) + plan[1]
      BY <2>2, <3>1, WavesFollow
    <3> QED BY <1>1, <2>2, <3>2, NothingBefore
  <2>4. \A w \in DOMAIN plan : plan[w] \in 1..M
    BY <1>1, <1>2, <2>2
  <2>5. \A w \in 1..(Len(plan) - 1) : FALSE
    BY <2>2
  <2> QED BY <2>2, <2>3, <2>4, <2>5 DEF Whole, plan
<1>3. CASE M < n /\ WavesAllowed /\ M > 1
  <2> DEFINE k == (n + M - 1) \div M
             full(i) == IF i * M <= n THEN M ELSE n % M
  <2>1. plan = [i \in 1..k |-> full(i)]
    BY <1>1, <1>3 DEF PlanByCount
  <2>2. k \in Nat /\ n <= M * k /\ M * k < n + M /\ (M * k > n => n % M = n + M - M * k)
    BY <1>1, RoundedUp
  <2>3. n % M \in Nat
    BY <1>1
  <2> HIDE DEF k, plan
  <2>4. k > 0
    <3>1. M * 0 = 0
      BY <1>1
    <3> QED BY <1>1, <2>2, <3>1
  <2>5. \A i \in 1..(k - 1) : i * M <= n
    <3>1. ASSUME NEW i \in 1..(k - 1) PROVE i * M <= n
      <4>1. M * i <= M * (k - 1) /\ M * (k - 1) = M * k - M /\ M * k \in Nat
        BY <1>1, <2>2, ProductsAreOrdered
      <4>2. M * i = i * M /\ i * M \in Nat
        BY <1>1
      <4> QED BY <1>1, <2>2, <4>1, <4>2
    <3> QED BY <3>1
  <2>6. \A i \in 1..k : full(i) \in Nat
    BY <1>1, <2>3
  <2>7. plan \in Seq(Nat) /\ Len(plan) = k /\ DOMAIN plan = 1..k /\ \A i \in 1..k : plan[i] = full(i)
    BY <2>1, <2>2, <2>6
  <2>8. \A i \in 1..(k - 1) : plan[i] = M
    BY <2>2, <2>5, <2>7
  <2>9. plan[k] = n - M * (k - 1) /\ plan[k] \in 1..M
    <3>1. plan[k] = full(k) /\ M * k = k * M /\ M * k \in Nat /\ M * (k - 1) = M * k - M
      BY <1>1, <2>2, <2>4, <2>7
    <3> HIDE DEF full
    <3>2. plan[k] = n - M * (k - 1)
      <4>1. CASE k * M <= n
        BY <1>1, <2>2, <3>1, <4>1 DEF full
      <4>2. CASE ~(k * M <= n)
        BY <1>1, <2>2, <3>1, <4>2 DEF full
      <4> QED BY <4>1, <4>2
    <3> QED BY <1>1, <2>2, <3>1, <3>2
  <2>10. Before(plan, k + 1) = n
    <3>1. k \in 1..(Len(plan) + 1) /\ k <= Len(plan) /\ k \in Nat
      BY <2>2, <2>4, <2>7
    <3>2. Before(plan, k) = M * (k - 1)
      BY <1>1, <2>7, <2>8, <3>1, EvenWaves
    <3>3. Before(plan, k + 1) = Before(plan, k) + plan[k]
      BY <2>7, <3>1, WavesFollow
    <3>4. M * (k - 1) \in Int
      BY <1>1, <2>2
    <3> HIDE DEF full
    <3> QED BY <1>1, <2>9, <3>2, <3>3, <3>4
  <2>11. \A w \in DOMAIN plan : plan[w] \in 1..M
    <3>1. \A w \in 1..k : w \in 1..(k - 1) \/ w = k
      BY <2>2
    <3>2. M \in 1..M
      BY <1>1
    <3> QED BY <2>7, <2>8, <2>9, <3>1, <3>2, Zenon
  <2> QED BY <2>7, <2>8, <2>10, <2>11 DEF Whole, plan
<1>4. CASE ~(M >= n) /\ ~(M < n /\ WavesAllowed /\ M > 1)
  <2>1. plan = OneByOne(n)
    BY <1>4 DEF PlanByCount
  <2>2. WavesAllowed => M = 1
    BY <1>1, <1>4
  <2>3. \A w \in 1..(Len(plan) - 1) : w \in DOMAIN plan
    <3>1. Len(plan) = n /\ DOMAIN plan = 1..n
      BY <2>1 DEF OneByOne
    <3> HIDE DEF plan
    <3> QED BY <1>1, <3>1
  <2> HIDE DEF plan
  <2> QED BY <2>1, <2>2, <2>3, OneByOneIsWhole DEF plan
<1> QED BY <1>2, <1>3, <1>4

----------------------------------------------------------------------------
(* The plan.                                                               *)

\* The last wave is open when the packing ends.
LEMMA PackedIsWhole ==
  ASSUME NEW S, NEW footprints \in Seq(S)
  PROVE  /\ Packed(footprints) \in Seq(Nat)
         /\ footprints = <<>> => Packed(footprints) = Refused
         /\ footprints # <<>> => Whole(Packed(footprints), Len(footprints))
         /\ Sized(footprints) /\ OneSizeEach(footprints) /\ MemoryBudget > 0 =>
              LET plan == Packed(footprints)
              IN /\ \A w \in DOMAIN plan : WaveFits(TRUE, footprints, Slots(plan, w))
                 /\ \A w \in 1..(Len(plan) - 1) : Full(TRUE, footprints, plan, w)
<1> DEFINE n == Len(footprints)
           Kept == Sized(footprints) /\ OneSizeEach(footprints) /\ MemoryBudget > 0
<1>1. n \in Nat /\ DOMAIN footprints = 1..n /\ (footprints = <<>> <=> n = 0)
  OBVIOUS
<1>2. PICK at : /\ at[0] = NothingPacked
                /\ \A k \in 1..n : at[k] = Pack(at[k - 1], footprints[k])
                /\ Packed(footprints) = Append(at[n].waves, Len(at[n].wave))
  BY PackedInSteps
<1> DEFINE Good(k) == PackedTo(at[k], footprints, k) /\ (Kept => SizedTo(at[k], footprints, k))
           B == {k \in Nat : k <= n /\ ~Good(k)}
<1>3. ASSUME B # {} PROVE FALSE
  <2>1. PICK k \in B : \A j \in B : k <= j
    <3>1. B \in SUBSET Nat
      OBVIOUS
    <3> HIDE DEF B
    <3> QED BY <1>3, <3>1, SomethingLeast
  <2>2. k \in Nat /\ k <= n /\ ~Good(k)
    BY <2>1
  <2> HIDE DEF B, n, Kept
  <2>3. k # 0
    <3>1. Good(0)
      BY <1>2, PackedNothing
    <3> HIDE DEF Good
    <3> QED BY <2>2, <3>1
  <2>4. k \in 1..n /\ k - 1 \in Nat /\ k - 1 <= n /\ ~(k <= k - 1)
    BY <1>1, <2>2, <2>3
  <2>5. Good(k - 1)
    BY <2>1, <2>4 DEF B
  <2>6. at[k] = Pack(at[k - 1], footprints[k])
    BY <1>2, <2>4
  <2>7. k \in 1..Len(footprints)
    BY <2>4 DEF n
  <2>8. PackedTo(at[k], footprints, k)
    BY <2>5, <2>6, <2>7, PackedOneMore
  <2>9. Kept => SizedTo(at[k], footprints, k)
    BY <2>5, <2>6, <2>7, SizedOneMore DEF Kept
  <2> QED BY <2>2, <2>8, <2>9
<1>4. Good(n)
  BY <1>1, <1>3
<1> DEFINE acc == at[n]
           m == Len(acc.waves)
           l == Len(acc.wave)
           plan == Packed(footprints)
<1>5. /\ PackedTo(acc, footprints, n) /\ (Kept => SizedTo(acc, footprints, n))
      /\ plan = Append(acc.waves, l)
  BY <1>2, <1>4
<1>6. n = 0 => plan = Refused
  <2>1. n = 0 => acc.waves = <<>> /\ acc.wave = <<>>
    BY <1>2 DEF NothingPacked
  <2>2. Append(<<>>, Len(<<>>)) = <<0>>
    OBVIOUS
  <2> HIDE DEF acc, plan
  <2> QED BY <1>5, <2>1, <2>2, Zenon DEF Refused
<1> HIDE DEF n, acc, plan, Good, Kept
<1>7. /\ m \in Nat /\ l \in Nat /\ acc.waves \in Seq(Nat) /\ DOMAIN acc.waves = 1..m
  BY <1>5 DEF PackedTo
<1>8. /\ plan \in Seq(Nat) /\ Len(plan) = m + 1 /\ DOMAIN plan = 1..(m + 1)
      /\ plan[m + 1] = l /\ \A w \in 1..m : plan[w] = acc.waves[w]
  BY <1>5, <1>7
<1>9. \A w \in 1..(m + 1) : Before(plan, w) = Before(acc.waves, w)
  BY <1>5, <1>7, BeforeAppended
<1> DEFINE b == Closed(acc)
<1>10. Before(plan, m + 1) = b /\ b \in Nat
  <2>1. m + 1 \in 1..(m + 1) /\ m + 1 \in 1..(Len(plan) + 1)
    BY <1>7, <1>8
  <2> QED BY <1>8, <1>9, <2>1, WavesFollow DEF Closed
<1> HIDE DEF m, l, b
<1>11. b + l = n /\ l <= MaxParallel /\ (n > 0 => l > 0)
  <2>1. n > 0 => acc.wave # <<>>
    BY <1>5 DEF PackedTo
  <2>2. acc.wave # <<>> => l > 0
    BY <1>5 DEF PackedTo, l
  <2>3. b + l = n /\ l <= MaxParallel
    BY <1>5 DEF PackedTo, b, l
  <2> QED BY <2>1, <2>2, <2>3
<1>12. Before(plan, (m + 1) + 1) = n
  <2>1. m + 1 \in 1..(Len(plan) + 1) /\ m + 1 <= Len(plan)
    BY <1>7, <1>8
  <2>2. Before(plan, (m + 1) + 1) = Before(plan, m + 1) + plan[m + 1]
    BY <1>8, <2>1, WavesFollow
  <2> QED BY <1>8, <1>10, <1>11, <2>2
<1>13. \A w \in 1..(m + 1) : w \in 1..m \/ w = m + 1
  BY <1>7
<1>14. ASSUME n # 0 PROVE Whole(plan, n)
  <2>1. l \in 1..MaxParallel
    BY <1>1, <1>7, <1>11, <1>14, PlanAssumption DEF n
  <2>2. \A w \in 1..m : acc.waves[w] \in 1..MaxParallel
    BY <1>5, <1>7 DEF PackedTo
  <2>3. \A w \in DOMAIN plan : plan[w] \in 1..MaxParallel
    BY <1>8, <1>13, <2>1, <2>2, Zenon
  <2> QED BY <1>8, <1>12, <2>3 DEF Whole
<1>15. ASSUME Kept
       PROVE  /\ \A w \in DOMAIN plan : WaveFits(TRUE, footprints, Slots(plan, w))
              /\ \A w \in 1..(Len(plan) - 1) : Full(TRUE, footprints, plan, w)
  <2>1. /\ acc.bytes = Bytes(Part(footprints, (b + 1)..n)) /\ (l > 1 => acc.bytes <= MemoryBudget)
        /\ \A w \in 1..m : WaveFits(TRUE, footprints, Slots(acc.waves, w)) /\ Full(TRUE, footprints, acc.waves, w)
    BY <1>5, <1>7, <1>15 DEF SizedTo, b, l
  <2>2. ASSUME NEW w \in 1..m
        PROVE  WaveFits(TRUE, footprints, Slots(plan, w)) /\ Full(TRUE, footprints, plan, w)
    <3>1. w \in 1..(m + 1)
      BY <1>7
    <3>2. Before(plan, w) = Before(acc.waves, w) /\ plan[w] = acc.waves[w]
      BY <1>8, <1>9, <3>1
    <3>3. Slots(plan, w) = Slots(acc.waves, w)
      BY <3>2 DEF Slots
    <3> QED BY <2>1, <3>2, <3>3 DEF Full
  <2>3. WaveFits(TRUE, footprints, Slots(plan, m + 1))
    <3>1. Slots(plan, m + 1) = (b + 1)..n
      BY <1>8, <1>10, <1>11 DEF Slots
    <3>2. Cardinality((b + 1)..n) = l
      <4>1. b + 1 \in Int /\ n \in Int /\ (b + 1 > n => l = 0) /\ n - (b + 1) + 1 = l
        BY <1>7, <1>10, <1>11
      <4> QED BY <4>1, FS_Interval
    <3> QED BY <1>11, <2>1, <3>1, <3>2 DEF WaveFits, Part
  <2>4. Len(plan) - 1 = m
    BY <1>7, <1>8
  <2> QED BY <1>8, <1>13, <2>2, <2>3, <2>4, Zenon
<1> QED BY <1>1, <1>6, <1>8, <1>14, <1>15 DEF n, plan, Kept

\* Every plan that is not refused has a place for each proposer; a plan of single waves
\* is one when nothing was asked for but speed.
THEOREM PlanIsLengths ==
  ASSUME NEW S, NEW footprints \in Seq(S), NEW preset, NEW scheduling, NEW known
  PROVE  LET plan == Plan(preset, scheduling, known, footprints)
         IN plan \in Seq(Nat) /\ (plan # Refused => Whole(plan, Len(footprints)))
<1> DEFINE n == Len(footprints)
           plan == Plan(preset, scheduling, known, footprints)
           packed == Packed(footprints)
<1>1. n \in Nat /\ (n = 0 <=> footprints = <<>>)
  OBVIOUS
<1>2. Whole(OneByOne(n), n) /\ Refused \in Seq(Nat)
  BY <1>1, OneByOneIsWhole DEF Refused
<1>3. PlanByCount(n) # Refused => Whole(PlanByCount(n), n)
  <2>1. CASE n # 0
    BY <1>1, <2>1, ByCountIsWhole
  <2>2. CASE n = 0
    BY <2>2, PlanAssumption DEF PlanByCount, Refused
  <2> QED BY <2>1, <2>2
<1>4. packed # Refused => Whole(packed, n)
  BY <1>1, PackedIsWhole
<1>5. plan \in {OneByOne(n), Refused, PlanByCount(n), packed}
  BY DEF Plan, PlanByMemory
<1> HIDE DEF plan, packed, n
<1>6. plan # Refused => Whole(plan, n)
  BY <1>2, <1>3, <1>4, <1>5
<1>7. plan \in Seq(Nat)
  BY <1>2, <1>6 DEF Whole
<1> QED BY <1>6, <1>7 DEF plan, n

\* What a plan promises, it keeps.
THEOREM PlanKeepsItsPromise ==
  ASSUME NEW S, NEW footprints \in Seq(S), Sized(footprints), OneSizeEach(footprints),
         NEW preset, NEW scheduling, NEW known \in BOOLEAN,
         Plan(preset, scheduling, known, footprints) # Refused
  PROVE  PlanFits(known, footprints, Plan(preset, scheduling, known, footprints))
<1> DEFINE n == Len(footprints)
           plan == Plan(preset, scheduling, known, footprints)
           packed == Packed(footprints)
<1>1. n \in Nat /\ Whole(plan, n)
  BY PlanIsLengths
<1>2. \/ plan = OneByOne(n)
      \/ plan = packed /\ known /\ MemoryBudget > 0
      \/ ~(known /\ MemoryBudget > 0)
  BY DEF Plan, PlanByMemory
<1>3. packed \in Seq(Nat) /\ (MemoryBudget > 0 => \A w \in DOMAIN packed : WaveFits(TRUE, footprints, Slots(packed, w)))
  BY PackedIsWhole
<1> HIDE DEF plan, packed, n
<1>4. ASSUME NEW w \in DOMAIN plan
      PROVE  IsFiniteSet(Slots(plan, w)) /\ Cardinality(Slots(plan, w)) = plan[w] /\ plan[w] \in 1..MaxParallel
  <2> DEFINE b == Before(plan, w)
  <2>1. w \in 1..(Len(plan) + 1) /\ plan[w] \in 1..MaxParallel /\ plan \in Seq(Nat)
    BY <1>1 DEF Whole
  <2>2. b \in Nat /\ plan[w] \in Nat /\ plan[w] > 0
    BY <2>1, WavesFollow, PlanAssumption
  <2> HIDE DEF b
  <2>3. b + 1 \in Int /\ b + plan[w] \in Int /\ ~(b + 1 > b + plan[w]) /\ (b + plan[w]) - (b + 1) + 1 = plan[w]
    BY <2>2
  <2> QED BY <2>1, <2>3, FS_Interval DEF Slots, b
<1>5. ASSUME NEW w \in DOMAIN plan PROVE WaveFits(known, footprints, Slots(plan, w))
  <2>1. CASE plan = OneByOne(n)
    <3>1. Cardinality(Slots(plan, w)) <= 1
      BY <1>1, <1>4, <1>5, <2>1, OneByOneIsWhole
    <3> QED BY <1>4, <1>5, <3>1, OneFits
  <2>2. CASE plan = packed /\ known /\ MemoryBudget > 0
    BY <1>3, <1>5, <2>2 DEF WaveFits
  <2>3. CASE ~(known /\ MemoryBudget > 0)
    BY <1>4, <1>5, <2>3, PlanAssumption DEF WaveFits
  <2> QED BY <1>2, <2>1, <2>2, <2>3
<1> QED BY <1>1, <1>5 DEF Whole, PlanFits, plan, n

\* Where waves are allowed, the waves of a slow mixture are full, but for the last.
LEMMA PlanIsFull ==
  ASSUME NEW S, NEW footprints \in Seq(S), Sized(footprints), OneSizeEach(footprints),
         NEW scheduling, scheduling # "sequential", NEW known \in BOOLEAN, WavesAllowed,
         Plan("slow", scheduling, known, footprints) # Refused
  PROVE  LET plan == Plan("slow", scheduling, known, footprints)
         IN \A w \in 1..(Len(plan) - 1) : Full(known, footprints, plan, w)
<1> DEFINE n == Len(footprints)
           plan == Plan("slow", scheduling, known, footprints)
           packed == Packed(footprints)
<1>1. n \in Nat /\ Whole(plan, n) /\ (n = 0 => footprints = <<>>)
  BY PlanIsLengths
<1>2. \/ plan = packed /\ known /\ MemoryBudget > 0
      \/ plan = PlanByCount(n)
  BY DEF Plan, PlanByMemory
<1>3. /\ MemoryBudget > 0 => \A w \in 1..(Len(packed) - 1) : Full(TRUE, footprints, packed, w)
      /\ n = 0 => packed = Refused
  BY <1>1, PackedIsWhole
<1> HIDE DEF plan, packed, n
<1>4. CASE plan = packed /\ known /\ MemoryBudget > 0
  BY <1>3, <1>4 DEF plan
<1>5. CASE plan = PlanByCount(n)
  <2>1. n # 0
    BY <1>5, PlanAssumption DEF PlanByCount, Refused, plan
  <2>2. \A w \in 1..(Len(plan) - 1) : plan[w] = MaxParallel
    BY <1>1, <1>5, <2>1, ByCountIsWhole
  <2>3. ASSUME NEW w \in 1..(Len(plan) - 1) PROVE Full(known, footprints, plan, w)
    <3> DEFINE b == Before(plan, w)
    <3>1. w \in 1..(Len(plan) + 1) /\ plan \in Seq(Nat)
      BY <1>1 DEF Whole
    <3>2. b \in Nat /\ plan[w] = MaxParallel /\ MaxParallel \in Nat
      BY <2>2, <3>1, WavesFollow, PlanAssumption
    <3> HIDE DEF b
    <3>3. /\ b + 1 \in Int /\ b + plan[w] + 1 \in Int /\ ~(b + 1 > b + plan[w] + 1)
          /\ (b + plan[w] + 1) - (b + 1) + 1 = MaxParallel + 1
      BY <3>2
    <3>4. Cardinality((b + 1)..(b + plan[w] + 1)) = MaxParallel + 1
      BY <3>3, FS_Interval
    <3> QED BY <3>2, <3>4 DEF Full, WaveFits, b
  <2> QED BY <2>3 DEF plan
<1> QED BY <1>2, <1>4, <1>5

\* A plan whose waves are full is one of the shortest: the waves of another that fits end
\* no later, one by one.
LEMMA NoShorterPlan ==
  ASSUME NEW S, NEW footprints \in Seq(S), Sized(footprints), NEW known,
         NEW plan, Whole(plan, Len(footprints)),
         \A w \in 1..(Len(plan) - 1) : Full(known, footprints, plan, w),
         NEW other \in Seq(Nat), Len(other) < Len(plan)
  PROVE  ~PlanFits(known, footprints, other)
<1>1. SUFFICES ASSUME PlanFits(known, footprints, other) PROVE FALSE
  OBVIOUS
<1> DEFINE n == Len(footprints)
           k == Len(other)
<1>2. /\ plan \in Seq(Nat) /\ Len(plan) \in Nat /\ k \in Nat /\ n \in Nat /\ DOMAIN other = 1..k
      /\ DOMAIN footprints = 1..n /\ k + 1 \in 1..(k + 1) /\ k + 1 \in 1..Len(plan) /\ 1 \in 1..(k + 1)
  BY DEF Whole
<1>3. /\ \A w \in 1..(k + 1) : Before(other, w) \in Nat
      /\ \A w \in 1..k : Before(other, w + 1) = Before(other, w) + other[w] /\ other[w] \in Nat
  BY WavesAdd
<1>4. /\ \A w \in 1..(Len(plan) + 1) : Before(plan, w) \in Nat
      /\ \A w \in 1..Len(plan) : Before(plan, w + 1) = Before(plan, w) + plan[w] /\ plan[w] \in Nat
  BY <1>2, WavesAdd
<1>5. Before(other, k + 1) = n /\ Before(plan, Len(plan) + 1) = n
  BY <1>1 DEF PlanFits, Whole
<1> DEFINE B == {w \in Nat : w \in 1..(k + 1) /\ ~(Before(other, w) <= Before(plan, w))}
<1>6. ASSUME B # {} PROVE FALSE
  <2>1. PICK v \in B : \A w \in B : v <= w
    <3>1. B \in SUBSET Nat
      OBVIOUS
    <3> HIDE DEF B
    <3> QED BY <1>6, <3>1, SomethingLeast
  <2>2. v # 1
    <3>1. Before(other, 1) = 0 /\ Before(plan, 1) = 0
      BY NothingBefore
    <3> QED BY <2>1, <3>1
  <2> DEFINE w == v - 1
  <2>3. w \in 1..k /\ w \in 1..(k + 1) /\ w \in Nat /\ v = w + 1 /\ ~(v <= w)
        /\ w \in 1..(Len(plan) - 1) /\ w \in 1..Len(plan) /\ w \in 1..(Len(plan) + 1)
        /\ w + 1 \in 1..(k + 1) /\ w + 1 \in 1..(Len(plan) + 1)
    BY <1>2, <2>1, <2>2
  <2>4. w \notin B
    BY <2>1, <2>3
  <2> DEFINE p == Before(other, w)   g == Before(plan, w)
             x == other[w]           y == plan[w]
             t == Slots(other, w)    s == (g + 1)..(g + y + 1)
  <2>5. /\ p \in Nat /\ g \in Nat /\ p <= g /\ y \in Nat /\ x \in Nat
        /\ Before(other, w + 1) = p + x /\ Before(plan, w + 1) = g + y
    BY <1>3, <1>4, <2>3, <2>4
  <2>6. ~(p + x <= g + y)
    <3>1. ~(Before(other, w + 1) <= Before(plan, w + 1))
      BY <2>1, <2>3
    <3> QED BY <2>5, <3>1
  <2> HIDE DEF w, B
  <2>7. p + x <= n
    <3>1. Before(other, w + 1) <= Before(other, k + 1)
      <4>1. w + 1 <= k + 1 /\ w + 1 \in 1..(Len(other) + 1) /\ k + 1 \in 1..(Len(other) + 1)
        BY <1>2, <2>3
      <4> QED BY <4>1, BeforeGrows
    <3> QED BY <1>5, <2>5, <3>1
  <2>8. t = (p + 1)..(p + x)
    BY DEF Slots
  <2> HIDE DEF p, g, x, y, t, s
  <2>9. t \in SUBSET DOMAIN footprints /\ IsFiniteSet(t) /\ s \in SUBSET t
    <3> HIDE DEF n, k
    <3>1. p \in Nat /\ g \in Nat /\ p <= g /\ y \in Nat /\ x \in Nat /\ n \in Nat
          /\ ~(p + x <= g + y) /\ p + x <= n
      BY <1>2, <2>5, <2>6, <2>7
    <3>2. (p + 1)..(p + x) \in SUBSET (1..n) /\ (g + 1)..(g + y + 1) \in SUBSET ((p + 1)..(p + x))
          /\ p + 1 \in Int /\ p + x \in Int
      BY <3>1
    <3>3. IsFiniteSet(t)
      BY <2>8, <3>2, FS_Interval
    <3> QED BY <1>2, <2>8, <3>2, <3>3 DEF s
  <2>10. WaveFits(known, footprints, t)
    BY <1>1, <1>2, <2>3 DEF PlanFits, t
  <2>11. WaveFits(known, footprints, s)
    BY <2>9, <2>10, FewerFit
  <2>12. ~WaveFits(known, footprints, s)
    BY <2>3 DEF Full, s, g, y
  <2> QED BY <2>11, <2>12
<1>7. n <= Before(plan, k + 1)
  <2>1. k + 1 \notin B /\ k + 1 \in Nat
    <3> HIDE DEF B
    <3> QED BY <1>2, <1>6
  <2>2. Before(other, k + 1) <= Before(plan, k + 1)
    BY <1>2, <2>1
  <2> QED BY <1>5, <2>2
<1>8. Before(plan, k + 1) + plan[k + 1] <= n /\ plan[k + 1] > 0
  <2>1. (k + 1) + 1 \in 1..(Len(plan) + 1) /\ Len(plan) + 1 \in 1..(Len(plan) + 1) /\ (k + 1) + 1 <= Len(plan) + 1
    BY <1>2
  <2>2. Before(plan, (k + 1) + 1) <= n
    BY <1>2, <1>5, <2>1, BeforeGrows
  <2>3. plan[k + 1] \in 1..MaxParallel
    BY <1>2 DEF Whole
  <2> QED BY <1>2, <1>4, <2>2, <2>3, PlanAssumption
<1>9. Before(plan, k + 1) \in Nat /\ plan[k + 1] \in Nat
  BY <1>2, <1>4
<1> QED BY <1>2, <1>7, <1>8, <1>9

\* Where waves are allowed, a slow mixture that may run in parallel has a plan as short
\* as any that keeps the order of the proposers, the slots and the memory.
THEOREM PlanIsShortest ==
  ASSUME NEW S, NEW footprints \in Seq(S), Sized(footprints), OneSizeEach(footprints),
         NEW scheduling, scheduling # "sequential", NEW known \in BOOLEAN, WavesAllowed,
         Plan("slow", scheduling, known, footprints) # Refused,
         NEW other \in Seq(Nat), PlanFits(known, footprints, other)
  PROVE  Len(Plan("slow", scheduling, known, footprints)) <= Len(other)
<1> DEFINE plan == Plan("slow", scheduling, known, footprints)
<1>1. plan \in Seq(Nat) /\ Whole(plan, Len(footprints))
  BY PlanIsLengths
<1>2. \A w \in 1..(Len(plan) - 1) : Full(known, footprints, plan, w)
  BY PlanIsFull
<1>3. Len(plan) \in Nat /\ Len(other) \in Nat
  BY <1>1
<1> HIDE DEF plan
<1>4. ~(Len(other) < Len(plan))
  BY <1>1, <1>2, NoShorterPlan
<1> QED BY <1>3, <1>4 DEF plan
=============================================================================
