-------------------------- MODULE ConfigParseProofs --------------------------
(***************************************************************************)
(* The parser of configuration descriptors, for every configuration.       *)
(***************************************************************************)
EXTENDS ConfigParse, FiniteSetTheorems, SequenceTheorems, WellFoundedInduction, TLAPS

-----------------------------------------------------------------------------
(* Induction over numbers, with a set in place of a predicate *)

LEMMA NumbersIn ==
    ASSUME NEW S, 0 \in S, \A n \in Nat : n \in S => n + 1 \in S
    PROVE  \A n \in Nat : n \in S
<1> DEFINE Less == OpToRel(<, Nat)
           Bad == Nat \ S
<1> SUFFICES ASSUME Bad # {} PROVE FALSE
    OBVIOUS
<1>1. PICK n \in Bad : \A m \in Bad : <<m, n>> \notin Less
    BY NatLessThanWellFounded, WFMin
<1>2. n # 0 /\ n - 1 \in Nat
    OBVIOUS
<1>3. <<n - 1, n>> \in Less
    BY <1>2 DEF OpToRel
<1>4. n - 1 \notin Bad
    BY <1>1, <1>3
<1> QED BY <1>2, <1>4

-----------------------------------------------------------------------------
(* The n-th of a set of numbers *)

UpTo(S, k) == {i \in S : i <= k}

\* A number of the set has its place, and a greater one a later place.
LEMMA PlaceIn ==
    ASSUME NEW S \in SUBSET Nat, IsFiniteSet(S), NEW k \in S
    PROVE  Cardinality(UpTo(S, k)) \in 1 .. Cardinality(S) /\ IsFiniteSet(UpTo(S, k))
<1>1. UpTo(S, k) \in SUBSET S /\ k \in UpTo(S, k)
    BY DEF UpTo
<1>2. IsFiniteSet(UpTo(S, k)) /\ Cardinality(UpTo(S, k)) <= Cardinality(S)
    BY <1>1, FS_Subset
<1>3. Cardinality(UpTo(S, k)) \in Nat /\ Cardinality(UpTo(S, k)) # 0 /\ Cardinality(S) \in Nat
    BY <1>1, <1>2, FS_CardinalityType, FS_EmptySet
<1> QED BY <1>2, <1>3

LEMMA PlaceLess ==
    ASSUME NEW S \in SUBSET Nat, IsFiniteSet(S), NEW i \in S, NEW k \in S, i < k
    PROVE  Cardinality(UpTo(S, i)) < Cardinality(UpTo(S, k))
<1>1. UpTo(S, i) \in SUBSET UpTo(S, k) /\ k \in UpTo(S, k) /\ k \notin UpTo(S, i)
    <2>1. \A j \in S : j \in Nat
        OBVIOUS
    <2>2. \A j \in S : j <= i => j <= k
        BY <2>1
    <2>3. k <= k /\ ~(k <= i)
        BY <2>1
    <2> QED BY <2>2, <2>3 DEF UpTo
<1>2. /\ IsFiniteSet(UpTo(S, k))
      /\ Cardinality(UpTo(S, i)) \in Nat /\ Cardinality(UpTo(S, k)) \in Nat
    BY PlaceIn
<1>3. Cardinality(UpTo(S, i)) <= Cardinality(UpTo(S, k)) /\ UpTo(S, i) # UpTo(S, k)
    BY <1>1, <1>2, FS_Subset
<1>4. Cardinality(UpTo(S, i)) # Cardinality(UpTo(S, k))
    BY <1>1, <1>2, <1>3, FS_Subset
<1> QED BY <1>2, <1>3, <1>4

LEMMA NthUnique ==
    ASSUME NEW S \in SUBSET Nat, IsFiniteSet(S), NEW k \in S
    PROVE  Nth(S, Cardinality(UpTo(S, k))) = k
<1> DEFINE n == Cardinality(UpTo(S, k))
<1>1. \A j \in S : Cardinality(UpTo(S, j)) = n => j = k
    <2> SUFFICES ASSUME NEW j \in S, Cardinality(UpTo(S, j)) = n, j # k
                 PROVE  FALSE
        OBVIOUS
    <2>1. j \in Nat /\ k \in Nat /\ n \in Nat
        BY PlaceIn
    <2>2. CASE j < k
        BY <2>1, <2>2, PlaceLess
    <2>3. CASE k < j
        BY <2>1, <2>3, PlaceLess
    <2> QED BY <2>1, <2>2, <2>3
<1> QED BY <1>1, Zenon DEF Nth, UpTo

\* Every place has a number.
LEMMA NthIs ==
    ASSUME NEW S \in SUBSET Nat, IsFiniteSet(S), NEW n \in 1 .. Cardinality(S)
    PROVE  Nth(S, n) \in S /\ Cardinality(UpTo(S, Nth(S, n))) = n
<1> DEFINE N == Cardinality(S)
           f == [k \in S |-> Cardinality(UpTo(S, k))]
<1>1. N \in Nat /\ IsFiniteSet(1 .. N) /\ Cardinality(1 .. N) = N
    BY FS_CardinalityType, FS_Interval
<1>2. f \in [S -> 1 .. N]
    BY PlaceIn
<1>3. \A i, k \in S : f[i] = f[k] => i = k
    <2> SUFFICES ASSUME NEW i \in S, NEW k \in S, f[i] = f[k]
                 PROVE  i = k
        OBVIOUS
    <2>1. Nth(S, f[i]) = i /\ Nth(S, f[k]) = k
        BY NthUnique
    <2> HIDE DEF f
    <2> QED BY <2>1
<1>4. f \in Injection(S, 1 .. N)
    <2> HIDE DEF f, N
    <2> QED BY <1>2, <1>3 DEF Injection, IsInjective
<1>5. f \in Surjection(S, 1 .. N)
    <2> HIDE DEF f
    <2> QED BY <1>1, <1>4, FS_Injection
<1>6. PICK k \in S : f[k] = n
    <2> HIDE DEF f, N
    <2> QED BY <1>5 DEF Surjection, N
<1>7. Cardinality(UpTo(S, k)) = n
    BY <1>6
<1> QED BY <1>7, NthUnique

LEMMA NthBefore ==
    ASSUME NEW S \in SUBSET Nat, IsFiniteSet(S),
           NEW m \in 1 .. Cardinality(S), NEW n \in 1 .. Cardinality(S), m < n
    PROVE  Nth(S, m) < Nth(S, n)
<1>1. /\ Nth(S, m) \in S /\ Cardinality(UpTo(S, Nth(S, m))) = m
      /\ Nth(S, n) \in S /\ Cardinality(UpTo(S, Nth(S, n))) = n
    BY NthIs
<1>2. PICK i \in Nat, k \in Nat : i = Nth(S, m) /\ k = Nth(S, n)
    BY <1>1
<1>3. i \in S /\ k \in S /\ Cardinality(UpTo(S, i)) = m /\ Cardinality(UpTo(S, k)) = n
    BY <1>1, <1>2
<1>4. Cardinality(S) \in Nat
    BY FS_CardinalityType
<1>5. ~(k < i) /\ k # i
    BY <1>3, <1>4, PlaceLess
<1> QED BY <1>2, <1>5

\* The numbers of an initial part of a set have the places they have in the whole.
LEMMA NthInitial ==
    ASSUME NEW T \in SUBSET Nat, IsFiniteSet(T), NEW S \in SUBSET T,
           \A i \in S, k \in T : k <= i => k \in S
    PROVE  /\ IsFiniteSet(S) /\ Cardinality(S) <= Cardinality(T)
           /\ \A n \in 1 .. Cardinality(S) : Nth(T, n) = Nth(S, n)
<1>1. IsFiniteSet(S) /\ Cardinality(S) <= Cardinality(T)
    BY FS_Subset
<1>2. ASSUME NEW n \in 1 .. Cardinality(S)
      PROVE  Nth(T, n) = Nth(S, n)
    <2>1. PICK k \in S : k = Nth(S, n) /\ Cardinality(UpTo(S, k)) = n
        BY <1>1, NthIs
    <2>2. UpTo(S, k) = UpTo(T, k)
        BY DEF UpTo
    <2> QED BY <2>1, <2>2, NthUnique
<1> QED BY <1>1, <1>2

\* A greater number has the next place.
LEMMA NthAdded ==
    ASSUME NEW S \in SUBSET Nat, IsFiniteSet(S), NEW x \in Nat, \A i \in S : i < x
    PROVE  /\ Cardinality(S \cup {x}) = Cardinality(S) + 1
           /\ \A n \in 1 .. Cardinality(S) : Nth(S \cup {x}, n) = Nth(S, n)
           /\ Nth(S \cup {x}, Cardinality(S) + 1) = x
<1> DEFINE T == S \cup {x}
<1>1. T \in SUBSET Nat /\ x \notin S
    OBVIOUS
<1>2. IsFiniteSet(T) /\ Cardinality(T) = Cardinality(S) + 1
    BY <1>1, FS_AddElement
<1>3. \A i \in S, k \in T : k <= i => k \in S
    OBVIOUS
<1>4. \A n \in 1 .. Cardinality(S) : Nth(T, n) = Nth(S, n)
    BY <1>1, <1>2, <1>3, NthInitial
<1>5. UpTo(T, x) = T
    <2>1. \A i \in T : i <= x
        OBVIOUS
    <2> QED BY <2>1 DEF UpTo
<1>6. Nth(T, Cardinality(T)) = x
    BY <1>1, <1>2, <1>5, NthUnique
<1> QED BY <1>2, <1>4, <1>6

\* The n-th of the numbers that are in a subset: their places in the whole, and then the
\* n-th of those.
PlacesOf(S, T) == {m \in 1 .. Cardinality(S) : Nth(S, m) \in T}

LEMMA NthOfPlaces ==
    ASSUME NEW S \in SUBSET Nat, IsFiniteSet(S), NEW T \in SUBSET S
    PROVE  /\ Cardinality(PlacesOf(S, T)) = Cardinality(T)
           /\ \A n \in 1 .. Cardinality(T) :
                 /\ Nth(PlacesOf(S, T), n) \in PlacesOf(S, T)
                 /\ Nth(S, Nth(PlacesOf(S, T), n)) = Nth(T, n)
<1> DEFINE M == PlacesOf(S, T)
<1>0. M = {m \in 1 .. Cardinality(S) : Nth(S, m) \in T}
    BY DEF PlacesOf
<1> HIDE DEF M
<1>1. IsFiniteSet(T) /\ Cardinality(S) \in Nat /\ T \in SUBSET Nat
    BY FS_Subset, FS_CardinalityType
<1>2. M \in SUBSET Nat /\ IsFiniteSet(M)
    <2>1. IsFiniteSet(1 .. Cardinality(S)) /\ M \in SUBSET (1 .. Cardinality(S))
        BY <1>0, <1>1, FS_Interval
    <2>2. M \in SUBSET Nat
        BY <1>0, <1>1
    <2> QED BY <2>1, <2>2, FS_Subset
<1>3. \A m \in M : Cardinality(UpTo(M, m)) = Cardinality(UpTo(T, Nth(S, m)))
    <2> SUFFICES ASSUME NEW m \in M
                 PROVE  Cardinality(UpTo(M, m)) = Cardinality(UpTo(T, Nth(S, m)))
        OBVIOUS
    <2> DEFINE A == UpTo(M, m)
               B == UpTo(T, Nth(S, m))
               f == [k \in A |-> Nth(S, k)]
    <2>1. IsFiniteSet(A)
        BY <1>2, PlaceIn
    <2>2. \A k \in M : k \in 1 .. Cardinality(S) /\ Nth(S, k) \in T
        BY <1>0
    <2>3. \A k \in M : k <= m <=> Nth(S, k) <= Nth(S, m)
        <3> SUFFICES ASSUME NEW k \in M PROVE k <= m <=> Nth(S, k) <= Nth(S, m)
            OBVIOUS
        <3>1. PICK i \in Nat, j \in Nat : i = Nth(S, k) /\ j = Nth(S, m)
            BY <2>2, <1>1
        <3>2. k < m => i < j
            BY <2>2, <3>1, NthBefore
        <3>3. m < k => j < i
            BY <2>2, <3>1, NthBefore
        <3>4. k = m => i = j
            BY <3>1
        <3> QED BY <1>1, <2>2, <3>1, <3>2, <3>3, <3>4
    <2>4. f \in [A -> B]
        <3>1. \A k \in A : k \in M /\ k <= m
            BY DEF UpTo
        <3>2. \A k \in A : Nth(S, k) \in B
            BY <2>2, <2>3, <3>1 DEF UpTo
        <3> QED BY <3>2
    <2>5. f \in Injection(A, B)
        <3>1. ASSUME NEW i \in A, NEW k \in A, f[i] = f[k]
              PROVE  i = k
            <4>1. i \in M /\ k \in M
                BY DEF UpTo
            <4>2. Nth(S, i) = Nth(S, k)
                BY <3>1
            <4>3. Cardinality(UpTo(S, Nth(S, i))) = i /\ Cardinality(UpTo(S, Nth(S, k))) = k
                BY <2>2, <4>1, NthIs
            <4> QED BY <4>2, <4>3
        <3> HIDE DEF A, B, f
        <3> QED BY <2>4, <3>1 DEF Injection, IsInjective
    <2>6. f \in Surjection(A, B)
        <3>1. ASSUME NEW t \in B
              PROVE  \E k \in A : f[k] = t
            <4>1. t \in T /\ t \in S /\ t <= Nth(S, m)
                BY DEF UpTo
            <4>2. PICK k \in 1 .. Cardinality(S) : k = Cardinality(UpTo(S, t))
                BY <4>1, PlaceIn
            <4>3. Nth(S, k) = t
                BY <4>1, <4>2, NthUnique
            <4>4. k \in A
                BY <1>0, <2>3, <4>1, <4>3 DEF UpTo
            <4> QED BY <4>3, <4>4
        <3> HIDE DEF A, B, f
        <3> QED BY <2>4, <3>1 DEF Surjection
    <2>7. f \in Bijection(A, B)
        <3> HIDE DEF A, B, f
        <3> QED BY <2>5, <2>6 DEF Bijection
    <2>8. ExistsBijection(A, B)
        <3> HIDE DEF A, B, f
        <3> QED BY <2>7 DEF ExistsBijection
    <2>9. Cardinality(A) = Cardinality(B)
        <3> HIDE DEF A, B, f
        <3> QED BY <2>1, <2>8, FS_Bijection
    <2> QED BY <2>9
<1>4. Cardinality(M) = Cardinality(T)
    <2> DEFINE f == [k \in M |-> Nth(S, k)]
    <2>1. f \in [M -> T]
        BY <1>0
    <2>2. \A i, k \in M : f[i] = f[k] => i = k
        <3> SUFFICES ASSUME NEW i \in M, NEW k \in M, f[i] = f[k]
                     PROVE  i = k
            OBVIOUS
        <3>1. Nth(S, i) = Nth(S, k)
            OBVIOUS
        <3>2. Cardinality(UpTo(S, Nth(S, i))) = i /\ Cardinality(UpTo(S, Nth(S, k))) = k
            BY <1>0, NthIs
        <3> QED BY <3>1, <3>2
    <2>3. \A t \in T : \E k \in M : f[k] = t
        <3> SUFFICES ASSUME NEW t \in T
                     PROVE  \E k \in M : f[k] = t
            OBVIOUS
        <3>1. PICK k \in 1 .. Cardinality(S) : k = Cardinality(UpTo(S, t))
            BY PlaceIn
        <3>2. Nth(S, k) = t
            BY <3>1, NthUnique
        <3>3. k \in M
            BY <1>0, <3>2
        <3> QED BY <3>2, <3>3
    <2>4. ExistsBijection(M, T)
        <3> HIDE DEF f
        <3>1. f \in Bijection(M, T)
            BY <2>1, <2>2, <2>3 DEF Bijection, Injection, IsInjective, Surjection
        <3> QED BY <3>1 DEF ExistsBijection
    <2> QED BY <1>2, <2>4, FS_Bijection
<1>5. ASSUME NEW n \in 1 .. Cardinality(T)
      PROVE  Nth(M, n) \in M /\ Nth(S, Nth(M, n)) = Nth(T, n)
    <2>1. PICK m \in M : m = Nth(M, n) /\ Cardinality(UpTo(M, m)) = n
        BY <1>2, <1>4, NthIs
    <2>2. Cardinality(UpTo(T, Nth(S, m))) = n /\ Nth(S, m) \in T
        BY <1>0, <1>3, <2>1
    <2>3. Nth(T, n) = Nth(S, m)
        BY <1>1, <2>2, NthUnique
    <2> QED BY <2>1, <2>3
<1> QED BY <1>4, <1>5 DEF M

LEMMA NthFromZero ==
    ASSUME NEW m \in Nat, NEW j \in 1 .. m
    PROVE  Cardinality(0 .. (m - 1)) = m /\ Nth(0 .. (m - 1), j) = j - 1
<1> DEFINE S == 0 .. (m - 1)
<1>1. S \in SUBSET Nat /\ IsFiniteSet(S) /\ Cardinality(S) = m
    BY FS_Interval
<1>2. UpTo(S, j - 1) = 0 .. (j - 1) /\ j - 1 \in S
    BY DEF UpTo
<1>3. Cardinality(0 .. (j - 1)) = j
    BY FS_Interval
<1> HIDE DEF S
<1>4. Nth(S, j) = j - 1
    BY <1>1, <1>2, <1>3, NthUnique
<1> QED BY <1>1, <1>4 DEF S

-----------------------------------------------------------------------------
(* The memory pool *)

\* The walk over the nodes of a pool.
FreedSoFar(nodes, n, f) == f = [k \in 0 .. n |-> IF k = 0 THEN 1 ELSE f[k - 1] + nodes[k] + 1]

LEMMA FreedExists ==
    ASSUME NEW nodes, NEW n \in Nat
    PROVE  \E f : FreedSoFar(nodes, n, f)
<1> DEFINE Done == {m \in Nat : \E f : FreedSoFar(nodes, m, f)}
<1>1. 0 \in Done
    <2> DEFINE f == [k \in 0 .. 0 |-> 1]
    <2>1. FreedSoFar(nodes, 0, f)
        BY DEF FreedSoFar
    <2> QED BY <2>1
<1>2. ASSUME NEW m \in Nat, m \in Done
      PROVE  m + 1 \in Done
    <2>1. PICK g : FreedSoFar(nodes, m, g)
        BY <1>2
    <2> DEFINE f == [k \in 0 .. m + 1 |-> IF k = 0 THEN 1 ELSE g[k - 1] + nodes[k] + 1]
    <2>2. \A k \in 0 .. m : f[k] = g[k]
        BY <2>1 DEF FreedSoFar
    <2>3. \A k \in 0 .. m + 1 : k # 0 => f[k - 1] = g[k - 1]
        <3>1. \A k \in 0 .. m + 1 : k # 0 => k - 1 \in 0 .. m
            OBVIOUS
        <3> HIDE DEF f
        <3> QED BY <2>2, <3>1
    <2>4. FreedSoFar(nodes, m + 1, f)
        BY <2>3 DEF FreedSoFar
    <2> QED BY <2>4
<1>3. n \in Done
    <2> HIDE DEF Done
    <2> QED BY <1>1, <1>2, NumbersIn
<1> QED BY <1>3

LEMMA FreedIs ==
    ASSUME NEW q, q.nodes \in Seq(Nat)
    PROVE  \E f : FreedSoFar(q.nodes, Len(q.nodes), f) /\ Freed(q) = f[Len(q.nodes)]
<1> DEFINE f[k \in 0 .. Len(q.nodes)] == IF k = 0 THEN 1 ELSE f[k - 1] + q.nodes[k] + 1
<1>1. FreedSoFar(q.nodes, Len(q.nodes), f)
    <2>1. \E g : FreedSoFar(q.nodes, Len(q.nodes), g)
        BY FreedExists
    <2> QED BY <2>1, Zenon DEF FreedSoFar
<1>2. Freed(q) = f[Len(q.nodes)]
    BY DEF Freed
<1> QED BY <1>1, <1>2

\* The steps of such a walk, and two pools that begin with the same n nodes.
FreedSteps(nodes, n, f) == f[0] = 1 /\ \A k \in 1 .. n : f[k] = f[k - 1] + nodes[k] + 1
SameNodes(s, t, n) == \A k \in 1 .. n : s[k] = t[k] /\ s[k] \in Nat

LEMMA FreedNext ==
    ASSUME NEW nodes, NEW n \in Nat, NEW f, FreedSoFar(nodes, n, f)
    PROVE  FreedSteps(nodes, n, f)
    BY DEF FreedSoFar, FreedSteps

LEMMA FreedWalks ==
    ASSUME NEW q, q.nodes \in Seq(Nat)
    PROVE  \E f : FreedSteps(q.nodes, Len(q.nodes), f) /\ Freed(q) = f[Len(q.nodes)]
<1>1. PICK f : FreedSoFar(q.nodes, Len(q.nodes), f) /\ Freed(q) = f[Len(q.nodes)]
    BY FreedIs
<1>2. FreedSteps(q.nodes, Len(q.nodes), f)
    BY <1>1, FreedNext
<1> QED BY <1>1, <1>2

LEMMA FreedAgree ==
    ASSUME NEW s, NEW t, NEW n \in Nat, NEW f, NEW g,
           FreedSteps(s, n, f), FreedSteps(t, n, g), SameNodes(s, t, n)
    PROVE  f[n] = g[n] /\ f[n] \in Nat
<1> DEFINE Good == {m \in Nat : m <= n => f[m] = g[m] /\ f[m] \in Nat}
<1>1. 0 \in Good
    BY DEF FreedSteps
<1>2. ASSUME NEW m \in Nat, m \in Good, m + 1 <= n
      PROVE  f[m + 1] = g[m + 1] /\ f[m + 1] \in Nat
    <2>1. m + 1 \in 1 .. n /\ (m + 1) - 1 = m
        BY <1>2
    <2>2. f[m] = g[m] /\ f[m] \in Nat /\ s[m + 1] = t[m + 1] /\ s[m + 1] \in Nat
        BY <1>2, <2>1 DEF SameNodes
    <2>3. f[m + 1] = f[(m + 1) - 1] + s[m + 1] + 1 /\ g[m + 1] = g[(m + 1) - 1] + t[m + 1] + 1
        BY <2>1 DEF FreedSteps
    <2> QED BY <2>1, <2>2, <2>3
<1>3. \A m \in Nat : m \in Good => m + 1 \in Good
    BY <1>2
<1>4. n \in Good
    <2> HIDE DEF Good
    <2> QED BY <1>1, <1>3, NumbersIn
<1> QED BY <1>4

\* A pool that knows each of its blocks.
Pools == {q \in [nodes : Seq(Nat), end : Nat \ {0}, blocks : Nat] :
             q.end = Len(q.nodes) /\ q.blocks = Freed(q)}

LEMMA CreateIn == MallocPoolCreate \in Pools
<1> DEFINE q == MallocPoolCreate
<1>1. q.nodes \in Seq(Nat) /\ Len(q.nodes) = 1 /\ q.nodes[1] = 0
    BY DEF MallocPoolCreate
<1>2. q \in [nodes : Seq(Nat), end : Nat \ {0}, blocks : Nat] /\ q.end = 1 /\ q.blocks = 2
    BY <1>1 DEF MallocPoolCreate
<1> HIDE DEF q
<1>3. Freed(q) = 2
    BY <1>1, FreedWalks DEF FreedSteps
<1>4. q \in Pools
    BY <1>1, <1>2, <1>3 DEF Pools
<1> QED BY <1>4 DEF q

\* An allocation adds a block to the last node, ...
LEMMA FreedSame ==
    ASSUME NEW q, NEW r, q.nodes \in Seq(Nat), r.nodes \in Seq(Nat),
           NEW n \in Nat \ {0}, Len(q.nodes) = n, Len(r.nodes) = n,
           SameNodes(q.nodes, r.nodes, n - 1), r.nodes[n] = q.nodes[n] + 1
    PROVE  Freed(r) = Freed(q) + 1 /\ Freed(q) \in Nat
<1>1. PICK f : FreedSteps(q.nodes, n, f) /\ Freed(q) = f[n]
    BY FreedWalks
<1>2. PICK g : FreedSteps(r.nodes, n, g) /\ Freed(r) = g[n]
    BY FreedWalks
<1>3. n - 1 \in Nat /\ FreedSteps(q.nodes, n - 1, f) /\ FreedSteps(r.nodes, n - 1, g)
    BY <1>1, <1>2 DEF FreedSteps
<1>4. f[n - 1] = g[n - 1] /\ f[n - 1] \in Nat
    BY <1>3, FreedAgree
<1>5. q.nodes[n] \in Nat
    OBVIOUS
<1>6. f[n] = f[n - 1] + q.nodes[n] + 1 /\ g[n] = g[n - 1] + r.nodes[n] + 1
    BY <1>1, <1>2 DEF FreedSteps
<1>7. g[n] = f[n - 1] + (q.nodes[n] + 1) + 1
    BY <1>4, <1>6
<1>8. PICK x \in Nat, y \in Nat : x = f[n - 1] /\ y = q.nodes[n]
    BY <1>4, <1>5
<1>9. Freed(q) = x + y + 1 /\ Freed(r) = x + (y + 1) + 1
    BY <1>1, <1>2, <1>6, <1>7, <1>8
<1> QED BY <1>9

\* ... or a node with a block.
LEMMA FreedMore ==
    ASSUME NEW q, NEW r, q.nodes \in Seq(Nat), r.nodes \in Seq(Nat),
           NEW n \in Nat, Len(q.nodes) = n, Len(r.nodes) = n + 1,
           SameNodes(q.nodes, r.nodes, n), r.nodes[n + 1] = 1
    PROVE  Freed(r) = Freed(q) + 2 /\ Freed(q) \in Nat
<1>1. PICK f : FreedSteps(q.nodes, n, f) /\ Freed(q) = f[n]
    BY FreedWalks
<1>2. PICK g : FreedSteps(r.nodes, n + 1, g) /\ Freed(r) = g[n + 1]
    BY FreedWalks
<1>3. FreedSteps(r.nodes, n, g) /\ g[n + 1] = g[n] + r.nodes[n + 1] + 1
    BY <1>2 DEF FreedSteps
<1>4. f[n] = g[n] /\ f[n] \in Nat
    BY <1>1, <1>3, FreedAgree
<1> QED BY <1>1, <1>2, <1>3, <1>4

LEMMA MallocIn ==
    ASSUME NEW q \in Pools
    PROVE  MallocPool(q) \in Pools
<1> DEFINE r == MallocPool(q)
<1>1. PICK n \in Nat \ {0} : n = Len(q.nodes)
    BY DEF Pools
<1>2. /\ q \in [nodes : Seq(Nat), end : Nat \ {0}, blocks : Nat]
      /\ q.nodes \in Seq(Nat) /\ q.end = n /\ q.blocks = Freed(q) /\ q.nodes[n] \in Nat
    BY <1>1 DEF Pools
<1>3. CASE q.nodes[q.end] = POOL_PTRS_PER_NODE
    <2>1. r = [nodes |-> q.nodes \o <<1>>, end |-> n + 1, blocks |-> q.blocks + 2]
        <3>1. SubSeq(q.nodes, 1, n) = q.nodes
            BY <1>1, <1>2, SubSeqFull
        <3>2. r = [nodes |-> SubSeq(q.nodes, 1, n) \o <<1>>, end |-> n + 1,
                   blocks |-> q.blocks + 2]
            BY <1>2, <1>3 DEF MallocPool
        <3> QED BY <3>1, <3>2
    <2> HIDE DEF r
    <2>2. /\ r.nodes \in Seq(Nat) /\ Len(r.nodes) = n + 1 /\ r.nodes[n + 1] = 1
          /\ \A k \in 1 .. n : r.nodes[k] = q.nodes[k]
        <3>1. <<1>> \in Seq(Nat) /\ Len(<<1>>) = 1 /\ <<1>>[1] = 1
            OBVIOUS
        <3>2. r.nodes = q.nodes \o <<1>>
            BY <2>1
        <3> QED BY <1>1, <1>2, <3>1, <3>2, ConcatProperties
    <2>3. SameNodes(q.nodes, r.nodes, n)
        BY <1>1, <1>2, <2>2 DEF SameNodes
    <2>4. r.blocks = Freed(r)
        <3>1. Freed(r) = Freed(q) + 2
            BY <1>1, <1>2, <2>2, <2>3, FreedMore
        <3> QED BY <1>2, <2>1, <3>1
    <2>5. r \in [nodes : Seq(Nat), end : Nat \ {0}, blocks : Nat] /\ r.end = n + 1
        BY <1>2, <2>1, <2>2
    <2>6. r \in Pools
        BY <2>2, <2>4, <2>5 DEF Pools
    <2> QED BY <2>6 DEF r
<1>4. CASE q.nodes[q.end] # POOL_PTRS_PER_NODE
    <2>1. r = [nodes |-> [q.nodes EXCEPT ![n] = q.nodes[n] + 1], end |-> n,
               blocks |-> q.blocks + 1]
        <3>1. r = [q EXCEPT !.nodes[q.end] = @ + 1, !.blocks = @ + 1]
            BY <1>4 DEF MallocPool
        <3> QED BY <1>2, <3>1
    <2> HIDE DEF r
    <2>2. /\ r.nodes \in Seq(Nat) /\ Len(r.nodes) = n /\ r.nodes[n] = q.nodes[n] + 1
          /\ \A k \in 1 .. n - 1 : r.nodes[k] = q.nodes[k]
        <3>1. r.nodes = [q.nodes EXCEPT ![n] = q.nodes[n] + 1]
            BY <2>1
        <3> QED BY <1>1, <1>2, <3>1, ExceptSeq
    <2>3. SameNodes(q.nodes, r.nodes, n - 1)
        <3>1. \A k \in 1 .. n - 1 : k \in 1 .. Len(q.nodes)
            BY <1>1
        <3>2. \A k \in 1 .. n - 1 : q.nodes[k] \in Nat
            BY <1>2, <3>1, ElementOfSeq
        <3> QED BY <2>2, <3>2 DEF SameNodes
    <2>4. r.blocks = Freed(r)
        <3>1. Freed(r) = Freed(q) + 1
            BY <1>1, <1>2, <2>2, <2>3, FreedSame
        <3> QED BY <1>2, <2>1, <3>1
    <2>5. r \in [nodes : Seq(Nat), end : Nat \ {0}, blocks : Nat] /\ r.end = n
        BY <1>2, <2>1, <2>2
    <2>6. r \in Pools
        BY <2>2, <2>4, <2>5 DEF Pools
    <2> QED BY <2>6 DEF r
<1> QED BY <1>3, <1>4

\* n allocations.
MallocRun(q, n, f) == f = [k \in 0 .. n |-> IF k = 0 THEN q ELSE MallocPool(f[k - 1])]

LEMMA MallocNExists ==
    ASSUME NEW q, NEW n \in Nat
    PROVE  \E f : MallocRun(q, n, f)
<1> DEFINE Is(m, f) == MallocRun(q, m, f)
           Done == {m \in Nat : \E f : Is(m, f)}
<1>1. 0 \in Done
    <2>1. Is(0, [k \in 0 .. 0 |-> q])
        BY DEF MallocRun
    <2> HIDE DEF Is
    <2> QED BY <2>1
<1>2. ASSUME NEW m \in Nat, m \in Done
      PROVE  m + 1 \in Done
    <2>1. PICK g : Is(m, g)
        BY <1>2
    <2> DEFINE f == [k \in 0 .. m + 1 |-> IF k = 0 THEN q ELSE MallocPool(g[k - 1])]
    <2>2. \A k \in 0 .. m : f[k] = g[k]
        BY <2>1 DEF MallocRun
    <2>3. \A k \in 0 .. m + 1 : k # 0 => MallocPool(f[k - 1]) = MallocPool(g[k - 1])
        <3>1. \A k \in 0 .. m + 1 : k # 0 => k - 1 \in 0 .. m
            OBVIOUS
        <3> HIDE DEF f
        <3> QED BY <2>2, <3>1
    <2>4. Is(m + 1, f)
        BY <2>3 DEF MallocRun
    <2> HIDE DEF Is, f
    <2> QED BY <2>4
<1>3. n \in Done
    <2> HIDE DEF Done
    <2> QED BY <1>1, <1>2, NumbersIn
<1> QED BY <1>3

LEMMA MallocNIn ==
    ASSUME NEW q \in Pools, NEW n \in Nat
    PROVE  MallocPoolN(q, n) \in Pools
<1> DEFINE f[k \in 0 .. n] == IF k = 0 THEN q ELSE MallocPool(f[k - 1])
           Good == {m \in Nat : m <= n => f[m] \in Pools}
<1>1. MallocRun(q, n, f)
    <2>1. \E g : MallocRun(q, n, g)
        BY MallocNExists
    <2> QED BY <2>1, Zenon DEF MallocRun
<1>2. MallocPoolN(q, n) = f[n]
    BY DEF MallocPoolN
<1> HIDE DEF f
<1>3. 0 \in Good
    BY <1>1 DEF MallocRun
<1>4. ASSUME NEW m \in Nat, m \in Good, m + 1 <= n
      PROVE  f[m + 1] \in Pools
    <2>1. f[m] \in Pools /\ m + 1 \in 0 .. n /\ (m + 1) - 1 = m
        BY <1>4
    <2>2. f[m + 1] = MallocPool(f[m])
        BY <1>1, <2>1 DEF MallocRun
    <2> QED BY <2>1, <2>2, MallocIn
<1>5. \A m \in Nat : m \in Good => m + 1 \in Good
    BY <1>4
<1>6. n \in Good
    <2> HIDE DEF Good
    <2> QED BY <1>3, <1>5, NumbersIn
<1> QED BY <1>2, <1>6

-----------------------------------------------------------------------------
(* The parser *)

\* A list that was made by appending.
IsList(s) == \E S : s \in Seq(S)

LEMMA AppendList ==
    ASSUME NEW s, IsList(s), NEW e
    PROVE  IsList(Append(s, e))
<1>1. PICK S : s \in Seq(S)
    BY DEF IsList
<1>2. s \in Seq(S \cup {e})
    BY <1>1, SeqMonotonic
<1>3. Append(s, e) \in Seq(S \cup {e})
    BY <1>2, AppendProperties
<1> QED BY <1>3 DEF IsList

\* A state of the parser, whose pool knows each of its blocks.
ParserState(s) ==
    /\ s = [off |-> s.off, pool |-> s.pool, found |-> s.found, ok |-> s.ok]
    /\ s.pool \in Pools
    /\ IsList(s.found)

LEMMA StateIs ==
    ASSUME NEW s, NEW off, NEW pool \in Pools, NEW found, IsList(found), NEW ok,
           s = [off |-> off, pool |-> pool, found |-> found, ok |-> ok]
    PROVE  ParserState(s)
    BY DEF ParserState

LEMMA FailState ==
    ASSUME NEW s, ParserState(s)
    PROVE  ParserState(Fail(s))
<1>1. PICK off, pool, found, ok : s = [off |-> off, pool |-> pool, found |-> found, ok |-> ok]
    BY DEF ParserState
<1>2. PICK no : no = FALSE
    OBVIOUS
<1>3. Fail(s) = [s EXCEPT !.ok = no]
    BY <1>2 DEF Fail
<1>4. Fail(s) = [off |-> off, pool |-> pool, found |-> found, ok |-> no]
    BY <1>1, <1>3
<1>5. pool \in Pools /\ IsList(found)
    BY <1>1 DEF ParserState
<1> QED BY <1>4, <1>5, StateIs

LEMMA EndpointState ==
    ASSUME NEW b, NEW s, ParserState(s)
    PROVE  ParserState(ParseEndpoint(b, s))
<1> DEFINE e == Item(b, s.off, CS_ENDPOINT)
           off == Behind(b, s.off, CS_ENDPOINT)
           n == IF e.extras > 0 THEN 2 ELSE 1
<1>1. CASE Left(b, s.off) < EndpointSize \/ TypeAt(b, s.off) # ENDPOINT
    BY <1>1, FailState DEF ParseEndpoint
<1>2. CASE ~(Left(b, s.off) < EndpointSize \/ TypeAt(b, s.off) # ENDPOINT)
    <2>1. ParseEndpoint(b, s) = [s EXCEPT !.off = off, !.found = Append(s.found, e),
                                          !.pool = MallocPoolN(s.pool, n)]
        BY <1>2 DEF ParseEndpoint
    <2>2. n \in Nat
        OBVIOUS
    <2> HIDE DEF e, off, n
    <2>3. ParseEndpoint(b, s) = [off |-> off, pool |-> MallocPoolN(s.pool, n),
                                 found |-> Append(s.found, e), ok |-> s.ok]
        BY <2>1 DEF ParserState
    <2>4. MallocPoolN(s.pool, n) \in Pools /\ IsList(Append(s.found, e))
        BY <2>2, MallocNIn, AppendList DEF ParserState
    <2> QED BY <2>3, <2>4, StateIs
<1> QED BY <1>1, <1>2

\* The loop over the endpoints of an interface.
EndpointsRun(b, s, neps, n, f) ==
    f = [k \in 0 .. n |-> IF k = 0 THEN s ELSE EndpointTurn(b, f[k - 1], k, neps)]

LEMMA EndpointsExist ==
    ASSUME NEW b, NEW s, NEW neps, NEW n \in Nat
    PROVE  \E f : EndpointsRun(b, s, neps, n, f)
<1> DEFINE Is(m, f) == EndpointsRun(b, s, neps, m, f)
           Done == {m \in Nat : \E f : Is(m, f)}
<1>1. 0 \in Done
    <2>1. Is(0, [k \in 0 .. 0 |-> s])
        BY DEF EndpointsRun
    <2> HIDE DEF Is
    <2> QED BY <2>1
<1>2. ASSUME NEW m \in Nat, m \in Done
      PROVE  m + 1 \in Done
    <2>1. PICK g : Is(m, g)
        BY <1>2
    <2> DEFINE f == [k \in 0 .. m + 1 |->
                       IF k = 0 THEN s ELSE EndpointTurn(b, g[k - 1], k, neps)]
    <2>2. \A k \in 0 .. m : f[k] = g[k]
        BY <2>1 DEF EndpointsRun
    <2>3. \A k \in 0 .. m + 1 : k # 0 =>
              EndpointTurn(b, f[k - 1], k, neps) = EndpointTurn(b, g[k - 1], k, neps)
        <3>1. \A k \in 0 .. m + 1 : k # 0 => k - 1 \in 0 .. m
            OBVIOUS
        <3> HIDE DEF f
        <3> QED BY <2>2, <3>1
    <2>4. Is(m + 1, f)
        BY <2>3 DEF EndpointsRun
    <2> HIDE DEF Is, f
    <2> QED BY <2>4
<1>3. n \in Done
    <2> HIDE DEF Done
    <2> QED BY <1>1, <1>2, NumbersIn
<1> QED BY <1>3

LEMMA EndpointsState ==
    ASSUME NEW b, b.turns \in Nat, NEW s, ParserState(s), NEW neps
    PROVE  ParserState(ParseEndpoints(b, s, neps))
<1> DEFINE f[k \in 0 .. b.turns] == IF k = 0 THEN s ELSE EndpointTurn(b, f[k - 1], k, neps)
           Good == {m \in Nat : m <= b.turns => ParserState(f[m])}
<1>1. EndpointsRun(b, s, neps, b.turns, f)
    <2>1. \E g : EndpointsRun(b, s, neps, b.turns, g)
        BY EndpointsExist
    <2> QED BY <2>1, Zenon DEF EndpointsRun
<1>2. ParseEndpoints(b, s, neps) = f[b.turns]
    BY DEF ParseEndpoints
<1> HIDE DEF f
<1>3. 0 \in Good
    BY <1>1 DEF EndpointsRun
<1>4. ASSUME NEW m \in Nat, m \in Good, m + 1 <= b.turns
      PROVE  ParserState(f[m + 1])
    <2>1. ParserState(f[m]) /\ m + 1 \in 0 .. b.turns /\ (m + 1) - 1 = m
        BY <1>4
    <2>2. f[m + 1] = EndpointTurn(b, f[m], m + 1, neps)
        BY <1>1, <2>1 DEF EndpointsRun
    <2> QED BY <2>1, <2>2, EndpointState DEF EndpointTurn
<1>5. \A m \in Nat : m \in Good => m + 1 \in Good
    BY <1>4
<1>6. b.turns \in Good
    <2> HIDE DEF Good
    <2> QED BY <1>3, <1>5, NumbersIn
<1> QED BY <1>2, <1>6

LEMMA InterfaceState ==
    ASSUME NEW b, b.turns \in Nat, NEW s, ParserState(s)
    PROVE  ParserState(ParseInterface(b, s))
<1> DEFINE i == Item(b, s.off, CS_INTERFACE)
           off == Behind(b, s.off, CS_INTERFACE)
           n == IF i.extras > 0 THEN 3 ELSE 2
           inner == [s EXCEPT !.off = off, !.found = <<>>, !.pool = MallocPoolN(s.pool, n)]
           e == ParseEndpoints(b, inner, b.at[s.off].neps)
           it == [at |-> i.at, extras |-> i.extras, endpoints |-> e.found]
<1>1. CASE Left(b, s.off) < InterfaceSize
    BY <1>1, FailState DEF ParseInterface
<1>2. CASE ~(Left(b, s.off) < InterfaceSize)
    <2>1. ParseInterface(b, s) = [e EXCEPT !.found = Append(s.found, it)]
        BY <1>2 DEF ParseInterface
    <2>2. n \in Nat
        OBVIOUS
    <2> HIDE DEF i, off, n
    <2>3. PICK ok : inner = [off |-> off, pool |-> MallocPoolN(s.pool, n), found |-> <<>>,
                             ok |-> ok]
        <3>1. PICK soff, spool, sfound, ok :
                  s = [off |-> soff, pool |-> spool, found |-> sfound, ok |-> ok]
            BY DEF ParserState
        <3>2. PICK none, q : none = <<>> /\ q = MallocPoolN(s.pool, n)
            OBVIOUS
        <3>3. inner = [s EXCEPT !.off = off, !.found = none, !.pool = q]
            BY <3>2
        <3> HIDE DEF inner
        <3>4. inner = [off |-> off, pool |-> q, found |-> none, ok |-> ok]
            BY <3>1, <3>3
        <3> QED BY <3>2, <3>4
    <2>4. MallocPoolN(s.pool, n) \in Pools /\ IsList(<<>>)
        <3>1. <<>> \in Seq(Nat)
            OBVIOUS
        <3> QED BY <2>2, <3>1, MallocNIn DEF ParserState, IsList
    <2>5. ParserState(inner)
        BY <2>3, <2>4, StateIs
    <2> HIDE DEF inner
    <2>6. ParserState(e)
        BY <2>5, EndpointsState
    <2> HIDE DEF e, it
    <2>7. PICK eoff, epool, efound, eok :
              e = [off |-> eoff, pool |-> epool, found |-> efound, ok |-> eok]
        BY <2>6 DEF ParserState
    <2>8. epool \in Pools /\ IsList(Append(s.found, it))
        BY <2>6, <2>7, AppendList DEF ParserState
    <2>9. ParseInterface(b, s) = [off |-> eoff, pool |-> epool, found |-> Append(s.found, it),
                                  ok |-> eok]
        BY <2>1, <2>7
    <2> QED BY <2>8, <2>9, StateIs
<1> QED BY <1>1, <1>2

\* The loop over the interfaces.
InterfacesRun(b, s, n, f) ==
    f = [k \in 0 .. n |-> IF k = 0 THEN s ELSE InterfaceTurn(b, f[k - 1])]

LEMMA InterfacesExist ==
    ASSUME NEW b, NEW s, NEW n \in Nat
    PROVE  \E f : InterfacesRun(b, s, n, f)
<1> DEFINE Is(m, f) == InterfacesRun(b, s, m, f)
           Done == {m \in Nat : \E f : Is(m, f)}
<1>1. 0 \in Done
    <2>1. Is(0, [k \in 0 .. 0 |-> s])
        BY DEF InterfacesRun
    <2> HIDE DEF Is
    <2> QED BY <2>1
<1>2. ASSUME NEW m \in Nat, m \in Done
      PROVE  m + 1 \in Done
    <2>1. PICK g : Is(m, g)
        BY <1>2
    <2> DEFINE f == [k \in 0 .. m + 1 |-> IF k = 0 THEN s ELSE InterfaceTurn(b, g[k - 1])]
    <2>2. \A k \in 0 .. m : f[k] = g[k]
        BY <2>1 DEF InterfacesRun
    <2>3. \A k \in 0 .. m + 1 : k # 0 => InterfaceTurn(b, f[k - 1]) = InterfaceTurn(b, g[k - 1])
        <3>1. \A k \in 0 .. m + 1 : k # 0 => k - 1 \in 0 .. m
            OBVIOUS
        <3> HIDE DEF f
        <3> QED BY <2>2, <3>1
    <2>4. Is(m + 1, f)
        BY <2>3 DEF InterfacesRun
    <2> HIDE DEF Is, f
    <2> QED BY <2>4
<1>3. n \in Done
    <2> HIDE DEF Done
    <2> QED BY <1>1, <1>2, NumbersIn
<1> QED BY <1>3

LEMMA TurnState ==
    ASSUME NEW b, b.turns \in Nat, NEW s, ParserState(s)
    PROVE  ParserState(InterfaceTurn(b, s))
<1> DEFINE r == [s EXCEPT !.off = s.off + LengthAt(b, s.off)]
<1>1. ParserState(r)
    <2>1. PICK off, pool, found, ok :
              s = [off |-> off, pool |-> pool, found |-> found, ok |-> ok]
        BY DEF ParserState
    <2>2. pool \in Pools /\ IsList(found)
        BY <2>1 DEF ParserState
    <2>3. r = [off |-> off + LengthAt(b, off), pool |-> pool, found |-> found, ok |-> ok]
        BY <2>1
    <2> HIDE DEF r
    <2> QED BY <2>2, <2>3, StateIs
<1>2. InterfaceTurn(b, s) \in {s, ParseInterface(b, s), r}
    BY DEF InterfaceTurn
<1> HIDE DEF r
<1> QED BY <1>1, <1>2, InterfaceState

LEMMA InterfacesState ==
    ASSUME NEW b, b.turns \in Nat, NEW s, ParserState(s)
    PROVE  ParserState(ParseInterfaces(b, s))
<1> DEFINE f[k \in 0 .. b.turns] == IF k = 0 THEN s ELSE InterfaceTurn(b, f[k - 1])
           Good == {m \in Nat : m <= b.turns => ParserState(f[m])}
<1>1. InterfacesRun(b, s, b.turns, f)
    <2>1. \E g : InterfacesRun(b, s, b.turns, g)
        BY InterfacesExist
    <2> QED BY <2>1, Zenon DEF InterfacesRun
<1>2. ParseInterfaces(b, s) = f[b.turns]
    BY DEF ParseInterfaces
<1> HIDE DEF f
<1>3. 0 \in Good
    BY <1>1 DEF InterfacesRun
<1>4. ASSUME NEW m \in Nat, m \in Good, m + 1 <= b.turns
      PROVE  ParserState(f[m + 1])
    <2>1. ParserState(f[m]) /\ m + 1 \in 0 .. b.turns /\ (m + 1) - 1 = m
        BY <1>4
    <2>2. f[m + 1] = InterfaceTurn(b, f[m])
        BY <1>1, <2>1 DEF InterfacesRun
    <2> QED BY <2>1, <2>2, TurnState
<1>5. \A m \in Nat : m \in Good => m + 1 \in Good
    BY <1>4
<1>6. b.turns \in Good
    <2> HIDE DEF Good
    <2> QED BY <1>3, <1>5, NumbersIn
<1> QED BY <1>2, <1>6

LEMMA MergeLength ==
    ASSUME NEW b, NEW found, IsList(found)
    PROVE  /\ Len(MergeAlternateInterfaces(b, found)) \in Nat
           /\ DOMAIN MergeAlternateInterfaces(b, found)
                = 1 .. Len(MergeAlternateInterfaces(b, found))
<1> DEFINE mine(j) == {k \in DOMAIN found : NumberOf(b, found[k]) = j - 1}
           T == {j \in DOMAIN found : mine(j) # {}}
           merged == MergeAlternateInterfaces(b, found)
<1>1. PICK S : found \in Seq(S)
    BY DEF IsList
<1>2. Len(found) \in Nat /\ DOMAIN found = 1 .. Len(found) /\ IsFiniteSet(1 .. Len(found))
    BY <1>1, FS_Interval, LenProperties
<1>3. IsFiniteSet(T)
    <2>1. T \in SUBSET (1 .. Len(found))
        BY <1>2
    <2> HIDE DEF T
    <2> QED BY <1>2, <2>1, FS_Subset
<1>4. PICK n \in Nat : n = Cardinality(T)
    BY <1>3, FS_CardinalityType
<1>5. PICK U : merged \in [1 .. n -> U]
    <2> DEFINE U == {merged[j] : j \in 1 .. n}
    <2>1. merged = [j \in 1 .. Cardinality(T) |->
                      [m \in 1 .. Cardinality(mine(j)) |-> found[Nth(mine(j), m)]]]
        BY Zenon DEF MergeAlternateInterfaces
    <2>2. DOMAIN merged = 1 .. n /\ merged = [j \in 1 .. n |-> merged[j]]
        <3> HIDE DEF T, mine
        <3> QED BY <1>4, <2>1, Zenon
    <2> HIDE DEF merged
    <2>3. merged \in [1 .. n -> U]
        BY <2>2
    <2> QED BY <2>3
<1> HIDE DEF merged, T
<1>6. merged \in Seq(U)
    BY <1>5, SeqDef
<1>7. Len(merged) \in Nat /\ DOMAIN merged = 1 .. Len(merged)
    BY <1>6, LenProperties
<1> QED BY <1>7 DEF merged

\* A configuration knows each of its blocks, and a parser that gave up has freed all.
LEMMA ParseFrees ==
    ASSUME NEW d \in Seq(Descriptors), NEW n, NEW next, NEW c, c = ParseConfig(d, n, next)
    PROVE  c.blocks \in Nat /\ c.blocks = IF c.ok THEN Freed(c.pool) ELSE 0
<1> DEFINE b == Buffer(d, n, next)
           q == MallocPool(MallocPoolCreate)
           init == [off |-> ConfigSize, pool |-> q, found |-> <<>>, ok |-> TRUE]
           s == ParseInterfaces(b, init)
           merged == MergeAlternateInterfaces(b, s.found)
           pool == MallocPoolN(s.pool, MergeBlocks(merged))
           all == MallocPool(pool)
<1>1. b.turns \in Nat
    BY DEF Buffer
<1>2. ParserState(init)
    <2>1. q \in Pools
        BY CreateIn, MallocIn
    <2>2. IsList(<<>>)
        <3>1. <<>> \in Seq(Nat)
            OBVIOUS
        <3> QED BY <3>1 DEF IsList
    <2> HIDE DEF q
    <2>3. init.off = ConfigSize /\ init.pool = q /\ init.found = <<>> /\ init.ok = TRUE
        OBVIOUS
    <2>4. init = [off |-> init.off, pool |-> init.pool, found |-> init.found, ok |-> init.ok]
        BY <2>3, Zenon
    <2> HIDE DEF init
    <2> QED BY <2>1, <2>2, <2>3, <2>4 DEF ParserState
<1>3. ParserState(s)
    <2> HIDE DEF b, init
    <2> QED BY <1>1, <1>2, InterfacesState
<1>4. s.pool \in Pools /\ s.pool.blocks = Freed(s.pool) /\ s.pool.blocks \in Nat
    <2> HIDE DEF s
    <2> QED BY <1>3 DEF ParserState, Pools
<1>5. MergeBlocks(merged) \in Nat
    <2>1. Len(merged) \in Nat
        <3> HIDE DEF s, b
        <3> QED BY <1>3, MergeLength DEF ParserState
    <2> HIDE DEF merged
    <2> QED BY <2>1 DEF MergeBlocks
<1>6. pool \in Pools /\ all \in Pools
    <2> HIDE DEF s, merged
    <2>1. pool \in Pools
        BY <1>4, <1>5, MallocNIn
    <2> HIDE DEF pool
    <2>2. all \in Pools
        BY <2>1, MallocIn
    <2> QED BY <2>1, <2>2
<1>7. /\ pool.blocks = Freed(pool) /\ pool.blocks \in Nat
      /\ all.blocks = Freed(all) /\ all.blocks \in Nat
    <2> HIDE DEF pool, all
    <2> QED BY <1>6 DEF Pools
<1>8. \/ c = NoConfig(0)
      \/ c = NoConfig(s.pool.blocks - Freed(s.pool))
      \/ c = NoConfig(pool.blocks - Freed(pool))
      \/ c = Corrupt
      \/ c = [ok |-> TRUE, fault |-> FALSE, interfaces |-> merged, pool |-> all,
              blocks |-> all.blocks]
    BY DEF ParseConfig
<1>9. s.pool.blocks - Freed(s.pool) = 0 /\ pool.blocks - Freed(pool) = 0
    <2> HIDE DEF s, pool
    <2> QED BY <1>4, <1>7
<1>10. \/ c = NoConfig(0) \/ c = Corrupt
       \/ c = [ok |-> TRUE, fault |-> FALSE, interfaces |-> merged, pool |-> all,
               blocks |-> all.blocks]
    <2> HIDE DEF s, pool, merged, all
    <2> QED BY <1>8, <1>9
<1>11. CASE c = NoConfig(0) \/ c = Corrupt
    <2>1. c.ok = FALSE /\ c.blocks = 0
        BY <1>11 DEF NoConfig, Corrupt
    <2> QED BY <2>1
<1>12. CASE c = [ok |-> TRUE, fault |-> FALSE, interfaces |-> merged, pool |-> all,
                 blocks |-> all.blocks]
    <2> HIDE DEF merged, all
    <2>1. c.ok = TRUE /\ c.blocks = all.blocks /\ c.pool = all
        BY <1>12
    <2> QED BY <1>7, <2>1
<1> QED BY <1>10, <1>11, <1>12

-----------------------------------------------------------------------------
(* Where the descriptors begin *)

StartRun(d, n, f) == f = [i \in 0 .. n |-> IF i = 0 THEN 0 ELSE f[i - 1] + d[i].len]

LEMMA StartExists ==
    ASSUME NEW d, NEW n \in Nat
    PROVE  \E f : StartRun(d, n, f)
<1> DEFINE Done == {m \in Nat : \E f : StartRun(d, m, f)}
<1>1. 0 \in Done
    <2>1. StartRun(d, 0, [i \in 0 .. 0 |-> 0])
        BY DEF StartRun
    <2> QED BY <2>1
<1>2. ASSUME NEW m \in Nat, m \in Done
      PROVE  m + 1 \in Done
    <2>1. PICK g : StartRun(d, m, g)
        BY <1>2
    <2> DEFINE f == [i \in 0 .. m + 1 |-> IF i = 0 THEN 0 ELSE g[i - 1] + d[i].len]
    <2>2. \A i \in 0 .. m : f[i] = g[i]
        BY <2>1 DEF StartRun
    <2>3. \A i \in 0 .. m + 1 : i # 0 => f[i - 1] = g[i - 1]
        <3>1. \A i \in 0 .. m + 1 : i # 0 => i - 1 \in 0 .. m
            OBVIOUS
        <3> HIDE DEF f
        <3> QED BY <2>2, <3>1
    <2>4. StartRun(d, m + 1, f)
        BY <2>3 DEF StartRun
    <2> QED BY <2>4
<1>3. n \in Done
    <2> HIDE DEF Done
    <2> QED BY <1>1, <1>2, NumbersIn
<1> QED BY <1>3

\* The indexes of the descriptors, and the one behind the last.
Indexes(d) == 1 .. Len(d) + 1

LEMMA WellFormedIs ==
    ASSUME NEW d, WellFormed(d)
    PROVE  /\ Len(d) \in Nat \ {0} /\ DOMAIN d = 1 .. Len(d)
           /\ \A k \in 1 .. Len(d) : d[k] \in Descriptors /\ d[k].len \in Nat /\ d[k].len >= 2
           /\ \A k \in 1 .. Len(d) : d[k].type = INTERFACE => d[k].len >= InterfaceSize
           /\ \A k \in 1 .. Len(d) : d[k].type = ENDPOINT => d[k].len >= EndpointSize
<1>1. Len(d) \in Nat \ {0} /\ DOMAIN d = 1 .. Len(d)
    BY LenProperties, EmptySeq DEF WellFormed
<1>2. \A k \in 1 .. Len(d) : d[k] \in Descriptors
    BY ElementOfSeq DEF WellFormed
<1> QED BY <1>1, <1>2 DEF WellFormed, Descriptors

LEMMA Starts ==
    ASSUME NEW d, WellFormed(d)
    PROVE  /\ StartOf(d, 1) = 0
           /\ \A k \in 1 .. Len(d) : StartOf(d, k + 1) = StartOf(d, k) + d[k].len
           /\ \A k \in Indexes(d) : StartOf(d, k) \in Nat
<1> DEFINE n == Len(d)
           f[i \in 0 .. Len(d)] == IF i = 0 THEN 0 ELSE f[i - 1] + d[i].len
<1>1. StartRun(d, Len(d), f)
    <2>1. \E g : StartRun(d, Len(d), g)
        BY WellFormedIs, StartExists
    <2> QED BY <2>1, Zenon DEF StartRun
<1>2. \A k : StartOf(d, k) = f[k - 1]
    BY DEF StartOf
<1> HIDE DEF f
<1>3. n \in Nat \ {0} /\ \A k \in 1 .. n : d[k].len \in Nat
    BY WellFormedIs
<1>4. f[0] = 0 /\ \A i \in 1 .. n : f[i] = f[i - 1] + d[i].len
    <2>1. 0 \in 0 .. n /\ \A i \in 1 .. n : i \in 0 .. n /\ i # 0
        BY <1>3
    <2>2. \A i \in 0 .. n : f[i] = IF i = 0 THEN 0 ELSE f[i - 1] + d[i].len
        BY <1>1, Zenon DEF StartRun
    <2> HIDE DEF n
    <2> QED BY <2>1, <2>2
<1> DEFINE Good == {m \in Nat : m <= n => f[m] \in Nat}
<1>5. 0 \in Good
    BY <1>4
<1>6. ASSUME NEW m \in Nat, m \in Good, m + 1 <= n
      PROVE  f[m + 1] \in Nat
    <2>1. m + 1 \in 1 .. n /\ (m + 1) - 1 = m /\ f[m] \in Nat
        BY <1>3, <1>6
    <2>2. f[m + 1] = f[m] + d[m + 1].len
        BY <1>4, <2>1
    <2> QED BY <1>3, <2>1, <2>2
<1>7. \A m \in Nat : m \in Nat /\ (m \in Good => m + 1 \in Good)
    BY <1>6
<1>8. \A m \in Nat : m \in Good
    <2> HIDE DEF Good
    <2> QED BY <1>5, <1>7, NumbersIn
<1>9. \A k \in 1 .. n : StartOf(d, k + 1) = StartOf(d, k) + d[k].len
    <2> SUFFICES ASSUME NEW k \in 1 .. n
                 PROVE  StartOf(d, k + 1) = StartOf(d, k) + d[k].len
        OBVIOUS
    <2>1. StartOf(d, k + 1) = f[(k + 1) - 1] /\ StartOf(d, k) = f[k - 1]
        BY <1>2
    <2> QED BY <1>3, <1>4, <2>1
<1>10. \A k \in Indexes(d) : StartOf(d, k) \in Nat
    <2>1. \A k \in Indexes(d) : k - 1 \in Nat /\ k - 1 <= n
        BY <1>3 DEF Indexes
    <2> QED BY <1>2, <1>8, <2>1
<1>11. StartOf(d, 1) = 0
    <2>1. StartOf(d, 1) = f[1 - 1]
        BY <1>2
    <2> QED BY <1>4, <2>1
<1> QED BY <1>9, <1>10, <1>11

LEMMA StartLess ==
    ASSUME NEW d, WellFormed(d), NEW i \in Indexes(d), NEW k \in Indexes(d), i < k
    PROVE  StartOf(d, i) + d[i].len <= StartOf(d, k) /\ StartOf(d, i) + 1 < StartOf(d, k)
<1> DEFINE n == Len(d)
           Good == {m \in Nat : i + 1 + m <= n + 1 =>
                        StartOf(d, i) + d[i].len <= StartOf(d, i + 1 + m)}
<1>1. n \in Nat \ {0} /\ \A j \in 1 .. n : d[j].len \in Nat /\ d[j].len >= 2
    BY WellFormedIs
<1>2. i \in 1 .. n /\ k \in 1 .. n + 1
    BY <1>1 DEF Indexes
<1>3. /\ \A j \in 1 .. n : StartOf(d, j + 1) = StartOf(d, j) + d[j].len
      /\ \A j \in 1 .. n + 1 : StartOf(d, j) \in Nat
    BY Starts DEF Indexes
<1> HIDE DEF n
<1>4. 0 \in Good
    BY <1>1, <1>2, <1>3
<1>5. ASSUME NEW m \in Nat, m \in Good, i + 1 + (m + 1) <= n + 1
      PROVE  StartOf(d, i) + d[i].len <= StartOf(d, i + 1 + (m + 1))
    <2>1. PICK j \in 1 .. n : j = i + 1 + m /\ j + 1 = i + 1 + (m + 1)
        BY <1>1, <1>2, <1>5
    <2>2. StartOf(d, i) + d[i].len <= StartOf(d, j)
        BY <1>1, <1>5, <2>1
    <2>3. StartOf(d, j + 1) = StartOf(d, j) + d[j].len
        BY <1>3
    <2>4. StartOf(d, i) \in Nat /\ StartOf(d, j) \in Nat /\ d[j].len \in Nat /\ d[i].len \in Nat
        BY <1>1, <1>2, <1>3
    <2>5. StartOf(d, i) + d[i].len <= StartOf(d, j + 1)
        BY <2>2, <2>3, <2>4
    <2> QED BY <2>1, <2>5
<1>6. \A m \in Nat : m \in Good => m + 1 \in Good
    BY <1>5
<1>7. \A m \in Nat : m \in Good
    <2> HIDE DEF Good
    <2> QED BY <1>4, <1>6, NumbersIn
<1>8. PICK m \in Nat : k = i + 1 + m
    <2>1. k - i - 1 \in Nat /\ k = i + 1 + (k - i - 1)
        BY <1>1, <1>2
    <2> QED BY <2>1
<1>9. StartOf(d, i) + d[i].len <= StartOf(d, k)
    BY <1>1, <1>2, <1>7, <1>8
<1>10. StartOf(d, i) \in Nat /\ StartOf(d, k) \in Nat /\ d[i].len \in Nat /\ d[i].len >= 2
    BY <1>1, <1>2, <1>3
<1> QED BY <1>9, <1>10

\* An offset at which a descriptor begins tells the descriptor.
LEMMA StartOnce ==
    ASSUME NEW d, WellFormed(d), NEW i \in Indexes(d), NEW k \in Indexes(d),
           StartOf(d, i) = StartOf(d, k)
    PROVE  i = k
<1>1. i \in Nat /\ k \in Nat /\ StartOf(d, i) \in Nat /\ StartOf(d, k) \in Nat
    BY Starts, WellFormedIs DEF Indexes
<1>2. ~(i < k) /\ ~(k < i)
    BY <1>1, StartLess
<1> QED BY <1>1, <1>2

\* What the parser reads: the descriptors of d, the first b.n bytes of which have come.
Reads(d, b) ==
    /\ WellFormed(d)
    /\ b.n \in 0 .. TotalLength(d) /\ b.turns = Len(d)
    /\ \A k \in 1 .. Len(d) : b.at[StartOf(d, k)] = d[k]

LEMMA BufferReads ==
    ASSUME NEW d, WellFormed(d), NEW n \in 0 .. TotalLength(d), NEW next
    PROVE  Reads(d, Buffer(d, n, next))
<1> DEFINE b == Buffer(d, n, next)
           at == [o \in {StartOf(d, k) : k \in DOMAIN d} |->
                     d[CHOOSE k \in DOMAIN d : StartOf(d, k) = o]]
<1>1. b.n = n /\ b.turns = Len(d) /\ b.at = at
    BY DEF Buffer
<1>2. ASSUME NEW k \in 1 .. Len(d)
      PROVE  at[StartOf(d, k)] = d[k]
    <2>1. DOMAIN d = 1 .. Len(d) /\ \A i \in 1 .. Len(d) : i \in Indexes(d)
        BY WellFormedIs DEF Indexes
    <2>2. \A i \in DOMAIN d : StartOf(d, i) = StartOf(d, k) => i = k
        BY <2>1, StartOnce
    <2>3. k \in DOMAIN d
        BY <2>1
    <2>4. (CHOOSE i \in DOMAIN d : StartOf(d, i) = StartOf(d, k)) = k
        BY <2>2, <2>3
    <2> QED BY <2>3, <2>4
<1> HIDE DEF at, b
<1> QED BY <1>1, <1>2 DEF Reads, b

\* The descriptors whose type has come.
Arrived(d, b) == {k \in 1 .. Len(d) : StartOf(d, k) + 1 < b.n}

LEMMA ReadsIs ==
    ASSUME NEW d, NEW b, Reads(d, b)
    PROVE  /\ b.n \in Nat /\ b.turns \in Nat /\ WellFormed(d)
           /\ b.n <= StartOf(d, Len(d) + 1)
           /\ \A k \in 1 .. Len(d) : LengthAt(b, StartOf(d, k)) = d[k].len
           /\ \A k \in Arrived(d, b) : TypeAt(b, StartOf(d, k)) = d[k].type
<1>1. WellFormed(d) /\ Len(d) \in Nat
    BY WellFormedIs DEF Reads
<1>2. StartOf(d, Len(d) + 1) \in Nat
    BY <1>1, Starts DEF Indexes
<1>3. b.n \in Nat /\ b.n <= StartOf(d, Len(d) + 1) /\ b.turns \in Nat
    BY <1>1, <1>2 DEF Reads, TotalLength
<1> QED BY <1>1, <1>3 DEF Reads, LengthAt, TypeAt, Arrived

\* Behind a descriptor that has come in part there is the next one, or the end.
LEMMA NextIndex ==
    ASSUME NEW d, NEW b, Reads(d, b), NEW k \in Indexes(d), StartOf(d, k) < b.n
    PROVE  /\ k \in 1 .. Len(d) /\ k + 1 \in Indexes(d)
           /\ StartOf(d, k) + LengthAt(b, StartOf(d, k)) = StartOf(d, k + 1)
<1>1. WellFormed(d) /\ Len(d) \in Nat /\ k \in 1 .. Len(d) + 1 /\ k \in Nat
    BY ReadsIs, WellFormedIs DEF Indexes
<1>2. k # Len(d) + 1
    <2>1. b.n \in Nat /\ b.n <= StartOf(d, Len(d) + 1) /\ StartOf(d, k) \in Nat
          /\ StartOf(d, Len(d) + 1) \in Nat
        BY <1>1, ReadsIs, Starts DEF Indexes
    <2> QED BY <2>1
<1>3. k \in 1 .. Len(d)
    BY <1>1, <1>2
<1> QED BY <1>1, <1>3, Starts, ReadsIs DEF Indexes

\* A descriptor that begins before one whose type has come has come with its type.
LEMMA ArrivedBefore ==
    ASSUME NEW d, NEW b, Reads(d, b), NEW i \in 1 .. Len(d), NEW k \in Arrived(d, b), i <= k
    PROVE  i \in Arrived(d, b)
<1>1. WellFormed(d) /\ Len(d) \in Nat /\ b.n \in Nat
    BY ReadsIs, WellFormedIs
<1>2. i \in Indexes(d) /\ k \in Indexes(d) /\ StartOf(d, k) + 1 < b.n
    BY <1>1 DEF Indexes, Arrived
<1>3. StartOf(d, i) \in Nat /\ StartOf(d, k) \in Nat
    BY <1>1, <1>2, Starts
<1>4. CASE i < k
    BY <1>1, <1>2, <1>3, <1>4, StartLess DEF Arrived
<1> QED BY <1>1, <1>2, <1>4

-----------------------------------------------------------------------------
(* The loop over the class specific descriptors *)

SkipRun(b, t, o, n, f) == f = [k \in 0 .. n |-> IF k = 0 THEN o ELSE SkipTurn(b, t, f[k - 1])]

LEMMA SkipExists ==
    ASSUME NEW b, NEW t, NEW o, NEW n \in Nat
    PROVE  \E f : SkipRun(b, t, o, n, f)
<1> DEFINE Is(m, f) == SkipRun(b, t, o, m, f)
           Done == {m \in Nat : \E f : Is(m, f)}
<1>1. 0 \in Done
    <2>1. Is(0, [k \in 0 .. 0 |-> o])
        BY DEF SkipRun
    <2> HIDE DEF Is
    <2> QED BY <2>1
<1>2. ASSUME NEW m \in Nat, m \in Done
      PROVE  m + 1 \in Done
    <2>1. PICK g : Is(m, g)
        BY <1>2
    <2> DEFINE f == [k \in 0 .. m + 1 |-> IF k = 0 THEN o ELSE SkipTurn(b, t, g[k - 1])]
    <2>2. \A k \in 0 .. m : f[k] = g[k]
        BY <2>1 DEF SkipRun
    <2>3. \A k \in 0 .. m + 1 : k # 0 => SkipTurn(b, t, f[k - 1]) = SkipTurn(b, t, g[k - 1])
        <3>1. \A k \in 0 .. m + 1 : k # 0 => k - 1 \in 0 .. m
            OBVIOUS
        <3> HIDE DEF f
        <3> QED BY <2>2, <3>1
    <2>4. Is(m + 1, f)
        BY <2>3 DEF SkipRun
    <2> HIDE DEF Is, f
    <2> QED BY <2>4
<1>3. n \in Done
    <2> HIDE DEF Done
    <2> QED BY <1>1, <1>2, NumbersIn
<1> QED BY <1>3

LEMMA SkipNext ==
    ASSUME NEW b, NEW t, NEW o, NEW n \in Nat, NEW f, SkipRun(b, t, o, n, f),
           NEW m \in Nat, m + 1 <= n
    PROVE  f[m + 1] = SkipTurn(b, t, f[m])
<1>1. m + 1 \in 0 .. n /\ m + 1 # 0 /\ (m + 1) - 1 = m
    OBVIOUS
<1>2. \A k \in 0 .. n : f[k] = IF k = 0 THEN o ELSE SkipTurn(b, t, f[k - 1])
    BY Zenon DEF SkipRun
<1>3. f[m + 1] = SkipTurn(b, t, f[(m + 1) - 1])
    BY <1>1, <1>2
<1> QED BY <1>1, <1>3

\* The descriptors from k to x - 1 are read as being of type t; and that of x is not.
Passed(d, b, t, k, x) ==
    \A i \in 1 .. Len(d) : k <= i /\ i < x =>
        StartOf(d, i) < b.n /\ TypeAt(b, StartOf(d, i)) = t

Stops(d, b, t, x) == StartOf(d, x) >= b.n \/ TypeAt(b, StartOf(d, x)) # t

LEMMA SkipIs ==
    ASSUME NEW d, NEW b, Reads(d, b), NEW t, NEW k \in Indexes(d)
    PROVE  \E x \in Indexes(d) : /\ k <= x /\ SkipAll(b, t, StartOf(d, k)) = StartOf(d, x)
                                 /\ Passed(d, b, t, k, x) /\ Stops(d, b, t, x)
<1> DEFINE o == StartOf(d, k)
           f[j \in 0 .. b.turns] == IF j = 0 THEN o ELSE SkipTurn(b, t, f[j - 1])
           Is(m, x) == /\ k <= x /\ f[m] = StartOf(d, x) /\ Passed(d, b, t, k, x)
                       /\ Stops(d, b, t, x) \/ k + m <= x
           Good == {m \in Nat : m <= b.turns => \E x \in Indexes(d) : Is(m, x)}
<1>1. /\ b.n \in Nat /\ b.turns = Len(d) /\ WellFormed(d) /\ Len(d) \in Nat
      /\ Indexes(d) = 1 .. Len(d) + 1 /\ Indexes(d) \subseteq Nat
    BY ReadsIs, WellFormedIs DEF Reads, Indexes
<1>2. SkipRun(b, t, o, b.turns, f)
    <2>1. \E g : SkipRun(b, t, o, b.turns, g)
        BY <1>1, SkipExists
    <2> QED BY <2>1, Zenon DEF SkipRun
<1>3. SkipAll(b, t, o) = f[b.turns]
    BY DEF SkipAll
<1> HIDE DEF f, o
<1>4. 0 \in Good
    <2>1. f[0] = o
        BY <1>1, <1>2 DEF SkipRun
    <2>2. Passed(d, b, t, k, k)
        BY <1>1 DEF Passed
    <2> QED BY <1>1, <2>1, <2>2 DEF o
<1>5. ASSUME NEW m \in Nat, m \in Good, m + 1 <= b.turns
      PROVE  \E x \in Indexes(d) : Is(m + 1, x)
    <2>1. PICK x \in Indexes(d) : Is(m, x)
        BY <1>1, <1>5
    <2>2. f[m + 1] = SkipTurn(b, t, StartOf(d, x))
        <3>1. f[m + 1] = SkipTurn(b, t, f[m])
            BY <1>1, <1>2, <1>5, SkipNext
        <3> QED BY <2>1, <3>1
    <2>3. StartOf(d, x) \in Nat
        BY <1>1, Starts
    <2>4. CASE Stops(d, b, t, x)
        <3>1. f[m + 1] = StartOf(d, x)
            BY <1>1, <2>2, <2>3, <2>4 DEF SkipTurn, Stops
        <3> QED BY <2>1, <2>4, <3>1
    <2>5. CASE ~Stops(d, b, t, x)
        <3>1. StartOf(d, x) < b.n /\ TypeAt(b, StartOf(d, x)) = t
            BY <1>1, <2>3, <2>5 DEF Stops
        <3>2. f[m + 1] = StartOf(d, x + 1) /\ x + 1 \in Indexes(d)
            BY <2>2, <3>1, NextIndex DEF SkipTurn
        <3>3. Passed(d, b, t, k, x + 1)
            <4>1. \A i \in 1 .. Len(d) : i < x + 1 => i < x \/ i = x
                BY <1>1
            <4> QED BY <2>1, <3>1, <4>1 DEF Passed
        <3>4. k <= x + 1 /\ k + (m + 1) <= x + 1
            BY <1>1, <2>1, <2>5
        <3> QED BY <3>2, <3>3, <3>4
    <2> QED BY <2>4, <2>5
<1>6. \A m \in Nat : m \in Good => m + 1 \in Good
    BY <1>5
<1>7. Len(d) \in Good
    <2> HIDE DEF Good
    <2> QED BY <1>1, <1>4, <1>6, NumbersIn
<1>8. PICK x \in Indexes(d) : Is(Len(d), x)
    BY <1>1, <1>7
<1>9. Stops(d, b, t, x)
    <2> SUFFICES ASSUME k + Len(d) <= x
                 PROVE  Stops(d, b, t, x)
        BY <1>8
    <2>1. x = Len(d) + 1
        BY <1>1
    <2>2. StartOf(d, x) \in Nat /\ b.n <= StartOf(d, x)
        BY <1>1, <2>1, Starts, ReadsIs
    <2> QED BY <1>1, <2>2 DEF Stops
<1> QED BY <1>1, <1>3, <1>8, <1>9 DEF o

\* Behind descriptor k and the ones of type t that follow it there is x.
Follows(d, b, t, k, x) ==
    /\ x \in Indexes(d) /\ k < x
    /\ Passed(d, b, t, k + 1, x) /\ Stops(d, b, t, x)

LEMMA BehindIs ==
    ASSUME NEW d, NEW b, Reads(d, b), NEW t, NEW k \in Indexes(d), StartOf(d, k) < b.n
    PROVE  \E x : Follows(d, b, t, k, x) /\ Behind(b, StartOf(d, k), t) = StartOf(d, x)
<1>1. k + 1 \in Indexes(d) /\ StartOf(d, k) + LengthAt(b, StartOf(d, k)) = StartOf(d, k + 1)
    BY NextIndex
<1>2. PICK x \in Indexes(d) : /\ k + 1 <= x
                              /\ SkipAll(b, t, StartOf(d, k + 1)) = StartOf(d, x)
                              /\ Passed(d, b, t, k + 1, x) /\ Stops(d, b, t, x)
    BY <1>1, SkipIs
<1>3. k < x
    BY <1>2, ReadsIs, WellFormedIs DEF Indexes
<1> QED BY <1>1, <1>2, <1>3 DEF Follows, Behind

-----------------------------------------------------------------------------
(* What the parser has found *)

LEMMA AppendIs ==
    ASSUME NEW s, IsList(s), NEW e
    PROVE  /\ Len(s) \in Nat /\ Len(Append(s, e)) = Len(s) + 1
           /\ \A m \in 1 .. Len(s) : Append(s, e)[m] = s[m]
           /\ Append(s, e)[Len(s) + 1] = e
<1>1. PICK S : s \in Seq(S)
    BY DEF IsList
<1>2. s \in Seq(S \cup {e}) /\ e \in S \cup {e}
    BY <1>1, SeqMonotonic
<1> QED BY <1>2, AppendProperties

\* The endpoints between the interface k and x, of those that have come ...
Found(d, b, k, x) == {e \in Arrived(d, b) : k < e /\ e < x /\ d[e].type = ENDPOINT}

LEMMA FoundFinite ==
    ASSUME NEW d, NEW b, Reads(d, b), NEW k, NEW x
    PROVE  Found(d, b, k, x) \in SUBSET Nat /\ IsFiniteSet(Found(d, b, k, x))
<1>1. Len(d) \in Nat /\ IsFiniteSet(1 .. Len(d))
    BY ReadsIs, WellFormedIs, FS_Interval
<1>2. Found(d, b, k, x) \in SUBSET (1 .. Len(d))
    BY DEF Found, Arrived
<1> QED BY <1>1, <1>2, FS_Subset

\* ... are what the parser has found when it is at x, behind class specific ones and these.
ItemsOf(b, d, items, E) ==
    /\ Len(items) = Cardinality(E)
    /\ \A m \in 1 .. Cardinality(E) :
          items[m] = Item(b, StartOf(d, Nth(E, m)), CS_ENDPOINT)

Audio(d, b, k, x) ==
    \A i \in Arrived(d, b) : k < i /\ i < x => d[i].type \in {CS_INTERFACE, ENDPOINT, CS_ENDPOINT}

EndpointsAre(d, b, k, x, s) ==
    /\ x \in Indexes(d) /\ k < x /\ s.off = StartOf(d, x)
    /\ Audio(d, b, k, x)
    /\ ItemsOf(b, d, s.found, Found(d, b, k, x))

Goes(s) == s.ok = TRUE

LEMMA EndpointIs ==
    ASSUME NEW b, NEW s, ParserState(s), NEW p, p = ParseEndpoint(b, s)
    PROVE  IF Left(b, s.off) < EndpointSize \/ TypeAt(b, s.off) # ENDPOINT
           THEN ~Goes(p)
           ELSE /\ Goes(p) <=> Goes(s)
                /\ p.off = Behind(b, s.off, CS_ENDPOINT)
                /\ p.found = Append(s.found, Item(b, s.off, CS_ENDPOINT))
<1>1. PICK off, pool, found, ok :
          s = [off |-> off, pool |-> pool, found |-> found, ok |-> ok]
    BY DEF ParserState
<1>2. CASE Left(b, s.off) < EndpointSize \/ TypeAt(b, s.off) # ENDPOINT
    <2>1. PICK no : no = FALSE
        OBVIOUS
    <2>2. p = [s EXCEPT !.ok = no]
        BY <1>2, <2>1 DEF ParseEndpoint, Fail
    <2>3. p.ok = no
        BY <1>1, <2>2
    <2> QED BY <1>2, <2>1, <2>3 DEF Goes
<1>3. CASE ~(Left(b, s.off) < EndpointSize \/ TypeAt(b, s.off) # ENDPOINT)
    <2> DEFINE e == Item(b, s.off, CS_ENDPOINT)
               o == Behind(b, s.off, CS_ENDPOINT)
               q == MallocPoolN(s.pool, IF e.extras > 0 THEN 2 ELSE 1)
               l == Append(s.found, e)
    <2>1. p = [s EXCEPT !.off = o, !.found = l, !.pool = q]
        BY <1>3 DEF ParseEndpoint
    <2> HIDE DEF e, o, q, l
    <2>2. p = [off |-> o, pool |-> q, found |-> l, ok |-> s.ok]
        BY <1>1, <2>1
    <2>3. p.ok = s.ok /\ p.off = o /\ p.found = l
        BY <2>2
    <2>4. Goes(p) <=> Goes(s)
        BY <2>3 DEF Goes
    <2> QED BY <1>3, <2>3, <2>4 DEF e, o, l
<1> QED BY <1>2, <1>3

\* A header that has come whole.
LEMMA HeaderArrived ==
    ASSUME NEW d, NEW b, Reads(d, b), NEW x \in Indexes(d), StartOf(d, x) + 1 < b.n
    PROVE  /\ x \in Arrived(d, b) /\ StartOf(d, x) < b.n
           /\ TypeAt(b, StartOf(d, x)) = d[x].type
<1>1. StartOf(d, x) \in Nat /\ b.n \in Nat
    BY ReadsIs, Starts
<1>2. StartOf(d, x) < b.n
    BY <1>1
<1>3. x \in 1 .. Len(d)
    BY <1>2, NextIndex
<1>4. x \in Arrived(d, b)
    BY <1>3 DEF Arrived
<1> QED BY <1>2, <1>4, ReadsIs

\* An endpoint that is parsed is found.
LEMMA EndpointFound ==
    ASSUME NEW d, NEW b, Reads(d, b), NEW k \in Nat, NEW x, NEW s, ParserState(s),
           EndpointsAre(d, b, k, x, s), NEW p, p = ParseEndpoint(b, s), Goes(p)
    PROVE  \E y : /\ Follows(d, b, CS_ENDPOINT, x, y) /\ EndpointsAre(d, b, k, y, p)
                  /\ Goes(s) /\ x \in Arrived(d, b) /\ d[x].type = ENDPOINT
                  /\ Found(d, b, k, y) = Found(d, b, k, x) \cup {x}
<1> DEFINE E == Found(d, b, k, x)
<1>1. ~(Left(b, s.off) < EndpointSize \/ TypeAt(b, s.off) # ENDPOINT)
    BY EndpointIs
<1>2. /\ Goes(s) /\ p.off = Behind(b, StartOf(d, x), CS_ENDPOINT)
      /\ p.found = Append(s.found, Item(b, StartOf(d, x), CS_ENDPOINT))
    BY <1>1, EndpointIs DEF EndpointsAre
<1>3. x \in Indexes(d) /\ StartOf(d, x) \in Nat /\ b.n \in Nat
    BY ReadsIs, Starts DEF EndpointsAre
<1>4. StartOf(d, x) + 1 < b.n
    BY <1>1, <1>3 DEF EndpointsAre, Left, EndpointSize
<1>5. x \in Arrived(d, b) /\ StartOf(d, x) < b.n /\ d[x].type = ENDPOINT
    BY <1>1, <1>3, <1>4, HeaderArrived DEF EndpointsAre
<1>6. PICK y : Follows(d, b, CS_ENDPOINT, x, y) /\ p.off = StartOf(d, y)
    BY <1>2, <1>3, <1>5, BehindIs
<1>7. y \in Indexes(d) /\ x < y /\ x \in Nat /\ y \in Nat /\ k < x
    BY <1>3, <1>6, ReadsIs, WellFormedIs DEF Follows, Indexes, EndpointsAre
<1>8. \A i \in Arrived(d, b) : i \in Nat /\ (x < i /\ i < y => d[i].type = CS_ENDPOINT)
    <2> SUFFICES ASSUME NEW i \in Arrived(d, b)
                 PROVE  i \in Nat /\ (x < i /\ i < y => d[i].type = CS_ENDPOINT)
        OBVIOUS
    <2>1. i \in 1 .. Len(d) /\ i \in Nat
        BY ReadsIs, WellFormedIs DEF Arrived
    <2>2. TypeAt(b, StartOf(d, i)) = d[i].type
        BY ReadsIs
    <2>3. x < i => x + 1 <= i
        BY <1>7, <2>1
    <2> QED BY <1>6, <2>1, <2>2, <2>3 DEF Follows, Passed
<1>9. Audio(d, b, k, y)
    <2>1. \A i \in Arrived(d, b) : i < x \/ i = x \/ x < i
        BY <1>7, <1>8
    <2> QED BY <1>5, <1>8, <2>1 DEF Audio, EndpointsAre
<1>10. Found(d, b, k, y) = E \cup {x}
    <2>1. CS_ENDPOINT # ENDPOINT
        BY DEF ENDPOINT, CS_ENDPOINT
    <2>2. \A i \in Arrived(d, b) : i < y /\ d[i].type = ENDPOINT => i < x \/ i = x
        BY <1>7, <1>8, <2>1
    <2>3. \A i \in Arrived(d, b) : i < x => i < y
        BY <1>7, <1>8
    <2> QED BY <1>5, <1>7, <2>2, <2>3 DEF Found
<1>11. ItemsOf(b, d, p.found, Found(d, b, k, y))
    <2> DEFINE F == Found(d, b, k, y)
    <2>1. E \in SUBSET Nat /\ IsFiniteSet(E) /\ \A i \in E : i < x
        BY FoundFinite DEF Found
    <2>2. /\ Cardinality(F) = Cardinality(E) + 1 /\ Nth(F, Cardinality(F)) = x
          /\ \A m \in 1 .. Cardinality(E) : Nth(F, m) = Nth(E, m)
        <3>1. F = E \cup {x} /\ x \in Nat
            BY <1>7, <1>10
        <3> HIDE DEF E, F
        <3>2. x \in Nat /\ E \in SUBSET Nat /\ IsFiniteSet(E) /\ \A i \in E : i < x
            BY <2>1, <3>1
        <3>3. /\ Cardinality(E \cup {x}) = Cardinality(E) + 1
              /\ \A n \in 1 .. Cardinality(E) : Nth(E \cup {x}, n) = Nth(E, n)
              /\ Nth(E \cup {x}, Cardinality(E) + 1) = x
            BY <3>2, NthAdded
        <3> QED BY <3>1, <3>3
    <2>3. Cardinality(E) \in Nat
        BY <2>1, FS_CardinalityType
    <2>4. IsList(s.found) /\ ItemsOf(b, d, s.found, E)
        BY DEF ParserState, EndpointsAre
    <2> HIDE DEF E, F
    <2>5. Len(s.found) = Cardinality(E) /\ Len(p.found) = Cardinality(F)
        BY <1>2, <2>2, <2>4, AppendIs DEF ItemsOf
    <2>6. ASSUME NEW m \in 1 .. Cardinality(F)
          PROVE  p.found[m] = Item(b, StartOf(d, Nth(F, m)), CS_ENDPOINT)
        <3>1. CASE m \in 1 .. Cardinality(E)
            <4>1. p.found[m] = s.found[m]
                BY <1>2, <2>4, <2>5, <3>1, AppendIs
            <4>2. s.found[m] = Item(b, StartOf(d, Nth(E, m)), CS_ENDPOINT)
                BY <2>4, <3>1 DEF ItemsOf
            <4> QED BY <2>2, <3>1, <4>1, <4>2
        <3>2. CASE m = Cardinality(F)
            BY <1>2, <2>2, <2>4, <2>5, <3>2, AppendIs
        <3> QED BY <2>2, <2>3, <3>1, <3>2
    <2>7. ItemsOf(b, d, p.found, F)
        BY <2>5, <2>6 DEF ItemsOf
    <2> QED BY <2>7 DEF F
<1>12. EndpointsAre(d, b, k, y, p)
    BY <1>6, <1>7, <1>9, <1>11 DEF EndpointsAre
<1> QED BY <1>2, <1>5, <1>6, <1>10, <1>12

LEMMA EndpointsNext ==
    ASSUME NEW b, NEW s, NEW neps, NEW n \in Nat, NEW f, EndpointsRun(b, s, neps, n, f)
    PROVE  /\ f[0] = s
           /\ \A m \in Nat : m + 1 <= n => f[m + 1] = EndpointTurn(b, f[m], m + 1, neps)
<1>1. \A k \in 0 .. n : f[k] = IF k = 0 THEN s ELSE EndpointTurn(b, f[k - 1], k, neps)
    BY Zenon DEF EndpointsRun
<1>2. f[0] = s
    BY <1>1
<1>3. ASSUME NEW m \in Nat, m + 1 <= n
      PROVE  f[m + 1] = EndpointTurn(b, f[m], m + 1, neps)
    <2>1. m + 1 \in 0 .. n /\ m + 1 # 0 /\ (m + 1) - 1 = m
        BY <1>3
    <2>2. f[m + 1] = EndpointTurn(b, f[(m + 1) - 1], m + 1, neps)
        BY <1>1, <2>1
    <2> QED BY <2>1, <2>2
<1> QED BY <1>2, <1>3

LEMMA EndpointsRuns ==
    ASSUME NEW b, b.turns \in Nat, NEW s, NEW neps
    PROVE  \E f : /\ f[0] = s /\ ParseEndpoints(b, s, neps) = f[b.turns]
                  /\ \A m \in Nat : m + 1 <= b.turns =>
                        f[m + 1] = EndpointTurn(b, f[m], m + 1, neps)
<1> DEFINE f[k \in 0 .. b.turns] == IF k = 0 THEN s ELSE EndpointTurn(b, f[k - 1], k, neps)
<1>1. EndpointsRun(b, s, neps, b.turns, f)
    <2>1. \E g : EndpointsRun(b, s, neps, b.turns, g)
        BY EndpointsExist
    <2> QED BY <2>1, Zenon DEF EndpointsRun
<1>2. ParseEndpoints(b, s, neps) = f[b.turns]
    BY DEF ParseEndpoints
<1> HIDE DEF f
<1> QED BY <1>1, <1>2, EndpointsNext

\* A loop over the endpoints that does not fail has found the ones between k and where it
\* stops.
LEMMA EndpointsFound ==
    ASSUME NEW d, NEW b, Reads(d, b), NEW k \in Nat, NEW x, NEW s, ParserState(s),
           EndpointsAre(d, b, k, x, s), NEW neps,
           NEW e, e = ParseEndpoints(b, s, neps), Goes(e)
    PROVE  Goes(s) /\ \E y : x <= y /\ EndpointsAre(d, b, k, y, e)
<1>1. b.turns \in Nat /\ Indexes(d) \subseteq Nat
    BY ReadsIs, WellFormedIs DEF Indexes
<1>2. PICK f : /\ f[0] = s /\ ParseEndpoints(b, s, neps) = f[b.turns]
               /\ \A m \in Nat : m + 1 <= b.turns =>
                     f[m + 1] = EndpointTurn(b, f[m], m + 1, neps)
    BY <1>1, EndpointsRuns
<1> DEFINE Is(g) == \E y : x <= y /\ EndpointsAre(d, b, k, y, g)
           Good == {m \in Nat : m <= b.turns =>
                        /\ ParserState(f[m])
                        /\ Goes(f[m]) => Goes(s) /\ Is(f[m])}
<1>3. 0 \in Good
    <2>1. x <= x
        BY <1>1 DEF EndpointsAre
    <2> QED BY <1>2, <2>1
<1>4. ASSUME NEW m \in Nat, m \in Good, m + 1 <= b.turns
      PROVE  /\ ParserState(f[m + 1])
             /\ Goes(f[m + 1]) => Goes(s) /\ Is(f[m + 1])
    <2>1. /\ ParserState(f[m])
          /\ Goes(f[m]) => Goes(s) /\ Is(f[m])
        BY <1>1, <1>4
    <2>2. f[m + 1] \in {f[m], ParseEndpoint(b, f[m])}
        BY <1>2, <1>4 DEF EndpointTurn
    <2>3. ParserState(f[m + 1])
        BY <2>1, <2>2, EndpointState
    <2>4. ASSUME Goes(f[m + 1]), f[m + 1] # f[m]
          PROVE  Goes(s) /\ Is(f[m + 1])
        <3>1. f[m + 1] = ParseEndpoint(b, f[m])
            BY <2>2, <2>4
        <3>2. Goes(f[m])
            BY <2>1, <2>4, <3>1, EndpointIs
        <3>3. PICK y : x <= y /\ EndpointsAre(d, b, k, y, f[m])
            BY <2>1, <3>2
        <3>4. PICK z : Follows(d, b, CS_ENDPOINT, y, z) /\ EndpointsAre(d, b, k, z, f[m + 1])
            BY <2>1, <2>4, <3>1, <3>3, EndpointFound
        <3>5. x <= z
            BY <1>1, <3>3, <3>4 DEF Follows, EndpointsAre
        <3> QED BY <2>1, <3>2, <3>4, <3>5
    <2> HIDE DEF Is
    <2> QED BY <2>1, <2>3, <2>4
<1>5. \A m \in Nat : m \in Good => m + 1 \in Good
    BY <1>4
<1>6. b.turns \in Good
    <2> HIDE DEF Good
    <2> QED BY <1>1, <1>3, <1>5, NumbersIn
<1> QED BY <1>1, <1>2, <1>6

\* Behind its class specific descriptors none of the endpoints of an interface is found.
LEMMA NoneFound ==
    ASSUME NEW d, NEW b, Reads(d, b), NEW k \in Indexes(d), NEW x,
           Follows(d, b, CS_INTERFACE, k, x), NEW s, s.off = StartOf(d, x), s.found = <<>>
    PROVE  /\ EndpointsAre(d, b, k, x, s) /\ Found(d, b, k, x) = {}
           /\ \A i \in 1 .. Len(d) : k < i /\ i < x => TypeAt(b, StartOf(d, i)) = CS_INTERFACE
<1>1. \A i \in 1 .. Len(d) : k < i /\ i < x => TypeAt(b, StartOf(d, i)) = CS_INTERFACE
    <2>1. k \in Nat /\ x \in Nat /\ Len(d) \in Nat
        BY ReadsIs, WellFormedIs DEF Indexes, Follows
    <2>2. \A i \in 1 .. Len(d) : k < i => k + 1 <= i
        BY <2>1
    <2> QED BY <2>2 DEF Follows, Passed
<1>2. \A i \in Arrived(d, b) : k < i /\ i < x => d[i].type = CS_INTERFACE
    BY <1>1, ReadsIs DEF Arrived
<1>3. Found(d, b, k, x) = {}
    BY <1>2 DEF Found, ENDPOINT, CS_INTERFACE
<1>4. Audio(d, b, k, x)
    BY <1>2 DEF Audio
<1>5. ItemsOf(b, d, s.found, {})
    <2>1. Len(s.found) = 0
        BY EmptySeq
    <2>2. Cardinality({}) = 0
        BY FS_EmptySet
    <2> QED BY <2>1, <2>2 DEF ItemsOf
<1> QED BY <1>1, <1>3, <1>4, <1>5 DEF EndpointsAre, Follows

-----------------------------------------------------------------------------
(* The descriptors of an interface *)

LEMMA MinIs ==
    ASSUME NEW S \in SUBSET Nat, S # {}
    PROVE  Min(S) \in S /\ \A k \in S : Min(S) <= k
<1>1. PICK n \in S : \A m \in S : <<m, n>> \notin OpToRel(<, Nat)
    BY NatLessThanWellFounded, WFMin
<1>2. \A m \in S : n <= m
    <2> SUFFICES ASSUME NEW m \in S, m < n
                 PROVE  FALSE
        OBVIOUS
    <2>1. <<m, n>> \in OpToRel(<, Nat)
        BY DEF OpToRel
    <2> QED BY <1>1, <2>1
<1> QED BY <1>2 DEF Min

LEMMA LastIs ==
    ASSUME NEW d, WellFormed(d), NEW k \in 1 .. Len(d)
    PROVE  /\ LastOf(d, k) \in k .. Len(d)
           /\ \A i \in 1 .. Len(d) : k < i /\ i <= LastOf(d, k) => d[i].type # INTERFACE
           /\ LastOf(d, k) # Len(d) => d[LastOf(d, k) + 1].type = INTERFACE
<1> DEFINE S == {j - 1 : j \in {i \in IndexesOf(d, INTERFACE) : i > k}} \cup {Len(d)}
           n == Min(S)
<1>1. Len(d) \in Nat /\ DOMAIN d = 1 .. Len(d)
    BY WellFormedIs
<1>2. \A j \in S : j \in Nat /\ k <= j /\ j <= Len(d)
    BY <1>1 DEF IndexesOf
<1>3. n \in S /\ \A j \in S : n <= j
    <2>1. S \in SUBSET Nat /\ S # {}
        BY <1>2
    <2> HIDE DEF S
    <2> QED BY <2>1, MinIs
<1>4. n \in k .. Len(d)
    <2> HIDE DEF S, n
    <2> QED BY <1>1, <1>2, <1>3
<1>5. ASSUME NEW i \in 1 .. Len(d), k < i, d[i].type = INTERFACE
      PROVE  n < i
    <2>1. i - 1 \in S
        BY <1>1, <1>5 DEF IndexesOf
    <2>2. n <= i - 1
        BY <1>3, <2>1
    <2> HIDE DEF n
    <2> QED BY <1>1, <1>4, <2>2
<1>6. n # Len(d) => d[n + 1].type = INTERFACE
    <2> SUFFICES ASSUME n # Len(d)
                 PROVE  d[n + 1].type = INTERFACE
        OBVIOUS
    <2>1. PICK j \in IndexesOf(d, INTERFACE) : n = j - 1
        BY <1>3
    <2>2. n + 1 = j
        BY <1>1, <2>1 DEF IndexesOf
    <2> HIDE DEF n
    <2> QED BY <2>1, <2>2 DEF IndexesOf
<1>7. LastOf(d, k) = n
    BY DEF LastOf
<1> HIDE DEF n
<1>8. \A i \in 1 .. Len(d) : k < i /\ i <= n => d[i].type # INTERFACE
    <2>1. \A i \in 1 .. Len(d) : ~(i <= n /\ n < i)
        BY <1>1, <1>4
    <2> QED BY <1>5, <2>1
<1> QED BY <1>4, <1>6, <1>7, <1>8

\* The endpoints of interface k.
EndpointsIn(d, k) == (k .. LastOf(d, k)) \cap IndexesOf(d, ENDPOINT)

LEMMA EndpointsInIs ==
    ASSUME NEW d, WellFormed(d), NEW k \in 1 .. Len(d), d[k].type = INTERFACE
    PROVE  /\ EndpointsIn(d, k) \in SUBSET Nat /\ IsFiniteSet(EndpointsIn(d, k))
           /\ \A e : e \in EndpointsIn(d, k) <=>
                /\ e \in 1 .. Len(d) /\ k < e /\ e <= LastOf(d, k)
                /\ d[e].type = ENDPOINT
<1>1. Len(d) \in Nat /\ DOMAIN d = 1 .. Len(d) /\ LastOf(d, k) \in k .. Len(d)
    BY WellFormedIs, LastIs
<1>2. IsFiniteSet(k .. LastOf(d, k)) /\ EndpointsIn(d, k) \in SUBSET (k .. LastOf(d, k))
    BY <1>1, FS_Interval DEF EndpointsIn
<1>3. IsFiniteSet(EndpointsIn(d, k)) /\ EndpointsIn(d, k) \in SUBSET Nat
    BY <1>1, <1>2, FS_Subset
<1>4. ~(d[k].type = ENDPOINT)
    BY DEF ENDPOINT, INTERFACE
<1>5. \A e : e \in EndpointsIn(d, k) <=>
          /\ e \in 1 .. Len(d) /\ k <= e /\ e <= LastOf(d, k)
          /\ d[e].type = ENDPOINT
    BY <1>1 DEF EndpointsIn, IndexesOf
<1>6. \A e \in 1 .. Len(d) : k <= e <=> k < e \/ e = k
    BY <1>1
<1> QED BY <1>3, <1>4, <1>5, <1>6

\* What is found is an initial part of the endpoints of the interface.
LEMMA FoundInitial ==
    ASSUME NEW d, NEW b, Reads(d, b), NEW k \in 1 .. Len(d), d[k].type = INTERFACE,
           NEW x, x \in Indexes(d), Audio(d, b, k, x)
    PROVE  /\ Found(d, b, k, x) \in SUBSET EndpointsIn(d, k)
           /\ \A i \in Found(d, b, k, x), e \in EndpointsIn(d, k) :
                 e <= i => e \in Found(d, b, k, x)
<1>1. /\ WellFormed(d) /\ Len(d) \in Nat /\ LastOf(d, k) \in k .. Len(d)
      /\ x \in Nat /\ Arrived(d, b) \subseteq 1 .. Len(d)
    BY ReadsIs, WellFormedIs, LastIs DEF Indexes, Arrived
<1>2. ASSUME NEW i \in Found(d, b, k, x)
      PROVE  i \in EndpointsIn(d, k)
    <2>1. i \in Arrived(d, b) /\ i \in 1 .. Len(d) /\ k < i /\ i < x /\ d[i].type = ENDPOINT
        BY <1>1 DEF Found
    <2>2. i <= LastOf(d, k)
        <3> SUFFICES ASSUME ~(i <= LastOf(d, k))
                     PROVE  FALSE
            OBVIOUS
        <3> DEFINE j == LastOf(d, k) + 1
        <3>1. j \in 1 .. Len(d) /\ k < j /\ j <= i /\ j < x /\ LastOf(d, k) # Len(d)
            BY <1>1, <2>1
        <3>2. d[j].type = INTERFACE
            BY <1>1, <3>1, LastIs
        <3> HIDE DEF j
        <3>3. j \in Arrived(d, b)
            BY <2>1, <3>1, ArrivedBefore
        <3>4. d[j].type \in {CS_INTERFACE, ENDPOINT, CS_ENDPOINT}
            BY <3>1, <3>3 DEF Audio
        <3> QED BY <3>2, <3>4 DEF INTERFACE, CS_INTERFACE, ENDPOINT, CS_ENDPOINT
    <2> QED BY <1>1, <2>1, <2>2, EndpointsInIs
<1>3. ASSUME NEW i \in Found(d, b, k, x), NEW e \in EndpointsIn(d, k), e <= i
      PROVE  e \in Found(d, b, k, x)
    <2>1. e \in 1 .. Len(d) /\ k < e /\ d[e].type = ENDPOINT
        BY <1>1, EndpointsInIs
    <2>2. i \in Arrived(d, b) /\ i < x /\ i \in Nat
        BY <1>1 DEF Found
    <2>3. e \in Arrived(d, b)
        BY <1>3, <2>1, <2>2, ArrivedBefore
    <2>4. e < x
        BY <1>1, <1>3, <2>1, <2>2
    <2> QED BY <2>1, <2>3, <2>4 DEF Found
<1> QED BY <1>2, <1>3

-----------------------------------------------------------------------------
(* What a parser finds of a configuration that has come whole *)

Whole(d, b) == Reads(d, b) /\ b.n = StartOf(d, Len(d) + 1)

LEMMA WholeIs ==
    ASSUME NEW d, NEW b, Whole(d, b), NEW k \in 1 .. Len(d)
    PROVE  /\ k \in Arrived(d, b) /\ k \in Indexes(d)
           /\ StartOf(d, k) \in Nat /\ b.n \in Nat /\ d[k].len \in Nat
           /\ StartOf(d, k) + d[k].len <= b.n /\ StartOf(d, k) < b.n
           /\ TypeAt(b, StartOf(d, k)) = d[k].type
           /\ LengthAt(b, StartOf(d, k)) = d[k].len
<1> DEFINE z == Len(d) + 1
<1>1. /\ Reads(d, b) /\ b.n = StartOf(d, z) /\ WellFormed(d) /\ Len(d) \in Nat
      /\ k \in Indexes(d) /\ z \in Indexes(d) /\ k < z
    BY ReadsIs, WellFormedIs DEF Whole, Indexes
<1> HIDE DEF z
<1>2. StartOf(d, k) \in Nat /\ StartOf(d, z) \in Nat /\ d[k].len \in Nat
    BY <1>1, Starts, WellFormedIs
<1>3. StartOf(d, k) + d[k].len <= StartOf(d, z) /\ StartOf(d, k) + 1 < StartOf(d, z)
    BY <1>1, StartLess
<1>4. k \in Arrived(d, b)
    BY <1>1, <1>3 DEF Arrived
<1>5. StartOf(d, k) < b.n
    BY <1>1, <1>2, <1>3
<1> QED BY <1>1, <1>2, <1>3, <1>4, <1>5, ReadsIs

\* The loop over the class specific descriptors stops where they end.
LEMMA AfterIs ==
    ASSUME NEW d, NEW b, Whole(d, b), NEW t, NEW k \in 1 .. Len(d),
           NEW x, Follows(d, b, t, k, x)
    PROVE  After(d, k, t) = x
<1> DEFINE S == {j \in (k + 1) .. Len(d) : d[j].type # t} \cup {Len(d) + 1}
           m == Min(S)
<1>1. /\ Reads(d, b) /\ Len(d) \in Nat /\ k \in Nat /\ x \in 1 .. Len(d) + 1 /\ k < x
      /\ x \in Nat
    BY ReadsIs, WellFormedIs DEF Whole, Follows, Indexes
<1>2. S \in SUBSET Nat /\ S # {}
    BY <1>1
<1>3. x \in S
    <2>1. CASE x = Len(d) + 1
        BY <2>1
    <2>2. CASE x # Len(d) + 1
        <3>1. x \in 1 .. Len(d) /\ x \in (k + 1) .. Len(d)
            BY <1>1, <2>2
        <3>2. ~(StartOf(d, x) >= b.n) /\ TypeAt(b, StartOf(d, x)) = d[x].type
            BY <3>1, WholeIs
        <3>3. d[x].type # t
            BY <3>2 DEF Follows, Stops
        <3> QED BY <3>1, <3>3
    <2> QED BY <2>1, <2>2
<1>4. ASSUME NEW j \in S, j < x
      PROVE  FALSE
    <2>1. j \in 1 .. Len(d) /\ k + 1 <= j /\ d[j].type # t
        BY <1>1, <1>4
    <2>2. TypeAt(b, StartOf(d, j)) = t
        BY <1>4, <2>1 DEF Follows, Passed
    <2> QED BY <2>1, <2>2, WholeIs
<1> HIDE DEF S
<1>5. m \in S /\ m <= x
    BY <1>2, <1>3, MinIs
<1>6. m = x
    <2>1. m \in Nat /\ ~(m < x)
        BY <1>2, <1>4, <1>5
    <2> HIDE DEF m
    <2> QED BY <1>1, <1>5, <2>1
<1> QED BY <1>6 DEF After, S

LEMMA ItemMeans ==
    ASSUME NEW d, NEW b, Whole(d, b), NEW t, NEW k \in 1 .. Len(d)
    PROVE  Item(b, StartOf(d, k), t) = Means(d, k, t)
<1>1. Reads(d, b) /\ WellFormed(d) /\ k \in Indexes(d) /\ StartOf(d, k) < b.n
    BY ReadsIs, WholeIs DEF Whole
<1>2. PICK x : Follows(d, b, t, k, x) /\ Behind(b, StartOf(d, k), t) = StartOf(d, x)
    BY <1>1, BehindIs
<1>3. After(d, k, t) = x
    BY <1>2, AfterIs
<1>4. StartOf(d, k) + LengthAt(b, StartOf(d, k)) = StartOf(d, k + 1)
    BY <1>1, NextIndex
<1> QED BY <1>2, <1>3, <1>4 DEF Item, Means, ExtrasOf

\* An interface of a regular configuration.
LEMMA RegularIs ==
    ASSUME NEW d, WellFormed(d), Regular(d), NEW k \in 1 .. Len(d), d[k].type = INTERFACE
    PROVE  /\ d[k].neps = Cardinality(EndpointsIn(d, k))
           /\ \A j \in 1 .. Len(d), e \in EndpointsIn(d, k) : k < j /\ j < e =>
                 \/ /\ d[j].type = CS_INTERFACE
                    /\ \A i \in EndpointsIn(d, k) : j < i
                 \/ d[j].type = ENDPOINT
                 \/ d[j].type = CS_ENDPOINT /\ \E i \in EndpointsIn(d, k) : i < j
<1> DEFINE mine == (k + 1) .. LastOf(d, k)
           eps == mine \cap IndexesOf(d, ENDPOINT)
           E == EndpointsIn(d, k)
<1>1. /\ Len(d) \in Nat /\ DOMAIN d = 1 .. Len(d) /\ LastOf(d, k) \in k .. Len(d) /\ k \in Nat
      /\ LastOf(d, k) \in Nat /\ k \in IndexesOf(d, INTERFACE)
    BY WellFormedIs, LastIs DEF IndexesOf
<1>2. E = eps
    <2>1. \A e : e \in E <=> /\ e \in 1 .. Len(d) /\ k < e /\ e <= LastOf(d, k)
                             /\ d[e].type = ENDPOINT
        BY EndpointsInIs
    <2>2. \A e : e \in eps <=> /\ e \in 1 .. Len(d) /\ k < e /\ e <= LastOf(d, k)
                               /\ d[e].type = ENDPOINT
        BY <1>1 DEF IndexesOf
    <2> HIDE DEF E, eps
    <2> QED BY <2>1, <2>2
<1>3. /\ d[k].neps = Cardinality(eps)
      /\ \A j \in mine, e \in eps : j < e =>
            \/ d[j].type = CS_INTERFACE /\ \A i \in (k + 1) .. j : d[i].type = CS_INTERFACE
            \/ d[j].type = ENDPOINT
            \/ d[j].type = CS_ENDPOINT /\ \E i \in eps : i < j
    BY <1>1, Zenon DEF Regular
<1>4. ASSUME NEW j \in 1 .. Len(d), NEW e \in E, k < j, j < e
      PROVE  \/ d[j].type = CS_INTERFACE /\ \A i \in E : j < i
             \/ d[j].type = ENDPOINT
             \/ d[j].type = CS_ENDPOINT /\ \E i \in E : i < j
    <2>1. \A i \in E : i \in Nat /\ k < i /\ d[i].type = ENDPOINT
        BY EndpointsInIs
    <2>2. j \in mine /\ j \in Nat
        <3>1. e \in Nat /\ e <= LastOf(d, k)
            BY EndpointsInIs
        <3> HIDE DEF E
        <3> QED BY <1>1, <1>4, <3>1
    <2>3. CASE d[j].type = CS_INTERFACE /\ \A i \in (k + 1) .. j : d[i].type = CS_INTERFACE
        <3>1. ASSUME NEW i \in E, ~(j < i)
              PROVE  FALSE
            <4>1. i \in (k + 1) .. j
                BY <1>1, <2>1, <2>2, <3>1
            <4>2. d[i].type = CS_INTERFACE
                BY <2>3, <4>1
            <4> QED BY <2>1, <4>2 DEF ENDPOINT, CS_INTERFACE
        <3> QED BY <2>3, <3>1
    <2> HIDE DEF E, eps, mine
    <2> QED BY <1>2, <1>3, <1>4, <2>2, <2>3
<1> HIDE DEF E, eps, mine
<1>5. /\ d[k].neps = Cardinality(E)
      /\ \A j \in 1 .. Len(d), e \in E : k < j /\ j < e =>
             \/ d[j].type = CS_INTERFACE /\ \A i \in E : j < i
             \/ d[j].type = ENDPOINT
             \/ d[j].type = CS_ENDPOINT /\ \E i \in E : i < j
    BY <1>2, <1>3, <1>4
<1> QED BY <1>5 DEF E

LEMMA FoundWhole ==
    ASSUME NEW d, NEW b, Whole(d, b), NEW k \in 1 .. Len(d), d[k].type = INTERFACE,
           NEW x \in Indexes(d), Audio(d, b, k, x)
    PROVE  Found(d, b, k, x) = {e \in EndpointsIn(d, k) : e < x}
<1>1. Reads(d, b) /\ WellFormed(d)
    BY ReadsIs DEF Whole
<1>2. Found(d, b, k, x) \in SUBSET EndpointsIn(d, k)
    BY <1>1, FoundInitial
<1>3. \A e \in Found(d, b, k, x) : e < x
    BY DEF Found
<1>4. \A e \in EndpointsIn(d, k) : e < x => e \in Found(d, b, k, x)
    BY <1>1, EndpointsInIs, WholeIs DEF Found
<1> QED BY <1>2, <1>3, <1>4

\* If there is an endpoint left, the parser is at one.
Ready(d, k, x) == \A e \in EndpointsIn(d, k) : x <= e => x \in EndpointsIn(d, k)

LEMMA ReadyIs ==
    ASSUME NEW d, NEW b, Whole(d, b), Regular(d), NEW k \in 1 .. Len(d), d[k].type = INTERFACE,
           NEW t \in {CS_INTERFACE, CS_ENDPOINT}, NEW y \in 1 .. Len(d), k <= y,
           NEW x, Follows(d, b, t, y, x),
           \/ t = CS_INTERFACE /\ y = k
           \/ t = CS_ENDPOINT /\ y \in EndpointsIn(d, k)
    PROVE  Ready(d, k, x)
<1> SUFFICES ASSUME NEW e \in EndpointsIn(d, k), x <= e
             PROVE  x \in EndpointsIn(d, k)
    BY DEF Ready
<1> DEFINE E == EndpointsIn(d, k)
<1>1. /\ Reads(d, b) /\ WellFormed(d) /\ Len(d) \in Nat /\ k \in Nat /\ y \in Nat
      /\ x \in Indexes(d) /\ x \in Nat /\ y < x /\ LastOf(d, k) \in k .. Len(d)
    BY ReadsIs, WellFormedIs, LastIs DEF Whole, Follows, Indexes
<1>2. \A i : i \in E <=> /\ i \in 1 .. Len(d) /\ k < i /\ i <= LastOf(d, k)
                         /\ d[i].type = ENDPOINT
    BY <1>1, EndpointsInIs
<1>3. /\ x \in 1 .. Len(d) /\ k < x /\ x <= LastOf(d, k)
    <2>1. e \in Nat /\ e <= LastOf(d, k)
        BY <1>2
    <2> HIDE DEF E
    <2> QED BY <1>1, <2>1
<1>4. d[x].type # t
    <2>1. ~(StartOf(d, x) >= b.n) /\ TypeAt(b, StartOf(d, x)) = d[x].type
        BY <1>3, WholeIs
    <2> QED BY <2>1 DEF Follows, Stops
<1>5. CASE x = e
    BY <1>5
<1>6. CASE x < e
    <2>1. \/ d[x].type = CS_INTERFACE /\ \A i \in E : x < i
          \/ d[x].type = ENDPOINT
          \/ d[x].type = CS_ENDPOINT /\ \E i \in E : i < x
        BY <1>1, <1>3, <1>6, RegularIs
    <2>2. CASE d[x].type = ENDPOINT
        BY <1>2, <1>3, <2>2
    <2>3. CASE d[x].type = CS_INTERFACE /\ \A i \in E : x < i
        <3>1. y \in E
            BY <1>4, <2>3
        <3>2. x < y
            BY <2>3, <3>1
        <3> QED BY <1>1, <3>2
    <2>4. CASE d[x].type = CS_ENDPOINT /\ \E i \in E : i < x
        <3>1. PICK i \in E : i < x
            BY <2>4
        <3>2. t = CS_INTERFACE /\ y = k
            BY <1>4, <2>4
        <3>3. i \in 1 .. Len(d) /\ k + 1 <= i /\ d[i].type = ENDPOINT
            BY <1>1, <1>2
        <3>4. TypeAt(b, StartOf(d, i)) = CS_INTERFACE
            BY <3>1, <3>2, <3>3 DEF Follows, Passed
        <3>5. d[i].type = CS_INTERFACE
            BY <3>3, <3>4, WholeIs
        <3> QED BY <3>3, <3>5 DEF CS_INTERFACE, ENDPOINT
    <2> QED BY <2>1, <2>2, <2>3, <2>4
<1>7. x = e \/ x < e
    BY <1>1, <1>2
<1> QED BY <1>5, <1>6, <1>7

LEMMA EndpointGoes ==
    ASSUME NEW d, NEW b, Whole(d, b), NEW x \in 1 .. Len(d), d[x].type = ENDPOINT,
           NEW s, ParserState(s), s.off = StartOf(d, x), Goes(s)
    PROVE  Goes(ParseEndpoint(b, s))
<1>1. d[x].len >= EndpointSize
    BY ReadsIs, WellFormedIs DEF Whole
<1>2. ~(Left(b, s.off) < EndpointSize) /\ TypeAt(b, s.off) = ENDPOINT
    BY <1>1, WholeIs DEF Left, EndpointSize
<1>3. PICK p : p = ParseEndpoint(b, s)
    OBVIOUS
<1> QED BY <1>2, <1>3, EndpointIs

\* The parser is at x, where there is an endpoint if one is left, and has found m of them.
Counted(d, b, k, m, s) ==
    \E x : /\ EndpointsAre(d, b, k, x, s) /\ Ready(d, k, x)
           /\ Cardinality(Found(d, b, k, x)) = m

LEMMA EndpointsCount ==
    ASSUME NEW d, NEW b, Whole(d, b), NEW k \in 1 .. Len(d), d[k].type = INTERFACE
    PROVE  /\ IsFiniteSet(EndpointsIn(d, k)) /\ Cardinality(EndpointsIn(d, k)) \in 0 .. Len(d)
           /\ EndpointsIn(d, k) \in SUBSET Nat
<1> DEFINE E == EndpointsIn(d, k)
<1>1. WellFormed(d) /\ Len(d) \in Nat
    BY ReadsIs, WellFormedIs DEF Whole
<1>2. IsFiniteSet(E) /\ E \in SUBSET (1 .. Len(d)) /\ E \in SUBSET Nat
    <2>1. \A i \in E : i \in 1 .. Len(d)
        BY <1>1, EndpointsInIs
    <2>2. IsFiniteSet(E) /\ E \in SUBSET Nat
        BY <1>1, EndpointsInIs
    <2> QED BY <2>1, <2>2
<1> HIDE DEF E
<1>3. IsFiniteSet(1 .. Len(d)) /\ Cardinality(1 .. Len(d)) = Len(d)
    <2>1. PICK n \in Nat : n = Len(d)
        BY <1>1
    <2>2. /\ IsFiniteSet(1 .. n)
          /\ Cardinality(1 .. n) = IF 1 > n THEN 0 ELSE n - 1 + 1
        BY <2>1, FS_Interval
    <2>3. Cardinality(1 .. n) = n
        BY <2>1, <2>2
    <2> QED BY <2>1, <2>2, <2>3
<1>4. Cardinality(E) <= Cardinality(1 .. Len(d))
    BY <1>2, <1>3, FS_Subset
<1>5. Cardinality(E) \in Nat
    BY <1>2, FS_CardinalityType
<1>6. IsFiniteSet(E) /\ Cardinality(E) \in 0 .. Len(d) /\ E \in SUBSET Nat
    BY <1>1, <1>2, <1>3, <1>4, <1>5
<1> QED BY <1>6 DEF E

\* With fewer endpoints than there are the parser finds one more.
LEMMA CountedMore ==
    ASSUME NEW d, NEW b, Whole(d, b), Regular(d), NEW k \in 1 .. Len(d), d[k].type = INTERFACE,
           NEW m \in Nat, m < Cardinality(EndpointsIn(d, k)),
           NEW s, ParserState(s), Goes(s), Counted(d, b, k, m, s)
    PROVE  /\ s.off < b.n /\ Goes(ParseEndpoint(b, s))
           /\ Counted(d, b, k, m + 1, ParseEndpoint(b, s))
<1> DEFINE E == EndpointsIn(d, k)
<1>1. /\ Reads(d, b) /\ WellFormed(d) /\ Len(d) \in Nat /\ k \in Nat /\ Indexes(d) \subseteq Nat
    BY ReadsIs, WellFormedIs DEF Whole, Indexes
<1>2. /\ IsFiniteSet(E) /\ E \in SUBSET Nat
      /\ \A i \in E : i \in 1 .. Len(d) /\ k < i /\ d[i].type = ENDPOINT
    BY <1>1, EndpointsInIs
<1>3. PICK x : /\ EndpointsAre(d, b, k, x, s) /\ Ready(d, k, x)
               /\ Cardinality(Found(d, b, k, x)) = m
    BY DEF Counted
<1>4. x \in Indexes(d) /\ s.off = StartOf(d, x) /\ Audio(d, b, k, x) /\ x \in Nat
    BY <1>1, <1>3 DEF EndpointsAre
<1>5. Found(d, b, k, x) = {e \in E : e < x}
    BY <1>4, FoundWhole
<1>6. \E e \in E : x <= e
    <2> SUFFICES ASSUME \A e \in E : ~(x <= e)
                 PROVE  FALSE
        OBVIOUS
    <2> HIDE DEF E
    <2>1. \A e \in E : e < x
        BY <1>2, <1>4
    <2>2. Found(d, b, k, x) = E
        BY <1>5, <2>1
    <2>3. Cardinality(E) = m
        BY <1>3, <2>2
    <2>4. m < Cardinality(E)
        BY DEF E
    <2> QED BY <2>3, <2>4
<1>7. x \in E
    BY <1>3, <1>6 DEF Ready
<1>8. x \in 1 .. Len(d) /\ k < x /\ d[x].type = ENDPOINT
    BY <1>2, <1>7
<1>9. PICK p : p = ParseEndpoint(b, s)
    OBVIOUS
<1>10. s.off < b.n /\ Goes(p)
    BY <1>4, <1>8, <1>9, EndpointGoes, WholeIs
<1>11. PICK y : /\ Follows(d, b, CS_ENDPOINT, x, y) /\ EndpointsAre(d, b, k, y, p)
                /\ Found(d, b, k, y) = Found(d, b, k, x) \cup {x}
    BY <1>1, <1>3, <1>9, <1>10, EndpointFound
<1>12. Cardinality(Found(d, b, k, y)) = m + 1
    <2> DEFINE F == Found(d, b, k, x)
    <2>1. F \in SUBSET Nat /\ IsFiniteSet(F) /\ \A i \in F : i < x
        BY <1>1, FoundFinite DEF Found
    <2>2. Cardinality(F) = m /\ Found(d, b, k, y) = F \cup {x}
        BY <1>3, <1>11
    <2> HIDE DEF F
    <2>3. Cardinality(F \cup {x}) = Cardinality(F) + 1
        BY <1>4, <2>1, NthAdded
    <2> QED BY <2>2, <2>3
<1>13. Ready(d, k, y)
    BY <1>1, <1>7, <1>8, <1>11, ReadyIs
<1>14. Counted(d, b, k, m + 1, p)
    BY <1>11, <1>12, <1>13 DEF Counted
<1> QED BY <1>9, <1>10, <1>14

\* The loop over the endpoints of an interface finds each of them.
LEMMA EndpointsComplete ==
    ASSUME NEW d, NEW b, Whole(d, b), Regular(d), NEW k \in 1 .. Len(d), d[k].type = INTERFACE,
           NEW s, ParserState(s), Goes(s), Counted(d, b, k, 0, s),
           NEW e, e = ParseEndpoints(b, s, d[k].neps)
    PROVE  Goes(e) /\ Counted(d, b, k, d[k].neps, e)
<1> DEFINE neps == d[k].neps
           Least(m) == IF m <= neps THEN m ELSE neps
<1>1. /\ Reads(d, b) /\ WellFormed(d) /\ Len(d) \in Nat /\ b.turns \in Nat /\ b.turns = Len(d)
    BY ReadsIs, WellFormedIs DEF Whole, Reads
<1>2. neps = Cardinality(EndpointsIn(d, k)) /\ neps \in Nat /\ neps <= Len(d)
    BY <1>1, EndpointsCount, RegularIs
<1> HIDE DEF neps
<1>3. PICK f : /\ f[0] = s /\ ParseEndpoints(b, s, neps) = f[b.turns]
               /\ \A m \in Nat : m + 1 <= b.turns =>
                     f[m + 1] = EndpointTurn(b, f[m], m + 1, neps)
    BY <1>1, EndpointsRuns
<1> DEFINE Good == {m \in Nat : m <= b.turns =>
                        /\ ParserState(f[m]) /\ Goes(f[m])
                        /\ Counted(d, b, k, Least(m), f[m])}
<1>4. 0 \in Good
    <2>1. Least(0) = 0
        BY <1>2
    <2> HIDE DEF Least
    <2> QED BY <1>3, <2>1
<1>5. ASSUME NEW m \in Nat, m \in Good, m + 1 <= b.turns
      PROVE  /\ ParserState(f[m + 1]) /\ Goes(f[m + 1])
             /\ Counted(d, b, k, Least(m + 1), f[m + 1])
    <2>1. PICK t : t = f[m]
        OBVIOUS
    <2>2. ParserState(t) /\ Goes(t) /\ Counted(d, b, k, Least(m), t)
        BY <1>1, <1>5, <2>1
    <2>3. f[m + 1] = EndpointTurn(b, t, m + 1, neps)
        BY <1>3, <1>5, <2>1
    <2>4. CASE m < neps
        <3>1. Least(m) = m /\ Least(m + 1) = m + 1 /\ m + 1 <= neps
            BY <1>2, <2>4
        <3> HIDE DEF Least
        <3>2. Counted(d, b, k, m, t) /\ m < Cardinality(EndpointsIn(d, k))
            BY <1>2, <2>2, <2>4, <3>1
        <3>3. /\ t.off < b.n /\ Goes(ParseEndpoint(b, t))
              /\ Counted(d, b, k, m + 1, ParseEndpoint(b, t))
            BY <2>2, <3>2, CountedMore
        <3>4. f[m + 1] = ParseEndpoint(b, t)
            BY <2>2, <2>3, <3>1, <3>3 DEF EndpointTurn, Goes
        <3>5. ParserState(f[m + 1])
            BY <2>2, <3>4, EndpointState
        <3> QED BY <3>1, <3>3, <3>4, <3>5
    <2>5. CASE ~(m < neps)
        <3>1. Least(m) = Least(m + 1) /\ ~(m + 1 <= neps)
            BY <1>2, <2>5
        <3> HIDE DEF Least
        <3>2. f[m + 1] = t
            BY <2>3, <3>1 DEF EndpointTurn
        <3> QED BY <2>2, <3>1, <3>2
    <2> QED BY <2>4, <2>5
<1>6. \A m \in Nat : m \in Good => m + 1 \in Good
    <2> HIDE DEF Least
    <2> QED BY <1>5
<1>7. b.turns \in Good
    <2> HIDE DEF Good
    <2> QED BY <1>1, <1>4, <1>6, NumbersIn
<1>8. Least(b.turns) = neps
    BY <1>1, <1>2
<1> HIDE DEF Least
<1>9. Goes(f[b.turns]) /\ Counted(d, b, k, neps, f[b.turns])
    BY <1>1, <1>7, <1>8
<1>10. e = f[b.turns]
    BY <1>3 DEF neps
<1> QED BY <1>9, <1>10 DEF neps

\* Behind the class specific descriptors of an interface none of its endpoints is found.
LEMMA NoneCounted ==
    ASSUME NEW d, NEW b, Whole(d, b), Regular(d), NEW k \in 1 .. Len(d), d[k].type = INTERFACE,
           NEW x, Follows(d, b, CS_INTERFACE, k, x),
           NEW s, s.off = StartOf(d, x), s.found = <<>>
    PROVE  Counted(d, b, k, 0, s)
<1>1. Reads(d, b) /\ k \in Indexes(d) /\ k <= k
    BY ReadsIs, WellFormedIs DEF Whole, Indexes
<1>2. EndpointsAre(d, b, k, x, s) /\ Found(d, b, k, x) = {}
    BY <1>1, NoneFound
<1>3. Ready(d, k, x)
    BY <1>1, ReadyIs
<1>4. Cardinality(Found(d, b, k, x)) = 0
    BY <1>2, FS_EmptySet
<1> QED BY <1>2, <1>3, <1>4 DEF Counted

\* Where the parser has found as many endpoints as there are it has found all.
LEMMA CountedAll ==
    ASSUME NEW d, NEW b, Whole(d, b), Regular(d), NEW k \in 1 .. Len(d), d[k].type = INTERFACE,
           NEW s, Counted(d, b, k, d[k].neps, s),
           NEW y, EndpointsAre(d, b, k, y, s)
    PROVE  Found(d, b, k, y) = EndpointsIn(d, k)
<1> DEFINE E == EndpointsIn(d, k)
<1>1. Reads(d, b) /\ WellFormed(d)
    BY ReadsIs DEF Whole
<1>2. PICK x : EndpointsAre(d, b, k, x, s) /\ Cardinality(Found(d, b, k, x)) = d[k].neps
    BY DEF Counted
<1>3. x = y
    BY <1>1, <1>2, StartOnce DEF EndpointsAre
<1>4. Found(d, b, k, y) \in SUBSET E
    BY <1>1, FoundInitial DEF EndpointsAre
<1>5. IsFiniteSet(E) /\ d[k].neps = Cardinality(E)
    BY <1>1, EndpointsInIs, RegularIs
<1> HIDE DEF E
<1>6. Cardinality(Found(d, b, k, y)) = Cardinality(E)
    BY <1>2, <1>3, <1>5
<1>7. Found(d, b, k, y) = E
    BY <1>4, <1>5, <1>6, FS_Subset
<1> QED BY <1>7 DEF E

-----------------------------------------------------------------------------
(* The interfaces that the parser has found *)

\* The interfaces before x, of those that have come, and what the parser has found of them:
\* with each the endpoints behind it as far as it came, and all if all came.
Begun(d, b, x) == {i \in Arrived(d, b) : i < x /\ d[i].type = INTERFACE}

IsInterface(b, d, it, k) ==
    /\ it = [at |-> StartOf(d, k), extras |-> Item(b, StartOf(d, k), CS_INTERFACE).extras,
             endpoints |-> it.endpoints]
    /\ IsList(it.endpoints)
    /\ \E x \in Indexes(d) : /\ Audio(d, b, k, x)
                             /\ ItemsOf(b, d, it.endpoints, Found(d, b, k, x))
                             /\ Whole(d, b) /\ Regular(d) =>
                                    Found(d, b, k, x) = EndpointsIn(d, k)

InterfacesAre(d, b, x, s) ==
    /\ x \in Indexes(d) /\ s.off = StartOf(d, x)
    /\ Len(s.found) = Cardinality(Begun(d, b, x))
    /\ \A m \in 1 .. Cardinality(Begun(d, b, x)) :
          IsInterface(b, d, s.found[m], Nth(Begun(d, b, x), m))

LEMMA BegunFinite ==
    ASSUME NEW d, NEW b, Reads(d, b), NEW x
    PROVE  Begun(d, b, x) \in SUBSET Nat /\ IsFiniteSet(Begun(d, b, x))
<1>1. Len(d) \in Nat /\ IsFiniteSet(1 .. Len(d))
    BY ReadsIs, WellFormedIs, FS_Interval
<1>2. Begun(d, b, x) \in SUBSET (1 .. Len(d))
    BY DEF Begun, Arrived
<1> QED BY <1>1, <1>2, FS_Subset

LEMMA InterfaceFails ==
    ASSUME NEW b, NEW s, ParserState(s), Left(b, s.off) < InterfaceSize
    PROVE  ~Goes(ParseInterface(b, s))
<1>1. PICK off, pool, found, ok :
          s = [off |-> off, pool |-> pool, found |-> found, ok |-> ok]
    BY DEF ParserState
<1>2. PICK no : no = FALSE
    OBVIOUS
<1>3. PICK p : p = ParseInterface(b, s)
    OBVIOUS
<1>4. p = [s EXCEPT !.ok = no]
    BY <1>2, <1>3 DEF ParseInterface, Fail
<1>5. p.ok = no
    BY <1>1, <1>4
<1> QED BY <1>2, <1>3, <1>5 DEF Goes

LEMMA InterfaceIs ==
    ASSUME NEW b, b.turns \in Nat, NEW s, ParserState(s), ~(Left(b, s.off) < InterfaceSize),
           NEW p, p = ParseInterface(b, s)
    PROVE  \E inner, e :
              /\ ParserState(inner) /\ inner.off = Behind(b, s.off, CS_INTERFACE)
              /\ inner.found = <<>>
              /\ Goes(inner) <=> Goes(s)
              /\ ParserState(e) /\ e = ParseEndpoints(b, inner, b.at[s.off].neps)
              /\ p.off = e.off
              /\ Goes(p) <=> Goes(e)
              /\ p.found = Append(s.found,
                                  [at |-> s.off, extras |-> Item(b, s.off, CS_INTERFACE).extras,
                                   endpoints |-> e.found])
<1> DEFINE i == Item(b, s.off, CS_INTERFACE)
           o == Behind(b, s.off, CS_INTERFACE)
           n == IF i.extras > 0 THEN 3 ELSE 2
           q == MallocPoolN(s.pool, n)
           inner == [s EXCEPT !.off = o, !.found = <<>>, !.pool = q]
           e == ParseEndpoints(b, inner, b.at[s.off].neps)
           it == [at |-> i.at, extras |-> i.extras, endpoints |-> e.found]
<1>1. p = [e EXCEPT !.found = Append(s.found, it)]
    BY DEF ParseInterface
<1>2. i.at = s.off /\ n \in Nat
    BY DEF Item
<1> HIDE DEF i, n
<1>3. q \in Pools /\ IsList(<<>>)
    <2>1. <<>> \in Seq(Nat)
        OBVIOUS
    <2> QED BY <1>2, <2>1, MallocNIn DEF ParserState, IsList
<1> HIDE DEF o, q
<1>4. PICK soff, spool, sfound, ok :
          s = [off |-> soff, pool |-> spool, found |-> sfound, ok |-> ok]
    BY DEF ParserState
<1>5. PICK none : none = <<>>
    OBVIOUS
<1>6. inner = [s EXCEPT !.off = o, !.found = none, !.pool = q]
    BY <1>5
<1> HIDE DEF inner
<1>7. inner = [off |-> o, pool |-> q, found |-> none, ok |-> ok] /\ s.ok = ok
    BY <1>4, <1>6
<1>8. ParserState(inner)
    BY <1>3, <1>5, <1>7, StateIs
<1>9. inner.off = o /\ inner.found = <<>>
    BY <1>5, <1>7
<1>10. Goes(inner) <=> Goes(s)
    BY <1>7 DEF Goes
<1>11. ParserState(e)
    BY <1>8, EndpointsState
<1> HIDE DEF e, it
<1>12. PICK eoff, epool, efound, eok :
           e = [off |-> eoff, pool |-> epool, found |-> efound, ok |-> eok]
    BY <1>11 DEF ParserState
<1>13. /\ p = [off |-> eoff, pool |-> epool, found |-> Append(s.found, it), ok |-> eok]
       /\ e.off = eoff /\ e.ok = eok
    BY <1>1, <1>12
<1>14. p.off = e.off /\ p.found = Append(s.found, it) /\ p.ok = e.ok
    BY <1>13
<1>15. Goes(p) <=> Goes(e)
    BY <1>14 DEF Goes
<1>16. it = [at |-> s.off, extras |-> i.extras, endpoints |-> e.found]
    BY <1>2 DEF it
<1>17. /\ ParserState(inner) /\ inner.off = o
       /\ inner.found = <<>>
       /\ Goes(inner) <=> Goes(s)
       /\ ParserState(e) /\ e = ParseEndpoints(b, inner, b.at[s.off].neps)
       /\ p.off = e.off
       /\ Goes(p) <=> Goes(e)
       /\ p.found = Append(s.found, [at |-> s.off, extras |-> i.extras, endpoints |-> e.found])
    <2>1. e = ParseEndpoints(b, inner, b.at[s.off].neps)
        BY DEF e
    <2> QED BY <1>8, <1>9, <1>10, <1>11, <1>14, <1>15, <1>16, <2>1
<1> QED BY <1>17 DEF o, i

\* One more interface, found with its endpoints.
LEMMA InterfaceAdded ==
    ASSUME NEW d, NEW b, Reads(d, b), NEW x, NEW s, ParserState(s),
           InterfacesAre(d, b, x, s), x \in Arrived(d, b), d[x].type = INTERFACE,
           NEW y \in Indexes(d), x < y, Audio(d, b, x, y),
           NEW it, IsInterface(b, d, it, x),
           NEW p, p.off = StartOf(d, y), p.found = Append(s.found, it)
    PROVE  InterfacesAre(d, b, y, p) /\ Begun(d, b, y) = Begun(d, b, x) \cup {x}
<1> DEFINE I == Begun(d, b, x)
           J == Begun(d, b, y)
<1>1. x \in Nat /\ y \in Nat /\ \A i \in Arrived(d, b) : i \in Nat
    BY ReadsIs, WellFormedIs DEF Indexes, Arrived
<1>2. J = I \cup {x}
    <2>1. \A i \in Arrived(d, b) : x < i /\ i < y => d[i].type # INTERFACE
        BY DEF Audio, INTERFACE, CS_INTERFACE, ENDPOINT, CS_ENDPOINT
    <2>2. \A i \in Arrived(d, b) : i < y /\ d[i].type = INTERFACE => i < x \/ i = x
        BY <1>1, <2>1
    <2>3. \A i \in Arrived(d, b) : i < x => i < y
        BY <1>1
    <2> QED BY <2>2, <2>3 DEF Begun
<1>3. I \in SUBSET Nat /\ IsFiniteSet(I) /\ \A i \in I : i < x
    BY BegunFinite DEF Begun
<1>4. /\ Len(s.found) = Cardinality(I) /\ IsList(s.found)
      /\ \A m \in 1 .. Cardinality(I) : IsInterface(b, d, s.found[m], Nth(I, m))
    BY DEF InterfacesAre, ParserState
<1> HIDE DEF I, J
<1>5. /\ Cardinality(I \cup {x}) = Cardinality(I) + 1
      /\ \A n \in 1 .. Cardinality(I) : Nth(I \cup {x}, n) = Nth(I, n)
      /\ Nth(I \cup {x}, Cardinality(I) + 1) = x
    BY <1>1, <1>3, NthAdded
<1>6. /\ Cardinality(J) = Cardinality(I) + 1 /\ Nth(J, Cardinality(J)) = x
      /\ \A n \in 1 .. Cardinality(I) : Nth(J, n) = Nth(I, n)
    BY <1>2, <1>5
<1>7. Cardinality(I) \in Nat
    BY <1>3, FS_CardinalityType
<1>8. Len(p.found) = Cardinality(J)
    BY <1>4, <1>6, AppendIs
<1>9. ASSUME NEW m \in 1 .. Cardinality(J)
      PROVE  IsInterface(b, d, p.found[m], Nth(J, m))
    <2>1. CASE m \in 1 .. Cardinality(I)
        <3>1. p.found[m] = s.found[m] /\ Nth(J, m) = Nth(I, m)
            BY <1>4, <1>6, <2>1, AppendIs
        <3> QED BY <1>4, <2>1, <3>1
    <2>2. CASE m = Cardinality(J)
        <3>1. p.found[m] = it /\ Nth(J, m) = x
            BY <1>4, <1>6, <2>2, AppendIs
        <3> QED BY <3>1
    <2>3. m \in 1 .. Cardinality(I) \/ m = Cardinality(J)
        BY <1>6, <1>7
    <2> QED BY <2>1, <2>2, <2>3
<1> QED BY <1>2, <1>8, <1>9 DEF InterfacesAre, I, J

LEMMA InterfaceFound ==
    ASSUME NEW d, NEW b, Reads(d, b), NEW x, NEW s, ParserState(s),
           InterfacesAre(d, b, x, s), TypeAt(b, StartOf(d, x)) = INTERFACE,
           NEW p, p = ParseInterface(b, s), Goes(p)
    PROVE  Goes(s) /\ \E y : x < y /\ InterfacesAre(d, b, y, p)
<1>1. ~(Left(b, s.off) < InterfaceSize) /\ b.turns \in Nat
    BY InterfaceFails, ReadsIs
<1>2. PICK inner, e :
          /\ ParserState(inner) /\ inner.off = Behind(b, s.off, CS_INTERFACE)
          /\ inner.found = <<>>
          /\ Goes(inner) <=> Goes(s)
          /\ ParserState(e) /\ e = ParseEndpoints(b, inner, b.at[s.off].neps)
          /\ p.off = e.off
          /\ Goes(p) <=> Goes(e)
          /\ p.found = Append(s.found,
                              [at |-> s.off, extras |-> Item(b, s.off, CS_INTERFACE).extras,
                               endpoints |-> e.found])
    BY <1>1, InterfaceIs
<1>3. s.off = StartOf(d, x) /\ x \in Indexes(d) /\ StartOf(d, x) \in Nat /\ b.n \in Nat
    BY ReadsIs, Starts DEF InterfacesAre
<1>4. StartOf(d, x) + 1 < b.n
    BY <1>1, <1>3 DEF Left, InterfaceSize
<1>5. x \in Arrived(d, b) /\ StartOf(d, x) < b.n /\ d[x].type = INTERFACE
    BY <1>3, <1>4, HeaderArrived
<1>6. PICK z : Follows(d, b, CS_INTERFACE, x, z) /\ inner.off = StartOf(d, z)
    BY <1>2, <1>3, <1>5, BehindIs
<1>7. EndpointsAre(d, b, x, z, inner)
    BY <1>2, <1>3, <1>6, NoneFound
<1>8. x \in Nat /\ z \in Nat /\ x < z /\ Indexes(d) \subseteq Nat
    BY <1>3, <1>6, ReadsIs, WellFormedIs DEF Follows, Indexes
<1>9. Goes(inner) /\ \E y : z <= y /\ EndpointsAre(d, b, x, y, e)
    <2> DEFINE neps == b.at[s.off].neps
    <2>1. e = ParseEndpoints(b, inner, neps) /\ Goes(e)
        BY <1>2
    <2> HIDE DEF neps
    <2> QED BY <1>2, <1>7, <1>8, <2>1, EndpointsFound
<1>10. PICK y : z <= y /\ EndpointsAre(d, b, x, y, e)
    BY <1>9
<1>11. y \in Indexes(d) /\ x < y
    BY <1>8, <1>10 DEF EndpointsAre
<1> DEFINE it == [at |-> s.off, extras |-> Item(b, s.off, CS_INTERFACE).extras,
                  endpoints |-> e.found]
<1>12. IsInterface(b, d, it, x)
    <2>1. it = [at |-> StartOf(d, x), extras |-> Item(b, StartOf(d, x), CS_INTERFACE).extras,
                endpoints |-> it.endpoints] /\ it.endpoints = e.found
        BY <1>3
    <2>2. IsList(it.endpoints)
        BY <1>2, <2>1 DEF ParserState
    <2>3. Audio(d, b, x, y) /\ ItemsOf(b, d, it.endpoints, Found(d, b, x, y))
        BY <1>10, <2>1 DEF EndpointsAre
    <2>4. ASSUME Whole(d, b), Regular(d)
          PROVE  Found(d, b, x, y) = EndpointsIn(d, x)
        <3>1. x \in 1 .. Len(d) /\ d[x].type = INTERFACE
            BY <1>5 DEF Arrived
        <3>2. Counted(d, b, x, 0, inner)
            BY <1>2, <1>6, <2>4, <3>1, NoneCounted
        <3>3. b.at[s.off].neps = d[x].neps
            BY <1>3, <3>1 DEF Reads
        <3>4. Counted(d, b, x, d[x].neps, e)
            BY <1>2, <1>9, <2>4, <3>1, <3>2, <3>3, EndpointsComplete
        <3> QED BY <1>10, <2>4, <3>1, <3>4, CountedAll
    <2> HIDE DEF it
    <2> QED BY <1>11, <2>1, <2>2, <2>3, <2>4 DEF IsInterface
<1>13. p.off = StartOf(d, y) /\ Audio(d, b, x, y) /\ p.found = Append(s.found, it)
    BY <1>2, <1>10 DEF EndpointsAre
<1> HIDE DEF it
<1>14. InterfacesAre(d, b, y, p)
    BY <1>5, <1>11, <1>12, <1>13, InterfaceAdded
<1> QED BY <1>2, <1>9, <1>11, <1>14

\* A parser that has failed stays so.
LEMMA EndpointsFailed ==
    ASSUME NEW b, b.turns \in Nat, NEW s, ParserState(s), NEW neps,
           Goes(ParseEndpoints(b, s, neps))
    PROVE  Goes(s)
<1>1. PICK f : /\ f[0] = s /\ ParseEndpoints(b, s, neps) = f[b.turns]
               /\ \A m \in Nat : m + 1 <= b.turns =>
                     f[m + 1] = EndpointTurn(b, f[m], m + 1, neps)
    BY EndpointsRuns
<1> DEFINE Good == {m \in Nat : m <= b.turns =>
                        ParserState(f[m]) /\ (Goes(f[m]) => Goes(s))}
<1>2. 0 \in Good
    BY <1>1
<1>3. ASSUME NEW m \in Nat, m \in Good, m + 1 <= b.turns
      PROVE  ParserState(f[m + 1]) /\ (Goes(f[m + 1]) => Goes(s))
    <2>1. ParserState(f[m]) /\ (Goes(f[m]) => Goes(s))
        BY <1>3
    <2>2. f[m + 1] \in {f[m], ParseEndpoint(b, f[m])}
        BY <1>1, <1>3 DEF EndpointTurn
    <2>3. ParserState(ParseEndpoint(b, f[m]))
        BY <2>1, EndpointState
    <2>4. Goes(ParseEndpoint(b, f[m])) => Goes(f[m])
        BY <2>1, EndpointIs
    <2> QED BY <2>1, <2>2, <2>3, <2>4
<1>4. \A m \in Nat : m \in Good => m + 1 \in Good
    BY <1>3
<1>5. b.turns \in Good
    <2> HIDE DEF Good
    <2> QED BY <1>2, <1>4, NumbersIn
<1> QED BY <1>1, <1>5

LEMMA TurnFailed ==
    ASSUME NEW b, b.turns \in Nat, NEW s, ParserState(s), Goes(InterfaceTurn(b, s))
    PROVE  Goes(s)
<1> SUFFICES ASSUME InterfaceTurn(b, s) # s
             PROVE  Goes(s)
    OBVIOUS
<1>1. s.ok
    BY DEF InterfaceTurn
<1>2. CASE TypeAt(b, s.off) = INTERFACE
    <2>1. Goes(ParseInterface(b, s))
        BY <1>2 DEF InterfaceTurn
    <2>2. ~(Left(b, s.off) < InterfaceSize)
        BY <2>1, InterfaceFails
    <2>3. PICK p : p = ParseInterface(b, s)
        OBVIOUS
    <2>4. PICK inner, e :
              /\ ParserState(inner) /\ inner.off = Behind(b, s.off, CS_INTERFACE)
              /\ inner.found = <<>>
              /\ Goes(inner) <=> Goes(s)
              /\ ParserState(e) /\ e = ParseEndpoints(b, inner, b.at[s.off].neps)
              /\ p.off = e.off
              /\ Goes(p) <=> Goes(e)
              /\ p.found = Append(s.found,
                                  [at |-> s.off, extras |-> Item(b, s.off, CS_INTERFACE).extras,
                                   endpoints |-> e.found])
        BY <2>2, <2>3, InterfaceIs
    <2> DEFINE neps == b.at[s.off].neps
    <2>5. e = ParseEndpoints(b, inner, neps) /\ Goes(e)
        BY <2>1, <2>3, <2>4
    <2> HIDE DEF neps
    <2> QED BY <2>4, <2>5, EndpointsFailed
<1>3. CASE TypeAt(b, s.off) # INTERFACE
    <2>1. PICK p : p = InterfaceTurn(b, s)
        OBVIOUS
    <2>2. p = [s EXCEPT !.off = s.off + LengthAt(b, s.off)]
        BY <1>3, <2>1 DEF InterfaceTurn
    <2>3. PICK off, pool, found, ok :
              s = [off |-> off, pool |-> pool, found |-> found, ok |-> ok]
        BY DEF ParserState
    <2>4. p = [off |-> off + LengthAt(b, off), pool |-> pool, found |-> found, ok |-> ok]
        BY <2>2, <2>3
    <2>5. p.ok = s.ok
        BY <2>3, <2>4
    <2> QED BY <2>1, <2>5 DEF Goes
<1> QED BY <1>2, <1>3

\* Behind a descriptor that is no interface.
LEMMA TurnPasses ==
    ASSUME NEW d, NEW b, Reads(d, b), NEW x, NEW s, ParserState(s),
           InterfacesAre(d, b, x, s), StartOf(d, x) < b.n,
           TypeAt(b, StartOf(d, x)) # INTERFACE,
           NEW p, p = [s EXCEPT !.off = s.off + LengthAt(b, s.off)]
    PROVE  /\ Goes(p) <=> Goes(s)
           /\ InterfacesAre(d, b, x + 1, p) /\ x + 1 \in Indexes(d)
<1>1. PICK off, pool, found, ok :
          s = [off |-> off, pool |-> pool, found |-> found, ok |-> ok]
    BY DEF ParserState
<1>2. p = [off |-> off + LengthAt(b, off), pool |-> pool, found |-> found, ok |-> ok]
    BY <1>1
<1>3. p.off = s.off + LengthAt(b, s.off) /\ p.found = s.found /\ p.ok = s.ok
    BY <1>1, <1>2
<1>4. s.off = StartOf(d, x) /\ x \in Indexes(d)
    BY DEF InterfacesAre
<1>5. p.off = StartOf(d, x + 1) /\ x + 1 \in Indexes(d) /\ x \in 1 .. Len(d)
    BY <1>3, <1>4, NextIndex
<1>6. Begun(d, b, x + 1) = Begun(d, b, x)
    <2>1. x \in Nat /\ \A i \in Arrived(d, b) : i \in Nat
        BY <1>5, ReadsIs, WellFormedIs DEF Arrived
    <2>2. \A i \in Arrived(d, b) : i < x + 1 <=> i < x \/ i = x
        BY <2>1
    <2>3. x \in Arrived(d, b) => d[x].type # INTERFACE
        BY ReadsIs
    <2> QED BY <2>2, <2>3 DEF Begun
<1>7. InterfacesAre(d, b, x + 1, p)
    BY <1>3, <1>5, <1>6 DEF InterfacesAre
<1>8. Goes(p) <=> Goes(s)
    BY <1>3 DEF Goes
<1> QED BY <1>5, <1>7, <1>8

\* A turn passes a descriptor at least, or there is none left.
LEMMA TurnFound ==
    ASSUME NEW d, NEW b, Reads(d, b), NEW x, NEW s, ParserState(s),
           InterfacesAre(d, b, x, s), NEW p, p = InterfaceTurn(b, s), Goes(p)
    PROVE  /\ Goes(s)
           /\ \/ p = s /\ StartOf(d, x) >= b.n
              \/ \E y : x < y /\ InterfacesAre(d, b, y, p)
<1>1. s.off = StartOf(d, x) /\ x \in Indexes(d) /\ StartOf(d, x) \in Nat /\ b.n \in Nat
      /\ x \in Nat
    BY ReadsIs, Starts, WellFormedIs DEF InterfacesAre, Indexes
<1>2. CASE ~s.ok \/ s.off >= b.n
    <2>1. p = s
        BY <1>2 DEF InterfaceTurn
    <2>2. s.ok
        BY <2>1 DEF Goes
    <2> QED BY <1>1, <1>2, <2>1, <2>2
<1>3. CASE ~(~s.ok \/ s.off >= b.n) /\ TypeAt(b, s.off) = INTERFACE
    <2>1. p = ParseInterface(b, s)
        BY <1>3 DEF InterfaceTurn
    <2> QED BY <1>1, <1>3, <2>1, InterfaceFound
<1>4. CASE ~(~s.ok \/ s.off >= b.n) /\ TypeAt(b, s.off) # INTERFACE
    <2>1. p = [s EXCEPT !.off = s.off + LengthAt(b, s.off)]
        BY <1>4 DEF InterfaceTurn
    <2>2. StartOf(d, x) < b.n
        BY <1>1, <1>4
    <2>3. /\ Goes(p) <=> Goes(s)
          /\ InterfacesAre(d, b, x + 1, p)
        BY <1>1, <1>4, <2>1, <2>2, TurnPasses
    <2> QED BY <1>1, <2>3
<1> QED BY <1>2, <1>3, <1>4

LEMMA InterfacesRuns ==
    ASSUME NEW b, b.turns \in Nat, NEW s
    PROVE  \E f : /\ f[0] = s /\ ParseInterfaces(b, s) = f[b.turns]
                  /\ \A m \in Nat : m + 1 <= b.turns => f[m + 1] = InterfaceTurn(b, f[m])
<1> DEFINE f[k \in 0 .. b.turns] == IF k = 0 THEN s ELSE InterfaceTurn(b, f[k - 1])
<1>1. InterfacesRun(b, s, b.turns, f)
    <2>1. \E g : InterfacesRun(b, s, b.turns, g)
        BY InterfacesExist
    <2> QED BY <2>1, Zenon DEF InterfacesRun
<1>2. ParseInterfaces(b, s) = f[b.turns]
    BY DEF ParseInterfaces
<1> HIDE DEF f
<1>3. \A k \in 0 .. b.turns : f[k] = IF k = 0 THEN s ELSE InterfaceTurn(b, f[k - 1])
    BY <1>1, Zenon DEF InterfacesRun
<1>4. f[0] = s
    BY <1>3
<1>5. ASSUME NEW m \in Nat, m + 1 <= b.turns
      PROVE  f[m + 1] = InterfaceTurn(b, f[m])
    <2>1. m + 1 \in 0 .. b.turns /\ m + 1 # 0 /\ (m + 1) - 1 = m
        BY <1>5
    <2>2. f[m + 1] = InterfaceTurn(b, f[(m + 1) - 1])
        BY <1>3, <2>1
    <2> QED BY <2>1, <2>2
<1> QED BY <1>2, <1>4, <1>5

\* A parser that does not fail has found all the interfaces that have come.
Came(d, b) == {i \in Arrived(d, b) : d[i].type = INTERFACE}

FoundAll(d, b, found) ==
    /\ IsList(found) /\ Len(found) = Cardinality(Came(d, b))
    /\ \A m \in 1 .. Cardinality(Came(d, b)) : IsInterface(b, d, found[m], Nth(Came(d, b), m))

LEMMA CameBegun ==
    ASSUME NEW d, NEW b, Reads(d, b), NEW x \in Indexes(d), StartOf(d, x) >= b.n
    PROVE  Begun(d, b, x) = Came(d, b)
<1>1. \A i \in Arrived(d, b) : i < x
    <2> SUFFICES ASSUME NEW i \in Arrived(d, b), ~(i < x)
                 PROVE  FALSE
        OBVIOUS
    <2>1. /\ WellFormed(d) /\ b.n \in Nat /\ i \in Indexes(d) /\ i \in Nat /\ x \in Nat
          /\ StartOf(d, i) + 1 < b.n
        BY ReadsIs, WellFormedIs DEF Arrived, Indexes
    <2>2. StartOf(d, i) \in Nat /\ StartOf(d, x) \in Nat
        BY <2>1, Starts
    <2>3. CASE x < i
        BY <2>1, <2>2, <2>3, StartLess
    <2>4. CASE x = i
        BY <2>1, <2>2, <2>4
    <2> QED BY <2>1, <2>3, <2>4
<1> QED BY <1>1 DEF Begun, Came

\* The parser begins behind the configuration descriptor.
LEMMA BeginsBehind ==
    ASSUME NEW d, NEW b, Reads(d, b), NEW s, s.off = ConfigSize, s.found = <<>>
    PROVE  InterfacesAre(d, b, 2, s)
<1>1. /\ Len(d) \in Nat \ {0} /\ WellFormed(d) /\ d[1].type = CONFIG
      /\ d[1].len = ConfigSize
    BY ReadsIs, WellFormedIs DEF WellFormed
<1>2. 2 \in Indexes(d)
    BY <1>1 DEF Indexes
<1>3. StartOf(d, 2) = ConfigSize
    <2>1. StartOf(d, 1 + 1) = StartOf(d, 1) + d[1].len /\ StartOf(d, 1) = 0
        BY <1>1, Starts
    <2> QED BY <1>1, <2>1 DEF ConfigSize
<1>4. Begun(d, b, 2) = {}
    <2>1. \A i \in Arrived(d, b) : i < 2 => i = 1
        BY <1>1 DEF Arrived
    <2>2. d[1].type # INTERFACE
        BY <1>1 DEF CONFIG, INTERFACE
    <2> QED BY <2>1, <2>2 DEF Begun
<1>5. Cardinality({}) = 0 /\ Len(s.found) = 0
    BY FS_EmptySet, EmptySeq
<1> QED BY <1>2, <1>3, <1>4, <1>5 DEF InterfacesAre

LEMMA InterfacesFound ==
    ASSUME NEW d, NEW b, Reads(d, b), NEW s, ParserState(s), InterfacesAre(d, b, 2, s),
           NEW e, e = ParseInterfaces(b, s), Goes(e)
    PROVE  FoundAll(d, b, e.found)
<1>1. b.turns \in Nat /\ b.turns = Len(d) /\ Indexes(d) = 1 .. Len(d) + 1 /\ b.n \in Nat
    BY ReadsIs DEF Indexes, Reads
<1>2. PICK f : /\ f[0] = s /\ ParseInterfaces(b, s) = f[b.turns]
               /\ \A m \in Nat : m + 1 <= b.turns => f[m + 1] = InterfaceTurn(b, f[m])
    BY <1>1, InterfacesRuns
<1> DEFINE Is(g, m) == \E x \in Indexes(d) : /\ InterfacesAre(d, b, x, g)
                                             /\ StartOf(d, x) >= b.n \/ m + 2 <= x
           Good == {m \in Nat : m <= b.turns =>
                        ParserState(f[m]) /\ (Goes(f[m]) => Is(f[m], m))}
<1>3. 0 \in Good
    <2>1. 0 + 2 <= 2 /\ 2 \in Indexes(d)
        BY DEF InterfacesAre
    <2>2. Is(s, 0)
        BY <2>1
    <2> HIDE DEF Is
    <2> QED BY <1>2, <2>2
<1>4. ASSUME NEW m \in Nat, m \in Good, m + 1 <= b.turns
      PROVE  ParserState(f[m + 1]) /\ (Goes(f[m + 1]) => Is(f[m + 1], m + 1))
    <2>1. ParserState(f[m]) /\ (Goes(f[m]) => Is(f[m], m))
        BY <1>1, <1>4
    <2>2. f[m + 1] = InterfaceTurn(b, f[m])
        BY <1>2, <1>4
    <2>3. ParserState(f[m + 1])
        BY <1>1, <2>1, <2>2, TurnState
    <2>4. ASSUME Goes(f[m + 1])
          PROVE  Is(f[m + 1], m + 1)
        <3>1. Goes(f[m])
            BY <1>1, <2>1, <2>2, <2>4, TurnFailed
        <3>2. PICK x \in Indexes(d) : /\ InterfacesAre(d, b, x, f[m])
                                      /\ StartOf(d, x) >= b.n \/ m + 2 <= x
            BY <2>1, <3>1
        <3>3. \/ f[m + 1] = f[m] /\ StartOf(d, x) >= b.n
              \/ \E y : x < y /\ InterfacesAre(d, b, y, f[m + 1])
            BY <2>1, <2>2, <2>4, <3>2, TurnFound
        <3>4. CASE f[m + 1] = f[m] /\ StartOf(d, x) >= b.n
            BY <3>2, <3>4
        <3>5. ASSUME NEW y, x < y, InterfacesAre(d, b, y, f[m + 1])
              PROVE  Is(f[m + 1], m + 1)
            <4>1. y \in Indexes(d) /\ x \in Nat /\ y \in Nat
                BY <1>1, <3>5, ReadsIs, WellFormedIs DEF InterfacesAre
            <4>2. CASE m + 2 <= x
                <5>1. (m + 1) + 2 <= y
                    BY <3>5, <4>1, <4>2
                <5> QED BY <3>5, <4>1, <5>1
            <4>3. CASE StartOf(d, x) >= b.n
                <5>1. StartOf(d, x) + 1 < StartOf(d, y)
                    BY <3>5, <4>1, ReadsIs, StartLess
                <5>2. StartOf(d, x) \in Nat /\ StartOf(d, y) \in Nat
                    BY <4>1, ReadsIs, Starts
                <5>3. StartOf(d, y) >= b.n
                    BY <1>1, <4>3, <5>1, <5>2
                <5> QED BY <3>5, <4>1, <5>3
            <4> QED BY <3>2, <4>2, <4>3
        <3> HIDE DEF Is
        <3> QED BY <3>3, <3>4, <3>5
    <2> HIDE DEF Is
    <2> QED BY <2>3, <2>4
<1>5. \A m \in Nat : m \in Good => m + 1 \in Good
    <2> HIDE DEF Is
    <2> QED BY <1>4
<1>6. Len(d) \in Good
    <2> HIDE DEF Good
    <2> QED BY <1>1, <1>3, <1>5, NumbersIn
<1>7. PICK x \in Indexes(d) : /\ InterfacesAre(d, b, x, e)
                              /\ StartOf(d, x) >= b.n \/ Len(d) + 2 <= x
    BY <1>1, <1>2, <1>6
<1>8. StartOf(d, x) >= b.n
    BY <1>1, <1>7
<1>9. Begun(d, b, x) = Came(d, b)
    BY <1>8, CameBegun
<1>10. ParserState(e)
    BY <1>1, InterfacesState
<1> QED BY <1>7, <1>9, <1>10 DEF FoundAll, InterfacesAre, ParserState

-----------------------------------------------------------------------------
(* What the interfaces that were found are merged to *)

\* The alternatives of the j-th interface, of those that have come.
Alternatives(d, b, j) == {k \in Came(d, b) : d[k].num = j - 1}

\* The elements of alternate_counts that are not 0, if none is counted beyond its end.
Uniques(d, b) == {j \in 1 .. Cardinality(Came(d, b)) : Alternatives(d, b, j) # {}}

MergedAs(d, b, merged) ==
    /\ DOMAIN merged = 1 .. Cardinality(Uniques(d, b))
    /\ \A j \in DOMAIN merged :
          /\ merged[j] = [n \in 1 .. Cardinality(Alternatives(d, b, j)) |-> merged[j][n]]
          /\ \A n \in 1 .. Cardinality(Alternatives(d, b, j)) :
                IsInterface(b, d, merged[j][n], Nth(Alternatives(d, b, j), n))

LEMMA CameFinite ==
    ASSUME NEW d, NEW b, Reads(d, b)
    PROVE  /\ Came(d, b) \in SUBSET (1 .. Len(d)) /\ Came(d, b) \in SUBSET Nat
           /\ IsFiniteSet(Came(d, b))
<1>1. Len(d) \in Nat /\ IsFiniteSet(1 .. Len(d))
    BY ReadsIs, WellFormedIs, FS_Interval
<1>2. Came(d, b) \in SUBSET (1 .. Len(d))
    BY DEF Came, Arrived
<1> QED BY <1>1, <1>2, FS_Subset

LEMMA NumberIs ==
    ASSUME NEW d, NEW b, Reads(d, b), NEW k \in 1 .. Len(d), NEW it, IsInterface(b, d, it, k)
    PROVE  NumberOf(b, it) = d[k].num
<1>1. it.at = StartOf(d, k)
    BY DEF IsInterface
<1> QED BY <1>1 DEF NumberOf, Reads

LEMMA Merged ==
    ASSUME NEW d, NEW b, Reads(d, b), NEW found, FoundAll(d, b, found)
    PROVE  MergedAs(d, b, MergeAlternateInterfaces(b, found))
<1> DEFINE C == Came(d, b)
           mine(j) == {m \in DOMAIN found : NumberOf(b, found[m]) = j - 1}
           N == {j \in DOMAIN found : mine(j) # {}}
           A(j) == Alternatives(d, b, j)
           merged == MergeAlternateInterfaces(b, found)
<1>1. /\ C \in SUBSET (1 .. Len(d)) /\ C \in SUBSET Nat
      /\ IsFiniteSet(C) /\ Cardinality(C) \in Nat
    BY CameFinite, FS_CardinalityType
<1>2. DOMAIN found = 1 .. Cardinality(C)
    <2>1. PICK S : found \in Seq(S)
        BY DEF FoundAll, IsList
    <2> QED BY <2>1, LenProperties DEF FoundAll
<1>3. \A m \in 1 .. Cardinality(C) :
          Nth(C, m) \in C /\ IsInterface(b, d, found[m], Nth(C, m))
    BY <1>1, NthIs DEF FoundAll
<1>4. \A m \in 1 .. Cardinality(C) : NumberOf(b, found[m]) = d[Nth(C, m)].num
    <2> SUFFICES ASSUME NEW m \in 1 .. Cardinality(C)
                 PROVE  NumberOf(b, found[m]) = d[Nth(C, m)].num
        OBVIOUS
    <2>1. Nth(C, m) \in 1 .. Len(d) /\ IsInterface(b, d, found[m], Nth(C, m))
        BY <1>1, <1>3
    <2> QED BY <2>1, NumberIs
<1>5. N = Uniques(d, b)
    <2>1. \A j : mine(j) = {m \in 1 .. Cardinality(C) : d[Nth(C, m)].num = j - 1}
        BY <1>2, <1>4
    <2>2. \A k \in C : \E m \in 1 .. Cardinality(C) : Nth(C, m) = k
        <3> HIDE DEF C
        <3> QED BY <1>1, PlaceIn, NthUnique
    <2>3. \A j : mine(j) # {} <=> A(j) # {}
        <3>1. \A j : A(j) = {k \in C : d[k].num = j - 1}
            BY DEF Alternatives
        <3> HIDE DEF C, mine, A
        <3> QED BY <1>3, <2>1, <2>2, <3>1
    <2>4. \A j : j \in N <=> j \in 1 .. Cardinality(C) /\ A(j) # {}
        <3> HIDE DEF C, mine, A
        <3> QED BY <1>2, <2>3
    <2>5. \A j : j \in Uniques(d, b) <=> j \in 1 .. Cardinality(C) /\ A(j) # {}
        BY DEF Uniques
    <2> HIDE DEF N, C, A
    <2> QED BY <2>4, <2>5
<1>6. merged = [j \in 1 .. Cardinality(N) |->
                  [n \in 1 .. Cardinality(mine(j)) |-> found[Nth(mine(j), n)]]]
    BY Zenon DEF MergeAlternateInterfaces
<1>7. ASSUME NEW j \in 1 .. Cardinality(N)
      PROVE  /\ merged[j] = [n \in 1 .. Cardinality(A(j)) |-> merged[j][n]]
             /\ \A n \in 1 .. Cardinality(A(j)) :
                   IsInterface(b, d, merged[j][n], Nth(A(j), n))
    <2> DEFINE M == mine(j)
               T == A(j)
    <2>1. M = {m \in 1 .. Cardinality(C) : Nth(C, m) \in T}
        BY <1>2, <1>3, <1>4 DEF Alternatives
    <2>2. T \in SUBSET C
        BY DEF Alternatives
    <2>3. /\ Cardinality(M) = Cardinality(T) /\ M \in SUBSET (1 .. Cardinality(C))
          /\ \A n \in 1 .. Cardinality(T) :
                Nth(M, n) \in M /\ Nth(C, Nth(M, n)) = Nth(T, n)
        <3> HIDE DEF M, T, C
        <3>1. M = PlacesOf(C, T) /\ M \in SUBSET (1 .. Cardinality(C))
            BY <2>1 DEF PlacesOf
        <3> QED BY <1>1, <2>2, <3>1, NthOfPlaces
    <2>4. merged[j] = [n \in 1 .. Cardinality(M) |-> found[Nth(M, n)]]
        <3> HIDE DEF N, merged
        <3> QED BY <1>6
    <2> HIDE DEF M, T, C, merged
    <2>5. merged[j] = [n \in 1 .. Cardinality(T) |-> found[Nth(M, n)]]
        BY <2>3, <2>4
    <2>6. \A n \in 1 .. Cardinality(T) : IsInterface(b, d, merged[j][n], Nth(T, n))
        BY <1>3, <2>3, <2>5
    <2>7. merged[j] = [n \in 1 .. Cardinality(T) |-> merged[j][n]]
        BY <2>5
    <2> QED BY <2>6, <2>7 DEF T
<1>8. DOMAIN merged = 1 .. Cardinality(N)
    <2> HIDE DEF N, mine
    <2> QED BY <1>6
<1> HIDE DEF merged, N
<1> QED BY <1>5, <1>7, <1>8 DEF MergedAs, merged

LEMMA NumbersCounted ==
    ASSUME NEW d, NEW b, Reads(d, b)
    PROVE  LET N == {d[k].num : k \in Came(d, b)}
           IN  /\ IsFiniteSet(N) /\ Cardinality(N) \in Nat
               /\ Cardinality(N) <= Cardinality(Came(d, b)) /\ Cardinality(Came(d, b)) \in Nat
<1> DEFINE C == Came(d, b)
           N == {d[k].num : k \in C}
           f == [k \in C |-> d[k].num]
<1>1. IsFiniteSet(C)
    BY CameFinite
<1>2. f \in Surjection(C, N)
    BY DEF Surjection
<1> HIDE DEF C, N, f
<1>3. IsFiniteSet(N) /\ Cardinality(N) <= Cardinality(C)
    BY <1>1, <1>2, FS_Surjection
<1>4. Cardinality(N) \in Nat /\ Cardinality(C) \in Nat
    BY <1>1, <1>3, FS_CardinalityType
<1> QED BY <1>3, <1>4 DEF N, C

\* The number of an interface that is found.
LEMMA FoundNumber ==
    ASSUME NEW d, NEW b, Reads(d, b), NEW found, FoundAll(d, b, found), NEW i \in ToSet(found)
    PROVE  \E k \in Came(d, b) : NumberOf(b, i) = d[k].num
<1> DEFINE C == Came(d, b)
<1>1. /\ C \in SUBSET (1 .. Len(d)) /\ C \in SUBSET Nat /\ IsFiniteSet(C)
    BY CameFinite
<1>2. DOMAIN found = 1 .. Cardinality(C)
    <2>1. PICK S : found \in Seq(S)
        BY DEF FoundAll, IsList
    <2> QED BY <2>1, LenProperties DEF FoundAll
<1>3. PICK m \in 1 .. Cardinality(C) : i = found[m]
    BY <1>2 DEF ToSet
<1>4. PICK k : k = Nth(C, m)
    OBVIOUS
<1>5. k \in C /\ IsInterface(b, d, i, k)
    BY <1>1, <1>3, <1>4, NthIs DEF FoundAll
<1>6. NumberOf(b, i) = d[k].num
    BY <1>1, <1>5, NumberIs
<1> QED BY <1>5, <1>6

\* When the interfaces come in order, the number of each is less than the count of those
\* that have come: it has a predecessor for each smaller number, which came before it.
LEMMA InOrderFits ==
    ASSUME NEW d, NEW b, Reads(d, b), InOrder(d), NEW found, FoundAll(d, b, found)
    PROVE  ~Overruns(b, found)
<1> DEFINE C == Came(d, b)
           N == {d[k].num : k \in C}
<1> SUFFICES ASSUME NEW i \in ToSet(found), NumberOf(b, i) >= Len(found)
             PROVE  FALSE
    BY DEF Overruns
<1>1. PICK k \in C : NumberOf(b, i) = d[k].num
    BY FoundNumber
<1>2. /\ WellFormed(d) /\ k \in 1 .. Len(d) /\ k \in Arrived(d, b) /\ k \in Nat
      /\ DOMAIN d = 1 .. Len(d) /\ d[k].type = INTERFACE
    BY ReadsIs, WellFormedIs, CameFinite DEF Came
<1>3. PICK z \in Nat : z = d[k].num
    BY <1>2, WellFormedIs DEF Descriptors
<1>4. ASSUME NEW v \in 0 .. z
      PROVE  v \in N
    <2>1. CASE v = z
        BY <1>3, <2>1
    <2>2. CASE v # z
        <3>1. k \in IndexesOf(d, INTERFACE) /\ v \in 0 .. z - 1
            BY <1>2, <1>3, <2>2 DEF IndexesOf
        <3>2. PICK j \in IndexesOf(d, INTERFACE) : j < k /\ d[j].num = v
            BY <1>3, <3>1 DEF InOrder
        <3>3. j \in 1 .. Len(d) /\ d[j].type = INTERFACE /\ j <= k
            BY <1>2, <3>2 DEF IndexesOf
        <3>4. j \in Arrived(d, b)
            BY <1>2, <3>3, ArrivedBefore
        <3>5. j \in C
            BY <3>3, <3>4 DEF Came
        <3> QED BY <3>2, <3>5
    <2> QED BY <2>1, <2>2
<1>5. /\ IsFiniteSet(N) /\ Cardinality(N) \in Nat
      /\ Cardinality(N) <= Cardinality(C) /\ Cardinality(C) \in Nat
    BY NumbersCounted
<1>6. Cardinality(0 .. z) = z + 1
    BY FS_Interval
<1>7. Cardinality(0 .. z) <= Cardinality(N)
    <2> HIDE DEF N
    <2>1. 0 .. z \in SUBSET N
        BY <1>4
    <2> QED BY <1>5, <2>1, FS_Subset
<1>8. z >= Cardinality(C)
    BY <1>1, <1>3 DEF FoundAll
<1> HIDE DEF N, C
<1> QED BY <1>5, <1>6, <1>7, <1>8

-----------------------------------------------------------------------------
(* What a cut configuration is parsed as *)

Listed(s, n) == s = [k \in 1 .. n |-> s[k]]

LEMMA PrefixOf ==
    ASSUME NEW m \in Nat, NEW n \in Nat, m <= n,
           NEW s, Listed(s, m), NEW t, Listed(t, n),
           \A k \in 1 .. m : s[k] = t[k]
    PROVE  IsPrefix(s, t)
<1> DEFINE U == {t[k] : k \in 1 .. n}
<1>0. /\ \A k \in 1 .. n : t[k] \in U
      /\ \A k \in 1 .. m : t[k] \in U /\ s[k] \in U
    OBVIOUS
<1>1. t \in [1 .. n -> U] /\ s \in [1 .. m -> U]
    <2> HIDE DEF U
    <2>1. s = [k \in 1 .. m |-> s[k]] /\ t = [k \in 1 .. n |-> t[k]]
        BY Zenon DEF Listed
    <2>2. t \in [1 .. n -> U]
        BY <1>0, <2>1
    <2>3. s \in [1 .. m -> U]
        BY <1>0, <2>1
    <2> QED BY <2>2, <2>3
<1>2. s \in Seq(U) /\ t \in Seq(U)
    <2> HIDE DEF U
    <2> QED BY <1>1, SeqDef
<1>3. Len(s) = m /\ Len(t) = n
    <2> HIDE DEF U
    <2>1. DOMAIN s = 1 .. m /\ DOMAIN t = 1 .. n
        BY <1>1
    <2>2. Len(s) \in Nat /\ DOMAIN s = 1 .. Len(s) /\ Len(t) \in Nat /\ DOMAIN t = 1 .. Len(t)
        BY <1>2, LenProperties
    <2> QED BY <2>1, <2>2
<1> DEFINE p == SubSeq(t, 1, m)
<1>4. p \in Seq(U) /\ Len(p) = m /\ \A k \in 1 .. m : p[k] = t[k]
    <2> HIDE DEF U
    <2>1. 1 \in 1 .. Len(t) + 1 /\ m \in 0 .. Len(t)
        BY <1>3
    <2>2. /\ SubSeq(t, 1, m) \in Seq(U) /\ Len(SubSeq(t, 1, m)) = IF 1 <= m THEN m - 1 + 1 ELSE 0
          /\ \A k \in 1 .. m - 1 + 1 : SubSeq(t, 1, m)[k] = t[1 + k - 1]
        BY <1>2, <2>1, SubSeqProperties
    <2> QED BY <2>2
<1>5. SubSeq(s, 1, m) = s
    <2> HIDE DEF U
    <2> QED BY <1>2, <1>3, SubSeqFull
<1>6. p = s
    <2> HIDE DEF U, p
    <2> QED BY <1>2, <1>3, <1>4, SeqEqual
<1> QED BY <1>3, <1>5, <1>6 DEF IsPrefix

LEMMA PlacesIs ==
    ASSUME NEW c \in Nat, NEW items, Listed(items, c)
    PROVE  /\ Listed(Places(items), c)
           /\ \A k \in 1 .. c : Places(items)[k] = items[k].at
<1>1. DOMAIN items = 1 .. c
    BY DEF Listed
<1> QED BY <1>1 DEF Places, Listed

\* A list is a function from the first numbers.
LEMMA ListIs ==
    ASSUME NEW s, IsList(s)
    PROVE  Len(s) \in Nat /\ Listed(s, Len(s))
<1>1. PICK S : s \in Seq(S)
    BY DEF IsList
<1> QED BY <1>1, LenProperties DEF Listed

LEMMA EndpointsOfIs ==
    ASSUME NEW d, NEW k
    PROVE  EndpointsOf(d, k) = [n \in 1 .. Cardinality(EndpointsIn(d, k)) |->
                                  Means(d, Nth(EndpointsIn(d, k), n), CS_ENDPOINT)]
    BY Zenon DEF EndpointsOf, EndpointsIn

\* The first endpoints of the interface.
LEMMA EndpointsBegin ==
    ASSUME NEW d, NEW b, Reads(d, b), NEW k \in 1 .. Len(d), d[k].type = INTERFACE,
           NEW it, IsInterface(b, d, it, k)
    PROVE  IsPrefix(Places(it.endpoints), Places(EndpointsOf(d, k)))
<1> DEFINE eps == it.endpoints
           all == EndpointsOf(d, k)
           F == EndpointsIn(d, k)
<1>1. PICK x \in Indexes(d) : /\ Audio(d, b, k, x)
                              /\ ItemsOf(b, d, eps, Found(d, b, k, x))
    BY DEF IsInterface
<1> DEFINE E == Found(d, b, k, x)
<1>2. /\ F \in SUBSET Nat /\ IsFiniteSet(F) /\ E \in SUBSET F
      /\ \A i \in E, e \in F : e <= i => e \in E
    <2>1. WellFormed(d)
        BY ReadsIs
    <2>2. F \in SUBSET Nat /\ IsFiniteSet(F)
        BY <2>1, EndpointsInIs
    <2> QED BY <1>1, <2>2, FoundInitial
<1> HIDE DEF E, F
<1>3. /\ IsFiniteSet(E) /\ Cardinality(E) <= Cardinality(F)
      /\ \A n \in 1 .. Cardinality(E) : Nth(F, n) = Nth(E, n)
    BY <1>2, NthInitial
<1>4. Cardinality(E) \in Nat /\ Cardinality(F) \in Nat
    BY <1>2, <1>3, FS_CardinalityType
<1>5. /\ Listed(eps, Cardinality(E))
      /\ \A n \in 1 .. Cardinality(E) : eps[n].at = StartOf(d, Nth(E, n))
    <2>1. Len(eps) = Cardinality(E) /\ IsList(eps)
        BY <1>1 DEF E, ItemsOf, IsInterface
    <2>2. \A n \in 1 .. Cardinality(E) : eps[n] = Item(b, StartOf(d, Nth(E, n)), CS_ENDPOINT)
        BY <1>1 DEF E, ItemsOf
    <2> HIDE DEF eps
    <2>3. ASSUME NEW n \in 1 .. Cardinality(E)
          PROVE  eps[n].at = StartOf(d, Nth(E, n))
        <3>1. \A o, t : Item(b, o, t).at = o
            BY DEF Item
        <3> QED BY <2>2, <3>1
    <2> QED BY <2>1, <2>3, ListIs
<1>6. /\ Listed(all, Cardinality(F))
      /\ \A n \in 1 .. Cardinality(F) : all[n].at = StartOf(d, Nth(F, n))
    <2>1. all = [n \in 1 .. Cardinality(F) |-> Means(d, Nth(F, n), CS_ENDPOINT)]
        BY EndpointsOfIs DEF F
    <2>2. \A i, t : Means(d, i, t).at = StartOf(d, i)
        BY DEF Means
    <2> HIDE DEF all
    <2> QED BY <2>1, <2>2 DEF Listed
<1> HIDE DEF eps, all
<1>7. /\ Listed(Places(eps), Cardinality(E))
      /\ \A n \in 1 .. Cardinality(E) : Places(eps)[n] = StartOf(d, Nth(E, n))
    BY <1>4, <1>5, PlacesIs
<1>8. /\ Listed(Places(all), Cardinality(F))
      /\ \A n \in 1 .. Cardinality(F) : Places(all)[n] = StartOf(d, Nth(F, n))
    BY <1>4, <1>6, PlacesIs
<1>9. \A n \in 1 .. Cardinality(E) : Places(eps)[n] = Places(all)[n]
    BY <1>3, <1>4, <1>7, <1>8
<1>10. IsPrefix(Places(eps), Places(all))
    BY <1>3, <1>4, <1>7, <1>8, <1>9, PrefixOf
<1> QED BY <1>10 DEF eps, all

\* The alternatives of the j-th interface.
AllOf(d, j) == {k \in IndexesOf(d, INTERFACE) : d[k].num = j - 1}

LEMMA AllOfFinite ==
    ASSUME NEW d, WellFormed(d), NEW j
    PROVE  AllOf(d, j) \in SUBSET Nat /\ IsFiniteSet(AllOf(d, j))
<1>1. Len(d) \in Nat /\ DOMAIN d = 1 .. Len(d) /\ IsFiniteSet(1 .. Len(d))
    BY WellFormedIs, FS_Interval
<1>2. AllOf(d, j) \in SUBSET (1 .. Len(d))
    BY <1>1 DEF AllOf, IndexesOf
<1> QED BY <1>1, <1>2, FS_Subset

LEMMA MeaningIs ==
    ASSUME NEW d, WellFormed(d), Regular(d)
    PROVE  /\ d[1].num \in Nat /\ Cardinality(Numbers(d)) = d[1].num
           /\ DOMAIN Meaning(d) = 1 .. d[1].num
           /\ \A j \in 1 .. d[1].num :
                 Meaning(d)[j] = [n \in 1 .. Cardinality(AllOf(d, j)) |->
                                    InterfaceOf(d, Nth(AllOf(d, j), n))]
<1> DEFINE m == d[1].num
           alternatives(j) == {k \in IndexesOf(d, INTERFACE) : d[k].num = Nth(Numbers(d), j)}
<1>1. m \in Nat
    BY WellFormedIs DEF Descriptors
<1>2. Numbers(d) = 0 .. (m - 1)
    BY DEF Regular
<1>3. Cardinality(Numbers(d)) = m
    <2> HIDE DEF m
    <2> QED BY <1>1, <1>2, FS_Interval
<1>4. ASSUME NEW j \in 1 .. m
      PROVE  alternatives(j) = AllOf(d, j)
    <2>1. Nth(Numbers(d), j) = j - 1
        <3> HIDE DEF m
        <3> QED BY <1>1, <1>2, NthFromZero
    <2> QED BY <2>1 DEF AllOf
<1>5. Meaning(d) = [j \in 1 .. Cardinality(Numbers(d)) |->
                      [n \in 1 .. Cardinality(alternatives(j)) |->
                         InterfaceOf(d, Nth(alternatives(j), n))]]
    BY Zenon DEF Meaning
<1> HIDE DEF alternatives, m
<1>6. Meaning(d) = [j \in 1 .. m |-> [n \in 1 .. Cardinality(alternatives(j)) |->
                                        InterfaceOf(d, Nth(alternatives(j), n))]]
    BY <1>3, <1>5
<1>7. \A j \in 1 .. m : Meaning(d)[j] = [n \in 1 .. Cardinality(AllOf(d, j)) |->
                                           InterfaceOf(d, Nth(AllOf(d, j), n))]
    <2> SUFFICES ASSUME NEW j \in 1 .. m
                 PROVE  Meaning(d)[j] = [n \in 1 .. Cardinality(AllOf(d, j)) |->
                                           InterfaceOf(d, Nth(AllOf(d, j), n))]
        OBVIOUS
    <2>1. Meaning(d)[j] = [n \in 1 .. Cardinality(alternatives(j)) |->
                             InterfaceOf(d, Nth(alternatives(j), n))]
        BY <1>6
    <2> QED BY <1>4, <2>1
<1>8. DOMAIN Meaning(d) = 1 .. m
    BY <1>6
<1> QED BY <1>1, <1>3, <1>7, <1>8 DEF m

\* What the parser gives, or overruns with, if it does not give up.
LEMMA ParsedIs ==
    ASSUME NEW d, WellFormed(d), NEW n \in 0 .. TotalLength(d), NEW next,
           NEW c, c = ParseConfig(d, n, next), c.ok \/ c.fault
    PROVE  \E found :
              /\ FoundAll(d, Buffer(d, n, next), found)
              /\ c.fault => Overruns(Buffer(d, n, next), found)
              /\ c.ok => /\ c.interfaces = MergeAlternateInterfaces(Buffer(d, n, next), found)
                         /\ Len(c.interfaces) = d[1].num
<1> DEFINE b == Buffer(d, n, next)
           q == MallocPool(MallocPoolCreate)
           init == [off |-> ConfigSize, pool |-> q, found |-> <<>>, ok |-> TRUE]
           s == ParseInterfaces(b, init)
           merged == MergeAlternateInterfaces(b, s.found)
           pool == MallocPoolN(s.pool, MergeBlocks(merged))
           all == MallocPool(pool)
<1>1. Reads(d, b) /\ b.turns \in Nat
    <2>1. Reads(d, b)
        BY BufferReads
    <2> HIDE DEF b
    <2> QED BY <2>1, ReadsIs
<1>2. ParserState(init)
    <2>1. q \in Pools
        BY CreateIn, MallocIn
    <2>2. IsList(<<>>)
        <3>1. <<>> \in Seq(Nat)
            OBVIOUS
        <3> QED BY <3>1 DEF IsList
    <2> HIDE DEF q
    <2>3. init.off = ConfigSize /\ init.pool = q /\ init.found = <<>> /\ init.ok = TRUE
        OBVIOUS
    <2>4. init = [off |-> init.off, pool |-> init.pool, found |-> init.found, ok |-> init.ok]
        BY <2>3, Zenon
    <2> HIDE DEF init
    <2> QED BY <2>1, <2>2, <2>3, <2>4 DEF ParserState
<1>3. init.off = ConfigSize /\ init.found = <<>>
    OBVIOUS
<1>4. \/ c = NoConfig(0)
      \/ c = NoConfig(s.pool.blocks - Freed(s.pool))
      \/ c = NoConfig(pool.blocks - Freed(pool))
      \/ c = Corrupt /\ s.ok /\ Overruns(b, s.found)
      \/ /\ c = [ok |-> TRUE, fault |-> FALSE, interfaces |-> merged, pool |-> all,
                 blocks |-> all.blocks]
         /\ s.ok /\ Len(merged) = d[1].num
    BY DEF ParseConfig
<1>5. (\A x : ~NoConfig(x).ok /\ ~NoConfig(x).fault) /\ ~Corrupt.ok
    BY DEF NoConfig, Corrupt
<1> HIDE DEF b, init, s, merged, pool, all
<1>6. /\ s.ok
      /\ c.fault => Overruns(b, s.found)
      /\ c.ok => c.interfaces = merged /\ Len(merged) = d[1].num
    BY <1>4, <1>5
<1>7. InterfacesAre(d, b, 2, init)
    BY <1>1, <1>3, BeginsBehind
<1>8. Goes(s)
    BY <1>6 DEF Goes
<1>9. FoundAll(d, b, s.found)
    BY <1>1, <1>2, <1>7, <1>8, InterfacesFound DEF s
<1> QED BY <1>6, <1>9 DEF merged, b

\* The interfaces of one number that have come are the first of them.
LEMMA AlternativesBegin ==
    ASSUME NEW d, NEW b, Reads(d, b), NEW j
    PROVE  /\ Alternatives(d, b, j) \in SUBSET AllOf(d, j)
           /\ \A i \in Alternatives(d, b, j), k \in AllOf(d, j) :
                 k <= i => k \in Alternatives(d, b, j)
<1>1. WellFormed(d) /\ DOMAIN d = 1 .. Len(d)
    BY ReadsIs, WellFormedIs
<1>2. Alternatives(d, b, j) \in SUBSET AllOf(d, j)
    BY <1>1 DEF Alternatives, Came, Arrived, AllOf, IndexesOf
<1>3. ASSUME NEW i \in Alternatives(d, b, j), NEW k \in AllOf(d, j), k <= i
      PROVE  k \in Alternatives(d, b, j)
    <2>1. i \in Arrived(d, b) /\ k \in 1 .. Len(d) /\ d[k].type = INTERFACE /\ d[k].num = j - 1
        BY <1>1 DEF Alternatives, Came, AllOf, IndexesOf
    <2>2. k \in Arrived(d, b)
        BY <1>3, <2>1, ArrivedBefore
    <2> QED BY <2>1, <2>2 DEF Alternatives, Came
<1> QED BY <1>2, <1>3

\* What the interfaces of A mean, and what the parser made of them.
MeantBy(d, A, means) ==
    means = [n \in 1 .. Cardinality(A) |-> InterfaceOf(d, Nth(A, n))]

ParsedFrom(d, b, A, items) ==
    /\ Listed(items, Cardinality(A))
    /\ \A n \in 1 .. Cardinality(A) : IsInterface(b, d, items[n], Nth(A, n))

LEMMA InterfacesBegin ==
    ASSUME NEW d, NEW b, Reads(d, b), NEW j,
           NEW items, ParsedFrom(d, b, Alternatives(d, b, j), items),
           NEW means, MeantBy(d, AllOf(d, j), means)
    PROVE  BeginsAs(items, means)
<1> DEFINE A == Alternatives(d, b, j)
           T == AllOf(d, j)
<1>1. /\ T \in SUBSET Nat /\ IsFiniteSet(T) /\ A \in SUBSET T
      /\ \A i \in A, k \in T : k <= i => k \in A
    <2>1. WellFormed(d)
        BY ReadsIs
    <2>2. T \in SUBSET Nat /\ IsFiniteSet(T)
        BY <2>1, AllOfFinite
    <2> QED BY <2>2, AlternativesBegin
<1>2. \A k \in T : k \in 1 .. Len(d) /\ d[k].type = INTERFACE
    BY ReadsIs, WellFormedIs DEF AllOf, IndexesOf
<1>3. /\ Listed(items, Cardinality(A))
      /\ \A n \in 1 .. Cardinality(A) : IsInterface(b, d, items[n], Nth(A, n))
      /\ means = [n \in 1 .. Cardinality(T) |-> InterfaceOf(d, Nth(T, n))]
    BY Zenon DEF ParsedFrom, MeantBy
<1> HIDE DEF A, T
<1>4. /\ IsFiniteSet(A) /\ Cardinality(A) <= Cardinality(T)
      /\ \A n \in 1 .. Cardinality(A) : Nth(T, n) = Nth(A, n)
    BY <1>1, NthInitial
<1>5. Cardinality(A) \in Nat /\ Cardinality(T) \in Nat
    BY <1>1, <1>4, FS_CardinalityType
<1>6. \A n \in 1 .. Cardinality(A) : Nth(A, n) \in A
    BY <1>1, <1>4, NthIs
<1>7. \A n \in 1 .. Cardinality(A) : items[n].at = StartOf(d, Nth(A, n))
    <2> SUFFICES ASSUME NEW n \in 1 .. Cardinality(A)
                 PROVE  items[n].at = StartOf(d, Nth(A, n))
        OBVIOUS
    <2>1. PICK it : it = items[n]
        OBVIOUS
    <2>2. PICK k : k = Nth(A, n)
        OBVIOUS
    <2>3. IsInterface(b, d, it, k)
        BY <1>3, <2>1, <2>2
    <2>4. it.at = StartOf(d, k)
        BY <2>3 DEF IsInterface
    <2> QED BY <2>1, <2>2, <2>4
<1>8. /\ Listed(means, Cardinality(T))
      /\ \A n \in 1 .. Cardinality(T) : /\ means[n].at = StartOf(d, Nth(T, n))
                                        /\ means[n].endpoints = EndpointsOf(d, Nth(T, n))
    <2>1. \A k : InterfaceOf(d, k).at = StartOf(d, k)
                 /\ InterfaceOf(d, k).endpoints = EndpointsOf(d, k)
        BY DEF InterfaceOf
    <2> QED BY <1>3, <2>1 DEF Listed
<1>9. /\ Listed(Places(items), Cardinality(A))
      /\ \A n \in 1 .. Cardinality(A) : Places(items)[n] = items[n].at
    BY <1>3, <1>5, PlacesIs
<1>10. /\ Listed(Places(means), Cardinality(T))
       /\ \A n \in 1 .. Cardinality(T) : Places(means)[n] = means[n].at
    BY <1>5, <1>8, PlacesIs
<1>11. \A n \in 1 .. Cardinality(A) : Places(items)[n] = Places(means)[n]
    BY <1>4, <1>5, <1>7, <1>8, <1>9, <1>10
<1>12. IsPrefix(Places(items), Places(means))
    BY <1>4, <1>5, <1>9, <1>10, <1>11, PrefixOf
<1>13. DOMAIN items = 1 .. Cardinality(A)
    BY <1>3 DEF Listed
<1>14. ASSUME NEW n \in 1 .. Cardinality(A)
       PROVE  IsPrefix(Places(items[n].endpoints), Places(means[n].endpoints))
    <2>1. PICK it : it = items[n]
        OBVIOUS
    <2>2. PICK k : k = Nth(A, n)
        OBVIOUS
    <2>3. IsInterface(b, d, it, k) /\ k \in A
        BY <1>3, <1>6, <2>1, <2>2
    <2>4. k \in 1 .. Len(d) /\ d[k].type = INTERFACE
        BY <1>1, <1>2, <2>3
    <2>5. IsPrefix(Places(it.endpoints), Places(EndpointsOf(d, k)))
        BY <2>3, <2>4, EndpointsBegin
    <2>6. n \in 1 .. Cardinality(T)
        BY <1>4, <1>5
    <2>7. means[n].endpoints = EndpointsOf(d, k)
        BY <1>4, <1>8, <2>2, <2>6
    <2> QED BY <2>1, <2>5, <2>7
<1> QED BY <1>12, <1>13, <1>14 DEF BeginsAs

LEMMA CutPrefix ==
    ASSUME NEW d, WellFormed(d), Regular(d), NEW n \in 0 .. TotalLength(d), NEW next,
           NEW c, c = ParseConfig(d, n, next), c.ok
    PROVE  /\ DOMAIN c.interfaces = DOMAIN Meaning(d)
           /\ \A j \in DOMAIN Meaning(d) : BeginsAs(c.interfaces[j], Meaning(d)[j])
<1>1. PICK b : b = Buffer(d, n, next)
    OBVIOUS
<1>2. PICK is : is = c.interfaces
    OBVIOUS
<1>3. PICK found : FoundAll(d, b, found) /\ is = MergeAlternateInterfaces(b, found)
                   /\ Len(is) = d[1].num
    BY <1>1, <1>2, ParsedIs
<1>4. Reads(d, b)
    BY <1>1, BufferReads
<1>5. MergedAs(d, b, is)
    BY <1>3, <1>4, Merged
<1>6. DOMAIN is = 1 .. d[1].num
    BY <1>3, MergeLength DEF FoundAll
<1>7. /\ DOMAIN Meaning(d) = 1 .. d[1].num
      /\ \A j \in 1 .. d[1].num : MeantBy(d, AllOf(d, j), Meaning(d)[j])
    BY MeaningIs DEF MeantBy
<1>8. ASSUME NEW j \in 1 .. d[1].num
      PROVE  BeginsAs(is[j], Meaning(d)[j])
    <2>1. ParsedFrom(d, b, Alternatives(d, b, j), is[j])
        BY <1>5, <1>6 DEF MergedAs, ParsedFrom, Listed
    <2> QED BY <1>4, <1>7, <2>1, InterfacesBegin
<1> QED BY <1>2, <1>6, <1>7, <1>8

LEMMA CutFits ==
    ASSUME NEW d, WellFormed(d), InOrder(d), NEW n \in 0 .. TotalLength(d), NEW next,
           NEW c, c = ParseConfig(d, n, next)
    PROVE  ~c.fault
<1> SUFFICES ASSUME c.fault
             PROVE  FALSE
    OBVIOUS
<1>1. PICK b : b = Buffer(d, n, next)
    OBVIOUS
<1>2. PICK found : FoundAll(d, b, found) /\ Overruns(b, found)
    BY <1>1, ParsedIs
<1>3. Reads(d, b)
    BY <1>1, BufferReads
<1> QED BY <1>2, <1>3, InOrderFits

\* Cut anywhere, a configuration is refused or parsed as its first interfaces and endpoints,
\* or, if its interfaces are not in order, it may make the parser overrun an array.
THEOREM AsPrefixHolds ==
    ASSUME NEW d, WellFormed(d), Regular(d)
    PROVE  AsPrefix(d)
<1>1. TotalLength(d) \in Nat
    <2>1. Len(d) + 1 \in Indexes(d)
        BY WellFormedIs DEF Indexes
    <2> QED BY <2>1, Starts DEF TotalLength
<1>2. \A n \in 0 .. TotalLength(d) - 1 : n \in 0 .. TotalLength(d)
    BY <1>1
<1>3. ASSUME NEW n \in 0 .. TotalLength(d) - 1, NEW next
      PROVE  LET config == ParseConfig(d, n, next)
             IN  /\ InOrder(d) => ~config.fault
                 /\ config.ok => /\ DOMAIN config.interfaces = DOMAIN Meaning(d)
                                 /\ \A j \in DOMAIN Meaning(d) :
                                       BeginsAs(config.interfaces[j], Meaning(d)[j])
    <2>1. PICK c : c = ParseConfig(d, n, next)
        OBVIOUS
    <2>2. InOrder(d) => ~c.fault
        BY <1>2, <2>1, CutFits
    <2>3. CASE c.ok
        BY <1>2, <2>1, <2>2, <2>3, CutPrefix
    <2>4. CASE ~c.ok
        BY <2>1, <2>2, <2>4
    <2> QED BY <2>3, <2>4
<1> QED BY <1>3, Zenon DEF AsPrefix

-----------------------------------------------------------------------------
(* What a configuration that has come whole is parsed as *)

\* The parser does not fail at an interface.
LEMMA InterfaceGoes ==
    ASSUME NEW d, NEW b, Whole(d, b), Regular(d), NEW x \in 1 .. Len(d), d[x].type = INTERFACE,
           NEW s, ParserState(s), s.off = StartOf(d, x), Goes(s)
    PROVE  Goes(ParseInterface(b, s))
<1>1. /\ Reads(d, b) /\ b.turns \in Nat /\ d[x].len >= InterfaceSize /\ x \in Indexes(d)
      /\ StartOf(d, x) < b.n
    BY ReadsIs, WellFormedIs, WholeIs DEF Whole
<1>2. ~(Left(b, s.off) < InterfaceSize)
    BY <1>1, WholeIs DEF Left, InterfaceSize
<1>3. PICK p : p = ParseInterface(b, s)
    OBVIOUS
<1>4. PICK inner, e :
          /\ ParserState(inner) /\ inner.off = Behind(b, s.off, CS_INTERFACE)
          /\ inner.found = <<>>
          /\ Goes(inner) <=> Goes(s)
          /\ ParserState(e) /\ e = ParseEndpoints(b, inner, b.at[s.off].neps)
          /\ p.off = e.off
          /\ Goes(p) <=> Goes(e)
          /\ p.found = Append(s.found,
                              [at |-> s.off, extras |-> Item(b, s.off, CS_INTERFACE).extras,
                               endpoints |-> e.found])
    BY <1>1, <1>2, <1>3, InterfaceIs
<1>5. PICK z : Follows(d, b, CS_INTERFACE, x, z) /\ inner.off = StartOf(d, z)
    BY <1>1, <1>4, BehindIs
<1>6. Counted(d, b, x, 0, inner)
    BY <1>4, <1>5, NoneCounted
<1>7. b.at[s.off].neps = d[x].neps
    BY <1>1 DEF Reads
<1>8. Goes(e)
    BY <1>4, <1>6, <1>7, EndpointsComplete
<1> QED BY <1>3, <1>4, <1>8

LEMMA TurnGoes ==
    ASSUME NEW d, NEW b, Whole(d, b), Regular(d), NEW x, NEW s, ParserState(s),
           InterfacesAre(d, b, x, s), Goes(s)
    PROVE  Goes(InterfaceTurn(b, s))
<1>1. /\ Reads(d, b) /\ s.off = StartOf(d, x) /\ x \in Indexes(d) /\ s.ok
      /\ StartOf(d, x) \in Nat /\ b.n \in Nat
    BY ReadsIs, Starts DEF Whole, InterfacesAre, Goes
<1>2. CASE s.off >= b.n
    BY <1>2 DEF InterfaceTurn
<1>3. CASE ~(s.off >= b.n) /\ TypeAt(b, s.off) = INTERFACE
    <2>1. x \in 1 .. Len(d)
        BY <1>1, <1>3, NextIndex
    <2>2. d[x].type = INTERFACE
        BY <1>1, <1>3, <2>1, WholeIs
    <2>3. InterfaceTurn(b, s) = ParseInterface(b, s)
        BY <1>1, <1>3 DEF InterfaceTurn
    <2> QED BY <1>1, <2>1, <2>2, <2>3, InterfaceGoes
<1>4. CASE ~(s.off >= b.n) /\ TypeAt(b, s.off) # INTERFACE
    <2>1. PICK p : p = [s EXCEPT !.off = s.off + LengthAt(b, s.off)]
        OBVIOUS
    <2>2. InterfaceTurn(b, s) = p
        BY <1>1, <1>4, <2>1 DEF InterfaceTurn
    <2>3. Goes(p) <=> Goes(s)
        BY <1>1, <1>4, <2>1, TurnPasses
    <2> QED BY <2>2, <2>3
<1> QED BY <1>2, <1>3, <1>4

LEMMA InterfacesGo ==
    ASSUME NEW d, NEW b, Whole(d, b), Regular(d), NEW s, ParserState(s), Goes(s),
           InterfacesAre(d, b, 2, s)
    PROVE  Goes(ParseInterfaces(b, s))
<1>1. Reads(d, b) /\ b.turns \in Nat
    BY ReadsIs DEF Whole
<1>2. PICK f : /\ f[0] = s /\ ParseInterfaces(b, s) = f[b.turns]
               /\ \A m \in Nat : m + 1 <= b.turns => f[m + 1] = InterfaceTurn(b, f[m])
    BY <1>1, InterfacesRuns
<1> DEFINE Good == {m \in Nat : m <= b.turns =>
                        /\ ParserState(f[m]) /\ Goes(f[m])
                        /\ \E x : InterfacesAre(d, b, x, f[m])}
<1>3. 0 \in Good
    BY <1>2
<1>4. ASSUME NEW m \in Nat, m \in Good, m + 1 <= b.turns
      PROVE  /\ ParserState(f[m + 1]) /\ Goes(f[m + 1])
             /\ \E x : InterfacesAre(d, b, x, f[m + 1])
    <2>1. ParserState(f[m]) /\ Goes(f[m])
        BY <1>1, <1>4
    <2>2. PICK x : InterfacesAre(d, b, x, f[m])
        BY <1>1, <1>4
    <2>3. f[m + 1] = InterfaceTurn(b, f[m])
        BY <1>2, <1>4
    <2>4. ParserState(f[m + 1])
        BY <1>1, <2>1, <2>3, TurnState
    <2>5. Goes(f[m + 1])
        BY <2>1, <2>2, <2>3, TurnGoes
    <2>6. \/ f[m + 1] = f[m]
          \/ \E y : x < y /\ InterfacesAre(d, b, y, f[m + 1])
        BY <1>1, <2>1, <2>2, <2>3, <2>5, TurnFound
    <2> QED BY <2>2, <2>4, <2>5, <2>6
<1>5. \A m \in Nat : m \in Good => m + 1 \in Good
    BY <1>4
<1>6. b.turns \in Good
    <2> HIDE DEF Good
    <2> QED BY <1>1, <1>3, <1>5, NumbersIn
<1> QED BY <1>1, <1>2, <1>6

\* The interfaces are counted before they are parsed.
CountRun(b, n, f) ==
    f = [k \in 0 .. n |-> IF k = 0 THEN [off |-> 0, count |-> 0] ELSE CountTurn(b, f[k - 1])]

LEMMA CountExists ==
    ASSUME NEW b, NEW n \in Nat
    PROVE  \E f : CountRun(b, n, f)
<1> DEFINE Is(m, f) == CountRun(b, m, f)
           Done == {m \in Nat : \E f : Is(m, f)}
           zero == [off |-> 0, count |-> 0]
<1>1. 0 \in Done
    <2>1. Is(0, [k \in 0 .. 0 |-> zero])
        BY DEF CountRun
    <2> HIDE DEF Is
    <2> QED BY <2>1
<1>2. ASSUME NEW m \in Nat, m \in Done
      PROVE  m + 1 \in Done
    <2>1. PICK f : Is(m, f)
        BY <1>2
    <2> DEFINE g == [k \in 0 .. m + 1 |-> IF k <= m THEN f[k] ELSE CountTurn(b, f[m])]
    <2>2. \A k \in 0 .. m : f[k] = IF k = 0 THEN zero ELSE CountTurn(b, f[k - 1])
        BY <2>1, Zenon DEF CountRun
    <2>3. ASSUME NEW k \in 0 .. m + 1
          PROVE  g[k] = IF k = 0 THEN zero ELSE CountTurn(b, g[k - 1])
        <3>1. CASE k <= m
            <4>1. k \in 0 .. m /\ (k # 0 => k - 1 \in 0 .. m + 1 /\ k - 1 <= m)
                BY <3>1
            <4>2. g[k] = f[k] /\ (k # 0 => g[k - 1] = f[k - 1])
                BY <3>1, <4>1
            <4> QED BY <2>2, <4>1, <4>2
        <3>2. CASE ~(k <= m)
            <4>1. k = m + 1 /\ k # 0 /\ k - 1 = m /\ m \in 0 .. m + 1 /\ m <= m
                BY <3>2
            <4>2. g[k] = CountTurn(b, f[m]) /\ g[k - 1] = f[m]
                BY <3>2, <4>1
            <4> QED BY <4>1, <4>2
        <3> QED BY <3>1, <3>2
    <2>4. Is(m + 1, g)
        <3>1. g = [k \in 0 .. m + 1 |-> g[k]]
            OBVIOUS
        <3> HIDE DEF g
        <3> QED BY <2>3, <3>1 DEF CountRun
    <2> HIDE DEF Is
    <2> QED BY <2>4
<1>3. \A m \in Nat : m \in Done => m + 1 \in Done
    BY <1>2
<1>4. n \in Done
    <2> HIDE DEF Done
    <2> QED BY <1>1, <1>3, NumbersIn
<1> QED BY <1>4

LEMMA CountRuns ==
    ASSUME NEW b, b.turns \in Nat
    PROVE  \E f : /\ f[0] = [off |-> 0, count |-> 0] /\ ConfigInterfaceCount(b) = f[b.turns].count
                  /\ \A m \in Nat : m + 1 <= b.turns => f[m + 1] = CountTurn(b, f[m])
<1> DEFINE zero == [off |-> 0, count |-> 0]
           f[k \in 0 .. b.turns] == IF k = 0 THEN zero ELSE CountTurn(b, f[k - 1])
<1>1. CountRun(b, b.turns, f)
    <2>1. \E g : CountRun(b, b.turns, g)
        BY CountExists
    <2> QED BY <2>1, Zenon DEF CountRun
<1>2. ConfigInterfaceCount(b) = f[b.turns].count
    BY DEF ConfigInterfaceCount
<1> HIDE DEF f
<1>3. \A k \in 0 .. b.turns : f[k] = IF k = 0 THEN zero ELSE CountTurn(b, f[k - 1])
    BY <1>1, Zenon DEF CountRun
<1>4. f[0] = zero
    BY <1>3
<1>5. ASSUME NEW m \in Nat, m + 1 <= b.turns
      PROVE  f[m + 1] = CountTurn(b, f[m])
    <2>1. m + 1 \in 0 .. b.turns /\ m + 1 # 0 /\ (m + 1) - 1 = m
        BY <1>5
    <2>2. f[m + 1] = CountTurn(b, f[(m + 1) - 1])
        BY <1>3, <2>1
    <2> QED BY <2>1, <2>2
<1> QED BY <1>2, <1>4, <1>5

LEMMA CountIs ==
    ASSUME NEW d, NEW b, Whole(d, b)
    PROVE  ConfigInterfaceCount(b) = Cardinality(Came(d, b))
<1> DEFINE C(m) == {i \in 1 .. m : d[i].type = INTERFACE}
<1>1. /\ Reads(d, b) /\ WellFormed(d) /\ b.turns \in Nat /\ b.turns = Len(d) /\ Len(d) \in Nat
    BY ReadsIs, WellFormedIs DEF Whole, Reads
<1>2. PICK f : /\ f[0] = [off |-> 0, count |-> 0]
               /\ ConfigInterfaceCount(b) = f[b.turns].count
               /\ \A m \in Nat : m + 1 <= b.turns => f[m + 1] = CountTurn(b, f[m])
    BY <1>1, CountRuns
<1> DEFINE Good == {m \in Nat : m <= b.turns => /\ f[m].off = StartOf(d, m + 1)
                                               /\ f[m].count = Cardinality(C(m))}
<1>3. 0 \in Good
    <2>1. f[0].off = 0 /\ f[0].count = 0
        BY <1>2
    <2>2. StartOf(d, 0 + 1) = 0
        BY <1>1, Starts
    <2>3. C(0) = {}
        OBVIOUS
    <2>4. Cardinality(C(0)) = 0
        BY <2>3, FS_EmptySet
    <2> HIDE DEF C
    <2> QED BY <2>1, <2>2, <2>4
<1>4. ASSUME NEW m \in Nat, m \in Good, m + 1 <= b.turns
      PROVE  /\ f[m + 1].off = StartOf(d, (m + 1) + 1)
             /\ f[m + 1].count = Cardinality(C(m + 1))
    <2>1. PICK k : k = m + 1
        OBVIOUS
    <2>2. PICK c : c = f[m]
        OBVIOUS
    <2>3. c.off = StartOf(d, k) /\ c.count = Cardinality(C(m)) /\ k \in 1 .. Len(d)
        BY <1>1, <1>4, <2>1, <2>2
    <2>4. /\ StartOf(d, k) \in Nat /\ b.n \in Nat /\ ~(StartOf(d, k) >= b.n) /\ k \in Indexes(d)
          /\ TypeAt(b, StartOf(d, k)) = d[k].type /\ StartOf(d, k) < b.n
        BY <2>3, WholeIs
    <2>5. StartOf(d, k) + LengthAt(b, StartOf(d, k)) = StartOf(d, k + 1)
        BY <1>1, <2>4, NextIndex
    <2>6. f[k] = CountTurn(b, c)
        BY <1>2, <1>4, <2>1, <2>2
    <2> HIDE DEF C
    <2>7. f[k] = [off |-> c.off + LengthAt(b, c.off),
                  count |-> c.count + IF TypeAt(b, c.off) = INTERFACE THEN 1 ELSE 0]
        BY <2>3, <2>4, <2>6 DEF CountTurn
    <2>8. f[k].off = StartOf(d, k + 1)
        BY <2>3, <2>5, <2>7
    <2>9. f[k].count = Cardinality(C(m)) + IF d[k].type = INTERFACE THEN 1 ELSE 0
        BY <2>3, <2>4, <2>7
    <2>10. IsFiniteSet(C(m)) /\ Cardinality(C(m)) \in Nat
        <3>1. IsFiniteSet(1 .. m) /\ C(m) \in SUBSET (1 .. m)
            BY FS_Interval DEF C
        <3> QED BY <3>1, FS_Subset, FS_CardinalityType
    <2>11. CASE d[k].type = INTERFACE
        <3>1. C(k) = C(m) \cup {k} /\ k \notin C(m)
            BY <2>1, <2>11 DEF C
        <3>2. Cardinality(C(m) \cup {k}) = Cardinality(C(m)) + 1
            BY <2>10, <3>1, FS_AddElement
        <3> QED BY <2>1, <2>8, <2>9, <2>11, <3>1, <3>2
    <2>12. CASE d[k].type # INTERFACE
        <3>1. C(k) = C(m)
            BY <2>1, <2>12 DEF C
        <3> QED BY <2>1, <2>8, <2>9, <2>10, <2>12, <3>1
    <2> QED BY <2>11, <2>12
<1>5. \A m \in Nat : m \in Good => m + 1 \in Good
    <2> HIDE DEF C
    <2> QED BY <1>4
<1>6. b.turns \in Good
    <2> HIDE DEF Good
    <2> QED BY <1>1, <1>3, <1>5, NumbersIn
<1>7. Came(d, b) = C(Len(d))
    <2>1. \A i \in 1 .. Len(d) : i \in Arrived(d, b)
        BY WholeIs
    <2> QED BY <2>1 DEF Came, Arrived
<1> HIDE DEF C
<1> QED BY <1>1, <1>2, <1>6, <1>7

\* An interface that was found with all of its endpoints is what it means.
LEMMA InterfaceMeant ==
    ASSUME NEW d, NEW b, Whole(d, b), Regular(d), NEW k \in 1 .. Len(d), d[k].type = INTERFACE,
           NEW it, IsInterface(b, d, it, k)
    PROVE  it = InterfaceOf(d, k)
<1> DEFINE E == EndpointsIn(d, k)
           eps == it.endpoints
<1>1. it = [at |-> StartOf(d, k), extras |-> Item(b, StartOf(d, k), CS_INTERFACE).extras,
            endpoints |-> eps]
    BY Zenon DEF IsInterface
<1>2. IsList(eps) /\ ItemsOf(b, d, eps, E)
    BY DEF IsInterface
<1>3. \A e \in E : e \in 1 .. Len(d)
    BY ReadsIs, EndpointsInIs DEF Whole
<1>4. IsFiniteSet(E) /\ E \in SUBSET Nat /\ Cardinality(E) \in Nat
    BY EndpointsCount
<1>5. Item(b, StartOf(d, k), CS_INTERFACE).extras = ExtrasOf(d, k, CS_INTERFACE)
    <2>1. Item(b, StartOf(d, k), CS_INTERFACE) = Means(d, k, CS_INTERFACE)
        BY ItemMeans
    <2> QED BY <2>1 DEF Means
<1> HIDE DEF E, eps
<1>6. eps = [n \in 1 .. Cardinality(E) |-> Means(d, Nth(E, n), CS_ENDPOINT)]
    <2>1. Listed(eps, Cardinality(E))
        BY <1>2, ListIs DEF ItemsOf
    <2>2. ASSUME NEW n \in 1 .. Cardinality(E)
          PROVE  eps[n] = Means(d, Nth(E, n), CS_ENDPOINT)
        <3>1. Nth(E, n) \in 1 .. Len(d)
            BY <1>3, <1>4, NthIs
        <3>2. eps[n] = Item(b, StartOf(d, Nth(E, n)), CS_ENDPOINT)
            BY <1>2 DEF ItemsOf
        <3> QED BY <3>1, <3>2, ItemMeans
    <2> QED BY <2>1, <2>2 DEF Listed
<1>7. eps = EndpointsOf(d, k)
    BY <1>6, EndpointsOfIs DEF E
<1> QED BY <1>1, <1>5, <1>7 DEF InterfaceOf

LEMMA MeantIs ==
    ASSUME NEW d, NEW b, Whole(d, b), Regular(d), NEW found, FoundAll(d, b, found),
           NEW merged, merged = MergeAlternateInterfaces(b, found)
    PROVE  merged = Meaning(d) /\ Len(merged) = d[1].num
<1> DEFINE N == {d[k].num : k \in Came(d, b)}
<1>1. Reads(d, b) /\ WellFormed(d) /\ DOMAIN d = 1 .. Len(d)
    BY ReadsIs, WellFormedIs DEF Whole
<1>2. Came(d, b) = IndexesOf(d, INTERFACE)
    <2>1. \A i \in 1 .. Len(d) : i \in Arrived(d, b)
        BY WholeIs
    <2> QED BY <1>1, <2>1 DEF Came, Arrived, IndexesOf
<1>3. N = Numbers(d)
    BY <1>2 DEF Numbers
<1>4. PICK n : n = d[1].num
    OBVIOUS
<1>5. /\ n \in Nat /\ Cardinality(Numbers(d)) = n /\ DOMAIN Meaning(d) = 1 .. n
      /\ \A j \in 1 .. n : Meaning(d)[j] = [i \in 1 .. Cardinality(AllOf(d, j)) |->
                                              InterfaceOf(d, Nth(AllOf(d, j), i))]
    BY <1>1, <1>4, MeaningIs
<1>6. MergedAs(d, b, merged)
    BY <1>1, Merged
<1>7. DOMAIN merged = 1 .. n
    <2>1. n <= Cardinality(Came(d, b)) /\ Cardinality(Came(d, b)) \in Nat
        BY <1>1, <1>3, <1>5, NumbersCounted
    <2>2. N = 0 .. (n - 1)
        BY <1>3, <1>4 DEF Regular
    <2>3. \A j : Alternatives(d, b, j) # {} <=> \E k \in Came(d, b) : d[k].num = j - 1
        BY DEF Alternatives
    <2>4. \A j : j \in Uniques(d, b) <=> j \in 1 .. Cardinality(Came(d, b)) /\ j - 1 \in N
        BY <2>3 DEF Uniques
    <2> HIDE DEF N
    <2>5. Uniques(d, b) = 1 .. n
        <3>1. \A j \in Int : j \in 1 .. Cardinality(Came(d, b)) /\ j - 1 \in N
                              <=> j \in 1 .. n
            BY <1>5, <2>1, <2>2
        <3>2. Uniques(d, b) \in SUBSET Int /\ 1 .. n \in SUBSET Int
            BY <2>1, <1>5 DEF Uniques
        <3> QED BY <2>4, <3>1, <3>2
    <2>6. Cardinality(1 .. n) = n
        BY <1>5, FS_Interval
    <2> QED BY <1>6, <2>5, <2>6 DEF MergedAs
<1>8. Len(merged) \in Nat /\ DOMAIN merged = 1 .. Len(merged)
    BY MergeLength DEF FoundAll
<1>9. Len(merged) = n
    BY <1>5, <1>7, <1>8
<1>10. ASSUME NEW j \in 1 .. n
       PROVE  merged[j] = Meaning(d)[j]
    <2> DEFINE A == AllOf(d, j)
    <2>1. Alternatives(d, b, j) = A
        BY <1>2 DEF Alternatives, AllOf
    <2>2. \A k \in A : k \in 1 .. Len(d) /\ d[k].type = INTERFACE
        BY <1>1 DEF AllOf, IndexesOf
    <2>3. A \in SUBSET Nat /\ IsFiniteSet(A)
        BY <1>1, AllOfFinite
    <2>4. /\ merged[j] = [i \in 1 .. Cardinality(A) |-> merged[j][i]]
          /\ \A i \in 1 .. Cardinality(A) : IsInterface(b, d, merged[j][i], Nth(A, i))
        BY <1>6, <1>7, <2>1 DEF MergedAs
    <2>5. Meaning(d)[j] = [i \in 1 .. Cardinality(A) |-> InterfaceOf(d, Nth(A, i))]
        BY <1>5
    <2> HIDE DEF A
    <2>6. ASSUME NEW i \in 1 .. Cardinality(A)
          PROVE  merged[j][i] = InterfaceOf(d, Nth(A, i))
        <3>1. Nth(A, i) \in A
            BY <2>3, NthIs
        <3> QED BY <2>2, <2>4, <3>1, InterfaceMeant
    <2> QED BY <2>4, <2>5, <2>6
<1>11. merged = [j \in 1 .. n |-> merged[j]] /\ Meaning(d) = [j \in 1 .. n |-> Meaning(d)[j]]
    <2>1. merged = [j \in 1 .. n |-> merged[j]]
        <3>1. merged = [j \in DOMAIN merged |-> merged[j]]
            BY Zenon DEF MergeAlternateInterfaces
        <3> QED BY <1>7, <3>1
    <2>2. Meaning(d) = [j \in 1 .. n |-> Meaning(d)[j]]
        <3>1. Meaning(d) = [j \in DOMAIN Meaning(d) |-> Meaning(d)[j]]
            BY Zenon DEF Meaning
        <3> QED BY <1>5, <3>1
    <2> QED BY <2>1, <2>2
<1> QED BY <1>4, <1>9, <1>10, <1>11

LEMMA WholeFits ==
    ASSUME NEW d, NEW b, Whole(d, b), Regular(d), NEW found, FoundAll(d, b, found)
    PROVE  ~Overruns(b, found)
<1> SUFFICES ASSUME NEW i \in ToSet(found), NumberOf(b, i) >= Len(found)
             PROVE  FALSE
    BY DEF Overruns
<1> DEFINE C == Came(d, b)
           N == {d[k].num : k \in C}
<1>1. Reads(d, b) /\ WellFormed(d) /\ DOMAIN d = 1 .. Len(d)
    BY ReadsIs, WellFormedIs DEF Whole
<1>2. N = Numbers(d)
    <2>1. \A j \in 1 .. Len(d) : j \in Arrived(d, b)
        BY WholeIs
    <2>2. C = IndexesOf(d, INTERFACE)
        BY <1>1, <2>1 DEF Came, Arrived, IndexesOf
    <2> QED BY <2>2 DEF Numbers
<1>3. PICK n : n = d[1].num
    OBVIOUS
<1>4. n \in Nat /\ N = 0 .. (n - 1) /\ Cardinality(N) = n
    BY <1>1, <1>2, <1>3, MeaningIs DEF Regular
<1>5. n <= Cardinality(C) /\ Cardinality(C) \in Nat
    BY <1>1, <1>4, NumbersCounted
<1>6. NumberOf(b, i) \in N
    BY <1>1, FoundNumber
<1>7. NumberOf(b, i) >= Cardinality(C)
    BY DEF FoundAll
<1> HIDE DEF N, C
<1> QED BY <1>4, <1>5, <1>6, <1>7

LEMMA WholeParsed ==
    ASSUME NEW d, WellFormed(d), Regular(d), NEW next,
           NEW c, c = ParseConfig(d, TotalLength(d), next)
    PROVE  c.ok /\ c.interfaces = Meaning(d)
<1> DEFINE n == TotalLength(d)
           b == Buffer(d, n, next)
           q == MallocPool(MallocPoolCreate)
           init == [off |-> ConfigSize, pool |-> q, found |-> <<>>, ok |-> TRUE]
           s == ParseInterfaces(b, init)
           merged == MergeAlternateInterfaces(b, s.found)
           pool == MallocPoolN(s.pool, MergeBlocks(merged))
           all == MallocPool(pool)
           whole == [ok |-> TRUE, fault |-> FALSE, interfaces |-> merged, pool |-> all,
                     blocks |-> all.blocks]
<1>1. /\ Len(d) \in Nat \ {0} /\ d[1].type = CONFIG /\ d[1].len = ConfigSize
      /\ 1 \in Indexes(d) /\ Len(d) + 1 \in Indexes(d)
    BY WellFormedIs DEF WellFormed, Indexes
<1>2. n \in Nat /\ ~(n < ConfigSize)
    <2> DEFINE z == Len(d) + 1
    <2>1. 1 < z /\ z \in Indexes(d) /\ n = StartOf(d, z)
        BY <1>1 DEF TotalLength
    <2> HIDE DEF z, n
    <2>2. StartOf(d, 1) + d[1].len <= StartOf(d, z) /\ StartOf(d, 1) = 0 /\ StartOf(d, z) \in Nat
        BY <1>1, <2>1, StartLess, Starts
    <2> QED BY <1>1, <2>1, <2>2 DEF ConfigSize
<1>3. Whole(d, b)
    <2>1. n \in 0 .. n
        BY <1>2
    <2>2. Reads(d, b)
        BY <2>1, BufferReads
    <2>3. b.n = n
        BY DEF Buffer
    <2> HIDE DEF b
    <2> QED BY <2>2, <2>3 DEF Whole, TotalLength
<1>4. ParserState(init) /\ Goes(init) /\ init.off = ConfigSize /\ init.found = <<>>
    <2>1. q \in Pools
        BY CreateIn, MallocIn
    <2>2. IsList(<<>>)
        <3>1. <<>> \in Seq(Nat)
            OBVIOUS
        <3> QED BY <3>1 DEF IsList
    <2> HIDE DEF q
    <2>3. init.off = ConfigSize /\ init.pool = q /\ init.found = <<>> /\ init.ok = TRUE
        OBVIOUS
    <2>4. init = [off |-> init.off, pool |-> init.pool, found |-> init.found, ok |-> init.ok]
        BY <2>3, Zenon
    <2> HIDE DEF init
    <2> QED BY <2>1, <2>2, <2>3, <2>4 DEF ParserState, Goes
<1>5. c = IF n < ConfigSize \/ d[1].type # CONFIG THEN NoConfig(0)
          ELSE IF ~s.ok \/ Len(s.found) # ConfigInterfaceCount(b)
          THEN NoConfig(s.pool.blocks - Freed(s.pool))
          ELSE IF Overruns(b, s.found) THEN Corrupt
          ELSE IF Len(merged) # d[1].num THEN NoConfig(pool.blocks - Freed(pool))
          ELSE whole
    BY Zenon DEF ParseConfig
<1>6. whole.ok /\ whole.interfaces = merged
    OBVIOUS
<1> HIDE DEF n, b, init, s, merged, pool, all, whole
<1>7. Reads(d, b) /\ b.turns \in Nat
    BY <1>3, ReadsIs DEF Whole
<1>8. InterfacesAre(d, b, 2, init)
    BY <1>4, <1>7, BeginsBehind
<1>9. Goes(s)
    BY <1>3, <1>4, <1>8, InterfacesGo DEF s
<1>10. FoundAll(d, b, s.found)
    BY <1>4, <1>7, <1>8, <1>9, InterfacesFound DEF s
<1>11. Len(s.found) = ConfigInterfaceCount(b)
    BY <1>3, <1>10, CountIs DEF FoundAll
<1>12. merged = Meaning(d) /\ Len(merged) = d[1].num
    BY <1>3, <1>10, MeantIs DEF merged
<1>13. ~Overruns(b, s.found)
    BY <1>3, <1>10, WholeFits
<1>14. c = whole
    BY <1>1, <1>2, <1>5, <1>9, <1>11, <1>12, <1>13 DEF Goes
<1> QED BY <1>6, <1>12, <1>14

\* What came whole is parsed as what its descriptors mean.
THEOREM AsMeantHolds ==
    ASSUME NEW d, WellFormed(d), Regular(d)
    PROVE  AsMeant(d)
<1>1. ASSUME NEW next
      PROVE  LET config == ParseConfig(d, TotalLength(d), next)
             IN  config.ok /\ config.interfaces = Meaning(d)
    <2>1. PICK c : c = ParseConfig(d, TotalLength(d), next)
        OBVIOUS
    <2>2. c.ok /\ c.interfaces = Meaning(d)
        BY <2>1, WholeParsed
    <2> QED BY <2>1, <2>2
<1> QED BY <1>1, Zenon DEF AsMeant

=============================================================================
