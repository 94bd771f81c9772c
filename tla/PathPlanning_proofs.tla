-------------------------- MODULE PathPlanning_proofs --------------------------
(***************************************************************************)
(* Planned paths for every set of batteries, mappings and distances, every *)
(* limit, and every lens and perspective: nothing is assumed of them but   *)
(* that their numbers are integers, a distance is positive, and different  *)
(* corners are seen at different places of the board.                      *)
(*                                                                         *)
(* The first part is about the algorithms, whose parameters are values and *)
(* not variables: sums, places in a sorted sequence, integer square roots, *)
(* angular order, rotation to the start pose, samples of an edge.          *)
(* The second is one invariant per property, each about the walk of the    *)
(* batteries as far as it has come:                                        *)
(*   Types, Places     the points found so far lie on edges that exist;    *)
(*   Foretold          accepted waypoints are those the check found good;  *)
(*   BehindIsMeasured  a corner that was passed has a point, or the next   *)
(*                     corner that differs will have it;                   *)
(*   Seen              corners are where clients see some, and on the      *)
(*                     board while the mapping that measured them stays;   *)
(*   Counted           the path is as long as the counts of the edges      *)
(*                     passed, a partial sum of what the batteries need;   *)
(*   Spaced            every point is at its part of its edge, and the     *)
(*                     last one next to the edge that follows;             *)
(*   Toured            batteries are walked around from a nearest corner.  *)
(* The last one rests on the geometry of convex batteries: seen from the   *)
(* mean of the corners, no corner is between one and the next on the       *)
(* perimeter, so that sorting by the angle finds the perimeter.            *)
(***************************************************************************)
EXTENDS PathPlanning, FiniteSetTheorems, TLAPS

-----------------------------------------------------------------------------
(* Least numbers, sums and sorted sequences.                               *)

LEMMA LeastNat ==
  ASSUME NEW S \in SUBSET Nat, S # {}
  PROVE  \E n \in S : \A m \in S : n <= m
<1> DEFINE Less == {ss \in Nat \X Nat : ss[1] < ss[2]}
<1>1. OpToRel(<, Nat) = Less
  BY Zenon DEF OpToRel
<1>2. IsWellFoundedOn(Less, Nat)
  BY <1>1, NatLessThanWellFounded
<1> HIDE DEF Less
<1>3. \E n \in S : \A m \in S : ~(<<m, n>> \in Less)
  BY <1>2, WFMin
<1>4. \A m, n \in Nat : <<m, n>> \in Less <=> m < n
  BY DEF Less
<1>5. PICK n \in S : \A m \in S : ~(<<m, n>> \in Less)
  BY <1>3
<1>6. ASSUME NEW m \in S PROVE n <= m
  <2>1. ~(m < n)
    BY <1>4, <1>5, <1>6
  <2> QED
    BY <2>1
<1> QED
  BY <1>6

\* P holds the sums of the first values of f.
ArePartialSums(P, f, n) ==
  /\ P \in [0..n -> Int] /\ P[0] = 0
  /\ \A k \in 1..n : P[k] = P[k - 1] + f[k]

\* The sum of integers is what adding them one by one gives. The fold is a recursive function
\* on the subsets of the indices: such a function exists on the sets of at most k indices for
\* every k, and it does not matter which index is taken from a set.
LEMMA SumIsPartialSum ==
  ASSUME NEW n \in Nat, NEW f \in [1..n -> Int]
  PROVE  \E P : ArePartialSums(P, f, n) /\ SumFunction(f) = P[n]
<1> DEFINE Sets    == SUBSET (1..n)
           Small(k) == {T \in Sets : Cardinality(T) <= k}
           pick(T) == CHOOSE x \in T : TRUE
           Body(g, T) == IF T = {} THEN 0 ELSE f[pick(T)] + g[T \ {pick(T)}]
           Good(g, k) == g \in [Small(k) -> Int] /\ \A T \in Small(k) : g[T] = Body(g, T)
<1>1. \A T \in Sets : Cardinality(T) \in 0..n /\ (Cardinality(T) = 0 <=> T = {})
  <2> SUFFICES ASSUME NEW T \in Sets
               PROVE  Cardinality(T) \in 0..n /\ (Cardinality(T) = 0 <=> T = {})
    OBVIOUS
  <2>1. IsFiniteSet(1..n) /\ Cardinality(1..n) = n
    BY FS_Interval
  <2>2. T \in SUBSET (1..n)
    OBVIOUS
  <2>3. IsFiniteSet(T) /\ Cardinality(T) <= Cardinality(1..n)
    BY <2>1, <2>2, FS_Subset, Zenon
  <2>4. Cardinality(T) \in Nat /\ (Cardinality(T) = 0 <=> T = {})
    BY <2>3, FS_CardinalityType, FS_EmptySet, Zenon
  <2> QED
    BY <2>1, <2>3, <2>4
<1>2. \A T \in Sets : T # {} =>
        /\ pick(T) \in T /\ pick(T) \in 1..n
        /\ T \ {pick(T)} \in Sets
        /\ Cardinality(T \ {pick(T)}) = Cardinality(T) - 1
  <2> SUFFICES ASSUME NEW T \in Sets, T # {}
               PROVE  /\ pick(T) \in T /\ pick(T) \in 1..n
                      /\ T \ {pick(T)} \in Sets
                      /\ Cardinality(T \ {pick(T)}) = Cardinality(T) - 1
    OBVIOUS
  <2>1. pick(T) \in T
    OBVIOUS
  <2> HIDE DEF pick
  <2>2. IsFiniteSet(T)
    <3>1. IsFiniteSet(1..n) /\ T \in SUBSET (1..n)
      BY FS_Interval
    <3> QED
      BY <3>1, FS_Subset, Zenon
  <2> QED
    BY <2>1, <2>2, FS_RemoveElement
<1> HIDE DEF pick
<1>3. \A k \in Nat : \E g : Good(g, k)
  <2> DEFINE Bad == {k \in Nat : ~\E g : Good(g, k)}
  <2>1. SUFFICES ASSUME Bad # {} PROVE FALSE
    OBVIOUS
  <2>2. PICK k \in Bad : \A m \in Bad : k <= m
    BY <2>1, LeastNat
  <2>3. k # 0
    <3>1. SUFFICES ASSUME k = 0 PROVE FALSE
      OBVIOUS
    <3> DEFINE g == [T \in Small(0) |-> 0]
    <3>2. \A T \in Small(0) : T = {}
      BY <1>1
    <3>3. Good(g, 0)
      BY <3>2
    <3> QED
      BY <2>2, <3>1, <3>3
  <2>4. k \in Nat /\ k - 1 \in Nat /\ k - 1 \notin Bad
    <3>1. k \in Nat
      BY <2>2
    <3> HIDE DEF Bad
    <3> QED
      BY <2>2, <2>3, <3>1
  <2>5. PICK g : Good(g, k - 1)
    BY <2>4
  <2> DEFINE h == [T \in Small(k) |-> Body(g, T)]
  <2>6. ASSUME NEW T \in Small(k), T # {}
        PROVE  T \ {pick(T)} \in Small(k - 1) /\ T \ {pick(T)} \in Small(k)
    <3>1. T \in Sets /\ Cardinality(T) <= k /\ Cardinality(T) \in Nat
      BY <1>1, <2>6
    <3>2. T \ {pick(T)} \in Sets /\ Cardinality(T \ {pick(T)}) = Cardinality(T) - 1
      BY <1>2, <2>6, <3>1
    <3> HIDE DEF Sets
    <3> QED
      BY <2>4, <3>1, <3>2
  <2>7. \A T \in Small(k - 1) : T \in Small(k) /\ h[T] = g[T]
    <3> SUFFICES ASSUME NEW T \in Small(k - 1) PROVE T \in Small(k) /\ h[T] = g[T]
      OBVIOUS
    <3>1. T \in Sets /\ Cardinality(T) <= k - 1 /\ Cardinality(T) \in Nat
      BY <1>1
    <3>2. T \in Small(k)
      BY <2>4, <3>1
    <3>3. g[T] = Body(g, T)
      BY <2>5
    <3> QED
      BY <3>2, <3>3
  <2>8. ASSUME NEW T \in Small(k) PROVE h[T] \in Int /\ h[T] = Body(h, T)
    <3>1. CASE T = {}
      BY <3>1
    <3>2. CASE T # {}
      <4>1. g[T \ {pick(T)}] \in Int /\ h[T \ {pick(T)}] = g[T \ {pick(T)}]
        BY <2>5, <2>6, <2>7, <3>2
      <4>2. f[pick(T)] \in Int
        BY <1>2, <3>2
      <4>3. h[T] = f[pick(T)] + g[T \ {pick(T)}] /\ Body(h, T) = f[pick(T)] + h[T \ {pick(T)}]
        BY <3>2
      <4> HIDE DEF h
      <4> QED
        BY <4>1, <4>2, <4>3
    <3> QED
      BY <3>1, <3>2
  <2>9. Good(h, k)
    BY <2>8
  <2> QED
    BY <2>2, <2>9
<1> DEFINE Iter(g) == g = [T \in Sets |-> Body(g, T)]
           iter == CHOOSE g : Iter(g)
<1>4. Small(n) = Sets
  BY <1>1
<1>5. \E g : Iter(g)
  <2>1. PICK g : Good(g, n)
    BY <1>3
  <2>2. Iter(g)
    BY <1>4, <2>1
  <2> QED
    BY <2>2
<1>6. Iter(iter)
  BY <1>5
<1>7. SumFunction(f) = iter[1..n]
  BY DEF SumFunction, SumFunctionOnSet, FoldFunctionOnSet, MapThenFoldSet, pick
<1> HIDE DEF iter
<1>8. \A T \in Sets : iter[T] \in Int
  <2> DEFINE Bad == {k \in Nat : \E T \in Sets : Cardinality(T) = k /\ iter[T] \notin Int}
  <2>1. SUFFICES ASSUME Bad # {} PROVE FALSE
    BY <1>1
  <2>2. PICK k \in Bad : \A m \in Bad : k <= m
    BY <2>1, LeastNat
  <2>3. PICK T \in Sets : Cardinality(T) = k /\ iter[T] \notin Int
    BY <2>2
  <2>4. T # {}
    BY <1>6, <2>3
  <2>5. iter[T \ {pick(T)}] \in Int
    <3>1. /\ k \in 0..n /\ T \ {pick(T)} \in Sets
          /\ Cardinality(T \ {pick(T)}) = k - 1 /\ k - 1 \in Nat
      <4> HIDE DEF Sets, Bad
      <4>1. k \in 0..n /\ k # 0
        BY <1>1, <2>3, <2>4
      <4>2. T \ {pick(T)} \in Sets /\ Cardinality(T \ {pick(T)}) = k - 1
        BY <1>2, <2>3, <2>4
      <4> QED
        BY <4>1, <4>2
    <3>2. k - 1 \notin Bad
      <4> HIDE DEF Bad
      <4> QED
        BY <2>2, <3>1
    <3> DEFINE less == T \ {pick(T)}
    <3>3. less \in Sets /\ Cardinality(less) = k - 1
      BY <3>1
    <3> HIDE DEF less, Sets
    <3>4. iter[less] \in Int
      BY <3>1, <3>2, <3>3
    <3> QED
      BY <3>4 DEF less
  <2>6. f[pick(T)] \in Int
    BY <1>2, <2>4
  <2>7. iter[T] = f[pick(T)] + iter[T \ {pick(T)}]
    BY <1>6, <2>4
  <2> QED
    BY <2>3, <2>5, <2>6, <2>7
<1>9. \A T \in Sets : \A x \in T : iter[T] = f[x] + iter[T \ {x}]
  <2> DEFINE Bad == {k \in Nat : \E T \in Sets : /\ Cardinality(T) = k
                                                  /\ \E x \in T : iter[T] # f[x] + iter[T \ {x}]}
  <2>1. SUFFICES ASSUME Bad # {} PROVE FALSE
    <3> SUFFICES ASSUME NEW T \in Sets, NEW x \in T, iter[T] # f[x] + iter[T \ {x}]
                 PROVE  Bad # {}
      OBVIOUS
    <3>1. Cardinality(T) \in Nat
      BY <1>1
    <3>2. Cardinality(T) \in Bad
      BY <3>1
    <3> QED
      BY <3>2
  <2>2. PICK k \in Bad : \A m \in Bad : k <= m
    BY <2>1, LeastNat
  <2>3. PICK T \in Sets : Cardinality(T) = k /\ \E x \in T : iter[T] # f[x] + iter[T \ {x}]
    BY <2>2
  <2>4. PICK x \in T : iter[T] # f[x] + iter[T \ {x}]
    BY <2>3
  <2> DEFINE y == pick(T)
  <2>5. T # {} /\ y \in T /\ iter[T] = f[y] + iter[T \ {y}] /\ x # y
    <3>1. T # {} /\ y \in T
      BY <1>2, <2>3, <2>4
    <3>2. iter[T] = f[y] + iter[T \ {y}]
      BY <1>6, <3>1
    <3> QED
      BY <2>4, <3>1, <3>2
  <2> HIDE DEF y
  <2>6. \A z \in T : /\ T \ {z} \in Sets
                     /\ \A w \in T \ {z} : iter[T \ {z}] = f[w] + iter[(T \ {z}) \ {w}]
    <3> SUFFICES ASSUME NEW z \in T
                 PROVE  /\ T \ {z} \in Sets
                        /\ \A w \in T \ {z} : iter[T \ {z}] = f[w] + iter[(T \ {z}) \ {w}]
      OBVIOUS
    <3>1. IsFiniteSet(1..n) /\ T \in SUBSET (1..n) /\ T \ {z} \in Sets
      BY FS_Interval
    <3>2. Cardinality(T \ {z}) = k - 1 /\ k - 1 \in Nat
      <4>1. IsFiniteSet(T)
        BY <3>1, FS_Subset, Zenon
      <4>2. Cardinality(T \ {z}) = k - 1
        BY <2>3, <4>1, FS_RemoveElement
      <4>3. Cardinality(T \ {z}) \in Nat
        BY <1>1, <3>1
      <4> QED
        BY <4>2, <4>3
    <3>3. k - 1 \notin Bad
      <4>1. k \in Nat
        BY <2>2
      <4> HIDE DEF Bad
      <4> QED
        BY <2>2, <3>2, <4>1
    <3> DEFINE less == T \ {z}
    <3>4. less \in Sets /\ Cardinality(less) = k - 1
      BY <3>1, <3>2
    <3> HIDE DEF less, Sets
    <3>5. \A w \in less : iter[less] = f[w] + iter[less \ {w}]
      BY <3>2, <3>3, <3>4
    <3> QED
      BY <3>1, <3>5 DEF less
  <2>7. (T \ {x}) \ {y} = (T \ {y}) \ {x}
    OBVIOUS
  <2> DEFINE both == (T \ {x}) \ {y}
  <2>8. iter[T \ {x}] = f[y] + iter[both] /\ iter[T \ {y}] = f[x] + iter[both]
    <3>1. x \in T /\ y \in T /\ y \in T \ {x} /\ x \in T \ {y}
      BY <2>5
    <3>2. \A z \in T : \A w \in T \ {z} : iter[T \ {z}] = f[w] + iter[(T \ {z}) \ {w}]
      BY <2>6
    <3>3. iter[T \ {x}] = f[y] + iter[both]
      BY <3>1, <3>2, Zenon
    <3>4. iter[T \ {y}] = f[x] + iter[(T \ {y}) \ {x}]
      BY <3>1, <3>2, Zenon
    <3> QED
      BY <2>7, <3>3, <3>4, Zenon
  <2>9. both \in Sets
    OBVIOUS
  <2> HIDE DEF both
  <2>10. iter[both] \in Int /\ f[x] \in Int /\ f[y] \in Int
    BY <1>8, <2>5, <2>9
  <2> QED
    BY <2>4, <2>5, <2>8, <2>10
<1> DEFINE P == [k \in 0..n |-> iter[1..k]]
<1>10. \A k \in 0..n : 1..k \in Sets
  OBVIOUS
<1>11. P \in [0..n -> Int] /\ P[0] = 0 /\ P[n] = SumFunction(f)
  <2>1. \A k \in 0..n : iter[1..k] \in Int
    BY <1>8, <1>10
  <2>2. iter[{}] = 0
    BY <1>6
  <2>3. 1..0 = {}
    OBVIOUS
  <2> HIDE DEF Sets
  <2> QED
    BY <1>7, <2>1, <2>2, <2>3
<1>12. ASSUME NEW k \in 1..n PROVE P[k] = P[k - 1] + f[k]
  <2>1. k \in 1..k /\ 1..k \in Sets /\ (1..k) \ {k} = 1..(k - 1) /\ k - 1 \in 0..n /\ k \in 0..n
    BY <1>10
  <2>2. iter[1..k] = f[k] + iter[1..(k - 1)]
    BY <1>9, <2>1
  <2>3. iter[1..(k - 1)] \in Int /\ f[k] \in Int
    BY <1>8, <1>10, <2>1
  <2> QED
    BY <2>1, <2>2, <2>3
<1> HIDE DEF P
<1> QED
  BY <1>11, <1>12 DEF ArePartialSums

LEMMA SumIsInt ==
  ASSUME NEW n \in Nat, NEW f \in [1..n -> Int]
  PROVE  SumFunction(f) \in Int
<1>1. PICK P : ArePartialSums(P, f, n) /\ SumFunction(f) = P[n]
  BY SumIsPartialSum
<1> QED
  BY <1>1 DEF ArePartialSums

\* Sums of naturals do not fall.
LEMMA PartialSumsGrow ==
  ASSUME NEW n \in Nat, NEW f \in [1..n -> Nat], NEW P, ArePartialSums(P, f, n),
         NEW a \in 0..n
  PROVE  P[a] <= P[n]
<1> USE DEF ArePartialSums
<1> DEFINE Bad == {d \in Nat : d <= n /\ P[n - d] > P[n]}
<1>1. SUFFICES ASSUME Bad # {} PROVE FALSE
  <2> SUFFICES ASSUME ~(P[a] <= P[n]) PROVE n - a \in Bad
    OBVIOUS
  <2>1. n - a \in Nat /\ n - a <= n /\ n - (n - a) = a /\ P[a] \in Int /\ P[n] \in Int
    OBVIOUS
  <2>2. P[n - (n - a)] = P[a]
    BY <2>1
  <2> QED
    BY <2>1, <2>2
<1>2. PICK d \in Bad : \A e \in Bad : d <= e
  BY <1>1, LeastNat
<1>3. d \in Nat /\ d <= n /\ P[n - d] > P[n] /\ P[n] \in Int
  BY <1>2
<1>4. d # 0
  BY <1>3
<1>5. d - 1 \in Nat /\ d - 1 <= n /\ d - 1 \notin Bad
  <2>1. d - 1 \in Nat /\ d - 1 <= n
    BY <1>3, <1>4
  <2> HIDE DEF Bad
  <2> QED
    BY <1>2, <1>3, <2>1
<1>6. n - (d - 1) \in 1..n /\ n - (d - 1) - 1 = n - d /\ n - d \in 0..n
  BY <1>3, <1>4
<1>7. P[n - (d - 1)] = P[n - d] + f[n - (d - 1)]
  BY <1>6
<1>8. P[n - (d - 1)] <= P[n]
  <2>1. ~(P[n - (d - 1)] > P[n])
    BY <1>5
  <2>2. P[n - (d - 1)] \in Int
    BY <1>6
  <2> QED
    BY <1>3, <2>1, <2>2
<1>9. f[n - (d - 1)] \in Nat /\ P[n - d] \in Int
  BY <1>6
<1> QED
  BY <1>3, <1>7, <1>8, <1>9

\* L orders the indices in D, up to ties.
Orders(L, D) ==
  /\ \A i, j \in D : <<i, j>> \in L => <<j, i>> \notin L
  /\ \A i, j, k \in D : <<i, k>> \in L => <<i, j>> \in L \/ <<j, k>> \in L

\* The indices before i; ties are in the order of the indices.
Earlier(D, L, i) == {j \in D : <<j, i>> \in L \/ (<<i, j>> \notin L /\ j < i)}

\* Places by counting: they rise along the order, and are places.
LEMMA PlacesRise ==
  ASSUME NEW D, NEW L, Orders(L, D), \E n \in Nat : D = 1..n
  PROVE  /\ \A i \in D : Cardinality(Earlier(D, L, i)) \in Nat /\ Cardinality(Earlier(D, L, i)) + 1 \in D
         /\ \A i, k \in D : i \in Earlier(D, L, k)
                            => Cardinality(Earlier(D, L, i)) < Cardinality(Earlier(D, L, k))
         /\ \A i, k \in D : i # k => i \in Earlier(D, L, k) \/ k \in Earlier(D, L, i)
<1> USE DEF Earlier, Orders
<1> PICK n \in Nat : D = 1..n
  OBVIOUS
<1> DEFINE Below(i) == Earlier(D, L, i)
<1>1. IsFiniteSet(1..n) /\ Cardinality(1..n) = n
  BY FS_Interval
<1>2. \A i \in 1..n : IsFiniteSet(Below(i)) /\ Cardinality(Below(i)) \in 0..n - 1
  <2> SUFFICES ASSUME NEW i \in 1..n
               PROVE  IsFiniteSet(Below(i)) /\ Cardinality(Below(i)) \in 0..n - 1
    OBVIOUS
  <2>1. Below(i) \in SUBSET ((1..n) \ {i})
    OBVIOUS
  <2>2. IsFiniteSet((1..n) \ {i}) /\ Cardinality((1..n) \ {i}) = n - 1
    BY <1>1, FS_RemoveElement
  <2> HIDE DEF Below
  <2>3. IsFiniteSet(Below(i)) /\ Cardinality(Below(i)) <= Cardinality((1..n) \ {i})
    BY <2>1, <2>2, FS_Subset, Zenon
  <2>4. Cardinality(Below(i)) \in Nat
    BY <2>3, FS_CardinalityType
  <2> QED
    BY <2>2, <2>3, <2>4
<1>3. \A i, k \in 1..n : i \in Below(k) => Below(i) \in SUBSET Below(k) /\ Below(i) # Below(k)
  <2> SUFFICES ASSUME NEW i \in 1..n, NEW k \in 1..n, i \in Below(k)
               PROVE  Below(i) \in SUBSET Below(k) /\ Below(i) # Below(k)
    OBVIOUS
  <2>1. i \notin Below(i)
    OBVIOUS
  <2>2. ASSUME NEW j \in Below(i) PROVE j \in Below(k)
    OBVIOUS
  <2> QED
    BY <2>1, <2>2
<1>4. \A i, k \in 1..n : i # k => i \in Below(k) \/ k \in Below(i)
  <2> SUFFICES ASSUME NEW i \in 1..n, NEW k \in 1..n, i # k
               PROVE  i \in Below(k) \/ k \in Below(i)
    OBVIOUS
  <2>1. i < k \/ k < i
    OBVIOUS
  <2> QED
    BY <2>1, Zenon
<1> HIDE DEF Below
<1>5. \A i, k \in 1..n : i \in Below(k) => Cardinality(Below(i)) < Cardinality(Below(k))
  <2> SUFFICES ASSUME NEW i \in 1..n, NEW k \in 1..n, i \in Below(k)
               PROVE  Cardinality(Below(i)) < Cardinality(Below(k))
    OBVIOUS
  <2>1. /\ Cardinality(Below(i)) <= Cardinality(Below(k))
        /\ Cardinality(Below(k)) # Cardinality(Below(i))
    BY <1>2, <1>3, FS_Subset, Zenon
  <2> QED
    BY <1>2, <2>1
<1>6. \A i \in 1..n : Cardinality(Below(i)) \in Nat /\ Cardinality(Below(i)) + 1 \in 1..n
  BY <1>2
<1> QED
  BY <1>4, <1>5, <1>6 DEF Below

\* Every place is taken by one of the indices.
LEMMA EveryPlaceIsTaken ==
  ASSUME NEW D, NEW L, Orders(L, D), \E n \in Nat : D = 1..n
  PROVE  \A k \in D : \E i \in D : Cardinality(Earlier(D, L, i)) + 1 = k
<1> PICK n \in Nat : D = 1..n
  OBVIOUS
<1> DEFINE Below(i) == Earlier(D, L, i)
           place == [i \in D |-> Cardinality(Below(i)) + 1]
<1>1. /\ \A i \in D : Cardinality(Below(i)) \in Nat /\ Cardinality(Below(i)) + 1 \in D
      /\ \A i, k \in D : i \in Below(k) => Cardinality(Below(i)) < Cardinality(Below(k))
      /\ \A i, k \in D : i # k => i \in Below(k) \/ k \in Below(i)
  BY PlacesRise, Zenon
<1>2. \A i, k \in D : Cardinality(Below(i)) = Cardinality(Below(k)) => i = k
  <2> HIDE DEF Below
  <2> SUFFICES ASSUME NEW i \in D, NEW k \in D, Cardinality(Below(i)) = Cardinality(Below(k)), i # k
               PROVE  FALSE
    OBVIOUS
  <2>1. Cardinality(Below(i)) \in Nat /\ Cardinality(Below(k)) \in Nat
    BY <1>1, Zenon
  <2>2. Cardinality(Below(i)) < Cardinality(Below(k)) \/ Cardinality(Below(k)) < Cardinality(Below(i))
    BY <1>1, Zenon
  <2> QED
    BY ONLY <2>1, <2>2, Cardinality(Below(i)) = Cardinality(Below(k))
<1>3. IsFiniteSet(D)
  BY FS_Interval
<1> SUFFICES \A k \in D : \E i \in D : Cardinality(Below(i)) + 1 = k
  OBVIOUS
<1> HIDE DEF Below
<1>4. \A i \in D : place[i] = Cardinality(Below(i)) + 1
  OBVIOUS
<1>5. place \in Injection(D, D)
  <2>1. place \in [D -> D]
    BY <1>1
  <2>2. ASSUME NEW i \in D, NEW k \in D, place[i] = place[k] PROVE i = k
    <3>1. Cardinality(Below(i)) + 1 = Cardinality(Below(k)) + 1
      BY <1>4, <2>2, Zenon
    <3>2. Cardinality(Below(i)) \in Nat /\ Cardinality(Below(k)) \in Nat
      BY <1>1, Zenon
    <3>3. Cardinality(Below(i)) = Cardinality(Below(k))
      BY ONLY <3>1, <3>2
    <3> QED
      BY <1>2, <3>3, Zenon
  <2> QED
    BY <2>1, <2>2 DEF Injection, IsInjective
<1>6. place \in Surjection(D, D)
  BY <1>3, <1>5, FS_Injection
<1> HIDE DEF place
<1> QED
  BY <1>4, <1>6 DEF Surjection

\* p has the indices of D in the order L, all of them.
InPlaces(D, L, p) ==
  /\ \A k, l \in D : k < l => <<p[l], p[k]>> \notin L
  /\ \A i \in D : \E k \in D : p[k] = i

LEMMA PlacesAreInOrder ==
  ASSUME NEW D, NEW L, Orders(L, D), \E n \in Nat : D = 1..n,
         NEW p \in [D -> D], \A k \in D : Cardinality(Earlier(D, L, p[k])) + 1 = k
  PROVE  InPlaces(D, L, p)
<1> DEFINE Below(i) == Earlier(D, L, i)
<1>1. /\ \A i \in D : Cardinality(Below(i)) \in Nat /\ Cardinality(Below(i)) + 1 \in D
      /\ \A i, k \in D : i \in Below(k) => Cardinality(Below(i)) < Cardinality(Below(k))
      /\ \A i, k \in D : i # k => i \in Below(k) \/ k \in Below(i)
  BY PlacesRise, Zenon
<1>2. \A i, k \in D : Cardinality(Below(i)) = Cardinality(Below(k)) => i = k
  <2> HIDE DEF Below
  <2> SUFFICES ASSUME NEW i \in D, NEW k \in D, Cardinality(Below(i)) = Cardinality(Below(k)), i # k
               PROVE  FALSE
    OBVIOUS
  <2>1. Cardinality(Below(i)) \in Nat /\ Cardinality(Below(k)) \in Nat
    BY <1>1, Zenon
  <2>2. Cardinality(Below(i)) < Cardinality(Below(k)) \/ Cardinality(Below(k)) < Cardinality(Below(i))
    BY <1>1, Zenon
  <2> QED
    BY ONLY <2>1, <2>2, Cardinality(Below(i)) = Cardinality(Below(k))
<1>3. \A k \in D : Cardinality(Below(p[k])) + 1 = k
  OBVIOUS
<1>4. \A i, k \in D : <<i, k>> \in L => i \in Below(k)
  BY DEF Earlier
<1> HIDE DEF Below
<1>5. ASSUME NEW k \in D, NEW l \in D, k < l, <<p[l], p[k]>> \in L PROVE FALSE
  <2>1. p[k] \in D /\ p[l] \in D
    OBVIOUS
  <2>2. /\ Cardinality(Below(p[l])) < Cardinality(Below(p[k]))
        /\ Cardinality(Below(p[l])) \in Nat /\ Cardinality(Below(p[k])) \in Nat
    BY <1>1, <1>4, <1>5, <2>1, Zenon
  <2>3. Cardinality(Below(p[k])) + 1 = k /\ Cardinality(Below(p[l])) + 1 = l
    BY <1>3, Zenon
  <2> QED
    BY ONLY <1>5, <2>2, <2>3
<1>6. ASSUME NEW i \in D PROVE \E k \in D : p[k] = i
  <2> DEFINE k == Cardinality(Below(i)) + 1
  <2>1. k \in D
    BY <1>1, Zenon
  <2>2. p[k] \in D
    BY <2>1
  <2>3. Cardinality(Below(p[k])) + 1 = Cardinality(Below(i)) + 1
    BY <1>3, <2>1, Zenon
  <2>4. Cardinality(Below(i)) \in Nat /\ Cardinality(Below(p[k])) \in Nat
    BY <1>1, <2>2, Zenon
  <2>5. Cardinality(Below(p[k])) = Cardinality(Below(i))
    BY ONLY <2>3, <2>4
  <2>6. p[k] = i
    BY <1>2, <2>2, <2>5, Zenon
  <2> QED
    BY <2>1, <2>6, Zenon
<1> QED
  BY <1>5, <1>6 DEF InPlaces

-----------------------------------------------------------------------------
(* The geometry of batteries.                                              *)

Pairs == Int \X Int

\* Within a half-plane, v d . (u x w) = w d . (u x v) + u d . (v x w), where the second
\* coordinates d have the same sign.
LEMMA CrossProducts ==
  ASSUME NEW a \in Int, NEW b \in Int, NEW c \in Int, NEW d \in Int, NEW e \in Int, NEW f \in Int,
         (b < 0 /\ d < 0 /\ f < 0) \/ (b > 0 /\ d > 0 /\ f > 0),
         a * f - b * e > 0
  PROVE  a * d - b * c > 0 \/ c * f - d * e > 0
<1> DEFINE P == a * d - b * c  Q == c * f - d * e  X == a * f - b * e
<1>1. d * X = f * P + b * Q
  OBVIOUS
<1>2. P \in Int /\ Q \in Int /\ X \in Int /\ X > 0
  OBVIOUS
<1> HIDE DEF P, Q, X
<1>3. SUFFICES ASSUME P <= 0, Q <= 0 PROVE FALSE
  BY <1>2 DEF P, Q
<1>4. CASE b < 0 /\ d < 0 /\ f < 0
  <2>1. d * X < 0 /\ f * P >= 0 /\ b * Q >= 0
    BY <1>2, <1>3, <1>4
  <2>2. d * X \in Int /\ f * P \in Int /\ b * Q \in Int
    BY <1>2
  <2> QED
    BY <1>1, <2>1, <2>2
<1>5. CASE b > 0 /\ d > 0 /\ f > 0
  <2>1. d * X > 0 /\ f * P <= 0 /\ b * Q <= 0
    BY <1>2, <1>3, <1>5
  <2>2. d * X \in Int /\ f * P \in Int /\ b * Q \in Int
    BY <1>2
  <2> QED
    BY <1>1, <2>1, <2>2
<1> QED
  BY <1>4, <1>5

\* Angular orders the directions, up to those of the same angle.
LEMMA AngularOrders ==
  ASSUME NEW u \in Pairs, NEW v \in Pairs, NEW w \in Pairs
  PROVE  /\ Angular(u, v) => ~Angular(v, u)
         /\ Angular(u, w) => Angular(u, v) \/ Angular(v, w)
<1>1. PICK a \in Int, b \in Int, c \in Int, d \in Int, e \in Int, f \in Int :
        u = <<a, b>> /\ v = <<c, d>> /\ w = <<e, f>>
  BY DEF Pairs
<1>2. /\ Cross(u, v) = a * d - b * c /\ Cross(v, u) = c * b - d * a
      /\ Cross(v, w) = c * f - d * e /\ Cross(u, w) = a * f - b * e
  BY <1>1 DEF Cross
<1>3. HalfPlane(u) \in 0..3 /\ HalfPlane(v) \in 0..3 /\ HalfPlane(w) \in 0..3
  BY DEF HalfPlane
<1>4. Cross(v, u) = -Cross(u, v) /\ Cross(u, v) \in Int
  BY <1>2
<1>5. Angular(u, v) => ~Angular(v, u)
  BY <1>3, <1>4 DEF Angular
<1>6. ASSUME HalfPlane(u) = HalfPlane(v), HalfPlane(v) = HalfPlane(w), Cross(u, w) > 0
      PROVE  Cross(u, v) > 0 \/ Cross(v, w) > 0
  <2>1. CASE HalfPlane(u) \in {0, 2}
    <3>1. (b < 0 /\ d < 0 /\ f < 0) \/ (b > 0 /\ d > 0 /\ f > 0)
      BY <1>1, <1>6, <2>1 DEF HalfPlane
    <3> QED
      BY <1>2, <1>6, <3>1, CrossProducts
  <2>2. CASE HalfPlane(u) \in {1, 3}
    <3>1. b = 0 /\ f = 0
      <4>1. HalfPlane(w) \in {1, 3}
        BY <1>6, <2>2
      <4>2. ~(u[2] < 0) /\ ~(u[2] > 0) /\ ~(w[2] < 0) /\ ~(w[2] > 0)
        BY <2>2, <4>1 DEF HalfPlane
      <4> QED
        BY <1>1, <4>2
    <3>2. a * 0 - 0 * e = 0
      OBVIOUS
    <3>3. Cross(u, w) = 0
      BY <1>2, <3>1, <3>2
    <3> QED
      BY <1>6, <3>3
  <2> QED
    BY <1>3, <2>1, <2>2
<1>7. Angular(u, w) => Angular(u, v) \/ Angular(v, w)
  BY <1>3, <1>6 DEF Angular
<1> QED
  BY <1>5, <1>7

LEMMA SquaresAreNat == \A k \in Int : Square(k) \in Nat
BY DEF Square

LEMMA DistanceIsNat ==
  ASSUME mapping \in Mappings, NEW c, Hits(Pixel(c))
  PROVE  DistanceFromStart(c) \in Nat
<1>1. PICK x \in Int, y \in Int, z \in Int : Place(Pixel(c)) = <<x, y, z>>
  BY DEF Hits, Space
<1>2. PICK p \in Int, q \in Int : mapping.start = <<p, q>>
  BY PlanningAssumption
<1>3. DistanceFromStart(c) = Square(x - p) + Square(y - q)
  BY <1>1, <1>2 DEF DistanceFromStart
<1>4. Square(x - p) \in Nat /\ Square(y - q) \in Nat
  BY SquaresAreNat
<1> QED
  BY <1>3, <1>4

\* There is a first corner among the nearest ones.
LEMMA NearestIsNearest ==
  ASSUME mapping \in Mappings, NEW s \in Seq(Pairs), s # <<>>,
         \A c \in ToSet(s) : Hits(Pixel(c))
  PROVE  /\ Nearest(s) \in DOMAIN s
         /\ \A j \in DOMAIN s : DistanceFromStart(s[Nearest(s)]) <= DistanceFromStart(s[j])
<1> DEFINE dist(i) == DistanceFromStart(s[i])
           All == {d \in Nat : \E i \in 1..Len(s) : d = dist(i)}
<1>1. Len(s) \in Nat \ {0} /\ DOMAIN s = 1..Len(s) /\ \A i \in 1..Len(s) : dist(i) \in Nat
  BY DistanceIsNat DEF ToSet
<1> HIDE DEF dist
<1>2. PICK d \in All : \A m \in All : d <= m
  <2>1. dist(1) \in All
    BY <1>1
  <2> QED
    BY <2>1, LeastNat
<1> DEFINE Closest == {i \in 1..Len(s) : dist(i) = d}
<1>3. PICK i \in Closest : \A m \in Closest : i <= m
  <2>1. Closest \in SUBSET Nat /\ Closest # {}
    BY <1>2
  <2> QED
    BY <2>1, LeastNat
<1>4. /\ i \in DOMAIN s
      /\ \A j \in DOMAIN s : dist(i) <= dist(j)
      /\ \A j \in 1..(i - 1) : dist(i) < dist(j)
  BY <1>1, <1>2, <1>3
<1> QED
  BY <1>4 DEF Nearest, dist

\* SampleCount and EdgeLength for a given distance and mapping.
CountOf(st, length) == CHOOSE n \in 1..(length + 1) :
  /\ Square(n * st) >= length
  /\ n = 1 \/ Square((n - 1) * st) < length
LengthOf(mp, a, b) ==
  LET p == Board(mp, Pixel(a))  q == Board(mp, Pixel(b))
  IN  Square(p[1] - q[1]) + Square(p[2] - q[2]) + Square(p[3] - q[3])

\* Enough points for an edge, and not one more than needed: such a number exists.
LEMMA CountsSuffice ==
  ASSUME NEW st \in Nat \ {0}, NEW length \in Nat
  PROVE  LET n == CountOf(st, length) IN
           /\ n \in 1..(length + 1)
           /\ Square(n * st) >= length
           /\ n = 1 \/ Square((n - 1) * st) < length
<1> DEFINE Enough == {n \in Nat : n >= 1 /\ Square(n * st) >= length}
<1>1. length + 1 \in Enough
  <2>1. (length + 1) * st >= length + 1 /\ (length + 1) * st \in Nat
    OBVIOUS
  <2>2. ASSUME NEW m \in Nat, m >= length + 1 PROVE m * m >= length
    <3>1. m * m >= m
      OBVIOUS
    <3> QED
      BY <2>2, <3>1
  <2> QED
    BY <2>1, <2>2 DEF Square
<1>2. PICK n \in Enough : \A m \in Enough : n <= m
  BY <1>1, LeastNat
<1>3. n \in 1..(length + 1) /\ Square(n * st) >= length
  <2>1. n \in Nat /\ n >= 1 /\ Square(n * st) >= length
    BY <1>2
  <2> HIDE DEF Enough
  <2>2. n <= length + 1
    BY <1>1, <1>2
  <2> QED
    BY <2>1, <2>2
<1>4. n = 1 \/ Square((n - 1) * st) < length
  <2>1. SUFFICES ASSUME n # 1, ~(Square((n - 1) * st) < length) PROVE FALSE
    OBVIOUS
  <2>2. n - 1 \in Nat /\ n - 1 >= 1 /\ Square((n - 1) * st) \in Nat
    BY <1>3, <2>1 DEF Square
  <2>3. n - 1 \in Enough
    BY <2>1, <2>2
  <2> QED
    BY <1>2, <1>3, <2>3
<1> DEFINE Fits(m) == Square(m * st) >= length /\ (m = 1 \/ Square((m - 1) * st) < length)
<1>5. Fits(n)
  BY <1>3, <1>4
<1>6. CountOf(st, length) = CHOOSE m \in 1..(length + 1) : Fits(m)
  BY DEF CountOf
<1> HIDE DEF Fits
<1>7. CountOf(st, length) \in 1..(length + 1) /\ Fits(CountOf(st, length))
  BY <1>3, <1>5, <1>6
<1> QED
  BY <1>7 DEF Fits

LEMMA SampleCountIsCount == \A length : SampleCount(length) = CountOf(step, length)
BY DEF SampleCount, CountOf

LEMMA FromCentreIsPair ==
  ASSUME NEW s \in Seq(Pairs), NEW c \in Pairs
  PROVE  FromCentre(s, c) \in Pairs
<1> DEFINE xs == [i \in 1..Len(s) |-> s[i][1]]
           ys == [i \in 1..Len(s) |-> s[i][2]]
<1>1. Len(s) \in Nat /\ \A i \in 1..Len(s) : s[i][1] \in Int /\ s[i][2] \in Int
  BY DEF Pairs
<1>2. SumFunction(xs) \in Int /\ SumFunction(ys) \in Int
  <2>1. xs \in [1..Len(s) -> Int] /\ ys \in [1..Len(s) -> Int]
    BY <1>1
  <2> HIDE DEF xs, ys
  <2> QED
    BY <1>1, <2>1, SumIsInt
<1>3. FromCentre(s, c) = <<Len(s) * c[1] - SumFunction(xs), Len(s) * c[2] - SumFunction(ys)>>
  BY DEF FromCentre
<1>4. c[1] \in Int /\ c[2] \in Int
  BY DEF Pairs
<1> HIDE DEF xs, ys
<1>5. Len(s) * c[1] \in Int /\ Len(s) * c[2] \in Int
  BY <1>1, <1>4
<1> QED
  BY <1>2, <1>3, <1>5 DEF Pairs

Clockwise(s) == StableSort(s, LAMBDA c, d : Angular(FromCentre(s, c), FromCentre(s, d)))

\* t is in the order of the angles, as seen from the mean of s.
InOrder(s, t) == \A k, l \in DOMAIN t : k < l => ~Angular(FromCentre(s, t[l]), FromCentre(s, t[k]))

LEMMA ClockwiseIsSorted ==
  ASSUME NEW s \in Seq(Pairs)
  PROVE  /\ Clockwise(s) \in Seq(Pairs) /\ Len(Clockwise(s)) = Len(s)
         /\ InOrder(s, Clockwise(s)) /\ ToSet(Clockwise(s)) = ToSet(s)
<1> DEFINE D == DOMAIN s
           dir(i) == FromCentre(s, s[i])
           L == {p \in D \X D : Angular(dir(p[1]), dir(p[2]))}
           at(k) == CHOOSE i \in D :
             Cardinality({j \in D : Angular(dir(j), dir(i))
                                     \/ (~Angular(dir(i), dir(j)) /\ j < i)}) + 1 = k
<1>1. Len(s) \in Nat /\ D = 1..Len(s)
  OBVIOUS
<1>2. \A i \in D : dir(i) \in Pairs
  BY FromCentreIsPair
<1>3. \A i, j \in D : <<i, j>> \in L <=> Angular(dir(i), dir(j))
  OBVIOUS
<1>4. Orders(L, D) /\ \E n \in Nat : D = 1..n
  <2> HIDE DEF L, dir, D
  <2>1. Orders(L, D)
    BY <1>2, <1>3, AngularOrders DEF Orders
  <2> QED
    BY <1>1, <2>1
<1>5. \A i \in D :
        Earlier(D, L, i)
          = {j \in D : Angular(dir(j), dir(i)) \/ (~Angular(dir(i), dir(j)) /\ j < i)}
  <2> HIDE DEF L, D
  <2> QED
    BY <1>3 DEF Earlier
<1>6. \A k \in D : at(k) \in D /\ Cardinality(Earlier(D, L, at(k))) + 1 = k
  <2> SUFFICES ASSUME NEW k \in D
               PROVE  at(k) \in D /\ Cardinality(Earlier(D, L, at(k))) + 1 = k
    OBVIOUS
  <2> DEFINE Is(i) == Cardinality({j \in D : Angular(dir(j), dir(i))
                                              \/ (~Angular(dir(i), dir(j)) /\ j < i)}) + 1 = k
  <2>1. PICK i \in D : Cardinality(Earlier(D, L, i)) + 1 = k
    BY <1>4, EveryPlaceIsTaken, Zenon
  <2>2. Is(i)
    BY <1>5, <2>1, Zenon
  <2>3. at(k) \in D /\ Is(at(k))
    <3>1. at(k) = CHOOSE m \in D : Is(m)
      BY Zenon
    <3> HIDE DEF D, L, dir, Is, at
    <3> QED
      BY <2>2, <3>1, Zenon
  <2> QED
    BY <1>5, <2>3, Zenon
<1>7. Clockwise(s) = [k \in D |-> s[at(k)]]
  BY Zenon DEF Clockwise, StableSort
<1> DEFINE p == [k \in D |-> at(k)]
<1> HIDE DEF at, p
<1>8. /\ \A k, l \in D : k < l => <<p[l], p[k]>> \notin L
      /\ \A i \in D : \E k \in D : p[k] = i
  <2>1. p \in [D -> D] /\ \A k \in D : Cardinality(Earlier(D, L, p[k])) + 1 = k
    <3> HIDE DEF D, L
    <3> QED
      BY <1>6 DEF p
  <2> HIDE DEF D, L
  <2>2. InPlaces(D, L, p)
    BY <1>4, <2>1, PlacesAreInOrder, Zenon
  <2> QED
    BY <2>2 DEF InPlaces
<1>9. \A k \in D : p[k] \in D /\ Clockwise(s)[k] = s[p[k]]
  BY <1>6, <1>7 DEF p
<1>10. Clockwise(s) \in Seq(Pairs) /\ Len(Clockwise(s)) = Len(s) /\ DOMAIN Clockwise(s) = D
  <2>1. \A k \in D : s[at(k)] \in Pairs
    <3>1. \A k \in D : at(k) \in D
      BY <1>6
    <3>2. \A k \in D : s[k] \in Pairs
      OBVIOUS
    <3> HIDE DEF D
    <3> QED
      BY <3>1, <3>2
  <2> QED
    BY <1>1, <1>7, <2>1
<1> HIDE DEF p
<1>11. InOrder(s, Clockwise(s))
  <2> SUFFICES ASSUME NEW k \in D, NEW l \in D, k < l
               PROVE  ~Angular(FromCentre(s, Clockwise(s)[l]), FromCentre(s, Clockwise(s)[k]))
    BY <1>10 DEF InOrder
  <2>1. ~Angular(dir(p[l]), dir(p[k]))
    <3> HIDE DEF D, L, dir
    <3> QED
      BY <1>3, <1>8, <1>9
  <2> QED
    BY <1>9, <2>1
<1>12. ToSet(Clockwise(s)) = ToSet(s)
  <2> HIDE DEF D
  <2>1. ToSet(Clockwise(s)) \subseteq ToSet(s)
    BY <1>9, <1>10 DEF ToSet, D
  <2>2. ASSUME NEW x \in ToSet(s) PROVE x \in ToSet(Clockwise(s))
    <3>1. PICK i \in D : x = s[i]
      BY DEF ToSet, D
    <3>2. PICK k \in D : p[k] = i
      BY <1>8
    <3> QED
      BY <1>9, <1>10, <3>1, <3>2 DEF ToSet
  <2> QED
    BY <2>1, <2>2
<1> QED
  BY <1>10, <1>11, <1>12

Outlines == {s \in Seq(Pairs) : Len(s) >= 2}
Measured == [corners : Outlines, distance : Nat]

ByDistance(s) == StableSort(s, LAMBDA a, b : a.distance < b.distance)

LEMMA BatteriesAreSorted ==
  ASSUME NEW s \in Seq(Measured)
  PROVE  /\ ByDistance(s) \in Seq(Measured) /\ Len(ByDistance(s)) = Len(s)
         /\ \A k \in DOMAIN s : \E i \in DOMAIN s : ByDistance(s)[k] = s[i]
<1> DEFINE D == DOMAIN s
           L == {p \in D \X D : s[p[1]].distance < s[p[2]].distance}
           at(k) == CHOOSE i \in D :
             Cardinality({j \in D : s[j].distance < s[i].distance
                                     \/ (~(s[i].distance < s[j].distance) /\ j < i)}) + 1 = k
<1>1. Len(s) \in Nat /\ D = 1..Len(s)
  OBVIOUS
<1>2. \A i \in D : s[i] \in Measured /\ s[i].distance \in Nat
  <2>1. \A i \in D : s[i] \in Measured
    OBVIOUS
  <2> HIDE DEF D
  <2> QED
    BY <2>1 DEF Measured
<1>3. \A i, j \in D : <<i, j>> \in L <=> s[i].distance < s[j].distance
  OBVIOUS
<1>4. \A k \in D : \E i \in D : Cardinality(Earlier(D, L, i)) + 1 = k
  <2> HIDE DEF L, D
  <2>1. Orders(L, D)
    <3>1. \A i \in D : s[i].distance \in Nat
      BY <1>2
    <3>2. \A i, j \in D : <<i, j>> \in L => <<j, i>> \notin L
      BY ONLY <1>3, <3>1
    <3>3. \A i, j, k \in D : <<i, k>> \in L => <<i, j>> \in L \/ <<j, k>> \in L
      BY ONLY <1>3, <3>1
    <3> QED
      BY <3>2, <3>3 DEF Orders
  <2>2. \E n \in Nat : D = 1..n
    BY <1>1
  <2> QED
    BY <2>1, <2>2, EveryPlaceIsTaken, Zenon
<1>5. \A i \in D :
        Earlier(D, L, i)
          = {j \in D : s[j].distance < s[i].distance
                        \/ (~(s[i].distance < s[j].distance) /\ j < i)}
  <2> HIDE DEF L, D
  <2> QED
    BY <1>3 DEF Earlier
<1>6. \A k \in D : at(k) \in D
  <2> SUFFICES ASSUME NEW k \in D PROVE at(k) \in D
    OBVIOUS
  <2>1. PICK i \in D : Cardinality(Earlier(D, L, i)) + 1 = k
    BY <1>4
  <2>2. Cardinality({j \in D : s[j].distance < s[i].distance
                                \/ (~(s[i].distance < s[j].distance) /\ j < i)}) + 1 = k
    BY <1>5, <2>1, Zenon
  <2> HIDE DEF D, L
  <2> QED
    BY <2>2, Zenon
<1>7. ByDistance(s) = [k \in D |-> s[at(k)]]
  BY Zenon DEF ByDistance, StableSort
<1> HIDE DEF at
<1>8. \A k \in D : s[at(k)] \in Measured
  BY <1>2, <1>6
<1>9. \A k \in D : \E i \in D : ByDistance(s)[k] = s[i]
  <2> HIDE DEF D
  <2> QED
    BY <1>6, <1>7
<1> QED
  BY <1>1, <1>7, <1>8, <1>9

\* Where the corner at place j of a rotation is taken from.
Shifted(n, k, j) == IF j <= n - k + 1 THEN j + k - 1 ELSE j - (n - k + 1)

LEMMA RotationShifts ==
  ASSUME NEW t \in Seq(Pairs), NEW n \in Nat, Len(t) = n, NEW k \in 1..n
  PROVE  /\ Rotate(t, k) \in Seq(Pairs) /\ Len(Rotate(t, k)) = n /\ DOMAIN Rotate(t, k) = 1..n
         /\ \A j \in 1..n : Shifted(n, k, j) \in 1..n /\ Rotate(t, k)[j] = t[Shifted(n, k, j)]
<1> DEFINE front == SubSeq(t, k, n)
           back  == SubSeq(t, 1, k - 1)
<1>1. /\ front \in Seq(Pairs) /\ Len(front) = n - k + 1
      /\ \A i \in 1..(n - k + 1) : front[i] = t[i + k - 1]
  OBVIOUS
<1>2. /\ back \in Seq(Pairs) /\ Len(back) = k - 1
      /\ \A i \in 1..(k - 1) : back[i] = t[i]
  OBVIOUS
<1>3. Rotate(t, k) = front \o back
  BY DEF Rotate
<1> HIDE DEF front, back
<1>4. /\ Rotate(t, k) \in Seq(Pairs) /\ Len(Rotate(t, k)) = n
      /\ \A j \in 1..n :
           Rotate(t, k)[j] = IF j <= n - k + 1 THEN front[j] ELSE back[j - (n - k + 1)]
  <2>1. (n - k + 1) + (k - 1) = n
    OBVIOUS
  <2>2. /\ front \o back \in Seq(Pairs) /\ Len(front \o back) = (n - k + 1) + (k - 1)
        /\ \A j \in 1..((n - k + 1) + (k - 1)) :
             (front \o back)[j] = IF j <= n - k + 1 THEN front[j] ELSE back[j - (n - k + 1)]
    BY <1>1, <1>2
  <2> QED
    BY <1>3, <2>1, <2>2
<1>5. ASSUME NEW j \in 1..n
      PROVE  Shifted(n, k, j) \in 1..n /\ Rotate(t, k)[j] = t[Shifted(n, k, j)]
  <2>1. CASE j <= n - k + 1
    <3>1. j + k - 1 \in 1..n /\ j \in 1..(n - k + 1)
      BY <2>1
    <3> QED
      BY <1>1, <1>4, <2>1, <3>1 DEF Shifted
  <2>2. CASE ~(j <= n - k + 1)
    <3>1. j - (n - k + 1) \in 1..(k - 1) /\ j - (n - k + 1) \in 1..n
      BY <2>2
    <3> QED
      BY <1>2, <1>4, <2>2, <3>1 DEF Shifted
  <2> QED
    BY <2>1, <2>2
<1>6. DOMAIN Rotate(t, k) = 1..n
  BY <1>4
<1> QED
  BY <1>4, <1>5, <1>6

\* The walk has the corners of its battery and starts at one of the nearest.
LEMMA WalkIsNormalized ==
  ASSUME mapping \in Mappings, NEW s \in Outlines, \A c \in ToSet(s) : Hits(Pixel(c))
  PROVE  LET walk == Normalize(s) IN
           /\ walk \in Outlines /\ Len(walk) = Len(s) /\ ToSet(walk) \subseteq ToSet(s)
           /\ walk = Rotate(Clockwise(s), Nearest(Clockwise(s)))
           /\ Nearest(Clockwise(s)) \in 1..Len(s)
           /\ \A j \in DOMAIN walk : DistanceFromStart(walk[1]) <= DistanceFromStart(walk[j])
<1> DEFINE t == Clockwise(s)
           k == Nearest(t)
           n == Len(s)
<1>1. t \in Seq(Pairs) /\ Len(t) = n /\ n \in Nat /\ n >= 2 /\ ToSet(t) = ToSet(s)
  BY ClockwiseIsSorted DEF Outlines
<1>2. Normalize(s) = Rotate(t, k)
  BY Zenon DEF Normalize, Clockwise
<1> HIDE DEF t
<1>3. /\ k \in DOMAIN t
      /\ \A j \in DOMAIN t : DistanceFromStart(t[k]) <= DistanceFromStart(t[j])
  BY <1>1, NearestIsNearest
<1> HIDE DEF k, n
<1>4. k \in 1..n /\ DOMAIN t = 1..n
  BY <1>1, <1>3
<1>5. /\ Rotate(t, k) \in Seq(Pairs) /\ Len(Rotate(t, k)) = n /\ DOMAIN Rotate(t, k) = 1..n
      /\ \A j \in 1..n : Shifted(n, k, j) \in 1..n /\ Rotate(t, k)[j] = t[Shifted(n, k, j)]
  BY <1>1, <1>4, RotationShifts
<1>6. Shifted(n, k, 1) = k /\ 1 \in 1..n
  BY <1>1, <1>4 DEF Shifted
<1>7. \A j \in 1..n : DistanceFromStart(Rotate(t, k)[1]) <= DistanceFromStart(Rotate(t, k)[j])
  BY <1>3, <1>4, <1>5, <1>6
<1>8. Rotate(t, k) \in Outlines
  BY <1>1, <1>5 DEF Outlines
<1>9. ToSet(Rotate(t, k)) \subseteq ToSet(s)
  BY <1>1, <1>4, <1>5 DEF ToSet
<1> QED
  BY <1>2, <1>4, <1>5, <1>7, <1>8, <1>9 DEF k, n, t

-----------------------------------------------------------------------------
(* Types.                                                                  *)

PathPoints == [battery : Nat \ {0}, corner : Nat \ {0}, nr : Nat \ {0}, at : Points,
               reachable : BOOLEAN]

Types ==
  /\ mapping \in Mappings /\ recalibrations \in 0..MaxRecalibrations
  /\ checked \in BOOLEAN /\ level \in BOOLEAN /\ step \in Steps
  /\ pc \in {"order", "walk", "populated"} \cup Answers
  /\ batteries \in Seq(Batteries) /\ ordered \in Seq(Measured)
  /\ edge \in [battery : 1..(Len(ordered) + 1), corner : Nat \ {0}]
  /\ edge.battery <= Len(ordered) => edge.corner <= Len(ordered[edge.battery].corners)
  /\ path \in Seq(PathPoints) /\ waypoints \in Seq([x : Int, y : Int])

\* A point lies on an edge of the walk; waypoints are made of an answered path.
OnWalk(p) ==
  p.battery \in DOMAIN ordered /\ p.corner \in DOMAIN ordered[p.battery].corners /\ p.nr \in 1..p.at.d
Places ==
  /\ \A i \in DOMAIN path : OnWalk(path[i])
  /\ pc = "order" => path = <<>> /\ edge = [battery |-> 1, corner |-> 1]
  /\ pc \in {"order", "walk"} => waypoints = <<>>
  /\ pc = "populated" => edge.battery = Len(ordered) + 1
  /\ Len(waypoints) <= Len(path)

LEMMA WaypointIsPoint ==
  ASSUME NEW p, Hits(p)
  PROVE  Waypoint(p) \in [x : Int, y : Int]
BY DEF Waypoint, Hits, Space

LEMMA ReachableIsBoolean ==
  ASSUME checked \in BOOLEAN, level \in BOOLEAN, NEW w
  PROVE  Reachable(w) \in BOOLEAN
BY Zenon DEF Reachable

\* The ray through a corner meets the board.
OnBoard(mp, c) == Board(mp, Pixel(c)) \in Space

LEMMA LengthIsNat ==
  ASSUME NEW mp, NEW a, NEW b, OnBoard(mp, a), OnBoard(mp, b)
  PROVE  LengthOf(mp, a, b) \in Nat
<1>1. PICK x \in Int, y \in Int, z \in Int : Board(mp, Pixel(a)) = <<x, y, z>>
  BY DEF OnBoard, Space
<1>2. PICK u \in Int, v \in Int, w \in Int : Board(mp, Pixel(b)) = <<u, v, w>>
  BY DEF OnBoard, Space
<1>3. Square(x - u) \in Nat /\ Square(y - v) \in Nat /\ Square(z - w) \in Nat
  BY SquaresAreNat
<1> QED
  BY <1>1, <1>2, <1>3 DEF LengthOf

LEMMA EdgeLengthIsLength == \A a, b : EdgeLength(a, b) = LengthOf(mapping, a, b)
BY DEF EdgeLength, LengthOf, Place

LEMMA HitsIsOnBoard == \A c : Hits(Pixel(c)) <=> OnBoard(mapping, c)
BY DEF Hits, OnBoard, Place

LEMMA Concatenated ==
  ASSUME NEW S, NEW s \in Seq(S), NEW t \in Seq(S)
  PROVE  /\ s \o t \in Seq(S) /\ Len(s \o t) = Len(s) + Len(t)
         /\ DOMAIN (s \o t) = 1..(Len(s) + Len(t))
         /\ \A i \in 1..(Len(s) + Len(t)) :
              (s \o t)[i] = IF i <= Len(s) THEN s[i] ELSE t[i - Len(s)]
OBVIOUS

LEMMA SampleAtIsOf ==
  ASSUME NEW from, NEW to, NEW n, NEW m
  PROVE  SampleAt(from, to, n, m).d = n
BY DEF SampleAt

\* n points from a corner towards the next, flagged by the mapping there is now.
AreSamples(samples, n, b, c, from, to) ==
  /\ n \in Nat \ {0}
  /\ samples \in Seq(PathPoints) /\ Len(samples) = n
  /\ \A m \in 1..n :
       /\ samples[m].battery = b /\ samples[m].corner = c /\ samples[m].nr = m
       /\ samples[m].at = SampleAt(from, to, n, m)
       /\ samples[m].reachable = Reachable(Waypoint(samples[m].at))

LEMMA SamplesOfEdge ==
  ASSUME Types, NEW b \in Nat \ {0}, NEW c \in Nat \ {0}, NEW from \in Pairs, NEW to \in Pairs,
         Hits(Pixel(from)), Hits(Pixel(to))
  PROVE  AreSamples(Samples(b, c, from, to), SampleCount(EdgeLength(from, to)), b, c, from, to)
<1> DEFINE n == SampleCount(EdgeLength(from, to))
           sample(m) == [battery |-> b, corner |-> c, nr |-> m, at |-> SampleAt(from, to, n, m),
                         reachable |-> Reachable(Waypoint(SampleAt(from, to, n, m)))]
<1>1. n \in Nat \ {0}
  <2>1. step \in Nat \ {0} /\ EdgeLength(from, to) \in Nat
    BY LengthIsNat, EdgeLengthIsLength, HitsIsOnBoard, PlanningAssumption DEF Types
  <2> QED
    BY <2>1, CountsSuffice, SampleCountIsCount
<1>2. Samples(b, c, from, to) = [m \in 1..n |-> sample(m)]
  BY DEF Samples, Sample
<1> HIDE DEF n
<1>3. ASSUME NEW m \in 1..n PROVE SampleAt(from, to, n, m) \in Points
  <2>1. /\ from[1] \in Int /\ from[2] \in Int /\ to[1] - from[1] \in Int
        /\ to[2] - from[2] \in Int /\ m - 1 \in Int
    BY <1>1 DEF Pairs
  <2>2. /\ n * from[1] + (m - 1) * (to[1] - from[1]) \in Int
        /\ n * from[2] + (m - 1) * (to[2] - from[2]) \in Int
    BY <1>1, <2>1
  <2> QED
    BY <1>1, <2>2 DEF SampleAt, Points
<1>4. ASSUME NEW m \in 1..n
      PROVE  /\ sample(m) \in PathPoints
             /\ sample(m).battery = b /\ sample(m).corner = c /\ sample(m).nr = m
             /\ sample(m).at = SampleAt(from, to, n, m)
             /\ sample(m).reachable = Reachable(Waypoint(sample(m).at))
  <2>1. Reachable(Waypoint(SampleAt(from, to, n, m))) \in BOOLEAN
    BY ReachableIsBoolean DEF Types
  <2>2. m \in Nat \ {0}
    BY <1>1
  <2> QED
    BY <1>3, <2>1, <2>2, Zenon DEF PathPoints
<1> HIDE DEF sample
<1>5. /\ [m \in 1..n |-> sample(m)] \in Seq(PathPoints)
      /\ Len([m \in 1..n |-> sample(m)]) = n
  BY <1>1, <1>4
<1>6. AreSamples([m \in 1..n |-> sample(m)], n, b, c, from, to)
  BY <1>1, <1>4, <1>5 DEF AreSamples
<1> QED
  BY <1>2, <1>6, Zenon DEF n

LEMMA OutlinesHaveEdges ==
  ASSUME NEW s \in Seq(Measured), 1 <= Len(s)
  PROVE  Len(s[1].corners) >= 2
<1>1. s[1] \in Measured
  OBVIOUS
<1>2. s[1].corners \in Outlines
  BY <1>1 DEF Measured
<1> QED
  BY <1>2 DEF Outlines

LEMMA SuccessorIsNext ==
  ASSUME NEW s \in Outlines, NEW i \in 1..Len(s)
  PROVE  Successor(s, i) = s[IF i = Len(s) THEN 1 ELSE i + 1]
<1>1. Len(s) \in Nat \ {0}
  BY DEF Outlines
<1>2. \A n \in Nat \ {0} : n % n = 0 /\ \A k \in 0..(n - 1) : k % n = k
  OBVIOUS
<1>3. i % Len(s) = IF i = Len(s) THEN 0 ELSE i
  BY <1>1, <1>2
<1> QED
  BY <1>1, <1>3 DEF Successor

LEMMA AtAnEdge ==
  ASSUME Types, Walking
  PROVE  /\ edge.battery \in DOMAIN ordered /\ edge.battery \in Nat \ {0}
         /\ Corners \in Outlines /\ edge.corner \in 1..Len(Corners)
         /\ From \in Pairs /\ To \in Pairs
         /\ To = Corners[IF edge.corner = Len(Corners) THEN 1 ELSE edge.corner + 1]
<1>1. edge.battery \in 1..Len(ordered) /\ DOMAIN ordered = 1..Len(ordered)
  BY DEF Types, Walking
<1>2. ordered[edge.battery] \in Measured
  BY <1>1 DEF Types
<1>3. Corners \in Outlines
  BY <1>2 DEF Corners, Measured
<1>4. edge.corner \in 1..Len(Corners)
  BY <1>1 DEF Types, Corners
<1>5. From \in Pairs
  BY <1>3, <1>4 DEF From, Outlines
<1>6. To = Corners[IF edge.corner = Len(Corners) THEN 1 ELSE edge.corner + 1]
  BY <1>3, <1>4, SuccessorIsNext DEF To
<1>7. To \in Pairs
  BY <1>3, <1>4, <1>6 DEF Outlines
<1> QED
  BY <1>1, <1>3, <1>4, <1>5, <1>6, <1>7

LEMMA EdgeIsSampled ==
  ASSUME Types, Measuring
  PROVE  AreSamples(Samples(edge.battery, edge.corner, From, To),
                    SampleCount(Length), edge.battery, edge.corner, From, To)
<1>1. edge.corner \in Nat \ {0}
  BY DEF Types
<1>2. /\ edge.battery \in Nat \ {0} /\ From \in Pairs /\ To \in Pairs
      /\ Hits(Pixel(From)) /\ Hits(Pixel(To))
  BY AtAnEdge DEF Measuring
<1> QED
  BY <1>1, <1>2, SamplesOfEdge, Zenon DEF Length

\* What a step towards the next edge does to the types.
LEMMA NextEdgeFits ==
  ASSUME Types, Walking, ordered' = ordered, edge' = NextEdge
  PROVE  /\ edge' \in [battery : 1..(Len(ordered') + 1), corner : Nat \ {0}]
         /\ edge'.battery <= Len(ordered') => edge'.corner <= Len(ordered'[edge'.battery].corners)
<1>1. edge.battery \in 1..Len(ordered) /\ edge.corner \in 1..Len(Corners)
  BY AtAnEdge DEF Types
<1>2. ASSUME NEW b \in 1..Len(ordered) PROVE Len(ordered[b].corners) >= 2
  <2>1. ordered[b] \in Measured
    BY DEF Types
  <2> QED
    BY <2>1 DEF Measured, Outlines
<1>3. CASE edge.corner < Len(Corners)
  <2>1. edge' = [edge EXCEPT !.corner = @ + 1]
    BY <1>3 DEF NextEdge
  <2>2. edge' = [battery |-> edge.battery, corner |-> edge.corner + 1]
    BY <2>1 DEF Types
  <2> QED
    BY <1>1, <1>3, <2>2 DEF Types, Corners
<1>4. CASE ~(edge.corner < Len(Corners))
  <2>1. edge' = [battery |-> edge.battery + 1, corner |-> 1]
    BY <1>4 DEF NextEdge
  <2> QED
    BY <1>1, <1>2, <2>1 DEF Types
<1> QED
  BY <1>3, <1>4

LEMMA BatteriesArePairs == \A b \in Batteries : b \in Seq(Pairs) /\ ToSet(b) \subseteq Pixels
BY PlanningAssumption DEF Pairs, ToSet

LEMMA TypesInit == Init => Types /\ Places
<1> SUFFICES ASSUME Init PROVE Types /\ Places
  OBVIOUS
<1>1. batteries \in Seq(Batteries)
  BY DEF Init, BoundedSeq, SeqOf
<1> QED
  BY <1>1, PlanningAssumption DEF Init, Types, Places

\* Every step keeps the types and the places of the points.
LEMMA TypesStep ==
  ASSUME Types, Places, [Next]_vars
  PROVE  Types' /\ Places'
<1> USE DEF request, board
<1>1. CASE MeasureBattery
  <2>1. /\ pc = "order" /\ pc' = "order" /\ batteries # <<>> /\ batteries' = Tail(batteries)
        /\ UNCHANGED <<mapping, recalibrations, checked, step, level, edge, path, waypoints>>
    BY <1>1 DEF MeasureBattery
  <2>2. batteries' \in Seq(Batteries) /\ Head(batteries) \in Seq(Pairs)
    BY <2>1, BatteriesArePairs DEF Types
  <2>3. ordered' \in Seq(Measured) /\ Len(ordered') \in {Len(ordered), Len(ordered) + 1}
    <3>1. CASE Len(Head(batteries)) < 2
      BY <1>1, <3>1 DEF MeasureBattery, Types
    <3>2. CASE ~(Len(Head(batteries)) < 2)
      <4> DEFINE walk == Normalize(Head(batteries))
                 entry == [corners |-> walk, distance |-> DistanceFromStart(walk[1])]
      <4>1. Head(batteries) \in Outlines /\ \A c \in ToSet(Head(batteries)) : Hits(Pixel(c))
        BY <1>1, <2>2, <3>2 DEF Outlines, MeasureBattery
      <4>2. walk \in Outlines /\ ToSet(walk) \subseteq ToSet(Head(batteries))
        BY <4>1, WalkIsNormalized DEF Types
      <4>3. ordered' = Append(ordered, entry)
        BY <1>1, <3>2 DEF MeasureBattery
      <4> HIDE DEF walk
      <4>4. Hits(Pixel(walk[1]))
        BY <4>1, <4>2 DEF Outlines, ToSet
      <4>5. entry \in Measured
        BY <4>2, <4>4, DistanceIsNat DEF Measured, Types
      <4> HIDE DEF entry
      <4> QED
        BY <4>3, <4>5 DEF Types
    <3> QED
      BY <3>1, <3>2
  <2>4. path = <<>> /\ edge = [battery |-> 1, corner |-> 1] /\ waypoints = <<>>
    BY <2>1 DEF Places
  <2>5. 1 <= Len(ordered') => Len(ordered'[1].corners) >= 2
    BY <2>3, OutlinesHaveEdges
  <2>6. Len(ordered') \in Nat
    BY <2>3
  <2> QED
    BY <2>1, <2>2, <2>3, <2>4, <2>5, <2>6 DEF Types, Places, Answers
<1>2. CASE SortBatteries
  <2>1. /\ pc = "order" /\ pc' = "walk" /\ ordered' = ByDistance(ordered)
        /\ UNCHANGED <<mapping, recalibrations, checked, batteries, step, level, edge, path, waypoints>>
    BY <1>2, Zenon DEF SortBatteries, ByDistance
  <2>2. ordered' \in Seq(Measured) /\ Len(ordered') = Len(ordered)
    BY <2>1, BatteriesAreSorted DEF Types
  <2>3. path = <<>> /\ edge = [battery |-> 1, corner |-> 1] /\ waypoints = <<>>
    BY <2>1 DEF Places
  <2>4. 1 <= Len(ordered') => Len(ordered'[1].corners) >= 2
    BY <2>2, OutlinesHaveEdges
  <2> QED
    BY <2>1, <2>2, <2>3, <2>4 DEF Types, Places, Answers
<1>3. CASE SkipEdge
  <2>1. /\ pc = "walk" /\ Walking /\ edge' = NextEdge
        /\ UNCHANGED <<mapping, recalibrations, checked, batteries, step, level, pc, ordered, path, waypoints>>
    BY <1>3 DEF SkipEdge, Measuring, Walking
  <2> QED
    BY <2>1, NextEdgeFits DEF Types, Places, OnWalk, Answers
<1>4. CASE SampleEdge
  <2>1. /\ pc = "walk" /\ Walking /\ Measuring /\ edge' = NextEdge
        /\ path' = path \o Samples(edge.battery, edge.corner, From, To)
        /\ UNCHANGED <<mapping, recalibrations, checked, batteries, step, level, pc, ordered, waypoints>>
    BY <1>4 DEF SampleEdge, Measuring, Walking
  <2> DEFINE samples == Samples(edge.battery, edge.corner, From, To)
             n == SampleCount(Length)
  <2>2. edge.battery \in DOMAIN ordered /\ edge.corner \in DOMAIN ordered[edge.battery].corners
    BY <2>1, AtAnEdge DEF Corners, Outlines
  <2>3. AreSamples(samples, n, edge.battery, edge.corner, From, To)
    BY <2>1, EdgeIsSampled, Zenon
  <2> HIDE DEF samples, n
  <2>4. path' = path \o samples
    BY <2>1 DEF samples
  <2>5. n \in Nat \ {0} /\ samples \in Seq(PathPoints) /\ Len(samples) = n
    BY <2>3, Zenon DEF AreSamples
  <2>6. \A m \in 1..n : OnWalk(samples[m])
    <3>1. ASSUME NEW m \in 1..n
          PROVE  samples[m].battery = edge.battery /\ samples[m].corner = edge.corner
                 /\ samples[m].nr = m /\ samples[m].at.d = n
      <4>1. /\ samples[m].battery = edge.battery /\ samples[m].corner = edge.corner
            /\ samples[m].nr = m /\ samples[m].at = SampleAt(From, To, n, m)
        BY <2>3, Zenon DEF AreSamples
      <4>2. SampleAt(From, To, n, m).d = n
        BY SampleAtIsOf
      <4> QED
        BY <4>1, <4>2
    <3> QED
      BY <2>2, <3>1 DEF OnWalk
  <2>7. path \in Seq(PathPoints) /\ waypoints = <<>> /\ \A i \in DOMAIN path : OnWalk(path[i])
    BY <2>1 DEF Types, Places
  <2>8. path' \in Seq(PathPoints) /\ Len(path') = Len(path) + n
    BY <2>5, <2>4, <2>7, Concatenated
  <2>9. \A i \in DOMAIN path' : OnWalk(path'[i])
    <3> SUFFICES ASSUME NEW i \in 1..(Len(path) + n) PROVE OnWalk(path'[i])
      BY <2>8
    <3>1. path'[i] = IF i <= Len(path) THEN path[i] ELSE samples[i - Len(path)]
      <4>1. i \in 1..(Len(path) + Len(samples))
        BY <2>5
      <4>2. \A j \in 1..(Len(path) + Len(samples)) :
              (path \o samples)[j] = IF j <= Len(path) THEN path[j] ELSE samples[j - Len(path)]
        BY <2>5, <2>7, Concatenated, Zenon
      <4> QED
        BY <2>4, <4>1, <4>2, Zenon
    <3>2. CASE i <= Len(path)
      <4>1. i \in DOMAIN path
        BY <2>7, <3>2
      <4> QED
        BY <2>7, <3>1, <3>2, <4>1
    <3>3. CASE ~(i <= Len(path))
      <4>1. i - Len(path) \in 1..n
        BY <2>5, <2>7, <3>3 
      <4> QED
        BY <2>6, <3>1, <3>3, <4>1
    <3> QED
      BY <3>2, <3>3
  <2>10. \A i \in DOMAIN path' : OnWalk(path[i])'
    <3>1. \A p : p.battery \in DOMAIN ordered /\ p.corner \in DOMAIN ordered[p.battery].corners
                 /\ p.nr \in 1..p.at.d => OnWalk(p)
      BY DEF OnWalk
    <3> QED
      BY <2>1, <2>9 DEF OnWalk
  <2>11. Len(waypoints') <= Len(path')
    BY <2>1, <2>7, <2>8
  <2>12. Types'
    BY <2>1, <2>8, NextEdgeFits DEF Types
  <2>13. Places'
    BY <2>1, <2>7, <2>10, <2>11 DEF Places, Answers
  <2> QED
    BY <2>12, <2>13
<1>5. CASE RefuseDensity
  BY <1>5 DEF RefuseDensity, Types, Places, OnWalk, Answers
<1>6. CASE AnswerPath
  BY <1>6 DEF AnswerPath, Types, Places, OnWalk, Answers
<1>7. CASE ConvertPoint
  <2>1. /\ pc = "populated" /\ Len(waypoints) < Len(path)
        /\ waypoints' = Append(waypoints, Waypoint(Point)) /\ Hits(Point)
        /\ UNCHANGED <<mapping, recalibrations, checked, batteries, step, level, pc, ordered, edge, path>>
    BY <1>7 DEF ConvertPoint, Converting
  <2>3. Waypoint(Point) \in [x : Int, y : Int]
    BY <2>1, WaypointIsPoint
  <2>4. waypoints' \in Seq([x : Int, y : Int]) /\ Len(waypoints') = Len(waypoints) + 1
    BY <2>1, <2>3 DEF Types
  <2> QED
    BY <2>1, <2>4 DEF Types, Places, OnWalk, Answers
<1>8. CASE CheckJob
  <2>1. /\ pc = "populated" /\ pc' \in {"unreachable", "empty", "accepted", "no robot"}
        /\ UNCHANGED <<mapping, recalibrations, checked, batteries, step, level, edge, ordered, path, waypoints>>
    BY <1>8 DEF CheckJob
  <2>2. Types'
    BY <2>1 DEF Types, Answers
  <2>3. Places'
    BY <2>1 DEF Places, OnWalk, Answers
  <2> QED
    BY <2>2, <2>3
<1>9. CASE Recalibrate
  <2>1. /\ mapping' \in Mappings /\ recalibrations < MaxRecalibrations
        /\ recalibrations' = recalibrations + 1
        /\ UNCHANGED <<checked, batteries, step, level, pc, edge, ordered, path, waypoints>>
    BY <1>9 DEF Recalibrate
  <2>2. recalibrations' \in 0..MaxRecalibrations
    BY <2>1, PlanningAssumption DEF Types
  <2>4. Types'
    BY <2>1, <2>2 DEF Types, Answers
  <2>3. Places'
    BY <2>1 DEF Places, OnWalk, Answers
  <2> QED
    BY <2>3, <2>4
<1>10. CASE FailPopulate \/ FailConvert
  <2>1. /\ pc' = "no ray"
        /\ UNCHANGED <<mapping, recalibrations, checked, batteries, step, level, edge, ordered, path, waypoints>>
    BY <1>10 DEF FailPopulate, FailConvert
  <2> QED
    BY <2>1 DEF Types, Places, OnWalk, Answers
<1>11. CASE UNCHANGED vars
  BY <1>11 DEF vars, Types, Places, OnWalk, Answers
<1> QED
  BY <1>1, <1>2, <1>3, <1>4, <1>5, <1>6, <1>7, <1>8, <1>9, <1>10, <1>11 DEF Next, Finished

\* The types as the runs check them, for every set of batteries, mappings and
\* distances, and every limit: the code of populate_pixel_path_from_batteries and
\* create_job keeps them.
THEOREM TypeCorrect == Spec => []TypeOK
<1>1. Types /\ Places => TypeOK
  <2> SUFFICES ASSUME Types, Places PROVE TypeOK
    OBVIOUS
  <2>1. ASSUME NEW i \in DOMAIN path PROVE path[i].at \in Points
    <3>1. path[i] \in PathPoints
      BY DEF Types
    <3> QED
      BY <3>1 DEF PathPoints
  <2> QED
    BY <2>1 DEF TypeOK, Types, Places, OnWalk
<1>2. Init => Types /\ Places
  BY TypesInit
<1>3. Types /\ Places /\ [Next]_vars => (Types /\ Places)'
  BY TypesStep
<1> QED
  BY <1>1, <1>2, <1>3, PTL DEF Spec

-----------------------------------------------------------------------------
(* What the answer to a job says about its waypoints.                      *)

\* While no mapping is replaced, flags and waypoints are those of the mapping there is;
\* the answer tells whether a waypoint of the whole path is out of reach.
Foretold ==
  /\ Steady => /\ \A i \in DOMAIN path : path[i].reachable = Reachable(Waypoint(path[i].at))
               /\ \A i \in DOMAIN waypoints : waypoints[i] = Waypoint(path[i].at)
  /\ pc \in {"accepted", "unreachable"} => Len(waypoints) = Len(path)
  /\ pc = "accepted" => path # <<>> /\ FindUnreachable = {}
  /\ pc = "unreachable" => FindUnreachable # {}

LEMMA ForetoldStays ==
  ASSUME Foretold, UNCHANGED <<mapping, recalibrations, checked, level, path, waypoints>>,
         pc' = pc \/ pc' \notin {"accepted", "unreachable"}
  PROVE  Foretold'
<1>1. \A p : Waypoint(p)' = Waypoint(p) /\ Reachable(p)' = Reachable(p)
  BY DEF Waypoint, Place, Reachable, InRing
<1>2. FindUnreachable' = FindUnreachable
  BY DEF FindUnreachable, Reachable, InRing
<1> QED
  BY <1>2 DEF Foretold, Steady, Waypoint, Place, Reachable, InRing

LEMMA ForetoldStep ==
  ASSUME Types, Places, Foretold, [Next]_vars
  PROVE  Foretold'
<1> USE DEF request, board
<1>1. CASE SampleEdge
  <2>1. /\ pc = "walk" /\ Walking /\ Measuring /\ path' = path \o Samples(edge.battery, edge.corner, From, To)
        /\ UNCHANGED <<mapping, recalibrations, checked, level, pc, waypoints>>
    BY <1>1 DEF SampleEdge, Measuring, Walking
  <2> DEFINE samples == Samples(edge.battery, edge.corner, From, To)
             n == SampleCount(Length)
  <2>2. AreSamples(samples, n, edge.battery, edge.corner, From, To)
    BY <2>1, EdgeIsSampled, Zenon
  <2> HIDE DEF samples, n
  <2>3. n \in Nat \ {0} /\ samples \in Seq(PathPoints) /\ Len(samples) = n
    BY <2>2, Zenon DEF AreSamples
  <2>4. \A m \in 1..n : samples[m].reachable = Reachable(Waypoint(samples[m].at))
    BY <2>2, Zenon DEF AreSamples
  <2>5. path' = path \o samples /\ path \in Seq(PathPoints) /\ waypoints' = <<>>
    BY <2>1 DEF samples, Types, Places
  <2>6. /\ \A i \in 1..(Len(path) + n) :
             (path \o samples)[i] = IF i <= Len(path) THEN path[i] ELSE samples[i - Len(path)]
        /\ DOMAIN (path \o samples) = 1..(Len(path) + n)
    BY <2>3, <2>5, Concatenated, Zenon
  <2>7. ASSUME Steady, NEW i \in 1..(Len(path) + n)
        PROVE  path'[i].reachable = Reachable(Waypoint(path'[i].at))
    <3>1. CASE i <= Len(path)
      <4>1. i \in DOMAIN path /\ path'[i] = path[i]
        BY <2>5, <2>6, <3>1
      <4> QED
        BY <2>7, <4>1 DEF Foretold
    <3>2. CASE ~(i <= Len(path))
      <4>1. i - Len(path) \in 1..n
        BY <2>3, <2>5, <3>2
      <4>2. path'[i] = samples[i - Len(path)]
        BY <2>5, <2>6, <3>2
      <4> QED
        BY <2>4, <4>1, <4>2
    <3> QED
      BY <3>1, <3>2
  <2>8. Steady' => \A i \in DOMAIN path' : path'[i].reachable = Reachable(Waypoint(path[i].at))'
    BY <2>1, <2>5, <2>6, <2>7 DEF Steady, Reachable, InRing, Waypoint, Place
  <2> QED
    BY <2>1, <2>5, <2>8 DEF Foretold
<1>2. CASE ConvertPoint
  <2>1. /\ pc = "populated" /\ pc' = pc /\ Len(waypoints) < Len(path)
        /\ waypoints' = Append(waypoints, Waypoint(Point)) /\ Hits(Point)
        /\ UNCHANGED <<mapping, recalibrations, checked, level, path>>
    BY <1>2 DEF ConvertPoint, Converting
  <2>2. waypoints \in Seq([x : Int, y : Int])
    BY DEF Types
  <2> DEFINE w == Waypoint(path[Len(waypoints) + 1].at)
  <2>3. /\ DOMAIN waypoints' = 1..(Len(waypoints) + 1) /\ DOMAIN waypoints = 1..Len(waypoints)
        /\ \A i \in 1..(Len(waypoints) + 1) :
             waypoints'[i] = IF i = Len(waypoints) + 1 THEN w ELSE waypoints[i]
    <3>1. w \in [x : Int, y : Int]
      BY <2>1, WaypointIsPoint DEF Point
    <3>2. waypoints' = Append(waypoints, w)
      BY <2>1 DEF Point
    <3> HIDE DEF w
    <3> QED
      BY <2>2, <3>1, <3>2
  <2>4. ASSUME Steady, NEW i \in 1..(Len(waypoints) + 1)
        PROVE  waypoints'[i] = Waypoint(path[i].at)
    BY <2>2, <2>3, <2>4 DEF Foretold
  <2>5. Steady' => \A i \in DOMAIN waypoints' : waypoints'[i] = Waypoint(path[i].at)'
    BY <2>1, <2>3, <2>4 DEF Steady, Waypoint, Place
  <2>6. Steady' => \A i \in DOMAIN path' : path'[i].reachable = Reachable(Waypoint(path[i].at))'
    BY <2>1 DEF Foretold, Steady, Reachable, InRing, Waypoint, Place
  <2> QED
    BY <2>1, <2>5, <2>6 DEF Foretold
<1>3. CASE CheckJob
  <2>1. /\ Len(waypoints) = Len(path)
        /\ UNCHANGED <<mapping, recalibrations, checked, level, path, waypoints>>
        /\ \/ FindUnreachable # {} /\ pc' = "unreachable"
           \/ FindUnreachable = {} /\ path = <<>> /\ pc' = "empty"
           \/ FindUnreachable = {} /\ path # <<>> /\ pc' \in {"accepted", "no robot"}
    BY <1>3 DEF CheckJob
  <2>2. FindUnreachable' = FindUnreachable
    BY <2>1 DEF FindUnreachable, Reachable, InRing
  <2>3. Steady' => /\ \A i \in DOMAIN path' : path'[i].reachable = Reachable(Waypoint(path[i].at))'
                   /\ \A i \in DOMAIN waypoints' : waypoints'[i] = Waypoint(path[i].at)'
    BY <2>1 DEF Foretold, Steady, Reachable, InRing, Waypoint, Place
  <2> QED
    BY <2>1, <2>2, <2>3 DEF Foretold
<1>4. CASE Recalibrate
  <2>1. /\ ~Steady' /\ pc \in {"order", "walk", "populated"} /\ pc' = pc
    BY <1>4 DEF Recalibrate, Steady, Types
  <2> QED
    BY <2>1 DEF Foretold
<1>5. CASE MeasureBattery \/ SkipEdge
  BY <1>5, ForetoldStays DEF MeasureBattery, SkipEdge
<1>6. CASE SortBatteries \/ RefuseDensity \/ AnswerPath \/ FailPopulate \/ FailConvert
  BY <1>6, ForetoldStays DEF SortBatteries, RefuseDensity, AnswerPath, FailPopulate, FailConvert
<1>7. CASE UNCHANGED vars
  BY <1>7, ForetoldStays DEF vars
<1> QED
  BY <1>1, <1>2, <1>3, <1>4, <1>5, <1>6, <1>7 DEF Next, Finished

\* An accepted job has no waypoint out of reach, whatever mappings were published while
\* its path was computed and converted; and while none was, the flags of its points tell
\* the answer: find_unreachable_waypoints and the path answered to the client agree.
THEOREM AcceptedStaysInReach == Spec => []AcceptedIsReachable
<1>1. Types /\ Places /\ Foretold => AcceptedIsReachable
  <2> SUFFICES ASSUME Types, Places, Foretold PROVE AcceptedIsReachable
    OBVIOUS
  <2>1. DOMAIN waypoints = 1..Len(waypoints) /\ DOMAIN path = 1..Len(path) /\ Len(path) \in Nat
    BY DEF Types
  <2>2. ASSUME pc = "accepted", checked
        PROVE  level /\ \A i \in DOMAIN waypoints : InRing(waypoints[i])
    <3>1. \A i \in DOMAIN waypoints : level /\ InRing(waypoints[i])
      BY <2>2 DEF Foretold, FindUnreachable, Reachable
    <3>2. 1 \in DOMAIN waypoints
      BY <2>1, <2>2 DEF Foretold, Types
    <3> QED
      BY <3>1, <3>2
  <2>3. ASSUME Steady, pc \in {"accepted", "unreachable"}
        PROVE  pc = "accepted" <=> \A i \in DOMAIN path : path[i].reachable
    <3>1. \A i \in DOMAIN path : path[i].reachable = Reachable(waypoints[i])
      BY <2>1, <2>3 DEF Foretold
    <3>2. FindUnreachable = {} <=> \A i \in DOMAIN path : path[i].reachable
      BY <2>1, <2>3, <3>1 DEF FindUnreachable, Foretold
    <3> QED
      BY <2>3, <3>2 DEF Foretold
  <2> QED
    BY <2>2, <2>3 DEF AcceptedIsReachable
<1>2. Init => Types /\ Places /\ Foretold
  <2>1. Init => Foretold
    BY DEF Init, Foretold
  <2> QED
    BY <2>1, TypesInit
<1>3. Types /\ Places /\ Foretold /\ [Next]_vars => (Types /\ Places /\ Foretold)'
  BY TypesStep, ForetoldStep
<1> QED
  BY <1>1, <1>2, <1>3, PTL DEF Spec

-----------------------------------------------------------------------------
(* What is known of the corners that were measured.                        *)

Seen ==
  /\ \A i \in DOMAIN ordered : ToSet(ordered[i].corners) \subseteq Pixels
  /\ Steady => \A i \in DOMAIN ordered : \A c \in ToSet(ordered[i].corners) : OnBoard(mapping, c)

LEMMA SeenStep ==
  ASSUME Types, Places, Seen, [Next]_vars
  PROVE  Seen'
<1> USE DEF request, board
<1>1. CASE MeasureBattery
  <2> DEFINE b == Head(batteries)
             e == [corners |-> Normalize(b), distance |-> DistanceFromStart(Normalize(b)[1])]
  <2>1. /\ UNCHANGED <<mapping, recalibrations>> /\ batteries # <<>>
        /\ ordered' = IF Len(b) < 2 THEN ordered ELSE Append(ordered, e)
        /\ Len(b) < 2 \/ \A c \in ToSet(b) : Hits(Pixel(c))
    BY <1>1 DEF MeasureBattery
  <2>2. CASE Len(b) < 2
    BY <2>1, <2>2 DEF Seen, Steady
  <2>3. CASE ~(Len(b) < 2)
    <3>1. b \in Seq(Pairs) /\ ToSet(b) \subseteq Pixels
      BY <2>1, BatteriesArePairs DEF Types
    <3>2. ToSet(e.corners) \subseteq ToSet(b)
      <4>1. b \in Outlines
        BY <2>3, <3>1 DEF Outlines
      <4>2. mapping \in Mappings /\ \A c \in ToSet(b) : Hits(Pixel(c))
        BY <2>1, <2>3 DEF Types
      <4> HIDE DEF b
      <4>3. ToSet(Normalize(b)) \subseteq ToSet(b)
        BY <4>1, <4>2, WalkIsNormalized
      <4> QED
        BY <4>3
    <3>3. \A c \in ToSet(e.corners) : c \in Pixels /\ OnBoard(mapping, c)
      BY <2>1, <2>3, <3>1, <3>2, HitsIsOnBoard
    <3> HIDE DEF e
    <3>4. \A i \in DOMAIN ordered' : (i \in DOMAIN ordered /\ ordered'[i] = ordered[i]) \/ ordered'[i] = e
      BY <2>1, <2>3 DEF Types
    <3> QED
      BY <2>1, <3>3, <3>4 DEF Seen, Steady
  <2> QED
    BY <2>2, <2>3
<1>2. CASE SortBatteries
  <2>1. UNCHANGED <<mapping, recalibrations>> /\ ordered' = ByDistance(ordered)
    BY <1>2, Zenon DEF SortBatteries, ByDistance
  <2>2. \A k \in DOMAIN ordered' : \E i \in DOMAIN ordered : ordered'[k] = ordered[i]
    BY <2>1, BatteriesAreSorted DEF Types
  <2> QED
    BY <2>1, <2>2 DEF Seen, Steady
<1>3. CASE Recalibrate
  <2>1. ~Steady' /\ ordered' = ordered
    BY <1>3 DEF Recalibrate, Steady, Types
  <2> QED
    BY <2>1 DEF Seen
<1>4. CASE \/ SkipEdge \/ SampleEdge \/ RefuseDensity \/ FailPopulate \/ AnswerPath
           \/ ConvertPoint \/ FailConvert \/ CheckJob \/ UNCHANGED vars
  <2>1. UNCHANGED <<mapping, recalibrations, ordered>>
    BY <1>4 DEF SkipEdge, SampleEdge, RefuseDensity, FailPopulate, AnswerPath, ConvertPoint,
                FailConvert, CheckJob, vars
  <2> QED
    BY <2>1 DEF Seen, Steady
<1> QED
  BY <1>1, <1>2, <1>3, <1>4 DEF Next, Finished

\* An edge without a length on the board is one from a corner to itself.
LEMMA NoLengthNoEdge ==
  ASSUME Types, Seen, Measuring
  PROVE  Length = 0 <=> From = To
<1>1. PICK x \in Int, y \in Int, z \in Int : Place(Pixel(From)) = <<x, y, z>>
  BY DEF Measuring, Hits, Space
<1>2. PICK u \in Int, v \in Int, w \in Int : Place(Pixel(To)) = <<u, v, w>>
  BY DEF Measuring, Hits, Space
<1>3. Length = (x - u) * (x - u) + (y - v) * (y - v) + (z - w) * (z - w)
  BY <1>1, <1>2 DEF Length, EdgeLength, Square
<1>4. \A k \in Int : k * k \in Nat /\ (k * k = 0 => k = 0)
  OBVIOUS
<1>5. Length = 0 <=> x = u /\ y = v /\ z = w
  <2>1. /\ (x - u) * (x - u) \in Nat /\ ((x - u) * (x - u) = 0 => x - u = 0)
        /\ (y - v) * (y - v) \in Nat /\ ((y - v) * (y - v) = 0 => y - v = 0)
        /\ (z - w) * (z - w) \in Nat /\ ((z - w) * (z - w) = 0 => z - w = 0)
    BY <1>4
  <2> QED
    BY <1>3, <2>1
<1>6. From \in Pixels /\ To \in Pixels
  <2>1. /\ edge.battery \in DOMAIN ordered /\ Corners \in Outlines /\ edge.corner \in 1..Len(Corners)
        /\ To = Corners[IF edge.corner = Len(Corners) THEN 1 ELSE edge.corner + 1]
    BY AtAnEdge DEF Measuring
  <2>2. From \in ToSet(Corners) /\ To \in ToSet(Corners)
    BY <2>1 DEF From, ToSet, Outlines
  <2>3. ToSet(Corners) \subseteq Pixels
    BY <2>1 DEF Seen, Corners
  <2> QED
    BY <2>2, <2>3
<1>7. Place(Pixel(From)) = Place(Pixel(To)) => From = To
  BY <1>6, BoardAssumption DEF Types, Measuring, Hits, Place
<1> QED
  BY <1>1, <1>2, <1>5, <1>7

-----------------------------------------------------------------------------
(* Every corner has a point.                                               *)

\* A value handed on from each index to the next reaches every later one.
HandsOn(s, a, n) == \A j \in a..(n - 1) : s[j] = s[a] => s[j + 1] = s[a]
LEMMA HandedOn ==
  ASSUME NEW s, NEW a \in Nat, NEW n \in Nat, HandsOn(s, a, n)
  PROVE  \A j \in a..n : s[j] = s[a]
<1> USE DEF HandsOn
<1> DEFINE Bad == {j \in Nat : j \in a..n /\ s[j] # s[a]}
<1>1. SUFFICES ASSUME Bad # {} PROVE FALSE
  OBVIOUS
<1>2. PICK j \in Bad : \A m \in Bad : j <= m
  BY <1>1, LeastNat
<1>3. j \in Nat /\ j \in a..n /\ s[j] # s[a] /\ j # a
  BY <1>2
<1>4. j - 1 \in a..(n - 1) /\ j - 1 \in Nat /\ (j - 1) + 1 = j
  BY <1>3
<1>5. j - 1 \notin Bad
  <2> HIDE DEF Bad
  <2> QED
    BY <1>2, <1>4
<1>6. s[j - 1] = s[a]
  BY <1>4, <1>5
<1> QED
  BY <1>3, <1>4, <1>6

\* If a corner of an outline is followed by itself wherever it is listed, it is the only one.
LEMMA OneCornerOnly ==
  ASSUME NEW s \in Outlines, NEW k \in 1..Len(s),
         \A j \in 1..Len(s) : s[j] = s[k] => Successor(s, j) = s[k]
  PROVE  \A j \in 1..Len(s) : s[j] = s[k]
<1> DEFINE n == Len(s)
<1>1. n \in Nat /\ n >= 2
  BY DEF Outlines
<1>2. /\ \A j \in 1..(n - 1) : Successor(s, j) = s[j + 1]
      /\ Successor(s, n) = s[1]
  BY <1>1, SuccessorIsNext
<1> HIDE DEF n
<1>3. \A j \in 1..(n - 1) : s[j] = s[k] => s[j + 1] = s[k]
  BY <1>1, <1>2 DEF n
<1>4. k \in 1..n /\ k \in Nat
  BY <1>1 DEF n
<1>5. \A j \in k..n : s[j] = s[k]
  <2>1. HandsOn(s, k, n)
    BY <1>1, <1>3, <1>4 DEF HandsOn
  <2> QED
    BY <1>1, <1>4, <2>1, HandedOn, Zenon
<1>6. s[1] = s[k]
  BY <1>1, <1>2, <1>4, <1>5 DEF n
<1>7. \A j \in 1..n : s[j] = s[k]
  <2>1. 1 \in Nat /\ HandsOn(s, 1, n)
    BY <1>3, <1>6 DEF HandsOn
  <2>2. \A j \in 1..n : s[j] = s[1]
    BY <1>1, <2>1, HandedOn, Zenon
  <2> QED
    BY <1>6, <2>2
<1> QED
  BY <1>7 DEF n

\* The walk is past the edge that begins at corner c of battery b; its first point.
Behind(b, c)     == b < edge.battery \/ (b = edge.battery /\ c < edge.corner)
HasFirst(b, c)   == \E i \in DOMAIN path : path[i].battery = b /\ path[i].corner = c /\ path[i].nr = 1
BehindIsMeasured ==
  pc # "order" => \A b \in DOMAIN ordered : \A c \in DOMAIN ordered[b].corners :
    Behind(b, c) => ordered[b].corners[c] = Successor(ordered[b].corners, c) \/ HasFirst(b, c)

\* The edge the walk is at is the only one it leaves behind.
LEMMA OneEdgeBehind ==
  ASSUME Types, Walking, ordered' = ordered, edge' = NextEdge,
         NEW b \in DOMAIN ordered, NEW c \in DOMAIN ordered[b].corners, Behind(b, c)'
  PROVE  Behind(b, c) \/ (b = edge.battery /\ c = edge.corner)
<1>1. edge.battery \in Nat /\ edge.corner \in 1..Len(Corners) /\ Corners \in Outlines
  BY AtAnEdge
<1>2. b \in Nat
  BY DEF Types
<1>3. ordered[b].corners \in Outlines
  <2>1. ordered[b] \in Measured
    BY DEF Types
  <2> QED
    BY <2>1 DEF Measured
<1>4. c \in 1..Len(ordered[b].corners) /\ Len(ordered[b].corners) \in Nat
  BY <1>3 DEF Outlines
<1>5. CASE edge.corner < Len(Corners)
  <2>1. edge' = [edge EXCEPT !.corner = @ + 1]
    BY <1>5 DEF NextEdge
  <2>2. edge' = [battery |-> edge.battery, corner |-> edge.corner + 1]
    BY <2>1 DEF Types
  <2> QED
    BY <1>1, <1>2, <1>4, <2>2 DEF Behind
<1>6. CASE ~(edge.corner < Len(Corners))
  <2>1. edge' = [battery |-> edge.battery + 1, corner |-> 1]
    BY <1>6 DEF NextEdge
  <2>2. edge.corner = Len(Corners)
    BY <1>1, <1>6 DEF Outlines
  <2>3. b < edge.battery \/ b = edge.battery
    BY <1>1, <1>2, <1>4, <2>1 DEF Behind
  <2>4. b = edge.battery => c <= edge.corner
    BY <1>4, <2>2 DEF Corners
  <2> QED
    BY <1>1, <1>4, <2>3, <2>4 DEF Behind
<1> QED
  BY <1>5, <1>6

LEMMA BehindStays ==
  ASSUME BehindIsMeasured, pc # "order", UNCHANGED <<ordered, edge, path>>
  PROVE  BehindIsMeasured'
BY DEF BehindIsMeasured, Behind, HasFirst, Successor

LEMMA BehindStep ==
  ASSUME Types, Places, Seen, BehindIsMeasured, [Next]_vars
  PROVE  BehindIsMeasured'
<1> USE DEF request, board
<1>1. CASE MeasureBattery
  BY <1>1 DEF MeasureBattery, BehindIsMeasured
<1>2. CASE SortBatteries
  <2>1. edge' = [battery |-> 1, corner |-> 1] /\ Types'
    BY <1>2, TypesStep DEF SortBatteries, Places
  <2>2. ASSUME NEW b \in DOMAIN ordered', NEW c \in DOMAIN ordered'[b].corners
        PROVE  ~Behind(b, c)'
    <3>1. b \in Nat \ {0}
      BY <2>1 DEF Types
    <3>2. ordered'[b].corners \in Outlines
      <4>1. ordered'[b] \in Measured
        BY <2>1 DEF Types
      <4> QED
        BY <4>1 DEF Measured
    <3>3. c \in Nat \ {0}
      BY <3>2 DEF Outlines
    <3> QED
      BY <2>1, <3>1, <3>3 DEF Behind
  <2> QED
    BY <2>2 DEF BehindIsMeasured
<1>3. CASE SkipEdge
  <2>1. Walking /\ pc = "walk" /\ From = To /\ edge' = NextEdge /\ UNCHANGED <<pc, ordered, path>>
    BY <1>3, NoLengthNoEdge DEF SkipEdge, Measuring, Walking
  <2>2. ASSUME NEW b \in DOMAIN ordered, NEW c \in DOMAIN ordered[b].corners, Behind(b, c)'
        PROVE  ordered[b].corners[c] = Successor(ordered[b].corners, c) \/ HasFirst(b, c)
    <3>1. CASE Behind(b, c)
      BY <2>1, <3>1 DEF BehindIsMeasured
    <3>2. CASE b = edge.battery /\ c = edge.corner
      BY <2>1, <3>2 DEF From, To, Corners
    <3> QED
      BY <2>1, <2>2, <3>1, <3>2, OneEdgeBehind
  <2>3. HasFirst(1, 1)' = HasFirst(1, 1) /\ \A b, c : HasFirst(b, c) => HasFirst(b, c)'
    BY <2>1 DEF HasFirst
  <2> QED
    BY <2>1, <2>2, <2>3 DEF BehindIsMeasured
<1>4. CASE SampleEdge
  <2>1. /\ pc = "walk" /\ Walking /\ Measuring /\ path' = path \o Samples(edge.battery, edge.corner, From, To)
        /\ edge' = NextEdge /\ UNCHANGED <<pc, ordered>>
    BY <1>4 DEF SampleEdge, Measuring, Walking
  <2> DEFINE samples == Samples(edge.battery, edge.corner, From, To)
             n == SampleCount(Length)
  <2>2. AreSamples(samples, n, edge.battery, edge.corner, From, To)
    BY <2>1, EdgeIsSampled, Zenon
  <2> HIDE DEF samples, n
  <2>3. n \in Nat \ {0} /\ samples \in Seq(PathPoints) /\ Len(samples) = n
    BY <2>2, Zenon DEF AreSamples
  <2>4. /\ samples[1].battery = edge.battery /\ samples[1].corner = edge.corner
        /\ samples[1].nr = 1
    <3>1. 1 \in 1..n
      BY <2>3
    <3> QED
      BY <2>2, <3>1, Zenon DEF AreSamples
  <2>5. path' = path \o samples /\ path \in Seq(PathPoints) /\ Len(path) \in Nat
    BY <2>1 DEF samples, Types
  <2>6. /\ \A i \in 1..(Len(path) + n) :
             (path \o samples)[i] = IF i <= Len(path) THEN path[i] ELSE samples[i - Len(path)]
        /\ DOMAIN (path \o samples) = 1..(Len(path) + n)
    BY <2>3, <2>5, Concatenated, Zenon
  <2>7. \A b, c : HasFirst(b, c) => HasFirst(b, c)'
    <3> SUFFICES ASSUME NEW b, NEW c, NEW i \in DOMAIN path,
                        path[i].battery = b /\ path[i].corner = c /\ path[i].nr = 1
                 PROVE  HasFirst(b, c)'
      BY DEF HasFirst
    <3>1. i \in DOMAIN path' /\ path'[i] = path[i]
      BY <2>3, <2>5, <2>6
    <3> QED
      BY <3>1 DEF HasFirst
  <2>8. \A b, c : b = edge.battery /\ c = edge.corner => HasFirst(b, c)'
    <3>1. Len(path) + 1 \in DOMAIN path' /\ path'[Len(path) + 1] = samples[1]
      BY <2>3, <2>5, <2>6
    <3>2. \E i \in DOMAIN path' :
            path'[i].battery = edge.battery /\ path'[i].corner = edge.corner /\ path'[i].nr = 1
      BY <2>4, <3>1
    <3>3. \A b, c : (\E i \in DOMAIN path' :
            path'[i].battery = b /\ path'[i].corner = c /\ path'[i].nr = 1) => HasFirst(b, c)'
      BY DEF HasFirst
    <3> QED
      BY <3>2, <3>3
  <2>9. ASSUME NEW b \in DOMAIN ordered, NEW c \in DOMAIN ordered[b].corners, Behind(b, c)'
        PROVE  ordered[b].corners[c] = Successor(ordered[b].corners, c) \/ HasFirst(b, c)'
    <3>1. CASE Behind(b, c)
      BY <2>1, <2>7, <3>1 DEF BehindIsMeasured
    <3>2. CASE b = edge.battery /\ c = edge.corner
      BY <2>8, <3>2
    <3> QED
      BY <2>1, <2>9, <3>1, <3>2, OneEdgeBehind
  <2> QED
    BY <2>1, <2>9 DEF BehindIsMeasured
<1>5. CASE RefuseDensity \/ AnswerPath \/ ConvertPoint \/ FailConvert \/ CheckJob
  BY <1>5, BehindStays
     DEF RefuseDensity, AnswerPath, ConvertPoint, FailConvert, CheckJob, Converting, Measuring, Walking
<1>6. CASE Recalibrate \/ UNCHANGED vars
  <2>1. UNCHANGED <<pc, ordered, edge, path>>
    BY <1>6 DEF Recalibrate, vars
  <2> QED
    BY <2>1, BehindStays DEF BehindIsMeasured
<1>7. CASE FailPopulate
  <2>1. CASE pc = "order"
    <3>1. edge = [battery |-> 1, corner |-> 1] /\ UNCHANGED <<ordered, edge, path>>
      BY <1>7, <2>1 DEF FailPopulate, Places
    <3>2. ASSUME NEW b \in DOMAIN ordered, NEW c \in DOMAIN ordered[b].corners
          PROVE  ~Behind(b, c)
      <4>1. ordered[b] \in Measured /\ b \in Nat \ {0}
        BY DEF Types
      <4>2. c \in Nat \ {0}
        BY <4>1 DEF Measured, Outlines
      <4> QED
        BY <3>1, <4>1, <4>2 DEF Behind
    <3> QED
      BY <3>1, <3>2 DEF BehindIsMeasured, Behind
  <2>2. CASE pc # "order"
    BY <1>7, <2>2, BehindStays DEF FailPopulate
  <2> QED
    BY <2>1, <2>2
<1> QED
  BY <1>1, <1>2, <1>3, <1>4, <1>5, <1>6, <1>7 DEF Next, Finished

\* No corner of a battery is left out of the answered path, for every list of corners:
\* repeated ones too, of which the walk skips all but the last.
THEOREM CornersAreMeasured == Spec => []EveryCornerMeasured
<1>1. Types /\ Places /\ BehindIsMeasured => EveryCornerMeasured
  <2> SUFFICES ASSUME Types, Places, BehindIsMeasured, edge.battery = Len(ordered) + 1, pc # "order",
                      NEW b \in Distinct, NEW c \in ToSet(ordered[b].corners)
               PROVE  \E i \in DOMAIN path :
                        path[i].battery = b /\ path[i].nr = 1
                        /\ ordered[b].corners[path[i].corner] = c
    <3>1. pc = "populated" /\ Places => edge.battery = Len(ordered) + 1 /\ pc # "order"
      BY DEF Places
    <3> QED
      BY <3>1, Zenon DEF EveryCornerMeasured
  <2> DEFINE s == ordered[b].corners
  <2>1. b \in DOMAIN ordered /\ b \in 1..Len(ordered)
    BY DEF Distinct, Types
  <2>2. s \in Outlines /\ DOMAIN s = 1..Len(s)
    <3>1. ordered[b] \in Measured
      BY <2>1 DEF Types
    <3>2. s \in Outlines
      BY <3>1 DEF Measured
    <3> QED
      BY <3>2 DEF Outlines
  <2>4. b < edge.battery
    BY <2>1 DEF Types
  <2>5. \A j \in 1..Len(s) : s[j] = Successor(s, j) \/ HasFirst(b, j)
    BY <2>1, <2>2, <2>4 DEF BehindIsMeasured, Behind
  <2>6. PICK k \in 1..Len(s) : s[k] = c
    BY <2>2 DEF ToSet
  <2>7. \E j \in 1..Len(s) : s[j] = c /\ Successor(s, j) # c
    <3> SUFFICES ASSUME \A j \in 1..Len(s) : s[j] = s[k] => Successor(s, j) = s[k] PROVE FALSE
      BY <2>6
    <3>1. \A j \in 1..Len(s) : s[j] = s[k]
      BY <2>2, OneCornerOnly
    <3>2. ToSet(s) = {c}
      BY <2>2, <2>6, <3>1 DEF ToSet
    <3>3. Cardinality({c}) = 1
      BY FS_Singleton
    <3>4. Cardinality(ToSet(s)) > 1
      BY DEF Distinct
    <3> QED
      BY <3>2, <3>3, <3>4
  <2>8. PICK j \in 1..Len(s) : s[j] = c /\ Successor(s, j) # c
    BY <2>7
  <2>9. HasFirst(b, j)
    BY <2>5, <2>8
  <2> QED
    BY <2>8, <2>9 DEF HasFirst
<1>2. Init => Types /\ Places /\ Seen /\ BehindIsMeasured
  <2>1. Init => Seen /\ BehindIsMeasured
    BY DEF Init, Seen, BehindIsMeasured
  <2> QED
    BY <2>1, TypesInit
<1>3. Types /\ Places /\ Seen /\ BehindIsMeasured /\ [Next]_vars =>
        (Types /\ Places /\ Seen /\ BehindIsMeasured)'
  BY TypesStep, SeenStep, BehindStep
<1> QED
  BY <1>1, <1>2, <1>3, PTL DEF Spec

-----------------------------------------------------------------------------
(* The limit: what the walk still needs, as a function of the request and  *)
(* the mapping, so that it can be compared before and after a step.        *)

\* Points of an edge, none if it has no length on the board; of each edge of an outline, and
\* of each battery.
EdgeCount(mp, st, a, b) == IF LengthOf(mp, a, b) \in Nat \ {0} THEN CountOf(st, LengthOf(mp, a, b)) ELSE 0
EdgeCounts(mp, st, s) == [i \in DOMAIN s |-> EdgeCount(mp, st, s[i], Successor(s, i))]
BatteryCounts(mp, st, o) == [i \in DOMAIN o |-> SumFunction(EdgeCounts(mp, st, o[i].corners))]
AllCounts(mp, st, o)     == SumFunction(BatteryCounts(mp, st, o))

\* Points of the edges before an edge.
Sums(f, n) == CHOOSE P : ArePartialSums(P, f, n) /\ SumFunction(f) = P[n]
Passed(mp, st, o, e) ==
  IF e.battery > Len(o) THEN AllCounts(mp, st, o)
  ELSE Sums(BatteryCounts(mp, st, o), Len(o))[e.battery - 1]
         + Sums(EdgeCounts(mp, st, o[e.battery].corners), Len(o[e.battery].corners))[e.corner - 1]
FollowingEdge(o, e) == IF e.corner < Len(o[e.battery].corners)
                THEN [battery |-> e.battery, corner |-> e.corner + 1]
                ELSE [battery |-> e.battery + 1, corner |-> 1]

LEMMA SumsAreSums ==
  ASSUME NEW n \in Nat, NEW f \in [1..n -> Int]
  PROVE  ArePartialSums(Sums(f, n), f, n) /\ SumFunction(f) = Sums(f, n)[n]
BY SumIsPartialSum, Zenon DEF Sums

LEMMA EdgeCountsAreNat ==
  ASSUME NEW mp \in Mappings, NEW st \in Nat \ {0}, NEW s \in Outlines
  PROVE  EdgeCounts(mp, st, s) \in [1..Len(s) -> Nat]
<1>1. DOMAIN s = 1..Len(s)
  BY DEF Outlines
<1>2. \A a, b : EdgeCount(mp, st, a, b) \in Nat
  <2>1. \A length \in Nat : CountOf(st, length) \in Nat
    BY CountsSuffice
  <2> QED
    BY <2>1 DEF EdgeCount
<1> QED
  BY <1>1, <1>2 DEF EdgeCounts

LEMMA BatteryCountsAreNat ==
  ASSUME NEW mp \in Mappings, NEW st \in Nat \ {0}, NEW o \in Seq(Measured)
  PROVE  BatteryCounts(mp, st, o) \in [1..Len(o) -> Nat]
<1>1. ASSUME NEW i \in 1..Len(o) PROVE SumFunction(EdgeCounts(mp, st, o[i].corners)) \in Nat
  <2> DEFINE s == o[i].corners
             f == EdgeCounts(mp, st, s)
  <2>1. s \in Outlines
    <3>1. o[i] \in Measured
      OBVIOUS
    <3> QED
      BY <3>1 DEF Measured
  <2>2. Len(s) \in Nat /\ f \in [1..Len(s) -> Nat]
    BY <2>1, EdgeCountsAreNat DEF Outlines
  <2> HIDE DEF f, s
  <2>3. f \in [1..Len(s) -> Int]
    BY <2>2
  <2>4. ArePartialSums(Sums(f, Len(s)), f, Len(s)) /\ SumFunction(f) = Sums(f, Len(s))[Len(s)]
    BY <2>2, <2>3, SumsAreSums
  <2>5. 0 \in 0..Len(s)
    BY <2>2
  <2>6. Sums(f, Len(s))[0] <= Sums(f, Len(s))[Len(s)]
    BY <2>2, <2>4, <2>5, PartialSumsGrow
  <2>7. Sums(f, Len(s))[0] = 0 /\ Sums(f, Len(s))[Len(s)] \in Int
    BY <2>2, <2>4 DEF ArePartialSums
  <2> QED
    BY <2>4, <2>6, <2>7 DEF f, s
<1>2. DOMAIN o = 1..Len(o)
  OBVIOUS
<1> QED
  BY <1>1, <1>2 DEF BatteryCounts

LEMMA AllCountsIsInt ==
  ASSUME NEW mp \in Mappings, NEW st \in Nat \ {0}, NEW o \in Seq(Measured)
  PROVE  AllCounts(mp, st, o) \in Int
<1>1. BatteryCounts(mp, st, o) \in [1..Len(o) -> Int] /\ Len(o) \in Nat
  BY BatteryCountsAreNat
<1> QED
  BY <1>1, SumIsInt DEF AllCounts

LEMMA NothingPassed ==
  ASSUME NEW mp \in Mappings, NEW st \in Nat \ {0}, NEW o \in Seq(Measured)
  PROVE  Passed(mp, st, o, [battery |-> 1, corner |-> 1]) = 0
<1> DEFINE F == BatteryCounts(mp, st, o)
           m == Len(o)
           e == [battery |-> 1, corner |-> 1]
<1>1. F \in [1..m -> Int] /\ m \in Nat
  BY BatteryCountsAreNat
<1> HIDE DEF F
<1>2. Sums(F, m)[0] = 0 /\ SumFunction(F) = Sums(F, m)[m]
  BY <1>1, SumsAreSums DEF ArePartialSums
<1>3. CASE m = 0
  <2>1. Passed(mp, st, o, e) = AllCounts(mp, st, o)
    BY <1>3 DEF Passed
  <2> QED
    BY <1>2, <1>3, <2>1 DEF AllCounts, F
<1>4. CASE m # 0
  <2> DEFINE s == o[1].corners
             f == EdgeCounts(mp, st, s)
  <2>1. s \in Outlines
    <3>1. o[1] \in Measured
      BY <1>1, <1>4
    <3> QED
      BY <3>1 DEF Measured
  <2>2. f \in [1..Len(s) -> Int] /\ Len(s) \in Nat
    <3> HIDE DEF s
    <3>1. f \in [1..Len(s) -> Nat]
      BY <2>1, EdgeCountsAreNat
    <3>2. Len(s) \in Nat
      BY <2>1 DEF Outlines
    <3> HIDE DEF f
    <3> QED
      BY <3>1, <3>2
  <2> HIDE DEF f
  <2>3. Sums(f, Len(s))[0] = 0
    BY <2>2, SumsAreSums DEF ArePartialSums
  <2>4. Passed(mp, st, o, e) = Sums(F, m)[1 - 1] + Sums(f, Len(s))[1 - 1]
    BY <1>1, <1>4 DEF Passed, F, f
  <2> HIDE DEF s
  <2> QED
    BY <1>2, <2>3, <2>4
<1> QED
  BY <1>3, <1>4

\* Passing an edge adds its points; none of the sums on the way exceeds the whole.
LEMMA PassedGrows ==
  ASSUME NEW mp \in Mappings, NEW st \in Nat \ {0}, NEW o \in Seq(Measured),
         NEW b \in 1..Len(o), NEW c \in 1..Len(o[b].corners),
         NEW e, e = [battery |-> b, corner |-> c],
         NEW k, k = EdgeCounts(mp, st, o[b].corners)[c]
  PROVE  /\ k \in Nat /\ Passed(mp, st, o, e) \in Int
         /\ Passed(mp, st, o, FollowingEdge(o, e)) = Passed(mp, st, o, e) + k
         /\ Passed(mp, st, o, e) + k <= AllCounts(mp, st, o)
         /\ AllCounts(mp, st, o) \in Int
<1> DEFINE n == Len(o[b].corners)
           m == Len(o)
           f == EdgeCounts(mp, st, o[b].corners)
           F == BatteryCounts(mp, st, o)
           P == Sums(f, n)
           Q == Sums(F, m)
<1>1. o[b].corners \in Outlines
  <2>1. o[b] \in Measured
    OBVIOUS
  <2> QED
    BY <2>1 DEF Measured
<1>2. n \in Nat /\ m \in Nat /\ f \in [1..n -> Nat] /\ F \in [1..m -> Nat]
  <2>1. n \in Nat /\ m \in Nat
    BY <1>1 DEF Outlines
  <2>2. f \in [1..n -> Nat]
    BY <1>1, EdgeCountsAreNat, Zenon
  <2>3. F \in [1..m -> Nat]
    BY BatteryCountsAreNat, Zenon
  <2> QED
    BY <2>1, <2>2, <2>3
<1>3. F[b] = SumFunction(f) /\ AllCounts(mp, st, o) = SumFunction(F)
  BY DEF BatteryCounts, AllCounts
<1>4. Passed(mp, st, o, e) = Q[b - 1] + P[c - 1]
  BY DEF Passed
<1>5. c < n => Passed(mp, st, o, [battery |-> b, corner |-> c + 1]) = Q[b - 1] + P[c]
  BY <1>2 DEF Passed
<1>6. b < m => Passed(mp, st, o, [battery |-> b + 1, corner |-> 1]) = Q[b]
  <2> SUFFICES ASSUME b < m PROVE Passed(mp, st, o, [battery |-> b + 1, corner |-> 1]) = Q[b]
    OBVIOUS
  <2> DEFINE s == o[b + 1].corners
  <2>1. s \in Outlines
    <3>1. o[b + 1] \in Measured
      BY <1>2
    <3> QED
      BY <3>1 DEF Measured
  <2>2. Len(s) \in Nat /\ EdgeCounts(mp, st, s) \in [1..Len(s) -> Int]
    BY <2>1, EdgeCountsAreNat DEF Outlines
  <2>3. Sums(EdgeCounts(mp, st, s), Len(s))[0] = 0
    BY <2>2, SumsAreSums DEF ArePartialSums
  <2>4. Passed(mp, st, o, [battery |-> b + 1, corner |-> 1])
          = Q[(b + 1) - 1] + Sums(EdgeCounts(mp, st, s), Len(s))[1 - 1]
    BY <1>2 DEF Passed
  <2>5. (b + 1) - 1 = b /\ 1 - 1 = 0
    OBVIOUS
  <2> HIDE DEF s
  <2>6. Q[b] \in Int
    <3> HIDE DEF F, m
    <3>1. F \in [1..m -> Int] /\ m \in Nat
      BY <1>2
    <3>2. ArePartialSums(Q, F, m)
      BY <3>1, SumsAreSums
    <3>3. b \in 0..m
      BY <3>1 DEF m
    <3> HIDE DEF Q
    <3> QED
      BY <3>2, <3>3 DEF ArePartialSums
  <2> QED
    BY <2>3, <2>4, <2>5, <2>6
<1>7. Passed(mp, st, o, [battery |-> m + 1, corner |-> 1]) = AllCounts(mp, st, o)
  BY <1>2 DEF Passed
<1>8. FollowingEdge(o, e) = IF c < n THEN [battery |-> b, corner |-> c + 1]
                            ELSE [battery |-> b + 1, corner |-> 1]
  BY DEF FollowingEdge
<1> HIDE DEF n, m, f, F
<1>9. f \in [1..n -> Int] /\ F \in [1..m -> Int]
  BY <1>2
<1>10. /\ ArePartialSums(P, f, n) /\ SumFunction(f) = P[n]
       /\ ArePartialSums(Q, F, m) /\ SumFunction(F) = Q[m]
  BY <1>2, <1>9, SumsAreSums
<1>11. b \in 1..m /\ c \in 1..n /\ k = f[c] /\ c \in 0..n /\ b \in 0..m
  BY <1>2 DEF n, m, f
<1>12. P[c] <= P[n] /\ Q[b] <= Q[m]
  BY <1>2, <1>10, <1>11, PartialSumsGrow
<1> HIDE DEF P, Q
<1>13. /\ P[c] = P[c - 1] + f[c] /\ Q[b] = Q[b - 1] + F[b]
       /\ P[c] \in Int /\ P[c - 1] \in Int /\ Q[b] \in Int /\ Q[b - 1] \in Int
       /\ f[c] \in Nat /\ F[b] \in Nat /\ P[n] \in Int /\ Q[m] \in Int
  BY <1>2, <1>10, <1>11 DEF ArePartialSums
<1>14. F[b] = P[n] /\ AllCounts(mp, st, o) = Q[m]
  BY <1>3, <1>10
<1>15. /\ P[c] = P[c - 1] + k /\ Q[b] = Q[b - 1] + P[n] /\ k \in Nat
       /\ P[c] \in Int /\ P[c - 1] \in Int /\ Q[b] \in Int /\ Q[b - 1] \in Int
       /\ P[n] \in Int /\ Q[m] \in Int
  BY <1>11, <1>13, <1>14
<1>16. Passed(mp, st, o, FollowingEdge(o, e)) = Passed(mp, st, o, e) + k
  <2>1. CASE c < n
    <3>1. Passed(mp, st, o, FollowingEdge(o, e)) = Q[b - 1] + P[c]
      BY <1>5, <1>8, <2>1, Zenon
    <3>2. Q[b - 1] + P[c] = (Q[b - 1] + P[c - 1]) + k
      BY ONLY <1>15
    <3> QED
      BY <1>4, <3>1, <3>2, Zenon
  <2>2. CASE ~(c < n)
    <3>1. c = n
      BY <1>2, <1>11, <2>2
    <3>2. Passed(mp, st, o, FollowingEdge(o, e)) = Q[b]
      <4>1. CASE b < m
        BY <1>6, <1>8, <2>2, <4>1, Zenon
      <4>2. CASE b = m
        BY <1>7, <1>8, <1>14, <2>2, <4>2, Zenon
      <4> QED
        BY <1>2, <1>11, <4>1, <4>2
    <3> QED
      <4>1. P[n] = P[c - 1] + k
        BY ONLY <1>15, <3>1
      <4>2. Q[b] = (Q[b - 1] + P[c - 1]) + k
        BY ONLY <1>15, <4>1
      <4> QED
        BY <1>4, <3>2, <4>2, Zenon
  <2> QED
    BY <2>1, <2>2
<1>17. Passed(mp, st, o, e) + k <= AllCounts(mp, st, o)
  <2>1. (Q[b - 1] + P[c - 1]) + k <= Q[m]
    <3>1. (Q[b - 1] + P[c - 1]) + k = Q[b - 1] + P[c]
      BY ONLY <1>15
    <3>2. Q[b - 1] + P[c] <= Q[b - 1] + P[n]
      BY ONLY <1>12, <1>15
    <3>3. Q[b - 1] + P[n] <= Q[m]
      BY ONLY <1>12, <1>15
    <3>4. \A x, y, z \in Int : x <= y /\ y <= z => x <= z
      OBVIOUS
    <3>5. Q[b - 1] + P[c] \in Int /\ Q[b - 1] + P[n] \in Int /\ Q[m] \in Int
      BY ONLY <1>15
    <3> QED
      BY <3>1, <3>2, <3>3, <3>4, <3>5, Zenon
  <2> QED
    BY <1>4, <1>14, <2>1, Zenon
<1>18. k \in Nat /\ Passed(mp, st, o, e) \in Int /\ AllCounts(mp, st, o) \in Int
  <2>1. Q[b - 1] + P[c - 1] \in Int
    BY ONLY <1>15
  <2>2. k \in Nat /\ Q[m] \in Int
    BY ONLY <1>15
  <2> QED
    BY <1>4, <1>14, <2>1, <2>2, Zenon
<1> QED
  BY <1>16, <1>17, <1>18

LEMMA TooDenseIsAllCounts ==
  ASSUME Types, Seen, Steady
  PROVE  TooDense <=> AllCounts(mapping, step, ordered) > MaxPoints
<1>1. ASSUME NEW k \in DOMAIN ordered
      PROVE  Needed(ordered[k].corners) = SumFunction(EdgeCounts(mapping, step, ordered[k].corners))
  <2> DEFINE s == ordered[k].corners
             needed(i) == LET to == Successor(s, i) IN
               IF EdgeLength(s[i], to) = 0 THEN 0 ELSE SampleCount(EdgeLength(s[i], to))
  <2>1. s \in Outlines
    <3>1. ordered[k] \in Measured
      BY DEF Types
    <3> QED
      BY <3>1 DEF Measured
  <2>2. \A c \in ToSet(s) : OnBoard(mapping, c)
    BY DEF Seen
  <2> HIDE DEF s
  <2>3. ASSUME NEW i \in DOMAIN s PROVE needed(i) = EdgeCount(mapping, step, s[i], Successor(s, i))
    <3>1. i \in 1..Len(s) /\ DOMAIN s = 1..Len(s) /\ Len(s) >= 2 /\ Len(s) \in Nat
      BY <2>1 DEF Outlines
    <3>2. s[i] \in ToSet(s) /\ Successor(s, i) \in ToSet(s)
      BY <2>1, <3>1, SuccessorIsNext DEF ToSet
    <3>3. EdgeLength(s[i], Successor(s, i)) \in Nat
      BY <2>2, <3>2, LengthIsNat, EdgeLengthIsLength
    <3> QED
      BY <3>3, SampleCountIsCount, EdgeLengthIsLength DEF EdgeCount
  <2>4. Needed(s) = SumFunction([i \in DOMAIN s |-> needed(i)])
    BY Zenon DEF Needed
  <2> HIDE DEF needed
  <2>5. [i \in DOMAIN s |-> needed(i)] = EdgeCounts(mapping, step, s)
    BY <2>3 DEF EdgeCounts
  <2> QED
    BY <2>4, <2>5 DEF s
<1>2. [i \in DOMAIN ordered |-> Needed(ordered[i].corners)] = BatteryCounts(mapping, step, ordered)
  BY <1>1 DEF BatteryCounts
<1> QED
  BY <1>2, Zenon DEF TooDense, AllCounts

\* The edge the walk is at: what it adds, and that this is within the whole.
LEMMA EdgeAddsItsCount ==
  ASSUME Types, Measuring, NEW k, k = IF Length = 0 THEN 0 ELSE SampleCount(Length)
  PROVE  /\ k \in Nat /\ Passed(mapping, step, ordered, edge) \in Int
         /\ Passed(mapping, step, ordered, NextEdge) = Passed(mapping, step, ordered, edge) + k
         /\ Passed(mapping, step, ordered, edge) + k <= AllCounts(mapping, step, ordered)
<1> DEFINE b == edge.battery
           c == edge.corner
<1>1. b \in 1..Len(ordered) /\ c \in 1..Len(ordered[b].corners) /\ edge = [battery |-> b, corner |-> c]
  <2>1. b \in 1..Len(ordered) /\ edge = [battery |-> b, corner |-> c]
    BY DEF Types, Walking, Measuring
  <2>2. c \in 1..Len(ordered[b].corners)
    BY AtAnEdge DEF Corners, Measuring
  <2> QED
    BY <2>1, <2>2
<1>2. mapping \in Mappings /\ step \in Nat \ {0} /\ ordered \in Seq(Measured)
  BY PlanningAssumption DEF Types
<1>3. k = EdgeCounts(mapping, step, ordered[b].corners)[c]
  <2> DEFINE s == ordered[b].corners
  <2>1. From = s[c] /\ To = Successor(s, c)
    BY DEF From, To, Corners
  <2>2. c \in DOMAIN s
    BY AtAnEdge DEF Corners, Outlines, Measuring
  <2>3. EdgeCounts(mapping, step, s)[c] = EdgeCount(mapping, step, From, To)
    BY <2>1, <2>2 DEF EdgeCounts
  <2>4. Length = LengthOf(mapping, From, To) /\ Length \in Nat
    BY LengthIsNat, EdgeLengthIsLength, HitsIsOnBoard DEF Length, Measuring
  <2> QED
    BY <2>3, <2>4, SampleCountIsCount DEF EdgeCount
<1>4. NextEdge = FollowingEdge(ordered, edge)
  <2>1. [edge EXCEPT !.corner = @ + 1] = [battery |-> b, corner |-> c + 1]
    BY <1>1
  <2> QED
    BY <2>1 DEF NextEdge, FollowingEdge, Corners
<1> HIDE DEF b, c
<1> QED
  BY <1>1, <1>2, <1>3, <1>4, PassedGrows

\* While no mapping is replaced, the path has the points of the edges that were passed.
Counted ==
  /\ Len(path) <= MaxPoints
  /\ Steady /\ pc \notin {"order", "no ray"} => Len(path) = Passed(mapping, step, ordered, edge)
  /\ Steady /\ pc = "too dense" => AllCounts(mapping, step, ordered) > MaxPoints

LEMMA CountedStays ==
  ASSUME Counted, UNCHANGED <<mapping, recalibrations, step, ordered, edge, path>>,
         pc' = pc \/ (pc \notin {"order", "no ray"} /\ pc' # "too dense") \/ pc' = "no ray"
  PROVE  Counted'
BY DEF Counted, Steady

LEMMA CountedStep ==
  ASSUME Types, Places, Counted, [Next]_vars
  PROVE  Counted'
<1> USE DEF request, board
<1>1. CASE MeasureBattery
  <2>1. pc = "order" /\ pc' = "order" /\ path' = path
    BY <1>1 DEF MeasureBattery
  <2> QED
    BY <2>1 DEF Counted
<1>2. CASE SortBatteries
  <2>1. pc' = "walk" /\ path' = <<>> /\ edge' = [battery |-> 1, corner |-> 1] /\ Types'
    BY <1>2, TypesStep DEF SortBatteries, Places
  <2>2. mapping' \in Mappings /\ step' \in Nat \ {0} /\ ordered' \in Seq(Measured)
    BY <2>1, PlanningAssumption DEF Types
  <2>3. Passed(mapping', step', ordered', [battery |-> 1, corner |-> 1]) = 0
    BY <2>2, NothingPassed
  <2>4. Len(path') = 0 /\ 0 <= MaxPoints
    BY <2>1, PlanningAssumption
  <2> QED
    BY <2>1, <2>3, <2>4 DEF Counted
<1>3. CASE SkipEdge
  <2>1. /\ Measuring /\ Length = 0 /\ edge' = NextEdge /\ pc = "walk"
        /\ UNCHANGED <<mapping, recalibrations, step, pc, ordered, path>>
    BY <1>3 DEF SkipEdge, Measuring, Walking
  <2>2. 0 = IF Length = 0 THEN 0 ELSE SampleCount(Length)
    BY <2>1
  <2>3. /\ Passed(mapping, step, ordered, edge) \in Int
        /\ Passed(mapping, step, ordered, NextEdge) = Passed(mapping, step, ordered, edge) + 0
    BY <2>1, <2>2, EdgeAddsItsCount
  <2>4. Passed(mapping', step', ordered', edge') = Passed(mapping, step, ordered, edge)
    BY <2>1, <2>3
  <2> QED
    BY <2>1, <2>4 DEF Counted, Steady
<1>4. CASE SampleEdge
  <2> DEFINE samples == Samples(edge.battery, edge.corner, From, To)
             n == SampleCount(Length)
  <2>1. /\ Measuring /\ Length # 0 /\ edge' = NextEdge /\ pc = "walk"
        /\ Len(path) + n <= MaxPoints /\ path' = path \o samples
        /\ UNCHANGED <<mapping, recalibrations, step, pc, ordered>>
    BY <1>4 DEF SampleEdge, Measuring, Walking
  <2>2. AreSamples(samples, n, edge.battery, edge.corner, From, To)
    BY <2>1, EdgeIsSampled, Zenon
  <2>3. n = IF Length = 0 THEN 0 ELSE SampleCount(Length)
    BY <2>1
  <2>4. /\ Passed(mapping, step, ordered, edge) \in Int
        /\ Passed(mapping, step, ordered, NextEdge) = Passed(mapping, step, ordered, edge) + n
    BY <2>1, <2>3, EdgeAddsItsCount
  <2> HIDE DEF samples, n
  <2>5. n \in Nat \ {0} /\ samples \in Seq(PathPoints) /\ Len(samples) = n
    BY <2>2, Zenon DEF AreSamples
  <2>6. path \in Seq(PathPoints)
    BY DEF Types
  <2>7. Len(path') = Len(path) + n
    BY <2>1, <2>5, <2>6, Concatenated
  <2>8. Passed(mapping', step', ordered', edge') = Passed(mapping, step, ordered, edge) + n
    BY <2>1, <2>4
  <2> QED
    BY <2>1, <2>5, <2>7, <2>8 DEF Counted, Steady
<1>5. CASE RefuseDensity
  <2> DEFINE n == SampleCount(Length)
  <2>1. /\ Measuring /\ Length # 0 /\ pc = "walk" /\ Len(path) + n > MaxPoints /\ pc' = "too dense"
        /\ UNCHANGED <<mapping, recalibrations, step, ordered, edge, path>>
    BY <1>5 DEF RefuseDensity, Measuring, Walking
  <2>2. n = IF Length = 0 THEN 0 ELSE SampleCount(Length)
    BY <2>1
  <2>3. /\ n \in Nat /\ Passed(mapping, step, ordered, edge) \in Int
        /\ Passed(mapping, step, ordered, edge) + n <= AllCounts(mapping, step, ordered)
    BY <2>1, <2>2, EdgeAddsItsCount
  <2>4. AllCounts(mapping, step, ordered) \in Int
    BY AllCountsIsInt, PlanningAssumption DEF Types
  <2> HIDE DEF n
  <2>5. Steady => AllCounts(mapping, step, ordered) > MaxPoints
    <3> SUFFICES ASSUME Steady PROVE AllCounts(mapping, step, ordered) > MaxPoints
      OBVIOUS
    <3>1. pc \notin {"order", "no ray"}
      BY <2>1
    <3>2. Len(path) = Passed(mapping, step, ordered, edge)
      BY <3>1, Zenon DEF Counted
    <3>3. MaxPoints \in Nat
      BY PlanningAssumption
    <3> QED
      <4>1. \A p, q, t \in Int : p + q > MaxPoints /\ p + q <= t => t > MaxPoints
        BY <3>3
      <4>2. Passed(mapping, step, ordered, edge) + n > MaxPoints
        BY <2>1, <3>2, Zenon
      <4>3. n \in Int
        BY <2>3
      <4> QED
        BY <2>3, <2>4, <4>1, <4>2, <4>3, Zenon
  <2> QED
    BY <2>1, <2>5 DEF Counted, Steady
<1>6. CASE AnswerPath
  BY <1>6, CountedStays DEF AnswerPath
<1>7. CASE ConvertPoint
  BY <1>7, CountedStays DEF ConvertPoint
<1>8. CASE CheckJob
  <2>1. pc = "populated" /\ pc' \in {"unreachable", "empty", "accepted", "no robot"}
    BY <1>8 DEF CheckJob
  <2>2. UNCHANGED <<mapping, recalibrations, step, ordered, edge, path>>
    BY <1>8 DEF CheckJob
  <2> QED
    BY <2>1, <2>2, CountedStays
<1>9. CASE Recalibrate
  <2>1. ~Steady' /\ path' = path
    BY <1>9 DEF Recalibrate, Steady, Types
  <2> QED
    BY <2>1 DEF Counted
<1>10. CASE FailPopulate \/ FailConvert
  BY <1>10, CountedStays DEF FailPopulate, FailConvert
<1>11. CASE UNCHANGED vars
  BY <1>11, CountedStays DEF vars
<1> QED
  BY <1>1, <1>2, <1>3, <1>4, <1>5, <1>6, <1>7, <1>8, <1>9, <1>10, <1>11 DEF Next, Finished

\* The path never exceeds the limit, and the refusal for density is right: it comes exactly
\* when the perimeters of all batteries of the request need more points than the limit,
\* although populate_pixel_path_from_batteries refuses at the first edge that passes it.
THEOREM LimitRefusesTheExcess == Spec => []LimitIsExact
<1>1. Types /\ Places /\ Seen /\ Counted => LimitIsExact
  <2> SUFFICES ASSUME Types, Places, Seen, Counted PROVE LimitIsExact
    OBVIOUS
  <2>1. AllCounts(mapping, step, ordered) \in Int /\ Len(path) \in Nat
    <3>1. mapping \in Mappings /\ step \in Nat \ {0} /\ ordered \in Seq(Measured)
      BY PlanningAssumption DEF Types
    <3> QED
      BY <3>1, AllCountsIsInt DEF Types
  <2>2. ASSUME Steady, pc = "populated"
        PROVE  ~(AllCounts(mapping, step, ordered) > MaxPoints)
    <3>1. edge.battery = Len(ordered) + 1 /\ pc \notin {"order", "no ray"}
      BY <2>2 DEF Places
    <3>2. Passed(mapping, step, ordered, edge) = AllCounts(mapping, step, ordered)
      <4>1. Len(ordered) \in Nat /\ edge.battery = Len(ordered) + 1
        <5>1. ordered \in Seq(Measured)
          BY DEF Types
        <5>2. Len(ordered) \in Nat
          BY ONLY <5>1
        <5> QED
          BY <3>1, <5>2, Zenon
      <4>2. edge.battery > Len(ordered)
        BY ONLY <4>1
      <4> QED
        BY <4>2, Zenon DEF Passed
    <3>3. Len(path) <= MaxPoints /\ Len(path) = Passed(mapping, step, ordered, edge)
      BY <2>2, <3>1, Zenon DEF Counted
    <3>4. MaxPoints \in Nat
      BY PlanningAssumption
    <3>5. \A a, l \in Int : l <= MaxPoints /\ l = a => ~(a > MaxPoints)
      BY <3>4
    <3> QED
      BY <2>1, <3>2, <3>3, <3>5, Zenon
  <2>3. Len(path) <= MaxPoints
    BY Zenon DEF Counted
  <2>4. Steady /\ pc = "too dense" => TooDense
    BY TooDenseIsAllCounts, Zenon DEF Counted
  <2>5. Steady /\ pc = "populated" => ~TooDense
    BY <2>2, TooDenseIsAllCounts, Zenon
  <2> QED
    BY <2>3, <2>4, <2>5 DEF LimitIsExact
<1>2. Init => Types /\ Places /\ Seen /\ Counted
  <2>1. Init => Seen /\ Counted
    BY PlanningAssumption DEF Init, Seen, Counted
  <2> QED
    BY <2>1, TypesInit
<1>3. Types /\ Places /\ Seen /\ Counted /\ [Next]_vars => (Types /\ Places /\ Seen /\ Counted)'
  BY TypesStep, SeenStep, CountedStep
<1> QED
  BY <1>1, <1>2, <1>3, PTL DEF Spec

-----------------------------------------------------------------------------
(* Neighbours on the path.                                                 *)

\* The corners an edge with point p begins and ends at, and where its battery begins.
Start(o, p) == o[p.battery].corners[p.corner]
End(o, p)   == Successor(o[p.battery].corners, p.corner)
Home(o, p)  == o[p.battery].corners[1]

\* The first point of a battery; a point and the next one of the battery; the last one.
Opens(o, p)        == p.nr = 1 /\ Start(o, p) = Home(o, p)
Continues(o, p, q) == \/ q.corner = p.corner /\ q.nr = p.nr + 1 /\ q.at.d = p.at.d
                      \/ p.nr = p.at.d /\ q.nr = 1 /\ Start(o, q) = End(o, p)
Closes(o, p)       == p.nr = p.at.d /\ End(o, p) = Home(o, p)

\* The last point of the path and the edge e to sample next.
Meets(o, p, e) == /\ p.nr = p.at.d
                  /\ p.battery = e.battery => End(o, p) = o[e.battery].corners[e.corner]
                  /\ p.battery # e.battery => End(o, p) = Home(o, p)

\* The points of s and the edge e are in the order of the walk around the batteries o. Where a
\* battery has no point yet, the walk is still at its first corner: it skipped repeated ones.
Linked(o, s, e) ==
  /\ \A i \in DOMAIN s : i = 1 \/ s[i - 1].battery # s[i].battery => Opens(o, s[i])
  /\ \A i \in DOMAIN s : i + 1 \in DOMAIN s =>
       /\ s[i + 1].battery = s[i].battery => Continues(o, s[i], s[i + 1])
       /\ s[i + 1].battery # s[i].battery => Closes(o, s[i])
  /\ s # <<>> => Meets(o, s[Len(s)], e)
  /\ e.battery <= Len(o) /\ (s = <<>> \/ s[Len(s)].battery # e.battery) =>
       o[e.battery].corners[e.corner] = o[e.battery].corners[1]

\* The edge f begins at the corner after corner c of battery b, if only at its place.
BeginsAfter(o, b, c, f) ==
  \/ f = [battery |-> b, corner |-> c + 1] /\ o[b].corners[c + 1] = Successor(o[b].corners, c)
  \/ f = [battery |-> b + 1, corner |-> 1] /\ o[b].corners[1] = Successor(o[b].corners, c)

\* Where the next edge begins.
LEMMA FollowingBegins ==
  ASSUME NEW o \in Seq(Measured), NEW b \in 1..Len(o), NEW c \in 1..Len(o[b].corners),
         NEW e, e = [battery |-> b, corner |-> c]
  PROVE  BeginsAfter(o, b, c, FollowingEdge(o, e))
<1> DEFINE f == FollowingEdge(o, e)
<1> DEFINE s == o[b].corners
<1>1. s \in Outlines
  <2>1. o[b] \in Measured
    OBVIOUS
  <2> QED
    BY <2>1 DEF Measured
<1>2. f = IF c < Len(s) THEN [battery |-> b, corner |-> c + 1] ELSE [battery |-> b + 1, corner |-> 1]
  BY DEF FollowingEdge
<1> HIDE DEF s, f
<1>3. c \in 1..Len(s) /\ Len(s) \in Nat
  BY <1>1 DEF s, Outlines
<1>4. Successor(s, c) = s[IF c = Len(s) THEN 1 ELSE c + 1]
  BY <1>1, <1>3, SuccessorIsNext
<1>5. BeginsAfter(o, b, c, f)
  <2>1. CASE c < Len(s)
    BY <1>2, <1>3, <1>4, <2>1 DEF s, BeginsAfter
  <2>2. CASE ~(c < Len(s))
    <3>1. c = Len(s)
      BY <1>3, <2>2
    <3> QED
      BY <1>2, <1>4, <2>2, <3>1 DEF s, BeginsAfter
  <2> QED
    BY <2>1, <2>2
<1> QED
  BY <1>5 DEF f

\* Skipping an edge from a corner to itself.
LEMMA LinkedBySkip ==
  ASSUME NEW o \in Seq(Measured), NEW b \in 1..Len(o), NEW c \in 1..Len(o[b].corners),
         NEW e, e = [battery |-> b, corner |-> c], NEW s, Linked(o, s, e),
         o[b].corners[c] = Successor(o[b].corners, c)
  PROVE  Linked(o, s, FollowingEdge(o, e))
<1> DEFINE f == FollowingEdge(o, e)
<1>1. \/ f = [battery |-> b, corner |-> c + 1] /\ o[b].corners[c + 1] = o[b].corners[c]
      \/ f = [battery |-> b + 1, corner |-> 1] /\ o[b].corners[1] = o[b].corners[c]
  <2>1. BeginsAfter(o, b, c, f)
    BY FollowingBegins, Zenon
  <2> HIDE DEF f
  <2> QED
    BY <2>1 DEF BeginsAfter
<1> HIDE DEF f
<1>2. s # <<>> => Meets(o, s[Len(s)], f)
  <2> SUFFICES ASSUME s # <<>> PROVE Meets(o, s[Len(s)], f)
    OBVIOUS
  <2>1. Meets(o, s[Len(s)], e)
    BY DEF Linked
  <2> QED
    BY <1>1, <2>1 DEF Meets, Home
<1>3. f.battery <= Len(o) /\ (s = <<>> \/ s[Len(s)].battery # f.battery) =>
        o[f.battery].corners[f.corner] = o[f.battery].corners[1]
  BY <1>1 DEF Linked
<1> QED
  BY <1>2, <1>3, Zenon DEF Linked, f

\* n points of edge c of battery b, numbered.
Numbered(t, n, b, c) ==
  \A m \in 1..n : t[m].battery = b /\ t[m].corner = c /\ t[m].nr = m /\ t[m].at.d = n

\* Adding the points of an edge.
LEMMA LinkedBySamples ==
  ASSUME NEW o \in Seq(Measured), NEW b \in 1..Len(o), NEW c \in 1..Len(o[b].corners),
         NEW e, e = [battery |-> b, corner |-> c],
         NEW s \in Seq(PathPoints), NEW t \in Seq(PathPoints), NEW n \in Nat \ {0}, Len(t) = n,
         Numbered(t, n, b, c), Linked(o, s, e)
  PROVE  Linked(o, s \o t, FollowingEdge(o, e))
<1> DEFINE f == FollowingEdge(o, e)
           u == s \o t
           l == Len(s)
<1>1. \/ f = [battery |-> b, corner |-> c + 1] /\ o[b].corners[c + 1] = Successor(o[b].corners, c)
      \/ f = [battery |-> b + 1, corner |-> 1] /\ o[b].corners[1] = Successor(o[b].corners, c)
  <2>1. BeginsAfter(o, b, c, f)
    BY FollowingBegins, Zenon
  <2> HIDE DEF f
  <2> QED
    BY <2>1 DEF BeginsAfter
<1>2. l \in Nat /\ DOMAIN s = 1..l /\ (s = <<>> <=> l = 0)
  OBVIOUS
<1>3. /\ s \o t \in Seq(PathPoints) /\ Len(s \o t) = Len(s) + Len(t)
      /\ DOMAIN (s \o t) = 1..(Len(s) + Len(t))
      /\ \A i \in 1..(Len(s) + Len(t)) :
           (s \o t)[i] = IF i <= Len(s) THEN s[i] ELSE t[i - Len(s)]
  BY ONLY Concatenated, s \in Seq(PathPoints), t \in Seq(PathPoints)
<1>4. u \in Seq(PathPoints) /\ Len(u) = l + n /\ DOMAIN u = 1..(l + n)
  BY <1>3
<1>5. /\ \A i \in 1..l : u[i] = s[i]
      /\ \A i \in 1..n : u[l + i] = t[i]
  <2>1. \A i \in 1..(l + n) : u[i] = IF i <= l THEN s[i] ELSE t[i - l]
    BY <1>3
  <2> HIDE DEF u, l
  <2>2. ASSUME NEW i \in 1..l PROVE u[i] = s[i]
    <3>1. i \in 1..(l + n) /\ i <= l
      BY <1>2
    <3> QED
      BY <2>1, <3>1
  <2>3. ASSUME NEW i \in 1..n PROVE u[l + i] = t[i]
    <3>1. l + i \in 1..(l + n) /\ ~(l + i <= l) /\ (l + i) - l = i
      BY <1>2
    <3>2. u[l + i] = t[(l + i) - l]
      BY <2>1, <3>1, Zenon
    <3> QED
      BY <3>1, <3>2
  <2> QED
    BY <2>2, <2>3
<1> HIDE DEF u, l, f
<1>6. \A i \in (l + 1)..(l + n) : /\ u[i].battery = b /\ u[i].corner = c
                                  /\ u[i].nr = i - l /\ u[i].at.d = n
  <2> SUFFICES ASSUME NEW i \in (l + 1)..(l + n)
               PROVE  u[i].battery = b /\ u[i].corner = c /\ u[i].nr = i - l /\ u[i].at.d = n
    OBVIOUS
  <2>1. i - l \in 1..n /\ l + (i - l) = i
    BY <1>2
  <2>2. u[i] = t[i - l]
    BY <1>5, <2>1
  <2> QED
    BY <2>1, <2>2 DEF Numbered
<1>7. ASSUME NEW i \in 1..(l + n), i = 1 \/ u[i - 1].battery # u[i].battery
      PROVE  Opens(o, u[i])
  <2>1. CASE i <= l
    <3>1. i \in DOMAIN s /\ u[i] = s[i] /\ (i = 1 \/ u[i - 1] = s[i - 1])
      BY <1>2, <1>5, <2>1
    <3>2. i = 1 \/ s[i - 1].battery # s[i].battery
      BY <1>7, <3>1
    <3> QED
      BY <3>1, <3>2 DEF Linked
  <2>2. CASE i = l + 1
    <3>1. u[i].battery = b /\ u[i].corner = c /\ u[i].nr = 1
      BY <1>2, <1>6, <2>2
    <3>2. s = <<>> \/ s[Len(s)].battery # b
      <4>1. CASE l = 0
        BY <1>2, <4>1
      <4>2. CASE l # 0
        <5>1. i # 1 /\ i - 1 = l /\ l \in 1..l
          BY <1>2, <2>2, <4>2
        <5>2. u[i - 1] = s[l]
          BY <1>5, <5>1
        <5> QED
          BY <1>7, <3>1, <5>1, <5>2 DEF l
      <4> QED
        BY <4>1, <4>2
    <3>3. o[b].corners[c] = o[b].corners[1]
      BY <3>2 DEF Linked
    <3> QED
      BY <3>1, <3>3 DEF Opens, Start, Home
  <2>3. CASE i > l + 1
    <3>1. i - 1 \in (l + 1)..(l + n) /\ i \in (l + 1)..(l + n) /\ i # 1
      BY <1>2, <2>3
    <3> QED
      BY <1>6, <1>7, <3>1
  <2> QED
    BY <1>2, <2>1, <2>2, <2>3
<1>8. ASSUME NEW i \in 1..(l + n), i + 1 \in 1..(l + n)
      PROVE  /\ u[i + 1].battery = u[i].battery => Continues(o, u[i], u[i + 1])
             /\ u[i + 1].battery # u[i].battery => Closes(o, u[i])
  <2>1. CASE i < l
    <3>1. i \in DOMAIN s /\ i + 1 \in DOMAIN s /\ u[i] = s[i] /\ u[i + 1] = s[i + 1]
      BY <1>2, <1>5, <2>1
    <3> QED
      BY <3>1 DEF Linked
  <2>2. CASE i = l
    <3>1. u[i] = s[Len(s)] /\ s # <<>>
      BY <1>2, <1>5, <2>2 DEF l
    <3>2. Meets(o, u[i], e)
      BY <3>1 DEF Linked
    <3>3. u[i + 1].battery = b /\ u[i + 1].corner = c /\ u[i + 1].nr = 1
      BY <1>2, <1>6, <2>2
    <3> QED
      BY <3>2, <3>3 DEF Meets, Continues, Closes, Start
  <2>3. CASE i > l
    <3>1. i \in (l + 1)..(l + n) /\ i + 1 \in (l + 1)..(l + n)
      BY <1>2, <1>8, <2>3
    <3>2. u[i + 1].nr = u[i].nr + 1
      BY <1>2, <1>6, <3>1
    <3> QED
      BY <1>6, <3>1, <3>2 DEF Continues
  <2> QED
    BY <1>2, <2>1, <2>2, <2>3
<1>9. Meets(o, u[Len(u)], f) /\ u[Len(u)].battery = b
  <2> DEFINE p == u[Len(u)]
  <2>1. p.battery = b /\ p.corner = c /\ p.nr = n /\ p.at.d = n
    BY <1>2, <1>4, <1>6
  <2> HIDE DEF p
  <2>2. End(o, p) = Successor(o[b].corners, c) /\ Home(o, p) = o[b].corners[1]
    BY <2>1 DEF End, Home
  <2>3. Meets(o, p, f)
    BY <1>1, <2>1, <2>2 DEF Meets
  <2> QED
    BY <2>1, <2>3 DEF p
<1>10. f.battery <= Len(o) /\ (u = <<>> \/ u[Len(u)].battery # f.battery) =>
        o[f.battery].corners[f.corner] = o[f.battery].corners[1]
  <2>1. u # <<>>
    BY <1>2, <1>4
  <2> QED
    BY <1>1, <1>9, <2>1
<1>11. Linked(o, u, f)
  BY <1>4, <1>7, <1>8, <1>9, <1>10 DEF Linked
<1> QED
  BY <1>11 DEF u, f

\* A point at its part of its edge; an edge of as many parts as the step demands.
OnItsEdge(o, p) == p.at = SampleAt(Start(o, p), End(o, p), p.at.d, p.nr)
InParts(mp, st, o, p) == p.at.d = CountOf(st, LengthOf(mp, Start(o, p), End(o, p)))

Spaced ==
  /\ Linked(ordered, path, edge)
  /\ \A i \in DOMAIN path : OnItsEdge(ordered, path[i])
  /\ Steady => \A i \in DOMAIN path : InParts(mapping, step, ordered, path[i])

LEMMA SpacedStays ==
  ASSUME Spaced, UNCHANGED <<mapping, recalibrations, step, ordered, edge, path>>
  PROVE  Spaced'
BY DEF Spaced, Steady

LEMMA NothingLinked ==
  ASSUME NEW o
  PROVE  Linked(o, <<>>, [battery |-> 1, corner |-> 1])
BY DEF Linked

LEMMA SpacedStep ==
  ASSUME Types, Places, Seen, Spaced, [Next]_vars
  PROVE  Spaced'
<1> USE DEF request, board
<1>1. CASE MeasureBattery \/ SortBatteries
  <2>1. path' = <<>> /\ edge' = [battery |-> 1, corner |-> 1]
    BY <1>1 DEF MeasureBattery, SortBatteries, Places
  <2> QED
    BY <2>1, NothingLinked DEF Spaced
<1>2. ASSUME Walking
      PROVE  /\ edge.battery \in 1..Len(ordered) /\ edge.corner \in 1..Len(ordered[edge.battery].corners)
             /\ edge = [battery |-> edge.battery, corner |-> edge.corner]
             /\ ordered \in Seq(Measured)
             /\ NextEdge = FollowingEdge(ordered, edge)
             /\ From = ordered[edge.battery].corners[edge.corner]
             /\ To = Successor(ordered[edge.battery].corners, edge.corner)
  <2>1. /\ edge.battery \in 1..Len(ordered) /\ edge = [battery |-> edge.battery, corner |-> edge.corner]
        /\ ordered \in Seq(Measured)
    BY <1>2 DEF Types, Walking
  <2>2. edge.corner \in 1..Len(ordered[edge.battery].corners)
    BY <1>2, AtAnEdge DEF Corners
  <2>3. [edge EXCEPT !.corner = @ + 1] = [battery |-> edge.battery, corner |-> edge.corner + 1]
    BY <2>1
  <2> QED
    BY <2>1, <2>2, <2>3 DEF NextEdge, FollowingEdge, Corners, From, To
<1>3. CASE SkipEdge
  <2>1. /\ Walking /\ From = To /\ edge' = NextEdge
        /\ UNCHANGED <<mapping, recalibrations, step, ordered, path>>
    BY <1>3, NoLengthNoEdge DEF SkipEdge, Measuring
  <2>2. Linked(ordered, path, FollowingEdge(ordered, edge))
    BY <1>2, <2>1, LinkedBySkip DEF Spaced
  <2>3. edge' = FollowingEdge(ordered, edge)
    BY <1>2, <2>1
  <2> QED
    BY <2>1, <2>2, <2>3 DEF Spaced, Steady
<1>4. CASE SampleEdge
  <2> DEFINE samples == Samples(edge.battery, edge.corner, From, To)
             n == SampleCount(Length)
  <2>1. /\ Walking /\ Measuring /\ edge' = NextEdge /\ path' = path \o samples
        /\ UNCHANGED <<mapping, recalibrations, step, ordered>>
    BY <1>4 DEF SampleEdge, Measuring
  <2>2. AreSamples(samples, n, edge.battery, edge.corner, From, To)
    BY <2>1, EdgeIsSampled, Zenon
  <2>3. n = CountOf(step, LengthOf(mapping, From, To))
    BY SampleCountIsCount, EdgeLengthIsLength DEF Length
  <2> HIDE DEF samples, n
  <2>4. n \in Nat \ {0} /\ samples \in Seq(PathPoints) /\ Len(samples) = n
    BY <2>2, Zenon DEF AreSamples
  <2>5. ASSUME NEW m \in 1..n
        PROVE  /\ samples[m].battery = edge.battery /\ samples[m].corner = edge.corner
               /\ samples[m].nr = m /\ samples[m].at.d = n
               /\ OnItsEdge(ordered, samples[m]) /\ InParts(mapping, step, ordered, samples[m])
    <3>1. /\ samples[m].battery = edge.battery /\ samples[m].corner = edge.corner
          /\ samples[m].nr = m /\ samples[m].at = SampleAt(From, To, n, m)
      BY <2>2, Zenon DEF AreSamples
    <3>2. SampleAt(From, To, n, m).d = n
      BY SampleAtIsOf
    <3>3. samples[m].at.d = n
      BY <3>1, <3>2
    <3>4. Start(ordered, samples[m]) = From /\ End(ordered, samples[m]) = To
      BY <1>2, <2>1, <3>1 DEF Start, End
    <3> QED
      BY <2>3, <3>1, <3>3, <3>4 DEF OnItsEdge, InParts
  <2>6. path \in Seq(PathPoints) /\ Linked(ordered, path, edge)
    BY DEF Types, Spaced
  <2>7. Linked(ordered, path', edge')
    <3>1. edge' = FollowingEdge(ordered, edge)
      BY <1>2, <2>1
    <3>2. Numbered(samples, n, edge.battery, edge.corner)
      BY <2>5 DEF Numbered
    <3>3. Linked(ordered, path \o samples, FollowingEdge(ordered, edge))
      BY <1>2, <2>1, <2>4, <2>6, <3>2, LinkedBySamples, Zenon
    <3> QED
      BY <2>1, <3>1, <3>3
  <2>8. ASSUME NEW i \in DOMAIN path'
        PROVE  /\ OnItsEdge(ordered, path'[i])
               /\ Steady => InParts(mapping, step, ordered, path'[i])
    <3>1. /\ DOMAIN (path \o samples) = 1..(Len(path) + n)
          /\ \A j \in 1..(Len(path) + n) :
               (path \o samples)[j] = IF j <= Len(path) THEN path[j] ELSE samples[j - Len(path)]
      BY <2>4, <2>6, Concatenated, Zenon
    <3>2. i \in 1..(Len(path) + n)
      BY <2>1, <2>8, <3>1, Zenon
    <3>3. path'[i] = IF i <= Len(path) THEN path[i] ELSE samples[i - Len(path)]
      BY <2>1, <3>1, <3>2, Zenon
    <3>4. CASE i <= Len(path)
      <4>1. i \in DOMAIN path
        BY <2>6, <3>2, <3>4
      <4> QED
        BY <2>8, <3>3, <3>4, <4>1 DEF Spaced
    <3>5. CASE ~(i <= Len(path))
      <4>1. i - Len(path) \in 1..n
        BY <2>4, <2>6, <3>2, <3>5
      <4> QED
        BY <2>5, <3>3, <3>5, <4>1
    <3> QED
      BY <3>4, <3>5
  <2>9. Linked(ordered', path', edge') /\ \A i \in DOMAIN path' : OnItsEdge(ordered', path'[i])
    BY <2>1, <2>7, <2>8, Zenon
  <2>10. Steady' => \A i \in DOMAIN path' : InParts(mapping', step', ordered', path'[i])
    BY <2>1, <2>8, Zenon DEF Steady
  <2> QED
    BY <2>9, <2>10, Zenon DEF Spaced
<1>5. CASE \/ RefuseDensity \/ FailPopulate \/ AnswerPath
           \/ ConvertPoint \/ FailConvert \/ CheckJob \/ UNCHANGED vars
  <2>1. UNCHANGED <<mapping, recalibrations, step, ordered, edge, path>>
    BY <1>5 DEF RefuseDensity, FailPopulate, AnswerPath, ConvertPoint, FailConvert, CheckJob,
       vars
  <2> QED
    BY <2>1, SpacedStays
<1>6. CASE Recalibrate
  <2>1. ~Steady' /\ UNCHANGED <<ordered, edge, path>>
    BY <1>6 DEF Recalibrate, Steady, Types
  <2> QED
    BY <2>1 DEF Spaced
<1> QED
  BY <1>1, <1>3, <1>4, <1>5, <1>6 DEF Next, Finished

\* From one part of an edge to the next, and from its last part to where the next edge begins.
LEMMA PartsAreEqual ==
  ASSUME NEW f \in Pairs, NEW t \in Pairs, NEW n \in Nat \ {0}
  PROVE  /\ \A r \in Nat : Further(SampleAt(f, t, n, r), SampleAt(f, t, n, r + 1), Minus(t, f))
         /\ \A g \in Pairs, m \in Nat \ {0} :
              Further(SampleAt(f, t, n, n), SampleAt(t, g, m, 1), Minus(t, f))
<1>1. PICK a \in Int, b \in Int, c \in Int, d \in Int : f = <<a, b>> /\ t = <<c, d>>
  BY DEF Pairs
<1>2. ASSUME NEW r \in Nat
      PROVE  Further(SampleAt(f, t, n, r), SampleAt(f, t, n, r + 1), Minus(t, f))
  <2>1. \A x, y \in Int : (n * x + ((r + 1) - 1) * y) * n - (n * x + (r - 1) * y) * n = y * n
    OBVIOUS
  <2> QED
    BY <1>1, <2>1 DEF Further, SampleAt, Minus
<1>3. ASSUME NEW g \in Pairs, NEW m \in Nat \ {0}
      PROVE  Further(SampleAt(f, t, n, n), SampleAt(t, g, m, 1), Minus(t, f))
  <2>1. PICK u \in Int, v \in Int : g = <<u, v>>
    BY DEF Pairs
  <2>2. \A x, y, z \in Int : (m * y + (1 - 1) * z) * n - (n * x + (n - 1) * (y - x)) * m = (y - x) * m
    OBVIOUS
  <2> QED
    BY <1>1, <2>1, <2>2 DEF Further, SampleAt, Minus
<1> QED
  BY <1>2, <1>3

\* The first point of a battery on the path.
LEMMA FirstOfBattery ==
  ASSUME Types, Linked(ordered, path, edge), NEW i \in DOMAIN path,
         NEW k, k = CHOOSE c \in DOMAIN path : path[c].battery = path[i].battery
                      /\ \A l \in 1..(c - 1) : path[l].battery # path[i].battery
  PROVE  k \in DOMAIN path /\ path[k].battery = path[i].battery /\ Opens(ordered, path[k])
<1> DEFINE b == path[i].battery
           Its == {l \in DOMAIN path : path[l].battery = b}
<1>1. DOMAIN path = 1..Len(path) /\ Len(path) \in Nat
  BY DEF Types
<1>2. Its \in SUBSET Nat /\ i \in Its
  BY <1>1
<1>3. PICK l \in Its : \A m \in Its : l <= m
  BY <1>2, LeastNat
<1>4. ASSUME NEW m \in 1..(l - 1) PROVE path[m].battery # b
  <2>1. m \in DOMAIN path /\ m < l /\ l \in Nat /\ m \in Nat
    BY <1>1, <1>3
  <2>2. m \notin Its
    <3> HIDE DEF Its
    <3> QED
      BY <1>3, <2>1
  <2> QED
    BY <2>1, <2>2
<1>5. l \in DOMAIN path /\ path[l].battery = b
  BY <1>3
<1> HIDE DEF b, Its
<1>6. k \in DOMAIN path /\ path[k].battery = b /\ \A m \in 1..(k - 1) : path[m].battery # b
  BY <1>4, <1>5 DEF b
<1>7. k = 1 \/ path[k - 1].battery # path[k].battery
  <2>1. k = 1 \/ k - 1 \in 1..(k - 1)
    BY <1>1, <1>6
  <2> QED
    BY <1>6, <2>1
<1> QED
  BY <1>6, <1>7 DEF Linked, b

\* The next point around the battery goes on where a point is, the last one where the first is.
LEMMA AfterContinues ==
  ASSUME Types, Places, Linked(ordered, path, edge), pc = "populated", NEW i \in DOMAIN path
  PROVE  \E j \in DOMAIN path : /\ After(i) = path[j] /\ path[j].battery = path[i].battery
                                 /\ Continues(ordered, path[i], path[j])
<1>1. DOMAIN path = 1..Len(path) /\ Len(path) \in Nat
  BY DEF Types
<1>2. CASE i < Len(path) /\ path[i + 1].battery = path[i].battery
  <2>1. i + 1 \in DOMAIN path /\ After(i) = path[i + 1]
    BY <1>1, <1>2 DEF After
  <2>2. Continues(ordered, path[i], path[i + 1])
    BY <1>2, <2>1 DEF Linked
  <2> QED
    BY <1>2, <2>1, <2>2
<1>3. CASE ~(i < Len(path) /\ path[i + 1].battery = path[i].battery)
  <2> DEFINE k == CHOOSE c \in DOMAIN path : path[c].battery = path[i].battery
                    /\ \A l \in 1..(c - 1) : path[l].battery # path[i].battery
  <2>1. After(i) = path[k]
    BY <1>3, Zenon DEF After
  <2>2. k \in DOMAIN path /\ path[k].battery = path[i].battery /\ Opens(ordered, path[k])
    BY FirstOfBattery, Zenon
  <2> HIDE DEF k
  <2>3. Closes(ordered, path[i])
    <3>1. CASE i < Len(path)
      <4>1. i + 1 \in DOMAIN path /\ path[i + 1].battery # path[i].battery
        BY <1>1, <1>3, <3>1
      <4> QED
        BY <4>1 DEF Linked
    <3>2. CASE ~(i < Len(path))
      <4>1. i = Len(path) /\ path # <<>>
        BY <1>1, <3>2
      <4>2. Meets(ordered, path[i], edge)
        BY <4>1 DEF Linked
      <4>3. edge.battery = Len(ordered) + 1 /\ path[i].battery \in DOMAIN ordered
        BY DEF Places, OnWalk
      <4>4. path[i].battery # edge.battery
        BY <4>3 DEF Types
      <4> QED
        BY <4>2, <4>4 DEF Meets, Closes
    <3> QED
      BY <3>1, <3>2
  <2>4. Home(ordered, path[k]) = Home(ordered, path[i])
    BY <2>2 DEF Home
  <2>5. Continues(ordered, path[i], path[k])
    BY <2>2, <2>3, <2>4 DEF Opens, Closes, Continues
  <2> QED
    BY <2>1, <2>2, <2>5
<1> QED
  BY <1>2, <1>3

\* Every point is followed by the one that is a part of its edge further, along the edge, around
\* its end, over repeated corners that the walk skips, and from the last point of a battery back
\* to its first; and max(1, ceil(edge_length_mm / step_mm)) is the least number of parts that are
\* no longer than the step on the average.
THEOREM PointsFollowThePerimeter == Spec => []PointsSpreadEvenly
<1>1. Types /\ Places /\ Seen /\ Spaced => PointsSpreadEvenly
  <2> SUFFICES ASSUME Types, Places, Seen, Spaced, pc = "populated", NEW i \in DOMAIN path
               PROVE  LET n    == path[i].at.d
                          s    == ordered[path[i].battery].corners
                          from == s[path[i].corner]
                          to   == Successor(s, path[i].corner)
                      IN  /\ Further(path[i].at, After(i).at, Minus(to, from))
                          /\ Steady => /\ Square(n * step) >= EdgeLength(from, to)
                                       /\ n > 1 => Square((n - 1) * step) < EdgeLength(from, to)
    BY Zenon DEF PointsSpreadEvenly
  <2>1. mapping \in Mappings /\ step \in Nat \ {0}
    BY PlanningAssumption DEF Types
  <2>2. ASSUME NEW j \in DOMAIN path
        PROVE  /\ Start(ordered, path[j]) \in Pairs /\ End(ordered, path[j]) \in Pairs
               /\ path[j].at.d \in Nat \ {0} /\ path[j].nr \in 1..path[j].at.d
               /\ OnItsEdge(ordered, path[j])
               /\ Steady => /\ InParts(mapping, step, ordered, path[j])
                            /\ OnBoard(mapping, Start(ordered, path[j]))
                            /\ OnBoard(mapping, End(ordered, path[j]))
    <3>1. OnWalk(path[j]) /\ path[j] \in PathPoints
      BY DEF Places, Types
    <3>2. ordered[path[j].battery] \in Measured
      BY <3>1 DEF OnWalk, Types
    <3> DEFINE s == ordered[path[j].battery].corners
    <3>3. s \in Outlines
      BY <3>2 DEF Measured
    <3>4. path[j].corner \in 1..Len(s)
      BY <3>1, <3>3 DEF OnWalk, Outlines
    <3>5. Steady => \A c \in ToSet(s) : OnBoard(mapping, c)
      BY <3>1 DEF Seen, OnWalk
    <3>6. /\ s[path[j].corner] \in Pairs /\ Successor(s, path[j].corner) \in Pairs
          /\ s[path[j].corner] \in ToSet(s) /\ Successor(s, path[j].corner) \in ToSet(s)
      <4> HIDE DEF s
      <4>1. Successor(s, path[j].corner)
              = s[IF path[j].corner = Len(s) THEN 1 ELSE path[j].corner + 1]
        BY <3>3, <3>4, SuccessorIsNext
      <4> QED
        BY <3>3, <3>4, <4>1 DEF Outlines, ToSet
    <3>7. path[j].at.d \in Nat \ {0}
      BY <3>1 DEF PathPoints, Points
    <3> QED
      BY <3>1, <3>5, <3>6, <3>7 DEF Start, End, OnWalk, Spaced
  <2> DEFINE f == Start(ordered, path[i])
             t == End(ordered, path[i])
             n == path[i].at.d
  <2>3. /\ f \in Pairs /\ t \in Pairs /\ n \in Nat \ {0} /\ path[i].nr \in 1..n
        /\ path[i].at = SampleAt(f, t, n, path[i].nr)
        /\ Steady => /\ n = CountOf(step, LengthOf(mapping, f, t))
                     /\ OnBoard(mapping, f) /\ OnBoard(mapping, t)
    BY <2>2 DEF OnItsEdge, InParts
  <2>4. PICK j \in DOMAIN path : /\ After(i) = path[j] /\ path[j].battery = path[i].battery
                                 /\ Continues(ordered, path[i], path[j])
    BY AfterContinues DEF Spaced
  <2> DEFINE g == End(ordered, path[j])
             m == path[j].at.d
  <2>5. /\ g \in Pairs /\ m \in Nat \ {0}
        /\ path[j].at = SampleAt(Start(ordered, path[j]), g, m, path[j].nr)
        /\ Steady => m = CountOf(step, LengthOf(mapping, Start(ordered, path[j]), g))
    BY <2>2 DEF OnItsEdge, InParts
  <2>6. path[j].corner = path[i].corner => Start(ordered, path[j]) = f /\ g = t
    BY <2>4 DEF Start, End
  <2>7. Continues(ordered, path[i], path[j]) =>
          \/ path[j].corner = path[i].corner /\ path[j].nr = path[i].nr + 1 /\ m = n
          \/ path[i].nr = n /\ path[j].nr = 1 /\ Start(ordered, path[j]) = t
    BY DEF Continues
  <2> HIDE DEF f, t, n, g, m
  <2>8. Steady => Square(n * step) >= LengthOf(mapping, f, t)
                  /\ (n > 1 => Square((n - 1) * step) < LengthOf(mapping, f, t))
    BY <2>1, <2>3, LengthIsNat, CountsSuffice
  <2>9. Further(path[i].at, path[j].at, Minus(t, f))
    <3>1. CASE path[j].corner = path[i].corner /\ path[j].nr = path[i].nr + 1 /\ m = n
      <4>1. path[j].at = SampleAt(f, t, n, path[i].nr + 1)
        BY <2>5, <2>6, <3>1
      <4> QED
        BY <2>3, <4>1, PartsAreEqual
    <3>2. CASE path[i].nr = n /\ path[j].nr = 1 /\ Start(ordered, path[j]) = t
      <4>1. path[i].at = SampleAt(f, t, n, n) /\ path[j].at = SampleAt(t, g, m, 1)
        BY <2>3, <2>5, <3>2
      <4> QED
        BY <2>3, <2>5, <4>1, PartsAreEqual
    <3> QED
      BY <2>4, <2>7, <3>1, <3>2
  <2> QED
    BY <2>4, <2>8, <2>9, EdgeLengthIsLength DEF f, t, n, Start, End
<1>2. Init => Types /\ Places /\ Seen /\ Spaced
  <2>1. Init => Seen /\ Spaced
    BY NothingLinked DEF Init, Seen, Spaced
  <2> QED
    BY <2>1, TypesInit
<1>3. Types /\ Places /\ Seen /\ Spaced /\ [Next]_vars => (Types /\ Places /\ Seen /\ Spaced)'
  BY TypesStep, SeenStep, SpacedStep
<1> QED
  BY <1>1, <1>2, <1>3, PTL DEF Spec

-----------------------------------------------------------------------------
(* The tour around a convex battery.                                       *)

LEMMA CrossIsInt ==
  ASSUME NEW u \in Pairs, NEW v \in Pairs
  PROVE  Cross(u, v) \in Int /\ Cross(v, u) = -Cross(u, v) /\ Minus(u, v) \in Pairs
<1>1. PICK a \in Int, b \in Int, c \in Int, d \in Int : u = <<a, b>> /\ v = <<c, d>>
  BY DEF Pairs
<1> QED
  BY <1>1 DEF Cross, Minus, Pairs

\* Directions less than half a turn apart, u before x: what is between them in the order of the
\* angles is in their cone.
LEMMA BetweenIsInCone ==
  ASSUME NEW u \in Pairs, NEW x \in Pairs, NEW z \in Pairs, Cross(u, x) > 0,
         ~Angular(z, u), ~Angular(x, z)
  PROVE  Cross(u, z) >= 0 /\ Cross(z, x) >= 0
<1>1. PICK a \in Int, b \in Int, c \in Int, d \in Int, e \in Int, f \in Int :
        u = <<a, b>> /\ x = <<c, d>> /\ z = <<e, f>>
  BY DEF Pairs
<1> DEFINE X == a * d - b * c  P == a * f - b * e  Q == e * d - f * c
<1>2. Cross(u, x) = X /\ Cross(u, z) = P /\ Cross(z, x) = Q
      /\ Cross(z, u) = -P /\ Cross(x, z) = -Q
  BY <1>1 DEF Cross
<1>3. d * P + b * Q = f * X /\ X \in Int /\ P \in Int /\ Q \in Int /\ X > 0
  BY <1>2
<1>4. /\ HalfPlane(u) <= HalfPlane(z) /\ HalfPlane(z) <= HalfPlane(x)
      /\ HalfPlane(u) = HalfPlane(z) => P >= 0
      /\ HalfPlane(z) = HalfPlane(x) => Q >= 0
  BY <1>1, <1>2, <1>3 DEF Angular, HalfPlane
<1>5. /\ HalfPlane(u) = IF b < 0 THEN 0 ELSE IF b > 0 THEN 2 ELSE IF a >= 0 THEN 1 ELSE 3
      /\ HalfPlane(x) = IF d < 0 THEN 0 ELSE IF d > 0 THEN 2 ELSE IF c >= 0 THEN 1 ELSE 3
      /\ HalfPlane(z) = IF f < 0 THEN 0 ELSE IF f > 0 THEN 2 ELSE IF e >= 0 THEN 1 ELSE 3
  BY <1>1 DEF HalfPlane
<1>6. /\ d = 0 => X = -(b * c) /\ Q = -(f * c)
      /\ b = 0 => X = a * d /\ P = a * f
      /\ f = 0 => P = -(b * e) /\ Q = e * d
  OBVIOUS
<1> HIDE DEF X, P, Q
<1>7. CASE b < 0
  <2>1. CASE d < 0
    BY <1>4, <1>5, <1>2, <1>7, <2>1
  <2>2. CASE d = 0
    <3>1. c >= 0
      <4> SUFFICES ASSUME c < 0 PROVE b * c > 0
        BY <1>3, <1>6, <2>2
      <4> QED
        BY <1>7
    <3>2. CASE f < 0
      <4>1. P >= 0
        BY <1>4, <1>5, <1>7, <3>2
      <4>2. f * c <= 0
        BY <3>1, <3>2
      <4> QED
        BY <1>2, <1>6, <2>2, <4>1, <4>2
    <3>3. CASE f = 0
      <4>1. e >= 0
        BY <1>4, <1>5, <2>2, <3>1, <3>3
      <4>2. b * e <= 0
        BY <1>7, <4>1
      <4> QED
        BY <1>2, <1>6, <2>2, <3>3, <4>2
    <3> QED
      BY <1>4, <1>5, <2>2, <3>1, <3>2, <3>3
  <2>3. CASE d > 0
    <3>1. CASE f < 0
      <4>1. P >= 0
        BY <1>4, <1>5, <1>7, <3>1
      <4>2. d * P >= 0 /\ f * X < 0 /\ d * P \in Int /\ f * X \in Int /\ b * Q \in Int
        BY <1>3, <2>3, <3>1, <4>1
      <4>3. b * Q < 0
        BY <1>3, <4>2
      <4>4. Q >= 0
        BY <1>3, <1>7, <4>3
      <4> QED
        BY <1>2, <4>1, <4>4
    <3>2. CASE f = 0
      <4>1. e >= 0
        BY <1>4, <1>5, <2>3, <3>2
      <4>2. b * e <= 0 /\ e * d >= 0
        BY <1>7, <2>3, <4>1
      <4> QED
        BY <1>2, <1>6, <3>2, <4>2
    <3>3. CASE f > 0
      <4>1. Q >= 0
        BY <1>4, <1>5, <2>3, <3>3
      <4>2. b * Q <= 0 /\ f * X > 0 /\ d * P \in Int /\ f * X \in Int /\ b * Q \in Int
        BY <1>3, <1>7, <3>3, <4>1
      <4>3. d * P > 0
        BY <1>3, <4>2
      <4>4. P >= 0
        BY <1>3, <2>3, <4>3
      <4> QED
        BY <1>2, <4>1, <4>4
    <3> QED
      BY <3>1, <3>2, <3>3
  <2> QED
    BY <2>1, <2>2, <2>3
<1>8. CASE b = 0
  <2>1. d # 0 /\ a # 0
    BY <1>3, <1>6, <1>8
  <2>2. a > 0
    BY <1>4, <1>5, <1>8, <2>1
  <2>3. d > 0
    <3> SUFFICES ASSUME d < 0 PROVE a * d < 0
      BY <1>3, <1>6, <1>8, <2>1
    <3> QED
      BY <2>2
  <2>4. CASE f = 0
    <3>1. e >= 0
      BY <1>4, <1>5, <2>3, <2>4
    <3>2. e * d >= 0 /\ a * f = 0
      BY <2>3, <2>4, <3>1
    <3> QED
      BY <1>2, <1>6, <1>8, <2>4, <3>2
  <2>5. CASE f > 0
    <3>1. Q >= 0
      BY <1>4, <1>5, <2>3, <2>5
    <3>2. a * f >= 0
      BY <2>2, <2>5
    <3> QED
      BY <1>2, <1>6, <1>8, <3>1, <3>2
  <2> QED
    BY <1>4, <1>5, <1>8, <2>2, <2>4, <2>5
<1>9. CASE b > 0
  <2>1. CASE d > 0
    BY <1>2, <1>4, <1>5, <1>9, <2>1
  <2>2. CASE d = 0
    <3>1. c < 0
      BY <1>4, <1>5, <1>9, <2>2
    <3>2. CASE f > 0
      <4>1. P >= 0
        BY <1>4, <1>5, <1>9, <3>2
      <4>2. f * c <= 0
        BY <3>1, <3>2
      <4> QED
        BY <1>2, <1>6, <2>2, <4>1, <4>2
    <3>3. CASE f = 0
      <4>1. e < 0
        BY <1>4, <1>5, <1>9, <3>3
      <4>2. b * e <= 0
        BY <1>9, <4>1
      <4> QED
        BY <1>2, <1>6, <2>2, <3>3, <4>2
    <3> QED
      BY <1>4, <1>5, <1>9, <3>2, <3>3
  <2> QED
    BY <1>4, <1>5, <1>9, <2>1, <2>2
<1> QED
  BY <1>7, <1>8, <1>9

\* The same across the angle pi, where the order begins anew: what is after u or before x.
LEMMA AcrossIsInCone ==
  ASSUME NEW u \in Pairs, NEW x \in Pairs, NEW z \in Pairs, Cross(u, x) > 0,
         ~Angular(u, x), ~Angular(z, u) \/ ~Angular(x, z)
  PROVE  Cross(u, z) >= 0 /\ Cross(z, x) >= 0
<1>1. PICK a \in Int, b \in Int, c \in Int, d \in Int, e \in Int, f \in Int :
        u = <<a, b>> /\ x = <<c, d>> /\ z = <<e, f>>
  BY DEF Pairs
<1> DEFINE X == a * d - b * c  P == a * f - b * e  Q == e * d - f * c
<1>2. Cross(u, x) = X /\ Cross(u, z) = P /\ Cross(z, x) = Q
      /\ Cross(z, u) = -P /\ Cross(x, z) = -Q
  BY <1>1 DEF Cross
<1>3. d * P + b * Q = f * X /\ X \in Int /\ P \in Int /\ Q \in Int /\ X > 0
  BY <1>2
<1>4. /\ HalfPlane(x) < HalfPlane(u)
      /\ \/ HalfPlane(u) < HalfPlane(z) \/ (HalfPlane(u) = HalfPlane(z) /\ P >= 0)
         \/ HalfPlane(z) < HalfPlane(x) \/ (HalfPlane(z) = HalfPlane(x) /\ Q >= 0)
  BY <1>1, <1>2, <1>3 DEF Angular, HalfPlane
<1>5. /\ HalfPlane(u) = IF b < 0 THEN 0 ELSE IF b > 0 THEN 2 ELSE IF a >= 0 THEN 1 ELSE 3
      /\ HalfPlane(x) = IF d < 0 THEN 0 ELSE IF d > 0 THEN 2 ELSE IF c >= 0 THEN 1 ELSE 3
      /\ HalfPlane(z) = IF f < 0 THEN 0 ELSE IF f > 0 THEN 2 ELSE IF e >= 0 THEN 1 ELSE 3
  BY <1>1 DEF HalfPlane
<1>6. /\ d = 0 => X = -(b * c) /\ Q = -(f * c)
      /\ b = 0 => X = a * d /\ P = a * f
      /\ f = 0 => P = -(b * e) /\ Q = e * d
  OBVIOUS
<1> HIDE DEF X, P, Q
<1>7. d < 0 /\ (b > 0 \/ (b = 0 /\ a < 0))
  <2>1. ASSUME d = 0, c >= 0, b > 0 PROVE FALSE
    <3>1. b * c >= 0
      BY <2>1
    <3> QED
      BY <1>3, <1>6, <2>1, <3>1
  <2>2. ASSUME d > 0, b = 0, a < 0 PROVE FALSE
    <3>1. a * d < 0
      BY <2>2
    <3> QED
      BY <1>3, <1>6, <2>2, <3>1
  <2>3. ASSUME d < 0, b = 0, a >= 0 PROVE FALSE
    <3>1. a * d <= 0
      BY <2>3
    <3> QED
      BY <1>3, <1>6, <2>3, <3>1
  <2>4. ASSUME d = 0, b = 0 PROVE FALSE
    BY <1>3, <1>6, <2>4
  <2> QED
    BY <1>4, <1>5, <2>1, <2>2, <2>3, <2>4
<1>8. CASE b > 0
  <2>1. CASE f > 0
    <3>1. P >= 0
      BY <1>4, <1>5, <1>7, <1>8, <2>1
    <3>2. d * P <= 0 /\ f * X > 0 /\ d * P \in Int /\ f * X \in Int /\ b * Q \in Int
      BY <1>3, <1>7, <2>1, <3>1
    <3>3. b * Q > 0
      BY <1>3, <3>2
    <3>4. Q >= 0
      BY <1>3, <1>8, <3>3
    <3> QED
      BY <1>2, <3>1, <3>4
  <2>2. CASE f = 0
    <3>1. e < 0
      BY <1>4, <1>5, <1>7, <1>8, <2>2
    <3>2. b * e <= 0 /\ e * d >= 0
      BY <1>7, <1>8, <3>1
    <3> QED
      BY <1>2, <1>6, <2>2, <3>2
  <2>3. CASE f < 0
    <3>1. Q >= 0
      BY <1>4, <1>5, <1>7, <1>8, <2>3
    <3>2. b * Q >= 0 /\ f * X < 0 /\ d * P \in Int /\ f * X \in Int /\ b * Q \in Int
      BY <1>3, <1>8, <2>3, <3>1
    <3>3. d * P < 0
      BY <1>3, <3>2
    <3>4. P >= 0
      BY <1>3, <1>7, <3>3
    <3> QED
      BY <1>2, <3>1, <3>4
  <2> QED
    BY <2>1, <2>2, <2>3
<1>9. CASE b = 0 /\ a < 0
  <2>1. CASE f < 0
    <3>1. Q >= 0
      BY <1>4, <1>5, <1>7, <1>9, <2>1
    <3>2. a * f >= 0
      BY <1>9, <2>1
    <3> QED
      BY <1>2, <1>6, <1>9, <3>1, <3>2
  <2>2. CASE ~(f < 0)
    <3>1. f = 0 /\ e < 0
      BY <1>4, <1>5, <1>7, <1>9, <2>2
    <3>2. e * d >= 0 /\ b * e = 0
      BY <1>7, <1>9, <3>1
    <3> QED
      BY <1>2, <1>6, <3>1, <3>2
  <2> QED
    BY <2>1, <2>2
<1> QED
  BY <1>7, <1>8, <1>9

\* What is in the cone of u and x, but short of the line between them, is in the convex hull of
\* these two and the origin: it cannot be a corner of a polygon around the origin. w is the edge
\* that would begin at such a corner.
LEMMA NoCornerInCone ==
  ASSUME NEW u \in Pairs, NEW x \in Pairs, NEW z \in Pairs, NEW w \in Pairs,
         Cross(u, z) >= 0, Cross(z, x) >= 0, Cross(Minus(x, u), Minus(z, u)) > 0,
         Cross(w, Minus(u, z)) >= 0, Cross(w, Minus(x, z)) >= 0, Cross(w, z) < 0
  PROVE  FALSE
<1> DEFINE X == Cross(u, x)  P == Cross(u, z)  Q == Cross(z, x)
           U == Cross(w, u)  V == Cross(w, x)  Z == Cross(w, z)
<1>1. PICK a \in Int, b \in Int, c \in Int, d \in Int : u = <<a, b>> /\ x = <<c, d>>
  BY DEF Pairs
<1>2. PICK e \in Int, f \in Int, g \in Int, h \in Int : z = <<e, f>> /\ w = <<g, h>>
  BY DEF Pairs
<1>3. u = <<a, b>> /\ x = <<c, d>> /\ z = <<e, f>> /\ w = <<g, h>>
  BY <1>1, <1>2
<1>4. /\ X = a * d - b * c /\ P = a * f - b * e /\ Q = e * d - f * c
      /\ U = g * b - h * a /\ V = g * d - h * c /\ Z = g * f - h * e
      /\ Cross(Minus(x, u), Minus(z, u)) = (c - a) * (f - b) - (d - b) * (e - a)
      /\ Cross(w, Minus(u, z)) = g * (b - f) - h * (a - e)
      /\ Cross(w, Minus(x, z)) = g * (d - f) - h * (c - e)
  BY <1>3 DEF Cross, Minus
<1>5. X \in Int /\ P \in Int /\ Q \in Int /\ U \in Int /\ V \in Int /\ Z \in Int
  BY <1>4
<1>6. (c - a) * (f - b) - (d - b) * (e - a) = X - P - Q
  BY <1>4
<1>7. g * (b - f) - h * (a - e) = U - Z /\ g * (d - f) - h * (c - e) = V - Z
  BY <1>4
<1>8. X * Z = Q * U + P * V
  BY <1>4
<1> HIDE DEF X, P, Q, U, V, Z
<1>9. P >= 0 /\ Q >= 0 /\ X - P - Q > 0 /\ U >= Z /\ V >= Z /\ Z < 0
  BY <1>4, <1>5, <1>6, <1>7 DEF P, Q, Z
<1>10. Q * U >= Q * Z /\ P * V >= P * Z
  BY <1>5, <1>9
<1>11. (X - P - Q) * Z < 0 /\ (X - P - Q) * Z = X * Z - P * Z - Q * Z
  BY <1>5, <1>9
<1>12. X * Z \in Int /\ P * Z \in Int /\ Q * Z \in Int /\ Q * U \in Int /\ P * V \in Int
  BY <1>5
<1> QED
  BY ONLY <1>8, <1>10, <1>11, <1>12

\* All corners lie on one side of an edge of the perimeter, and so does their mean.
LEMMA MeanIsInside ==
  ASSUME NEW s \in Seq(Pairs), NEW c \in Pairs, NEW w \in Pairs, NEW m \in DOMAIN s,
         \A i \in DOMAIN s : Cross(w, Minus(s[i], c)) >= 0,
         Cross(w, Minus(s[m], c)) > 0
  PROVE  Cross(w, FromCentre(s, c)) < 0
<1> DEFINE n  == Len(s)
           xs == [i \in 1..n |-> s[i][1]]
           ys == [i \in 1..n |-> s[i][2]]
           f  == [i \in 1..n |-> Cross(w, Minus(s[i], c))]
<1>1. PICK a \in Int, b \in Int, g \in Int, h \in Int : c = <<a, b>> /\ w = <<g, h>>
  BY DEF Pairs
<1>2. n \in Nat /\ DOMAIN s = 1..n /\ \A i \in 1..n : s[i] \in Pairs
  OBVIOUS
<1>3. /\ xs \in [1..n -> Int] /\ ys \in [1..n -> Int] /\ f \in [1..n -> Nat]
      /\ \A i \in 1..n : f[i] = g * (ys[i] - b) - h * (xs[i] - a)
  <2>1. \A i \in 1..n : s[i][1] \in Int /\ s[i][2] \in Int
    BY <1>2 DEF Pairs
  <2>2. \A i \in 1..n : Cross(w, Minus(s[i], c)) = g * (s[i][2] - b) - h * (s[i][1] - a)
    BY <1>1, <2>1 DEF Cross, Minus
  <2>3. \A i \in 1..n : Cross(w, Minus(s[i], c)) \in Nat
    <3> SUFFICES ASSUME NEW i \in 1..n PROVE Cross(w, Minus(s[i], c)) \in Nat
      OBVIOUS
    <3> HIDE DEF n
    <3>1. s[i] \in Pairs
      BY <1>2
    <3>2. Minus(s[i], c) \in Pairs
      BY <3>1, CrossIsInt, Zenon
    <3>3. Cross(w, Minus(s[i], c)) \in Int
      BY <3>2, CrossIsInt, Zenon
    <3> QED
      BY <1>2, <3>3
  <2> QED
    BY <2>1, <2>2, <2>3
<1>4. f[m] > 0 /\ m \in 1..n
  BY <1>2
<1>5. FromCentre(s, c) = <<n * a - SumFunction(xs), n * b - SumFunction(ys)>>
  BY <1>1 DEF FromCentre
<1> HIDE DEF n, xs, ys, f
<1>6. PICK P : ArePartialSums(P, xs, n) /\ SumFunction(xs) = P[n]
  BY <1>2, <1>3, SumIsPartialSum
<1>7. PICK Q : ArePartialSums(Q, ys, n) /\ SumFunction(ys) = Q[n]
  BY <1>2, <1>3, SumIsPartialSum
<1> DEFINE R == [k \in 0..n |-> g * (Q[k] - k * b) - h * (P[k] - k * a)]
<1>8. ArePartialSums(R, f, n)
  <2>1. ASSUME NEW k \in 0..n PROVE P[k] \in Int /\ Q[k] \in Int /\ R[k] \in Int
    <3>1. P[k] \in Int /\ Q[k] \in Int /\ k \in Int
      BY <1>2, <1>6, <1>7 DEF ArePartialSums
    <3>2. \A p, q \in Int : g * (q - k * b) - h * (p - k * a) \in Int
      BY <3>1
    <3> QED
      BY <3>1, <3>2
  <2>2. R[0] = 0
    <3>1. P[0] = 0 /\ Q[0] = 0 /\ 0 \in 0..n
      BY <1>2, <1>6, <1>7 DEF ArePartialSums
    <3>2. g * (0 - 0 * b) - h * (0 - 0 * a) = 0
      OBVIOUS
    <3> QED
      BY <3>1, <3>2
  <2>3. ASSUME NEW k \in 1..n PROVE R[k] = R[k - 1] + f[k]
    <3> k - 1 \in 0..n
      BY <1>2
    <3>1. PICK p \in Int, q \in Int : p = P[k - 1] /\ q = Q[k - 1]
      BY <2>1, Zenon
    <3>2. PICK x \in Int, y \in Int : x = xs[k] /\ y = ys[k]
      BY <1>3
    <3>3. P[k] = p + x /\ Q[k] = q + y
      BY <1>6, <1>7, <3>1, <3>2 DEF ArePartialSums
    <3>4. R[k] = g * (q + y - k * b) - h * (p + x - k * a)
      BY <1>2, <3>3
    <3>5. R[k - 1] = g * (q - (k - 1) * b) - h * (p - (k - 1) * a)
      BY <1>2, <3>1
    <3>6. f[k] = g * (y - b) - h * (x - a)
      BY <1>3, <3>2
    <3>7. k \in Int
      OBVIOUS
    <3>8. g * (q + y - k * b) - h * (p + x - k * a)
            = (g * (q - (k - 1) * b) - h * (p - (k - 1) * a)) + (g * (y - b) - h * (x - a))
      BY ONLY <3>7, g \in Int, h \in Int, a \in Int, b \in Int, p \in Int, q \in Int,
         x \in Int, y \in Int
    <3> QED
      BY <3>4, <3>5, <3>6, <3>8
  <2>4. R \in [0..n -> Int]
    BY <2>1
  <2> QED
    BY <2>2, <2>3, <2>4 DEF ArePartialSums
<1>9. R[n] = -Cross(w, FromCentre(s, c)) /\ R[n] \in Int
  <2>1. PICK p \in Int, q \in Int : p = P[n] /\ q = Q[n]
    BY <1>2, <1>6, <1>7 DEF ArePartialSums
  <2>2. R[n] = g * (q - n * b) - h * (p - n * a)
    BY <1>2, <2>1
  <2>3. Cross(w, FromCentre(s, c)) = g * (n * b - q) - h * (n * a - p)
    <3>1. FromCentre(s, c) = <<n * a - p, n * b - q>>
      BY <1>5, <1>6, <1>7, <2>1, Zenon
    <3> QED
      BY <1>1, <3>1 DEF Cross
  <2>4. /\ g * (q - n * b) - h * (p - n * a) = -(g * (n * b - q) - h * (n * a - p))
        /\ g * (q - n * b) - h * (p - n * a) \in Int
    BY <1>2
  <2> QED
    BY <2>2, <2>3, <2>4
<1> HIDE DEF R
<1>10. R[m - 1] >= 0
  <2>1. m - 1 \in 0..n /\ m - 1 \in Nat
    BY <1>2, <1>4
  <2> DEFINE R1 == [k \in 0..(m - 1) |-> R[k]]
             f1 == [k \in 1..(m - 1) |-> f[k]]
  <2>2. ArePartialSums(R1, f1, m - 1)
    <3>1. /\ \A k \in 0..(m - 1) : R[k] \in Int
          /\ \A k \in 1..(m - 1) : R[k] = R[k - 1] + f[k] /\ k - 1 \in 0..(m - 1)
          /\ R[0] = 0 /\ 0 \in 0..(m - 1)
      BY <1>2, <1>4, <1>8, <2>1 DEF ArePartialSums
    <3>2. /\ R1 \in [0..(m - 1) -> Int] /\ R1[0] = 0
          /\ \A k \in 1..(m - 1) : R1[k] = R1[k - 1] + f1[k]
      BY <3>1
    <3> QED
      BY <3>2, Zenon DEF ArePartialSums
  <2>3. f1 \in [1..(m - 1) -> Nat] /\ R1[m - 1] = R[m - 1] /\ R1[0] = R[0]
    <3>1. \A k \in 1..(m - 1) : f[k] \in Nat
      BY <1>2, <1>3, <1>4
    <3>2. m - 1 \in 0..(m - 1) /\ 0 \in 0..(m - 1)
      BY <2>1
    <3> QED
      BY <3>1, <3>2
  <2>4. 0 \in 0..(m - 1)
    BY <2>1
  <2> HIDE DEF R1, f1
  <2>5. R1[0] <= R1[m - 1]
    BY <2>1, <2>2, <2>3, <2>4, PartialSumsGrow
  <2>6. R[0] = 0
    BY <1>8 DEF ArePartialSums
  <2> QED
    BY <2>1, <2>3, <2>5, <2>6
<1>11. R[m] > 0 /\ R[m] <= R[n] /\ R[m] \in Int
  <2>1. R[m] = R[m - 1] + f[m] /\ R[m - 1] \in Int /\ R[m] \in Int
    BY <1>2, <1>4, <1>8 DEF ArePartialSums
  <2>2. m \in 0..n
    BY <1>2, <1>4
  <2>3. f[m] \in Nat
    BY <1>3, <1>4
  <2>4. R[m] <= R[n]
    BY <1>2, <1>3, <1>8, <2>2, PartialSumsGrow
  <2> QED
    BY <1>4, <1>10, <2>1, <2>3, <2>4
<1> QED
  <2>1. Cross(w, FromCentre(s, c)) \in Int
    BY FromCentreIsPair, CrossIsInt
  <2> QED
    BY <1>9, <1>11, <2>1

\* Differences of directions are those of the corners, times their number.
LEMMA CrossOfDifferences ==
  ASSUME NEW s \in Seq(Pairs), NEW c \in Pairs, NEW d \in Pairs, NEW w \in Pairs
  PROVE  /\ Cross(w, Minus(FromCentre(s, d), FromCentre(s, c))) = Len(s) * Cross(w, Minus(d, c))
         /\ Cross(w, Minus(d, w)) = Cross(w, d)
<1> DEFINE n == Len(s)
           A == SumFunction([i \in 1..n |-> s[i][1]])
           B == SumFunction([i \in 1..n |-> s[i][2]])
<1>1. PICK a \in Int, b \in Int, g \in Int, h \in Int : c = <<a, b>> /\ w = <<g, h>>
  BY DEF Pairs
<1>2. PICK p \in Int, q \in Int : d = <<p, q>>
  BY DEF Pairs
<1>3. n \in Nat /\ A \in Int /\ B \in Int
  <2>1. \A i \in 1..n : s[i][1] \in Int /\ s[i][2] \in Int
    <3>1. \A i \in 1..n : s[i] \in Pairs
      OBVIOUS
    <3> QED
      BY <3>1 DEF Pairs
  <2> DEFINE xs == [i \in 1..n |-> s[i][1]]
             ys == [i \in 1..n |-> s[i][2]]
  <2>2. xs \in [1..n -> Int] /\ ys \in [1..n -> Int] /\ n \in Nat
    BY <2>1
  <2>3. A = SumFunction(xs) /\ B = SumFunction(ys)
    OBVIOUS
  <2> HIDE DEF xs, ys, n, A, B
  <2>4. SumFunction(xs) \in Int /\ SumFunction(ys) \in Int
    BY <2>2, SumIsInt
  <2> QED
    BY <2>2, <2>3, <2>4
<1>4. FromCentre(s, c) = <<n * a - A, n * b - B>> /\ FromCentre(s, d) = <<n * p - A, n * q - B>>
  BY <1>1, <1>2 DEF FromCentre
<1> HIDE DEF n, A, B
<1>5. Cross(w, Minus(FromCentre(s, d), FromCentre(s, c)))
        = g * ((n * q - B) - (n * b - B)) - h * ((n * p - A) - (n * a - A))
  BY <1>1, <1>4 DEF Cross, Minus
<1>6. Cross(w, Minus(d, c)) = g * (q - b) - h * (p - a)
  BY <1>1, <1>2 DEF Cross, Minus
<1>7. g * ((n * q - B) - (n * b - B)) - h * ((n * p - A) - (n * a - A))
        = n * (g * (q - b) - h * (p - a))
  BY ONLY <1>3, a \in Int, b \in Int, g \in Int, h \in Int, p \in Int, q \in Int
<1>8. Cross(w, Minus(d, w)) = Cross(w, d)
  <2>1. g * (q - h) - h * (p - g) = g * q - h * p
    OBVIOUS
  <2> QED
    BY <1>1, <1>2, <2>1 DEF Cross, Minus
<1> QED
  BY <1>5, <1>6, <1>7, <1>8 DEF n

\* Nothing is to the left of an edge of the perimeter.
LEMMA NoneLeftOf ==
  ASSUME NEW S \in SUBSET Pairs, NEW c \in S, NEW d \in S, RightOf(c, d, S), NEW e \in S
  PROVE  Cross(Minus(d, c), Minus(e, c)) >= 0
<1>1. CASE e \in S \ {c, d}
  BY <1>1, CrossIsInt DEF RightOf
<1>2. PICK a \in Int, b \in Int, p \in Int, q \in Int : c = <<a, b>> /\ d = <<p, q>>
  BY DEF Pairs
<1>3. CASE e = c
  <2>1. Cross(Minus(d, c), Minus(e, c)) = (p - a) * (b - b) - (q - b) * (a - a)
    BY <1>2, <1>3 DEF Cross, Minus
  <2> QED
    BY <2>1
<1>4. CASE e = d
  <2>1. Cross(Minus(d, c), Minus(e, c)) = (p - a) * (q - b) - (q - b) * (p - a)
    BY <1>2, <1>4 DEF Cross, Minus
  <2> QED
    BY <2>1
<1> QED
  BY <1>1, <1>3, <1>4

\* The mean is to the right of the edge from c to d on the perimeter.
LEMMA MeanIsRightOf ==
  ASSUME NEW s \in Seq(Pairs), NEW c \in ToSet(s), NEW d \in ToSet(s), NEW e \in ToSet(s) \ {c, d},
         RightOf(c, d, ToSet(s))
  PROVE  Cross(Minus(d, c), FromCentre(s, c)) < 0
<1> DEFINE S == ToSet(s)
<1>1. S \in SUBSET Pairs /\ \A x \in S : \E i \in DOMAIN s : s[i] = x
  BY DEF ToSet
<1>2. \A i \in DOMAIN s : s[i] \in S
  BY DEF ToSet
<1> HIDE DEF S
<1>3. \A i \in DOMAIN s : Cross(Minus(d, c), Minus(s[i], c)) >= 0
  BY <1>1, <1>2, NoneLeftOf DEF S
<1>4. PICK m \in DOMAIN s : s[m] = e
  BY <1>1 DEF S
<1>5. Cross(Minus(d, c), Minus(s[m], c)) > 0
  BY <1>4 DEF RightOf
<1>6. Minus(d, c) \in Pairs /\ c \in Pairs
  BY <1>1, CrossIsInt DEF S
<1> QED
  BY <1>3, <1>5, <1>6, MeanIsInside

\* Seen from their mean, no corner is between a corner and its successor on the perimeter.
LEMMA NothingBetween ==
  ASSUME NEW s \in Seq(Pairs), Convex(ToSet(s)),
         NEW c \in ToSet(s), NEW d \in ToSet(s), c # d, RightOf(c, d, ToSet(s)),
         NEW e \in ToSet(s) \ {c, d}
  PROVE  /\ Cross(FromCentre(s, c), FromCentre(s, d)) > 0
         /\ ~(/\ Cross(FromCentre(s, c), FromCentre(s, e)) >= 0
              /\ Cross(FromCentre(s, e), FromCentre(s, d)) >= 0)
<1> DEFINE S == ToSet(s)
           n == Len(s)
           u == FromCentre(s, c)
           x == FromCentre(s, d)
           z == FromCentre(s, e)
<1>1. c \in Pairs /\ d \in Pairs /\ e \in Pairs /\ S \in SUBSET Pairs
  BY DEF ToSet
<1>2. u \in Pairs /\ x \in Pairs /\ z \in Pairs
  BY <1>1, FromCentreIsPair
<1>3. n \in Nat \ {0}
  BY DEF ToSet
<1>4. Minus(d, c) \in Pairs /\ Minus(e, c) \in Pairs /\ Minus(x, u) \in Pairs
  BY <1>1, <1>2, CrossIsInt
<1>5. PICK f \in S \ {e} : RightOf(e, f, S)
  BY DEF Convex
<1> DEFINE w == Minus(f, e)
<1>6. f \in Pairs /\ w \in Pairs
  BY <1>1, CrossIsInt
<1>7. Cross(u, x) = n * Cross(u, Minus(d, c))
  <2>1. Cross(u, Minus(x, u)) = Cross(u, x)
    BY <1>2, CrossOfDifferences
  <2> QED
    BY <1>1, <1>2, <2>1, CrossOfDifferences
<1>8. Cross(Minus(x, u), Minus(z, u)) = n * (n * Cross(Minus(d, c), Minus(e, c)))
  <2>1. Cross(Minus(x, u), Minus(z, u)) = n * Cross(Minus(x, u), Minus(e, c))
    BY <1>1, <1>4, CrossOfDifferences
  <2>2. Cross(Minus(e, c), Minus(x, u)) = n * Cross(Minus(e, c), Minus(d, c))
    BY <1>1, <1>4, CrossOfDifferences
  <2> DEFINE p == Cross(Minus(e, c), Minus(x, u))
             q == Cross(Minus(e, c), Minus(d, c))
  <2>3. Cross(Minus(x, u), Minus(e, c)) = -p /\ p \in Int /\ Cross(Minus(d, c), Minus(e, c)) = -q /\ q \in Int
    BY <1>4, CrossIsInt
  <2> HIDE DEF u, x, z
  <2>4. p = n * q
    BY <2>2
  <2> HIDE DEF p, q, n
  <2>5. -p = n * (-q)
    BY <1>3, <2>3, <2>4
  <2> QED
    BY <2>1, <2>3, <2>5, Zenon
<1>9. Cross(w, Minus(u, z)) = n * Cross(w, Minus(c, e)) /\ Cross(w, Minus(x, z)) = n * Cross(w, Minus(d, e))
  BY <1>1, <1>6, CrossOfDifferences
<1>10. Cross(Minus(d, c), u) < 0
  BY MeanIsRightOf
<1>11. Cross(w, z) < 0
  <2>1. \E g \in S : g \notin {e, f}
    OBVIOUS
  <2> QED
    BY <1>5, <2>1, MeanIsRightOf
<1>12. /\ Cross(w, Minus(c, e)) >= 0 /\ Cross(w, Minus(d, e)) >= 0
       /\ Cross(Minus(d, c), Minus(e, c)) > 0
  <2>1. Cross(Minus(d, c), Minus(e, c)) > 0
    BY DEF RightOf
  <2> QED
    BY <1>1, <1>5, <2>1, NoneLeftOf
<1>13. /\ Cross(u, Minus(d, c)) = -Cross(Minus(d, c), u) /\ Cross(Minus(d, c), u) \in Int
       /\ Cross(w, Minus(c, e)) \in Int /\ Cross(w, Minus(d, e)) \in Int
       /\ Cross(Minus(d, c), Minus(e, c)) \in Int
  BY <1>1, <1>2, <1>4, <1>6, CrossIsInt
<1> HIDE DEF S, n, u, x, z, w
<1>14. \A k \in Nat \ {0}, j \in Int : (j > 0 => k * j > 0) /\ (j >= 0 => k * j >= 0) /\ k * j \in Int
  OBVIOUS
<1>15. Cross(u, x) > 0
  BY <1>3, <1>7, <1>10, <1>13, <1>14
<1>16. Cross(Minus(x, u), Minus(z, u)) > 0 /\ Cross(w, Minus(u, z)) >= 0 /\ Cross(w, Minus(x, z)) >= 0
  BY <1>3, <1>8, <1>9, <1>12, <1>13, <1>14
<1>17. ~(Cross(u, z) >= 0 /\ Cross(z, x) >= 0)
  BY <1>2, <1>6, <1>11, <1>16, NoCornerInCone
<1> QED
  BY <1>15, <1>17 DEF u, x, z

\* As many corners as places: none is there twice.
LEMMA NoneTwice ==
  ASSUME NEW s \in Seq(Pairs), Cardinality(ToSet(s)) = Len(s)
  PROVE  \A i, j \in DOMAIN s : s[i] = s[j] => i = j
<1>1. s \in Surjection(1..Len(s), ToSet(s)) /\ DOMAIN s = 1..Len(s) /\ Len(s) \in Nat
  BY DEF Surjection, ToSet
<1>2. IsFiniteSet(1..Len(s)) /\ Cardinality(1..Len(s)) = Len(s)
  <2>1. ASSUME NEW n \in Nat PROVE IsFiniteSet(1..n) /\ Cardinality(1..n) = n
    <3>1. n \in Int /\ 1 \in Int
      OBVIOUS
    <3>2. IsFiniteSet(1..n) /\ Cardinality(1..n) = IF 1 > n THEN 0 ELSE n - 1 + 1
      BY <3>1, FS_Interval, Zenon
    <3> QED
      BY ONLY <3>2, n \in Nat
  <2> QED
    BY <1>1, <2>1, Zenon
<1>3. s \in Injection(1..Len(s), ToSet(s))
  BY <1>1, <1>2, FS_Surjection, Zenon
<1> QED
  BY <1>1, <1>3 DEF Injection, IsInjective

\* The order of the angles goes along the perimeter.
LEMMA OrderIsTour ==
  ASSUME NEW s \in Seq(Pairs), NEW t \in Outlines, InOrder(s, t), ToSet(t) = ToSet(s),
         Convex(ToSet(s)), \A i, j \in DOMAIN t : t[i] = t[j] => i = j
  PROVE  Tour(t)
<1> DEFINE S == ToSet(s)
           n == Len(t)
           v(c) == FromCentre(s, c)
<1>1. n \in Nat /\ n >= 2 /\ DOMAIN t = 1..n /\ t \in Seq(Pairs)
  BY DEF Outlines
<1>2. /\ \A i \in 1..n : t[i] \in S /\ t[i] \in Pairs
      /\ \A c \in S : c \in Pairs /\ \E i \in 1..n : t[i] = c
  <2>1. \A i \in 1..n : t[i] \in Pairs
    BY <1>1
  <2> QED
    BY <1>1, <2>1 DEF ToSet
<1>3. SUFFICES ASSUME NEW i \in 1..n
               PROVE  RightOf(t[i], Successor(t, i), S)
  BY <1>1 DEF Tour
<1> DEFINE j == IF i = n THEN 1 ELSE i + 1
<1>4. Successor(t, i) = t[j] /\ j \in 1..n /\ j # i
  <2>1. Successor(t, i) = t[j]
    BY SuccessorIsNext
  <2> HIDE DEF n
  <2>2. j \in 1..n /\ j # i
    BY <1>1
  <2> QED
    BY <2>1, <2>2
<1> HIDE DEF S, n, j
<1>5. PICK d \in S \ {t[i]} : RightOf(t[i], d, S)
  BY <1>2 DEF Convex, S
<1>6. PICK k \in 1..n : t[k] = d
  BY <1>2
<1>7. SUFFICES ASSUME t[j] # d PROVE FALSE
  BY <1>4, <1>5
<1>8. t[j] # t[i] /\ j # k /\ i # k
  BY <1>1, <1>4, <1>5, <1>6, <1>7
<1> DEFINE u == v(t[i])
           x == v(t[k])
           z == v(t[j])
<1>9. u \in Pairs /\ x \in Pairs /\ z \in Pairs
  BY <1>2, <1>4, FromCentreIsPair
<1>10. Cross(u, x) > 0 /\ ~(Cross(u, z) >= 0 /\ Cross(z, x) >= 0)
  <2>1. t[i] \in S /\ d \in S /\ t[j] \in S \ {t[i], d} /\ t[i] # d
    BY <1>2, <1>4, <1>5, <1>7, <1>8
  <2> QED
    BY <1>5, <1>6, <2>1, NothingBetween DEF S
<1>11. \A a, b \in 1..n : a < b => ~Angular(v(t[b]), v(t[a]))
  BY <1>1 DEF InOrder
<1> HIDE DEF v
<1>12. CASE i < k
  <2>1. i < j /\ j < k
    BY <1>1, <1>4, <1>8, <1>12 DEF j
  <2>2. ~Angular(z, u) /\ ~Angular(x, z)
    BY <1>4, <1>11, <2>1
  <2> HIDE DEF u, x, z
  <2> QED
    BY <1>9, <1>10, <2>2, BetweenIsInCone
<1>13. CASE k < i
  <2>1. ~Angular(u, x)
    BY <1>11, <1>13
  <2>2. i < j \/ j < k
    BY <1>1, <1>4, <1>8 DEF j
  <2>3. ~Angular(z, u) \/ ~Angular(x, z)
    BY <1>4, <1>11, <2>2
  <2> HIDE DEF u, x, z
  <2> QED
    BY <1>9, <1>10, <2>1, <2>3, AcrossIsInCone
<1> QED
  BY <1>1, <1>8, <1>12, <1>13

\* So does a rotation of it.
LEMMA RotationIsTour ==
  ASSUME NEW t \in Outlines, NEW k \in 1..Len(t)
  PROVE  /\ ToSet(Rotate(t, k)) = ToSet(t)
         /\ Tour(t) => Tour(Rotate(t, k))
<1> DEFINE n == Len(t)
           r == Rotate(t, k)
<1>1. n \in Nat /\ n >= 2 /\ DOMAIN t = 1..n /\ t \in Seq(Pairs)
  BY DEF Outlines
<1>2. /\ r \in Seq(Pairs) /\ Len(r) = n /\ DOMAIN r = 1..n
      /\ \A j \in 1..n : Shifted(n, k, j) \in 1..n /\ r[j] = t[Shifted(n, k, j)]
  <2> HIDE DEF n
  <2>1. k \in 1..n /\ Len(t) = n
    BY DEF n
  <2> QED
    BY <1>1, <2>1, RotationShifts
<1>3. r \in Outlines
  BY <1>1, <1>2 DEF Outlines
<1> HIDE DEF n, r
<1>4. k \in 1..n
  BY DEF n
<1>5. ASSUME NEW i \in 1..n PROVE \E j \in 1..n : Shifted(n, k, j) = i
  <2>1. CASE i >= k
    <3>1. i - k + 1 \in 1..n /\ Shifted(n, k, i - k + 1) = i
      BY <1>1, <1>4, <2>1 DEF Shifted
    <3> QED
      BY <3>1
  <2>2. CASE i < k
    <3>1. i + (n - k + 1) \in 1..n /\ Shifted(n, k, i + (n - k + 1)) = i
      BY <1>1, <1>4, <2>2 DEF Shifted
    <3> QED
      BY <3>1
  <2> QED
    BY <1>1, <1>4, <2>1, <2>2
<1>6. ToSet(r) = ToSet(t)
  <2>1. \A j \in 1..n : \E i \in 1..n : r[j] = t[i]
    BY <1>2, Zenon
  <2>2. ASSUME NEW i \in 1..n PROVE \E j \in 1..n : r[j] = t[i]
    <3>1. PICK j \in 1..n : Shifted(n, k, j) = i
      BY <1>5
    <3>2. r[j] = t[Shifted(n, k, j)]
      BY <1>2, Zenon
    <3> QED
      BY <3>1, <3>2, Zenon
  <2>3. ToSet(r) = {r[j] : j \in 1..n} /\ ToSet(t) = {t[i] : i \in 1..n}
    BY <1>1, <1>2 DEF ToSet
  <2> QED
    BY <2>1, <2>2, <2>3, Zenon
<1>7. ASSUME Tour(t), NEW j \in 1..n PROVE RightOf(r[j], Successor(r, j), ToSet(t))
  <2> DEFINE i == Shifted(n, k, j)
  <2>1. i \in 1..n /\ r[j] = t[i]
    BY <1>2
  <2>2. Successor(r, j) = r[IF j = n THEN 1 ELSE j + 1]
    BY <1>2, <1>3, SuccessorIsNext
  <2>3. Successor(t, i) = t[IF i = n THEN 1 ELSE i + 1]
    <3> HIDE DEF i
    <3> QED
      BY <2>1, SuccessorIsNext DEF n
  <2>4. /\ (IF j = n THEN 1 ELSE j + 1) \in 1..n
        /\ Shifted(n, k, IF j = n THEN 1 ELSE j + 1) = IF i = n THEN 1 ELSE i + 1
    BY <1>1, <1>4 DEF Shifted
  <2>5. Successor(r, j) = Successor(t, i)
    <3> HIDE DEF i
    <3> QED
      BY <1>2, <2>2, <2>3, <2>4
  <2> HIDE DEF i
  <2>6. RightOf(t[i], Successor(t, i), ToSet(t))
    BY <1>1, <1>7, <2>1 DEF Tour
  <2> QED
    BY <2>1, <2>5, <2>6
<1>8. Tour(t) => Tour(r)
  BY <1>2, <1>6, <1>7 DEF Tour
<1> QED
  BY <1>6, <1>8 DEF r

\* The walk of a battery: its perimeter if it is convex, from one of the nearest corners.
Walks(s) == Convex(ToSet(s)) /\ Cardinality(ToSet(s)) = Len(s) => Tour(s)
StartsNearest(s) == \A c \in ToSet(s) : DistanceFromStart(s[1]) <= DistanceFromStart(c)

LEMMA WalkIsTour ==
  ASSUME mapping \in Mappings, NEW s \in Outlines, \A c \in ToSet(s) : Hits(Pixel(c))
  PROVE  Walks(Normalize(s)) /\ StartsNearest(Normalize(s))
<1> DEFINE t == Clockwise(s)
           k == Nearest(t)
           r == Normalize(s)
<1>1. s \in Seq(Pairs) /\ Len(s) >= 2
  BY DEF Outlines
<1>2. /\ t \in Seq(Pairs) /\ Len(t) = Len(s) /\ InOrder(s, t) /\ ToSet(t) = ToSet(s)
  BY <1>1, ClockwiseIsSorted
<1>3. /\ r \in Outlines /\ Len(r) = Len(s) /\ r = Rotate(t, k) /\ k \in 1..Len(s)
      /\ \A j \in DOMAIN r : DistanceFromStart(r[1]) <= DistanceFromStart(r[j])
  BY WalkIsNormalized
<1> HIDE DEF t, k, r
<1>4. t \in Outlines
  BY <1>1, <1>2 DEF Outlines
<1>5. ToSet(r) = ToSet(t) /\ (Tour(t) => Tour(r))
  BY <1>2, <1>3, <1>4, RotationIsTour
<1>6. ASSUME Convex(ToSet(r)), Cardinality(ToSet(r)) = Len(r) PROVE Tour(r)
  <2>1. \A i, j \in DOMAIN t : t[i] = t[j] => i = j
    BY <1>2, <1>3, <1>5, <1>6, NoneTwice
  <2>2. Convex(ToSet(s))
    BY <1>2, <1>5, <1>6
  <2> QED
    BY <1>1, <1>2, <1>4, <1>5, <2>1, <2>2, OrderIsTour
<1>7. StartsNearest(r)
  BY <1>3 DEF StartsNearest, ToSet
<1> QED
  BY <1>6, <1>7 DEF Walks, r

\* The batteries measured so far are walked as they should be.
Toured ==
  /\ \A i \in DOMAIN ordered : Walks(ordered[i].corners)
  /\ Steady => \A i \in DOMAIN ordered : StartsNearest(ordered[i].corners)

LEMMA TouredStays ==
  ASSUME Toured, UNCHANGED ordered,
         UNCHANGED <<mapping, recalibrations>> \/ ~(Steady')
  PROVE  Toured'
BY DEF Toured, Walks, StartsNearest, Steady, DistanceFromStart, Place

LEMMA TouredStep ==
  ASSUME Types, Places, Toured, [Next]_vars
  PROVE  Toured'
<1> USE DEF request, board
<1>1. CASE MeasureBattery
  <2>1. /\ UNCHANGED <<mapping, recalibrations>>
        /\ ordered' = IF Len(Head(batteries)) < 2 THEN ordered
                      ELSE Append(ordered, [corners |-> Normalize(Head(batteries)),
                             distance |-> DistanceFromStart(Normalize(Head(batteries))[1])])
        /\ batteries # <<>>
        /\ Len(Head(batteries)) < 2 \/ \A c \in ToSet(Head(batteries)) : Hits(Pixel(c))
    BY <1>1 DEF MeasureBattery
  <2>2. CASE Len(Head(batteries)) < 2
    BY <2>1, <2>2, TouredStays
  <2>3. CASE ~(Len(Head(batteries)) < 2)
    <3> DEFINE b == Head(batteries)
               e == [corners |-> Normalize(b), distance |-> DistanceFromStart(Normalize(b)[1])]
    <3>1. b \in Outlines
      <4>1. b \in Seq(Pairs)
        BY <2>1, BatteriesArePairs DEF Types
      <4> QED
        BY <2>3, <4>1 DEF Outlines
    <3>2. Walks(e.corners) /\ StartsNearest(e.corners)
      BY <2>1, <2>3, <3>1, WalkIsTour DEF Types
    <3>3. ordered' = Append(ordered, e) /\ ordered \in Seq(Measured)
      BY <2>1, <2>3 DEF Types
    <3> HIDE DEF e
    <3>4. \A i \in DOMAIN ordered' : (i \in DOMAIN ordered /\ ordered'[i] = ordered[i]) \/ ordered'[i] = e
      BY <3>3
    <3>5. \A i \in DOMAIN ordered' : Walks(ordered'[i].corners)
      BY <3>2, <3>4 DEF Toured
    <3>6. Steady => \A i \in DOMAIN ordered' : StartsNearest(ordered'[i].corners)
      BY <3>2, <3>4 DEF Toured
    <3> QED
      BY <2>1, <3>5, <3>6 DEF Toured, Walks, StartsNearest, Steady, DistanceFromStart, Place
  <2> QED
    BY <2>2, <2>3
<1>2. CASE SortBatteries
  <2>1. UNCHANGED <<mapping, recalibrations>> /\ ordered' = ByDistance(ordered)
    BY <1>2, Zenon DEF SortBatteries, ByDistance
  <2>2. /\ ByDistance(ordered) \in Seq(Measured) /\ Len(ByDistance(ordered)) = Len(ordered)
        /\ \A k \in DOMAIN ordered : \E i \in DOMAIN ordered : ByDistance(ordered)[k] = ordered[i]
    BY BatteriesAreSorted DEF Types
  <2>3. \A k \in DOMAIN ordered' : \E i \in DOMAIN ordered : ordered'[k] = ordered[i]
    <3>1. ordered \in Seq(Measured)
      BY DEF Types
    <3> QED
      BY <2>1, <2>2, <3>1
  <2>4. \A k \in DOMAIN ordered' : Walks(ordered'[k].corners)
    BY <2>3 DEF Toured
  <2>5. Steady => \A k \in DOMAIN ordered' : StartsNearest(ordered'[k].corners)
    BY <2>3 DEF Toured
  <2> QED
    BY <2>1, <2>4, <2>5 DEF Toured, Walks, StartsNearest, Steady, DistanceFromStart, Place
<1>3. CASE SkipEdge
  BY <1>3, TouredStays DEF SkipEdge
<1>4. CASE SampleEdge
  BY <1>4, TouredStays DEF SampleEdge
<1>5. CASE RefuseDensity
  BY <1>5, TouredStays DEF RefuseDensity
<1>6. CASE AnswerPath
  BY <1>6, TouredStays DEF AnswerPath
<1>7. CASE ConvertPoint
  BY <1>7, TouredStays DEF ConvertPoint
<1>8. CASE CheckJob
  BY <1>8, TouredStays DEF CheckJob
<1>9. CASE Recalibrate
  <2>1. UNCHANGED ordered /\ recalibrations' = recalibrations + 1 /\ recalibrations \in Nat
    BY <1>9 DEF Recalibrate, Types
  <2>2. ~(Steady')
    BY <2>1 DEF Steady
  <2> QED
    BY <2>1, <2>2, TouredStays
<1>10. CASE UNCHANGED vars
  BY <1>10, TouredStays DEF vars
<1>11. CASE FailPopulate \/ FailConvert
  BY <1>11, TouredStays DEF FailPopulate, FailConvert
<1> QED
  BY <1>1, <1>2, <1>3, <1>4, <1>5, <1>6, <1>7, <1>8, <1>9, <1>10, <1>11 DEF Next, Finished

\* The corners of a battery in convex position are walked along its perimeter, clockwise and from
\* the corner nearest to the start pose, in whatever order the request gives them: sorting them by
\* their angle as seen from their mean (_normalize_corners_clockwise_start_nearest) suffices.
THEOREM WalkIsPerimeter == Spec => []PerimeterFromNearest
<1>1. Init => Toured
  BY DEF Init, Toured
<1>2. Toured => PerimeterFromNearest
  BY Zenon DEF Toured, Walks, StartsNearest, PerimeterFromNearest
<1> QED
  BY <1>1, <1>2, TypesInit, TypesStep, TouredStep, PTL DEF Spec
=============================================================================
