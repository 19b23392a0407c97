------------------------------ MODULE Induction ------------------------------
(***************************************************************************)
(* Induction over numbers and finite sets with the induction hypothesis    *)
(* given as a set, and what follows from it: the least and greatest member *)
(* of a set, and sums over finite sets.                                    *)
(***************************************************************************)
EXTENDS Integers, FiniteSets, FiniteSetTheorems, WellFoundedInduction, TLAPS

-----------------------------------------------------------------------------
(* Numbers.                                                                *)

(* A nonempty set of natural numbers has a least member.                   *)
LEMMA LeastNat ==
  ASSUME NEW S, S \subseteq Nat, S # {}
  PROVE  \E n \in S : \A m \in S : n <= m
<1> DEFINE R == OpToRel(<, Nat)
<1>1. IsWellFoundedOn(R, Nat)
  BY NatLessThanWellFounded
<1>2. \A i, j \in Nat : <<i, j>> \in R <=> i < j
  BY DEF OpToRel
<1> HIDE DEF R
<1>3. PICK n \in S : \A m \in S : <<m, n>> \notin R
  BY <1>1, WFMin
<1>4. \A m \in S : m \in Nat /\ n \in Nat /\ ~(m < n)
  BY <1>2, <1>3
<1>5. \A m \in S : n <= m
  BY <1>4
<1> QED
  BY <1>5

(* A set with 0 and the successor of each of its members has every natural *)
(* number.                                                                 *)
LEMMA InductionNat ==
  ASSUME NEW S, 0 \in S, \A n \in Nat : n \in S => n + 1 \in S
  PROVE  Nat \subseteq S
<1>1. SUFFICES ASSUME Nat \ S # {} PROVE FALSE
  OBVIOUS
<1>2. PICK n \in Nat \ S : \A m \in Nat \ S : n <= m
  BY <1>1, LeastNat
<1>3. n # 0 /\ n - 1 \in Nat /\ n - 1 \in S
  BY <1>2
<1> QED
  BY <1>2, <1>3

(* From the bottom of an interval to its top.                              *)
LEMMA InductionInterval ==
  ASSUME NEW a \in Int, NEW b \in Int, NEW S,
         a \in S, \A n \in a .. b - 1 : n \in S => n + 1 \in S
  PROVE  a .. b \subseteq S
<1> DEFINE T == {k \in Nat : a + k <= b => a + k \in S}
<1>1. 0 \in T
  OBVIOUS
<1>2. ASSUME NEW k \in Nat, k \in T PROVE k + 1 \in T
  <2>1. CASE a + (k + 1) <= b
    <3>1. a + k \in a .. b - 1 /\ a + k \in S
      BY <1>2, <2>1
    <3>2. (a + k) + 1 \in S
      BY <3>1
    <3>3. (a + k) + 1 = a + (k + 1)
      OBVIOUS
    <3> QED
      BY <3>2, <3>3
  <2> QED
    BY <2>1
<1> HIDE DEF T
<1>3. Nat \subseteq T
  BY <1>1, <1>2, InductionNat
<1>4. ASSUME NEW n \in a .. b PROVE n \in S
  <2>1. n - a \in Nat /\ n = a + (n - a)
    OBVIOUS
  <2>2. n - a \in T
    BY <1>3, <2>1
  <2> QED
    BY <2>1, <2>2 DEF T
<1> QED
  BY <1>4

(* Each number from those below it.                                        *)
LEMMA StrongInduction ==
  ASSUME NEW S, \A n \in Nat : (\A m \in Nat : m < n => m \in S) => n \in S
  PROVE  Nat \subseteq S
<1>1. SUFFICES ASSUME Nat \ S # {} PROVE FALSE
  OBVIOUS
<1>2. PICK n \in Nat \ S : \A m \in Nat \ S : n <= m
  BY <1>1, LeastNat
<1>3. \A m \in Nat : m < n => m \in S
  BY <1>2
<1> QED
  BY <1>2, <1>3

(* A nonempty bounded set of natural numbers has a greatest member.        *)
LEMMA GreatestNat ==
  ASSUME NEW S, S \subseteq Nat, S # {}, NEW bound \in Nat, \A n \in S : n <= bound
  PROVE  \E n \in S : \A m \in S : m <= n
<1> DEFINE T == {k \in Nat : bound - k \in S}
<1>1. T \subseteq Nat
  OBVIOUS
<1>2. T # {}
  <2>1. PICK n \in S : TRUE
    OBVIOUS
  <2>2. bound - n \in Nat /\ bound - (bound - n) = n
    BY <2>1
  <2>3. bound - n \in T
    BY <2>1, <2>2
  <2> QED
    BY <2>3
<1>3. PICK k \in T : \A j \in T : k <= j
  <2> HIDE DEF T
  <2> QED
    BY <1>1, <1>2, LeastNat
<1>4. ASSUME NEW m \in S PROVE m <= bound - k
  <2>1. bound - m \in T
    <3>1. bound - m \in Nat /\ bound - (bound - m) = m
      OBVIOUS
    <3> QED
      BY <3>1
  <2>2. m \in Nat /\ k \in Nat /\ k <= bound - m
    BY <1>3, <2>1
  <2> QED
    BY <2>2
<1> QED
  BY <1>3, <1>4

-----------------------------------------------------------------------------
(* Finite sets.                                                            *)

(* One element at a time, in any order.                                    *)
LEMMA InductionSet ==
  ASSUME NEW S, IsFiniteSet(S), NEW P, {} \in P,
         \A T \in SUBSET S : \A x \in S \ T : T \in P => T \cup {x} \in P
  PROVE  S \in P
<1> DEFINE Q == {n \in Nat : \A T \in SUBSET S : Cardinality(T) = n => T \in P}
<1>1. \A T \in SUBSET S : IsFiniteSet(T) /\ Cardinality(T) \in Nat
  BY FS_Subset, FS_CardinalityType
<1>2. 0 \in Q
  BY <1>1, FS_EmptySet
<1>3. ASSUME NEW n \in Nat, n \in Q PROVE n + 1 \in Q
  <2> SUFFICES ASSUME NEW T \in SUBSET S, Cardinality(T) = n + 1 PROVE T \in P
    OBVIOUS
  <2>1. T # {}
    BY <1>1, FS_EmptySet
  <2>2. PICK x \in T : TRUE
    BY <2>1
  <2>3. Cardinality(T \ {x}) = n
    <3>1. IsFiniteSet(T)
      BY <1>1
    <3>2. Cardinality(T \ {x}) = Cardinality(T) - 1
      BY <3>1, FS_RemoveElement
    <3> QED
      BY <3>2
  <2>4. T \ {x} \in P /\ T \ {x} \in SUBSET S /\ x \in S \ (T \ {x})
    BY <1>3, <2>3
  <2>5. (T \ {x}) \cup {x} \in P
    BY <2>4
  <2>6. (T \ {x}) \cup {x} = T
    OBVIOUS
  <2> QED
    BY <2>5, <2>6
<1> HIDE DEF Q
<1>4. Nat \subseteq Q
  BY <1>2, <1>3, InductionNat
<1> QED
  BY <1>1, <1>4 DEF Q

-----------------------------------------------------------------------------
(* Sums over finite sets.                                                  *)

\* F gives every subset of S the sum of f over it.
IsSum(F, f, S) ==
  /\ F \in [SUBSET S -> Nat]
  /\ F[{}] = 0
  /\ \A T \in SUBSET S : \A x \in S \ T : F[T \cup {x}] = F[T] + f[x]

Total(f, S) == (CHOOSE F : IsSum(F, f, S))[S]

(* A finite set has a sum.                                                 *)
LEMMA SumExists ==
  ASSUME NEW S, IsFiniteSet(S), NEW f, \A x \in S : f[x] \in Nat
  PROVE  \E F : IsSum(F, f, S)
<1> DEFINE P == {T \in SUBSET S : \E F : IsSum(F, f, T)}
<1>1. {} \in P
  <2>1. IsSum([T \in SUBSET {} |-> 0], f, {})
    BY DEF IsSum
  <2> QED
    BY <2>1
<1>2. ASSUME NEW T \in SUBSET S, NEW x \in S \ T, T \in P PROVE T \cup {x} \in P
  <2>1. PICK F : IsSum(F, f, T)
    BY <1>2
  <2> DEFINE U == T \cup {x}
  <2> DEFINE G == [V \in SUBSET U |-> IF x \in V THEN F[V \ {x}] + f[x] ELSE F[V]]
  <2>2. \A V \in SUBSET U : V \ {x} \in SUBSET T /\ (x \notin V => V \in SUBSET T)
    OBVIOUS
  <2>3. G \in [SUBSET U -> Nat]
    BY <2>1, <2>2 DEF IsSum
  <2>4. G[{}] = 0
    BY <2>1 DEF IsSum
  <2>5. ASSUME NEW V \in SUBSET U, NEW y \in U \ V PROVE G[V \cup {y}] = G[V] + f[y]
    <3>1. V \cup {y} \in SUBSET U
      OBVIOUS
    <3>2. CASE y = x
      <4>1. G[V \cup {y}] = F[(V \cup {y}) \ {x}] + f[x]
        BY <3>1, <3>2
      <4>2. (V \cup {y}) \ {x} = V
        BY <3>2
      <4>3. G[V] = F[V]
        BY <3>2
      <4> QED
        BY <3>2, <4>1, <4>2, <4>3
    <3>3. CASE y # x /\ x \in V
      <4>1. G[V \cup {y}] = F[(V \cup {y}) \ {x}] + f[x] /\ G[V] = F[V \ {x}] + f[x]
        BY <3>1, <3>3
      <4>2. (V \cup {y}) \ {x} = (V \ {x}) \cup {y}
        BY <3>3
      <4>3. F[(V \ {x}) \cup {y}] = F[V \ {x}] + f[y]
        BY <2>1, <3>3 DEF IsSum
      <4>4. F[V \ {x}] \in Nat /\ f[x] \in Nat /\ f[y] \in Nat
        BY <2>1, <2>2, <3>3 DEF IsSum
      <4>5. (F[V \ {x}] + f[y]) + f[x] = (F[V \ {x}] + f[x]) + f[y]
        BY <4>4
      <4>6. G[V \cup {y}] = (F[V \ {x}] + f[y]) + f[x]
        BY <4>1, <4>2, <4>3, Zenon
      <4> QED
        BY <4>1, <4>5, <4>6, Zenon
    <3>4. CASE y # x /\ x \notin V
      <4>1. G[V \cup {y}] = F[V \cup {y}] /\ G[V] = F[V]
        BY <3>1, <3>4
      <4>2. F[V \cup {y}] = F[V] + f[y]
        BY <2>1, <3>4 DEF IsSum
      <4> QED
        BY <4>1, <4>2
    <3> QED
      BY <3>2, <3>3, <3>4
  <2> HIDE DEF G
  <2>6. IsSum(G, f, U)
    BY <2>3, <2>4, <2>5 DEF IsSum
  <2> QED
    BY <2>6
<1>3. S \in P
  <2> HIDE DEF P
  <2> QED
    BY <1>1, <1>2, InductionSet
<1> QED
  BY <1>3

(* It has one sum, whichever set it is a part of.                          *)
LEMMA SumUnique ==
  ASSUME NEW S, IsFiniteSet(S), NEW f, NEW F, IsSum(F, f, S), NEW T \in SUBSET S, NEW G, IsSum(G, f, T)
  PROVE  G[T] = F[T]
<1> DEFINE P == {U \in SUBSET T : G[U] = F[U]}
<1>1. {} \in P
  BY DEF IsSum
<1>2. ASSUME NEW U \in SUBSET T, NEW x \in T \ U, U \in P PROVE U \cup {x} \in P
  <2>1. G[U \cup {x}] = G[U] + f[x]
    BY DEF IsSum
  <2>2. F[U \cup {x}] = F[U] + f[x]
    BY DEF IsSum
  <2> QED
    BY <1>2, <2>1, <2>2
<1>3. IsFiniteSet(T)
  BY FS_Subset
<1>4. T \in P
  <2> HIDE DEF P
  <2> QED
    BY <1>1, <1>2, <1>3, InductionSet
<1> QED
  BY <1>4

(* The total over a subset is what any such F gives it.                    *)
LEMMA TotalOfSubset ==
  ASSUME NEW S, IsFiniteSet(S), NEW f, \A x \in S : f[x] \in Nat, NEW T \in SUBSET S, NEW F, IsSum(F, f, S)
  PROVE  Total(f, T) = F[T]
<1>1. IsFiniteSet(T)
  BY FS_Subset
<1>2. \E G : IsSum(G, f, T)
  BY <1>1, SumExists
<1>3. IsSum(CHOOSE G : IsSum(G, f, T), f, T)
  BY <1>2
<1> QED
  BY <1>3, SumUnique DEF Total

(* The empty sum.                                                          *)
LEMMA TotalEmpty ==
  ASSUME NEW f
  PROVE  Total(f, {}) = 0
<1>1. IsFiniteSet({})
  BY FS_EmptySet
<1>2. PICK F : IsSum(F, f, {})
  BY <1>1, SumExists
<1>3. Total(f, {}) = F[{}]
  BY <1>1, <1>2, TotalOfSubset
<1> QED
  BY <1>2, <1>3 DEF IsSum

(* A sum of natural numbers is one.                                        *)
LEMMA TotalNat ==
  ASSUME NEW S, IsFiniteSet(S), NEW f, \A x \in S : f[x] \in Nat
  PROVE  Total(f, S) \in Nat
<1>1. PICK F : IsSum(F, f, S)
  BY SumExists
<1>2. Total(f, S) = F[S]
  BY <1>1, TotalOfSubset
<1> QED
  BY <1>1, <1>2 DEF IsSum

(* One element more.                                                       *)
LEMMA TotalAdd ==
  ASSUME NEW S, IsFiniteSet(S), NEW f, \A x \in S : f[x] \in Nat, NEW T \in SUBSET S, NEW x \in S \ T
  PROVE  Total(f, T \cup {x}) = Total(f, T) + f[x]
<1>1. PICK F : IsSum(F, f, S)
  BY SumExists
<1>2. T \cup {x} \in SUBSET S
  OBVIOUS
<1>3. Total(f, T) = F[T] /\ Total(f, T \cup {x}) = F[T \cup {x}]
  BY <1>1, <1>2, TotalOfSubset
<1> QED
  BY <1>1, <1>3 DEF IsSum

\* One turn of a fold that takes the elements as CHOOSE does, g being the fold of the rest.
FoldStep(f, g, S) ==
  [s \in SUBSET S |-> IF s = {} THEN 0 ELSE f[CHOOSE x \in s : TRUE] + g[s \ {CHOOSE x \in s : TRUE}]]

(* What a fold over a set computes, whichever element it takes first.      *)
LEMMA FoldExists ==
  ASSUME NEW S, IsFiniteSet(S), NEW f, \A x \in S : f[x] \in Nat
  PROVE  \E g : g = FoldStep(f, g, S)
<1>1. PICK F : IsSum(F, f, S)
  BY SumExists
<1>2. ASSUME NEW s \in SUBSET S
      PROVE  F[s] = IF s = {} THEN 0 ELSE f[CHOOSE x \in s : TRUE] + F[s \ {CHOOSE x \in s : TRUE}]
  <2>1. CASE s = {}
    BY <1>1, <2>1 DEF IsSum
  <2>2. CASE s # {}
    <3> DEFINE x == CHOOSE x \in s : TRUE
    <3>1. x \in s
      BY <2>2
    <3> HIDE DEF x
    <3>2. (s \ {x}) \cup {x} = s /\ s \ {x} \in SUBSET S /\ x \in S \ (s \ {x})
      BY <3>1
    <3>3. F[(s \ {x}) \cup {x}] = F[s \ {x}] + f[x]
      BY <1>1, <3>2 DEF IsSum
    <3>4. F[s \ {x}] \in Nat /\ f[x] \in Nat
      BY <1>1, <3>2 DEF IsSum
    <3>5. F[s \ {x}] + f[x] = f[x] + F[s \ {x}]
      BY <3>4
    <3>6. F[s] = f[x] + F[s \ {x}]
      BY <3>2, <3>3, <3>5, Zenon
    <3> QED
      BY <2>2, <3>6 DEF x
  <2> QED
    BY <2>1, <2>2
<1>3. F = [s \in SUBSET S |-> F[s]]
  BY <1>1 DEF IsSum
<1>4. F = FoldStep(f, F, S)
  BY <1>2, <1>3 DEF FoldStep
<1> QED
  BY <1>4

(* A fold that takes the elements in an arbitrary order computes the sum.  *)
LEMMA FoldTotal ==
  ASSUME NEW S, IsFiniteSet(S), NEW f, \A x \in S : f[x] \in Nat, NEW g, g = FoldStep(f, g, S)
  PROVE  g[S] = Total(f, S)
<1>1. PICK F : IsSum(F, f, S)
  BY SumExists
<1> DEFINE Q == {n \in Nat : \A s \in SUBSET S : Cardinality(s) = n => g[s] = F[s]}
<1>2. \A s \in SUBSET S : IsFiniteSet(s) /\ Cardinality(s) \in Nat
  BY FS_Subset, FS_CardinalityType
<1>3. 0 \in Q
  <2> SUFFICES ASSUME NEW s \in SUBSET S, Cardinality(s) = 0 PROVE g[s] = F[s]
    OBVIOUS
  <2>1. s = {}
    BY <1>2, FS_EmptySet
  <2>2. g[s] = 0
    BY <2>1 DEF FoldStep
  <2> QED
    BY <1>1, <2>1, <2>2 DEF IsSum
<1>4. ASSUME NEW n \in Nat, n \in Q PROVE n + 1 \in Q
  <2>0. n + 1 \in Nat
    OBVIOUS
  <2> SUFFICES ASSUME NEW s \in SUBSET S, Cardinality(s) = n + 1 PROVE g[s] = F[s]
    BY <2>0, Zenon
  <2>1. s # {} /\ IsFiniteSet(s)
    BY <1>2, FS_EmptySet
  <2> DEFINE x == CHOOSE x \in s : TRUE
  <2>2. x \in s
    BY <2>1
  <2>3. g[s] = f[x] + g[s \ {x}]
    BY <2>1 DEF FoldStep
  <2> HIDE DEF x
  <2>4. Cardinality(s \ {x}) = Cardinality(s) - 1
    BY <2>1, <2>2, FS_RemoveElement
  <2>5. Cardinality(s \ {x}) = n
    BY <2>4
  <2>6. g[s \ {x}] = F[s \ {x}]
    BY <1>4, <2>5
  <2>7. (s \ {x}) \cup {x} = s /\ s \ {x} \in SUBSET S /\ x \in S \ (s \ {x})
    BY <2>2
  <2>8. F[(s \ {x}) \cup {x}] = F[s \ {x}] + f[x] /\ F[s \ {x}] \in Nat /\ f[x] \in Nat
    BY <1>1, <2>7 DEF IsSum
  <2>9. f[x] + F[s \ {x}] = F[s \ {x}] + f[x]
    BY <2>8
  <2> QED
    BY <2>3, <2>6, <2>7, <2>8, <2>9, Zenon
<1>5. Nat \subseteq Q
  <2> HIDE DEF Q
  <2> QED
    BY <1>3, <1>4, InductionNat
<1>6. g[S] = F[S]
  BY <1>2, <1>5
<1>7. Total(f, S) = F[S]
  BY <1>1, TotalOfSubset
<1> QED
  BY <1>6, <1>7

(* The summands outside the set do not matter.                             *)
LEMMA TotalSame ==
  ASSUME NEW S, IsFiniteSet(S), NEW f, NEW g, \A x \in S : f[x] \in Nat /\ g[x] = f[x]
  PROVE  Total(g, S) = Total(f, S)
<1>1. PICK F : IsSum(F, f, S)
  BY SumExists
<1>2. IsSum(F, g, S)
  BY <1>1 DEF IsSum
<1>3. Total(f, S) = F[S]
  BY <1>1, TotalOfSubset
<1>4. Total(g, S) = F[S]
  BY <1>2, TotalOfSubset
<1> QED
  BY <1>3, <1>4

(* The sum over two sets without a common element.                         *)
LEMMA TotalUnion ==
  ASSUME NEW S, IsFiniteSet(S), NEW T, IsFiniteSet(T), S \cap T = {}, NEW f, \A x \in S \cup T : f[x] \in Nat
  PROVE  Total(f, S \cup T) = Total(f, S) + Total(f, T)
<1> DEFINE P == {U \in SUBSET T : Total(f, S \cup U) = Total(f, S) + Total(f, U)}
<1>1. {} \in P
  <2>1. Total(f, {}) = 0 /\ S \cup {} = S /\ Total(f, S) \in Nat
    BY TotalEmpty, TotalNat
  <2> QED
    BY <2>1
<1>2. IsFiniteSet(S \cup T)
  BY FS_Union
<1>3. ASSUME NEW U \in SUBSET T, NEW x \in T \ U, U \in P PROVE U \cup {x} \in P
  <2>1. Total(f, U \cup {x}) = Total(f, U) + f[x]
    BY TotalAdd
  <2>2. S \cup U \in SUBSET (S \cup T) /\ x \in (S \cup T) \ (S \cup U)
    OBVIOUS
  <2>3. Total(f, (S \cup U) \cup {x}) = Total(f, S \cup U) + f[x]
    BY <1>2, <2>2, TotalAdd
  <2>4. (S \cup U) \cup {x} = S \cup (U \cup {x})
    OBVIOUS
  <2>5. Total(f, S \cup U) = Total(f, S) + Total(f, U)
    BY <1>3
  <2>6. IsFiniteSet(U)
    BY FS_Subset
  <2>7. Total(f, S) \in Nat /\ Total(f, U) \in Nat /\ f[x] \in Nat
    BY <2>6, TotalNat
  <2>8. (Total(f, S) + Total(f, U)) + f[x] = Total(f, S) + (Total(f, U) + f[x])
    BY <2>7
  <2>9. Total(f, S \cup (U \cup {x})) = Total(f, S) + Total(f, U \cup {x})
    BY <2>1, <2>3, <2>4, <2>5, <2>8, Zenon
  <2> QED
    BY <2>9
<1>4. T \in P
  <2> HIDE DEF P
  <2> QED
    BY <1>1, <1>3, InductionSet
<1> QED
  BY <1>4

(* Without some of them.                                                   *)
LEMMA TotalWithout ==
  ASSUME NEW S, IsFiniteSet(S), NEW T \in SUBSET S, NEW f, \A x \in S : f[x] \in Nat
  PROVE  /\ Total(f, S) = Total(f, S \ T) + Total(f, T)
         /\ Total(f, T) \in Nat /\ Total(f, S \ T) \in Nat
<1>1. IsFiniteSet(T) /\ IsFiniteSet(S \ T)
  BY FS_Subset
<1>2. (S \ T) \cup T = S /\ (S \ T) \cap T = {}
  OBVIOUS
<1>3. Total(f, (S \ T) \cup T) = Total(f, S \ T) + Total(f, T)
  BY <1>1, <1>2, TotalUnion
<1> QED
  BY <1>1, <1>2, <1>3, TotalNat

(* The sum over one element.                                               *)
LEMMA TotalSingle ==
  ASSUME NEW f, NEW x, f[x] \in Nat
  PROVE  Total(f, {x}) = f[x]
<1>1. IsFiniteSet({x})
  BY FS_Singleton
<1>2. Total(f, {} \cup {x}) = Total(f, {}) + f[x]
  BY <1>1, TotalAdd
<1>3. {} \cup {x} = {x}
  OBVIOUS
<1> QED
  BY <1>2, <1>3, TotalEmpty

(* A sum of zeros.                                                         *)
LEMMA TotalZero ==
  ASSUME NEW S, IsFiniteSet(S), NEW f, \A x \in S : f[x] = 0
  PROVE  Total(f, S) = 0
<1>1. IsSum([T \in SUBSET S |-> 0], f, S)
  BY DEF IsSum
<1>2. Total(f, S) = [T \in SUBSET S |-> 0][S]
  BY <1>1, TotalOfSubset
<1> QED
  BY <1>2

(* One of them is part of the total.                                       *)
LEMMA TotalAtLeast ==
  ASSUME NEW S, IsFiniteSet(S), NEW f, \A x \in S : f[x] \in Nat, NEW x \in S
  PROVE  f[x] <= Total(f, S)
<1>1. Total(f, S) = Total(f, S \ {x}) + Total(f, {x}) /\ Total(f, S \ {x}) \in Nat
  BY TotalWithout
<1>2. Total(f, {x}) = f[x]
  BY TotalSingle
<1> QED
  BY <1>1, <1>2

(* A sum over an index is the sum over what it indexes, without repeats.   *)
LEMMA TotalImage ==
  ASSUME NEW S, IsFiniteSet(S), NEW h, \A x, y \in S : h[x] = h[y] => x = y,
         NEW f, \A x \in S : f[h[x]] \in Nat, NEW g, \A x \in S : g[x] = f[h[x]]
  PROVE  IsFiniteSet({h[x] : x \in S}) /\ Total(f, {h[x] : x \in S}) = Total(g, S)
<1> DEFINE P == {T \in SUBSET S : IsFiniteSet({h[x] : x \in T}) /\ Total(f, {h[x] : x \in T}) = Total(g, T)}
<1>1. {} \in P
  <2>1. {h[x] : x \in {}} = {}
    OBVIOUS
  <2> QED
    BY <2>1, FS_EmptySet, TotalEmpty
<1>2. ASSUME NEW T \in SUBSET S, NEW y \in S \ T, T \in P PROVE T \cup {y} \in P
  <2> DEFINE I == {h[x] : x \in T}
  <2>1. {h[x] : x \in T \cup {y}} = I \cup {h[y]}
    OBVIOUS
  <2>2. h[y] \notin I /\ \A z \in I \cup {h[y]} : f[z] \in Nat
    OBVIOUS
  <2>3. IsFiniteSet(I) /\ Total(f, I) = Total(g, T)
    BY <1>2
  <2>4. IsFiniteSet(I \cup {h[y]})
    BY <2>3, FS_AddElement
  <2>5. Total(f, I \cup {h[y]}) = Total(f, I) + f[h[y]]
    <3> HIDE DEF I
    <3> QED
      BY <2>2, <2>4, TotalAdd
  <2>6. Total(g, T \cup {y}) = Total(g, T) + g[y]
    BY TotalAdd
  <2>7. Total(f, I \cup {h[y]}) = Total(g, T \cup {y})
    BY <2>3, <2>5, <2>6, Zenon
  <2> QED
    BY <2>1, <2>4, <2>7
<1>3. S \in P
  <2> HIDE DEF P
  <2> QED
    BY <1>1, <1>2, InductionSet
<1> QED
  BY <1>3

(* A recursive function over 0 .. n whose value at k is made from the one  *)
(* before it exists: the walks of the models are defined that way.         *)
Steps(step, V, n) == step \in [1 .. n -> [V -> V]]
WalkStep(f, a, step, n) == [k \in 0 .. n |-> IF k = 0 THEN a ELSE step[k][f[k - 1]]]

(* Such a function exists.                                                 *)
LEMMA WalkExists ==
  ASSUME NEW n \in Nat, NEW V, NEW a \in V, NEW step, Steps(step, V, n)
  PROVE  \E f : f = WalkStep(f, a, step, n) /\ \A k \in 0 .. n : f[k] \in V
<1>0. step \in [1 .. n -> [V -> V]]
  BY DEF Steps
<1> DEFINE T == {m \in 0 .. n : \E f \in [0 .. n -> V] :
                    \A k \in 0 .. m : f[k] = IF k = 0 THEN a ELSE step[k][f[k - 1]]}
<1>1. 0 \in T
  <2> DEFINE f == [k \in 0 .. n |-> a]
  <2>1. f \in [0 .. n -> V] /\ 0 \in 0 .. n
    OBVIOUS
  <2>2. \A k \in 0 .. 0 : f[k] = IF k = 0 THEN a ELSE step[k][f[k - 1]]
    OBVIOUS
  <2> HIDE DEF f
  <2> QED
    BY <2>1, <2>2
<1>2. ASSUME NEW m \in 0 .. n - 1, m \in T PROVE m + 1 \in T
  <2>1. PICK f \in [0 .. n -> V] : \A k \in 0 .. m : f[k] = IF k = 0 THEN a ELSE step[k][f[k - 1]]
    BY <1>2
  <2> DEFINE g == [f EXCEPT ![m + 1] = step[m + 1][f[m]]]
  <2>2. m + 1 \in 1 .. n /\ m + 1 \in 0 .. n /\ m \in 0 .. n
    OBVIOUS
  <2>3. step[m + 1][f[m]] \in V
    BY <1>0, <2>1, <2>2
  <2>4. g \in [0 .. n -> V] /\ g[m + 1] = step[m + 1][f[m]] /\ \A k \in 0 .. m : g[k] = f[k]
    BY <2>1, <2>2, <2>3
  <2> HIDE DEF g
  <2>5. ASSUME NEW k \in 0 .. m + 1
        PROVE  g[k] = IF k = 0 THEN a ELSE step[k][g[k - 1]]
    <3>1. CASE k = m + 1
      BY <2>4, <3>1
    <3>2. CASE k \in 0 .. m
      <4>1. k # 0 => k - 1 \in 0 .. m
        BY <3>2
      <4> QED
        BY <2>1, <2>4, <3>2, <4>1
    <3> QED
      BY <3>1, <3>2
  <2> QED
    BY <2>2, <2>4, <2>5
<1>3. 0 .. n \subseteq T
  <2> HIDE DEF T
  <2> QED
    BY <1>1, <1>2, InductionInterval
<1>4. PICK f \in [0 .. n -> V] : \A k \in 0 .. n : f[k] = IF k = 0 THEN a ELSE step[k][f[k - 1]]
  <2>1. n \in T
    <3> HIDE DEF T
    <3> QED
      BY <1>3
  <2> QED
    BY <2>1
<1>5. f = WalkStep(f, a, step, n) /\ \A k \in 0 .. n : f[k] \in V
  BY <1>4 DEF WalkStep
<1> QED
  BY <1>5
=============================================================================
