--------------------------- MODULE IntegerUnitProofs ---------------------------
(***************************************************************************)
(* What the integer unit's flag records stand for, proved for every width  *)
(* of a byte and of an operand and for all values: TLC enumerates them at  *)
(* a few edges.                                                            *)
(***************************************************************************)
EXTENDS IntegerUnit, Induction

(* A width whose range is twice the weight of its sign bit.                *)
IsWidth(w) == /\ Power(Bits(w) - 1) \in Nat \ {0}
              /\ Power(Bits(w)) = 2 * Power(Bits(w) - 1)

(* The widths in use are such.                                             *)
LEMMA WidthFact ==
  ASSUME NEW w \in Widths \cup {1}
  PROVE  /\ IsWidth(w) /\ w \in Nat \ {0} /\ Bits(w) \in Nat /\ Bits(w) >= ByteBits
<1>1. w \in Nat \ {0} /\ ByteBits \in Nat \ {0}
  BY WidthsAssumption, ByteAssumption
<1>2. Bits(w) \in Nat /\ Bits(w) >= ByteBits
  BY <1>1 DEF Bits
<1>3. Bits(w) - 1 \in 0 .. Bits(w) /\ (Bits(w) - 1) + 1 = Bits(w)
  BY <1>1, <1>2
<1>4. Power(Bits(w) - 1) \in Nat \ {0} /\ Power((Bits(w) - 1) + 1) = 2 * Power(Bits(w) - 1)
  BY <1>3, WidthsAssumption
<1> QED
  BY <1>1, <1>2, <1>3, <1>4 DEF IsWidth

-----------------------------------------------------------------------------
(* Bitwise conjunction and exclusive or.                                   *)

\* One turn of the conjunction, over the pairs below x and y.
AndStep(f, x, y) == [p \in (0 .. x) \X (0 .. y) |->
  IF p[1] = 0 \/ p[2] = 0 THEN 0 ELSE 2 * f[<<p[1] \div 2, p[2] \div 2>>] + (p[1] % 2) * (p[2] % 2)]

(* Halving.                                                                 *)
LEMMA Halves ==
  ASSUME NEW x \in Nat
  PROVE  /\ x \div 2 \in Nat /\ x % 2 \in {0, 1} /\ x = 2 * (x \div 2) + (x % 2)
         /\ x # 0 => x \div 2 < x
  OBVIOUS

(* The pairs a turn reads.                                                  *)
LEMMA AndReads ==
  ASSUME NEW x \in Nat, NEW y \in Nat, NEW p \in (0 .. x) \X (0 .. y)
  PROVE  /\ p[1] \in 0 .. x /\ p[2] \in 0 .. y
         /\ <<p[1] \div 2, p[2] \div 2>> \in (0 .. x) \X (0 .. y)
         /\ p[1] # 0 => p[1] \div 2 < p[1]
         /\ (p[1] % 2) * (p[2] % 2) \in Nat
<1>1. p[1] \in 0 .. x /\ p[2] \in 0 .. y
  OBVIOUS
<1>2. p[1] \div 2 \in 0 .. x /\ p[2] \div 2 \in 0 .. y /\ (p[1] # 0 => p[1] \div 2 < p[1])
  BY <1>1
<1>3. p[1] % 2 \in {0, 1} /\ p[2] % 2 \in {0, 1}
  BY <1>1
<1>4. (p[1] % 2) * (p[2] % 2) \in Nat
  BY <1>3
<1> QED
  BY <1>1, <1>2, <1>4

(* The recursive function the conjunction chooses exists.                   *)
LEMMA AndExists ==
  ASSUME NEW x \in Nat, NEW y \in Nat
  PROVE  \E f \in [(0 .. x) \X (0 .. y) -> Nat] : f = AndStep(f, x, y)
<1> DEFINE S == (0 .. x) \X (0 .. y)
<1> DEFINE turn(f, p) == IF p[1] = 0 \/ p[2] = 0 THEN 0 ELSE 2 * f[<<p[1] \div 2, p[2] \div 2>>] + (p[1] % 2) * (p[2] % 2)
<1> DEFINE T == {n \in 0 .. x : \E f \in [S -> Nat] : \A p \in S : p[1] <= n => f[p] = turn(f, p)}
<1>1. 0 \in T
  <2> DEFINE f == [p \in S |-> 0]
  <2>1. f \in [S -> Nat] /\ 0 \in 0 .. x
    OBVIOUS
  <2>2. ASSUME NEW p \in S, p[1] <= 0 PROVE f[p] = turn(f, p)
    <3>1. p[1] = 0
      BY <2>2, AndReads
    <3> QED
      BY <3>1
  <2> HIDE DEF f, S, turn
  <2> QED
    BY <2>1, <2>2
<1>2. ASSUME NEW n \in 0 .. x - 1, n \in T PROVE n + 1 \in T
  <2>1. PICK f \in [S -> Nat] : \A p \in S : p[1] <= n => f[p] = turn(f, p)
    BY <1>2
  <2> DEFINE g == [p \in S |-> turn(f, p)]
  <2>2. \A p \in S : turn(f, p) \in Nat
    <3> SUFFICES ASSUME NEW p \in S PROVE turn(f, p) \in Nat
      OBVIOUS
    <3>1. <<p[1] \div 2, p[2] \div 2>> \in S /\ (p[1] % 2) * (p[2] % 2) \in Nat
      BY AndReads
    <3>2. f[<<p[1] \div 2, p[2] \div 2>>] \in Nat
      BY <2>1, <3>1
    <3> QED
      BY <3>1, <3>2
  <2>3. g \in [S -> Nat]
    BY <2>2
  <2>4. ASSUME NEW p \in S, p[1] <= n + 1 PROVE g[p] = turn(g, p)
    <3> DEFINE q == <<p[1] \div 2, p[2] \div 2>>
    <3>1. g[p] = turn(f, p)
      OBVIOUS
    <3>2. CASE p[1] = 0 \/ p[2] = 0
      BY <3>1, <3>2
    <3>3. CASE p[1] # 0 /\ p[2] # 0
      <4>1. q \in S /\ p[1] \in Nat /\ p[1] \div 2 < p[1]
        BY <3>3, AndReads
      <4>2. q[1] <= n
        BY <2>4, <4>1
      <4>3. g[q] = turn(f, q) /\ f[q] = turn(f, q)
        BY <2>1, <4>1, <4>2
      <4>4. g[q] = f[q]
        BY <4>3
      <4> QED
        BY <3>1, <3>3, <4>4
    <3> QED
      BY <3>2, <3>3
  <2>5. n + 1 \in 0 .. x
    OBVIOUS
  <2> HIDE DEF g, S, turn
  <2> QED
    BY <2>3, <2>4, <2>5
<1>3. 0 .. x \subseteq T
  <2> HIDE DEF T
  <2> QED
    BY <1>1, <1>2, InductionInterval
<1>4. PICK f \in [S -> Nat] : \A p \in S : p[1] <= x => f[p] = turn(f, p)
  <2>1. x \in T
    <3> HIDE DEF T
    <3> QED
      BY <1>3
  <2> QED
    BY <2>1
<1>5. \A p \in S : f[p] = turn(f, p)
  BY <1>4, AndReads
<1>6. f = [p \in S |-> turn(f, p)]
  <2> HIDE DEF S, turn
  <2> QED
    BY <1>4, <1>5
<1> QED
  BY <1>4, <1>6 DEF AndStep

(* Its value does not depend on how far it was defined.                     *)
LEMMA AndUnique ==
  ASSUME NEW x \in Nat, NEW y \in Nat, NEW f, f = AndStep(f, x, y),
         NEW u \in 0 .. x, NEW v \in 0 .. y, NEW g, g = AndStep(g, u, v)
  PROVE  g[<<u, v>>] = f[<<u, v>>]
<1> DEFINE S == (0 .. u) \X (0 .. v)
<1> DEFINE T == {n \in Nat : \A p \in S : p[1] = n => g[p] = f[p]}
<1>1. ASSUME NEW n \in Nat, \A m \in Nat : m < n => m \in T PROVE n \in T
  <2> SUFFICES ASSUME NEW p \in S, p[1] = n PROVE g[p] = f[p]
    OBVIOUS
  <2> DEFINE q == <<p[1] \div 2, p[2] \div 2>>
  <2>1. p \in (0 .. x) \X (0 .. y)
    OBVIOUS
  <2>2. CASE p[1] = 0 \/ p[2] = 0
    BY <2>1, <2>2 DEF AndStep
  <2>3. CASE p[1] # 0 /\ p[2] # 0
    <3>1. q \in S /\ q[1] \in Nat /\ q[1] < n
      BY <2>3, AndReads
    <3>2. g[q] = f[q]
      BY <1>1, <3>1
    <3>3. g[p] = 2 * g[q] + (p[1] % 2) * (p[2] % 2)
      BY <2>3 DEF AndStep
    <3>4. f[p] = 2 * f[q] + (p[1] % 2) * (p[2] % 2)
      BY <2>1, <2>3 DEF AndStep
    <3> QED
      BY <3>2, <3>3, <3>4
  <2> QED
    BY <2>2, <2>3
<1>2. Nat \subseteq T
  <2> HIDE DEF T
  <2> QED
    BY <1>1, StrongInduction
<1>3. <<u, v>> \in S /\ u \in T
  BY <1>2
<1> QED
  BY <1>3

(* The conjunction is a number, made from the conjunction of the halves.    *)
LEMMA AndRec ==
  ASSUME NEW x \in Nat, NEW y \in Nat
  PROVE  And(x, y) \in Nat /\ And(x, y) = 2 * And(x \div 2, y \div 2) + (x % 2) * (y % 2)
<1> DEFINE and(u, v) == CHOOSE f : f = AndStep(f, u, v)
<1>1. ASSUME NEW u \in Nat, NEW v \in Nat
      PROVE  /\ and(u, v) = AndStep(and(u, v), u, v) /\ and(u, v)[<<u, v>>] \in Nat
             /\ And(u, v) = and(u, v)[<<u, v>>]
  <2>1. PICK f \in [(0 .. u) \X (0 .. v) -> Nat] : f = AndStep(f, u, v)
    BY AndExists
  <2>2. and(u, v) = AndStep(and(u, v), u, v)
    BY <2>1
  <2>3. And(u, v) = and(u, v)[<<u, v>>]
    BY DEF And, AndStep
  <2> HIDE DEF and
  <2>4. u \in 0 .. u /\ v \in 0 .. v /\ <<u, v>> \in (0 .. u) \X (0 .. v)
    OBVIOUS
  <2>5. and(u, v)[<<u, v>>] = f[<<u, v>>]
    BY <2>1, <2>2, <2>4, AndUnique
  <2> QED
    BY <2>1, <2>2, <2>3, <2>4, <2>5
<1> HIDE DEF and
<1>2. x \div 2 \in 0 .. x /\ y \div 2 \in 0 .. y /\ x \div 2 \in Nat /\ y \div 2 \in Nat
  OBVIOUS
<1>3. And(x \div 2, y \div 2) = and(x, y)[<<x \div 2, y \div 2>>]
  <2>1. PICK f : f = and(x, y)
    OBVIOUS
  <2>2. PICK g : g = and(x \div 2, y \div 2)
    OBVIOUS
  <2>3. f = AndStep(f, x, y) /\ g = AndStep(g, x \div 2, y \div 2)
    BY <1>1, <1>2, <2>1, <2>2
  <2>4. g[<<x \div 2, y \div 2>>] = f[<<x \div 2, y \div 2>>]
    BY <1>2, <2>3, AndUnique
  <2> QED
    BY <1>1, <1>2, <2>1, <2>2, <2>4
<1>4. <<x, y>> \in (0 .. x) \X (0 .. y)
  OBVIOUS
<1>5. And(x, y) = IF x = 0 \/ y = 0 THEN 0 ELSE 2 * and(x, y)[<<x \div 2, y \div 2>>] + (x % 2) * (y % 2)
  <2>1. and(x, y)[<<x, y>>] = AndStep(and(x, y), x, y)[<<x, y>>]
    BY <1>1
  <2> QED
    BY <1>1, <1>4, <2>1 DEF AndStep
<1> QED
  <2>1. CASE x # 0 /\ y # 0
    BY <1>1, <1>3, <1>5, <2>1
  <2>2. CASE x = 0 \/ y = 0
    <3>1. And(x, y) = 0 /\ (x \div 2 = 0 \/ y \div 2 = 0)
      BY <1>5, <2>2
    <3>2. And(x \div 2, y \div 2) = 0
      <4>1. <<x \div 2, y \div 2>> \in (0 .. x) \X (0 .. y)
        BY <1>2
      <4>2. and(x, y)[<<x \div 2, y \div 2>>] = 0
        <5>1. and(x, y)[<<x \div 2, y \div 2>>] = AndStep(and(x, y), x, y)[<<x \div 2, y \div 2>>]
          BY <1>1
        <5> QED
          BY <3>1, <4>1, <5>1 DEF AndStep
      <4> QED
        BY <1>3, <4>2
    <3>3. (x % 2) * (y % 2) = 0
      BY <2>2
    <3> QED
      BY <3>1, <3>2, <3>3
  <2> QED
    BY <2>1, <2>2

(* The exclusive or is a number, and so are its halves'.                    *)
LEMMA XorRec ==
  ASSUME NEW x \in Nat, NEW y \in Nat
  PROVE  /\ Xor(x, y) \in Int
         /\ Xor(x, y) \div 2 = Xor(x \div 2, y \div 2)
         /\ Xor(x, y) % 2 = (x + y) % 2
         /\ Xor(x, y) = 2 * Xor(x \div 2, y \div 2) + ((x + y) % 2)
<1> DEFINE u == x \div 2
           v == y \div 2
           i == x % 2
           j == y % 2
           a == And(x, y)
           b == And(u, v)
<1>1. u \in Nat /\ v \in Nat /\ i \in {0, 1} /\ j \in {0, 1} /\ x = 2 * u + i /\ y = 2 * v + j
  BY Halves
<1> HIDE DEF u, v, i, j
<1>2. a \in Nat /\ b \in Nat
  BY <1>1, AndRec
<1>3. a = 2 * b + i * j
  BY AndRec DEF u, v, i, j
<1> HIDE DEF a, b
<1>4. x + y - 2 * a = 2 * (u + v - 2 * b) + ((x + y) % 2) /\ (x + y) % 2 \in {0, 1}
  BY <1>1, <1>2, <1>3
<1>5. PICK s : s = x + y - 2 * a
  OBVIOUS
<1>6. PICK t : t = u + v - 2 * b
  OBVIOUS
<1>7. s \in Int /\ t \in Int /\ s = 2 * t + ((x + y) % 2)
  BY <1>1, <1>2, <1>4, <1>5, <1>6
<1>8. s \div 2 = t /\ s % 2 = (x + y) % 2
  BY <1>4, <1>7
<1>9. Xor(x, y) = s /\ Xor(x \div 2, y \div 2) = t
  BY <1>5, <1>6 DEF Xor, a, b, u, v
<1> QED
  BY <1>7, <1>8, <1>9

(* It is never negative.                                                    *)
LEMMA XorNat ==
  ASSUME NEW x \in Nat, NEW y \in Nat
  PROVE  Xor(x, y) \in Nat
<1> DEFINE T == {n \in Nat : \A i, j \in Nat : i + j = n => Xor(i, j) \in Nat}
<1>1. ASSUME NEW n \in Nat, \A m \in Nat : m < n => m \in T PROVE n \in T
  <2> SUFFICES ASSUME NEW i \in Nat, NEW j \in Nat, i + j = n PROVE Xor(i, j) \in Nat
    OBVIOUS
  <2>1. i \div 2 \in Nat /\ j \div 2 \in Nat /\ (i + j) % 2 \in {0, 1}
    OBVIOUS
  <2>2. CASE n = 0
    <3>1. i = 0 /\ j = 0
      BY <2>2
    <3>2. And(0, 0) \in Nat /\ And(0, 0) = 2 * And(0 \div 2, 0 \div 2) + (0 % 2) * (0 % 2)
      BY AndRec
    <3>3. 0 \div 2 = 0 /\ (0 % 2) * (0 % 2) = 0
      OBVIOUS
    <3>4. And(0, 0) = 0
      BY <3>2, <3>3
    <3> QED
      BY <3>1, <3>4 DEF Xor
  <2>3. CASE n # 0
    <3>1. (i \div 2) + (j \div 2) \in Nat /\ (i \div 2) + (j \div 2) < n
      BY <2>3
    <3>2. (i \div 2) + (j \div 2) \in T
      BY <1>1, <3>1
    <3>3. Xor(i \div 2, j \div 2) \in Nat
      BY <2>1, <3>2
    <3>4. Xor(i, j) = 2 * Xor(i \div 2, j \div 2) + ((i + j) % 2)
      BY XorRec
    <3> QED
      BY <2>1, <3>3, <3>4
  <2> QED
    BY <2>2, <2>3
<1>2. Nat \subseteq T
  <2> HIDE DEF T
  <2> QED
    BY <1>1, StrongInduction
<1>3. x + y \in Nat
  OBVIOUS
<1>4. x + y \in T
  BY <1>2, <1>3
<1> QED
  BY <1>4

\* The powers up to the one after k double.
Doubles(k) == Power(0) = 1 /\ \A n \in 0 .. k : Power(n) \in Nat \ {0} /\ Power(n + 1) = 2 * Power(n)

(* Dividing by twice as much.                                               *)
LEMMA DivTwice ==
  ASSUME NEW p \in Nat \ {0}, NEW v \in Int
  PROVE  v \div (2 * p) = (v \div 2) \div p
<1>1. PICK h \in Int : h = v \div 2 /\ v = 2 * h + (v % 2) /\ v % 2 \in {0, 1}
  OBVIOUS
<1>2. PICK q \in Int, r \in 0 .. p - 1 : q = h \div p /\ h = p * q + r
  <2>1. h \div p \in Int /\ h % p \in 0 .. p - 1 /\ h = p * (h \div p) + (h % p)
    OBVIOUS
  <2> QED
    BY <2>1
<1>3. v = (2 * p) * q + (2 * r + (v % 2))
  <2>1. v = 2 * (p * q + r) + (v % 2)
    BY <1>1, <1>2
  <2>2. 2 * (p * q + r) = (2 * p) * q + 2 * r
    OBVIOUS
  <2>3. (2 * p) * q \in Int
    OBVIOUS
  <2> QED
    BY <1>1, <2>1, <2>2, <2>3
<1>4. 2 * r + (v % 2) \in 0 .. 2 * p - 1
  BY <1>1
<1>5. ASSUME NEW n \in Nat \ {0}, NEW s \in 0 .. n - 1, v = n * q + s PROVE v \div n = q
  BY <1>5
<1>6. v \div (2 * p) = q
  <2>1. PICK n : n = 2 * p
    OBVIOUS
  <2>2. PICK s : s = 2 * r + (v % 2)
    OBVIOUS
  <2>3. n \in Nat \ {0} /\ s \in 0 .. n - 1 /\ v = n * q + s
    BY <1>3, <1>4, <2>1, <2>2
  <2> QED
    BY <1>5, <2>1, <2>3
<1> QED
  BY <1>1, <1>2, <1>6

(* Each bit of an exclusive or is 1 where one of the two is and not both.   *)
LEMMA XorBit ==
  ASSUME NEW k \in Nat, Doubles(k), NEW x \in Nat, NEW y \in Nat
  PROVE  (Xor(x, y) \div Power(k)) % 2 = ((x \div Power(k)) + (y \div Power(k))) % 2
<1> DEFINE T == {n \in 0 .. k : \A i, j \in Nat :
                   (Xor(i, j) \div Power(n)) % 2 = ((i \div Power(n)) + (j \div Power(n))) % 2}
<1>1. 0 \in T
  <2>1. ASSUME NEW v \in Int PROVE v \div Power(0) = v
    <3>1. v \div 1 = v /\ Power(0) = 1
      BY DEF Doubles
    <3> QED
      BY <3>1, Zenon
  <2>2. \A i, j \in Nat : Xor(i, j) \in Int /\ Xor(i, j) % 2 = (i + j) % 2
    BY XorRec
  <2>4. ASSUME NEW i \in Nat, NEW j \in Nat
        PROVE  (Xor(i, j) \div Power(0)) % 2 = ((i \div Power(0)) + (j \div Power(0))) % 2
    <3>1. Xor(i, j) \div Power(0) = Xor(i, j) /\ i \div Power(0) = i /\ j \div Power(0) = j
      <4>1. Xor(i, j) \in Int /\ i \in Int /\ j \in Int
        BY <2>2
      <4> QED
        BY <2>1, <4>1, Zenon
    <3> QED
      BY <2>2, <3>1, Zenon
  <2> QED
    BY <2>4
<1>2. ASSUME NEW n \in 0 .. k - 1, n \in T PROVE n + 1 \in T
  <2>1. Power(n) \in Nat \ {0} /\ Power(n + 1) = 2 * Power(n)
    BY DEF Doubles
  <2>2. ASSUME NEW i \in Nat, NEW j \in Nat
        PROVE  (Xor(i, j) \div Power(n + 1)) % 2 = ((i \div Power(n + 1)) + (j \div Power(n + 1))) % 2
    <3>0. PICK s : s = Xor(i, j)
      OBVIOUS
    <3>1. i \div 2 \in Nat /\ j \div 2 \in Nat /\ s \in Int /\ s \div 2 = Xor(i \div 2, j \div 2)
      <4>1. i \div 2 \in Nat /\ j \div 2 \in Nat
        OBVIOUS
      <4> QED
        BY <3>0, <4>1, XorRec
    <3>2. /\ s \div (2 * Power(n)) = (s \div 2) \div Power(n)
          /\ i \div (2 * Power(n)) = (i \div 2) \div Power(n)
          /\ j \div (2 * Power(n)) = (j \div 2) \div Power(n)
      <4>1. PICK p \in Nat \ {0} : p = Power(n)
        BY <2>1
      <4>2. s \div (2 * p) = (s \div 2) \div p
        BY <3>1, DivTwice
      <4>3. i \in Int /\ j \in Int
        OBVIOUS
      <4>4. i \div (2 * p) = (i \div 2) \div p
        BY <4>3, DivTwice
      <4>5. j \div (2 * p) = (j \div 2) \div p
        BY <4>3, DivTwice
      <4> QED
        BY <4>1, <4>2, <4>4, <4>5
    <3>3. (Xor(i \div 2, j \div 2) \div Power(n)) % 2 = (((i \div 2) \div Power(n)) + ((j \div 2) \div Power(n))) % 2
      BY <1>2, <3>1
    <3> QED
      BY <2>1, <3>0, <3>1, <3>2, <3>3, Zenon
  <2>3. n + 1 \in 0 .. k
    OBVIOUS
  <2> QED
    BY <2>2, <2>3
<1>3. 0 .. k \subseteq T
  <2> HIDE DEF T
  <2> QED
    BY <1>1, <1>2, InductionInterval
<1>4. k \in T
  <2> HIDE DEF T
  <2> QED
    BY <1>3
<1> QED
  BY <1>4

-----------------------------------------------------------------------------
(* Arithmetic modulo a power of two.                                       *)

(* The quotient by half a range is its top bit.                             *)
LEMMA TopBit ==
  ASSUME NEW h \in Nat \ {0}, NEW v \in 0 .. 2 * h - 1
  PROVE  (v \div h) % 2 = IF v >= h THEN 1 ELSE 0
<1>1. CASE v >= h
  <2>1. v \div h = 1
    BY <1>1
  <2> QED
    BY <2>1, <1>1
<1>2. CASE v < h
  <2>1. v \div h = 0
    BY <1>2
  <2> QED
    BY <2>1, <1>2
<1> QED
  BY <1>1, <1>2

(* Going round once, either way.                                            *)
LEMMA Wraps ==
  ASSUME NEW n \in Nat \ {0}, NEW v \in -n .. 2 * n - 1
  PROVE  v % n = IF v < 0 THEN v + n ELSE IF v < n THEN v ELSE v - n
  OBVIOUS

(* A quotient and a remainder determine one another.                        *)
LEMMA DivMod ==
  ASSUME NEW n \in Nat \ {0}, NEW v \in Int
  PROVE  /\ v \div n \in Int /\ v % n \in 0 .. n - 1 /\ v = n * (v \div n) + (v % n)
         /\ v >= 0 => v \div n \in Nat
  OBVIOUS

(* A word, its sign and its signed value.                                  *)
LEMMA SignFact ==
  ASSUME NEW w, IsWidth(w), NEW v \in 0 .. Power(Bits(w)) - 1
  PROVE  /\ Trunc(v, w) = v
         /\ Msb(v, w) = IF v >= Power(Bits(w) - 1) THEN 1 ELSE 0
         /\ Signed(v, w) = IF v >= Power(Bits(w) - 1) THEN v - Power(Bits(w)) ELSE v
<1> DEFINE h == Power(Bits(w) - 1)
<1>1. h \in Nat \ {0} /\ Power(Bits(w)) = 2 * h
  BY DEF IsWidth
<1> HIDE DEF h
<1>2. v \in 0 .. 2 * h - 1
  BY <1>1
<1>3. v % (2 * h) = v
  BY <1>1, <1>2
<1>4. Trunc(v, w) = v
  BY <1>1, <1>3 DEF Trunc
<1>5. Msb(v, w) = IF v >= h THEN 1 ELSE 0
  BY <1>1, <1>2, TopBit DEF Msb, Bit, h
<1> QED
  BY <1>1, <1>4, <1>5 DEF Signed, h

-----------------------------------------------------------------------------
(* What a condition reads.                                                 *)

\* Nothing recorded is nothing set.
Recorded(f) == f.kind = "None" => f.word = {}

(* flags.c: the word of a record has the flags derived from it.             *)
LEMMA WordHasFlags ==
  ASSUME NEW f, f.kind \notin {"None", "Explicit"}
  PROVE  /\ "CF" \in Eflags(f) <=> CF(f)
         /\ "ZF" \in Eflags(f) <=> ZF(f)
         /\ "SF" \in Eflags(f) <=> SF(f)
         /\ "PF" \in Eflags(f) <=> PF(f)
         /\ "OF" \in Eflags(f) <=> OF(f)
  BY DEF Eflags, ArithFlags

(* cond.c: a condition is the same from the record and from the word.      *)
LEMMA ConditionsAgree ==
  ASSUME NEW f, Recorded(f), NEW cc \in Conds
  PROVE  Cond(cc, f) <=> CondEflags(cc, Eflags(f))
<1>1. CASE f.kind = "None"
  <2>1. Eflags(f) = {} /\ f.word = {}
    BY <1>1 DEF Recorded, Eflags
  <2>2. Cond(cc, f) <=> CondEflags(cc, f.word)
    BY <1>1 DEF Cond
  <2> QED
    BY <2>1, <2>2
<1>2. CASE f.kind = "Explicit"
  <2>1. \A x \in ArithFlags : x \in Eflags(f) <=> x \in f.word
    BY <1>2 DEF Eflags
  <2>2. Cond(cc, f) <=> CondEflags(cc, f.word)
    BY <1>2 DEF Cond
  <2> QED
    BY <2>1, <2>2 DEF CondEflags, Conds, ArithFlags
<1>3. CASE f.kind \notin {"None", "Explicit"}
  BY <1>3, WordHasFlags DEF Cond, CondEflags, Conds
<1> QED
  BY <1>1, <1>2, <1>3

-----------------------------------------------------------------------------
(* The recorded subtraction.                                               *)

(* The record of a subtraction, its carry, overflow, zero and order.        *)
LEMMA SubtractFact ==
  ASSUME NEW w, IsWidth(w), NEW a \in 0 .. Power(Bits(w)) - 1, NEW b \in 0 .. Power(Bits(w)) - 1, NEW f,
         NEW g, g = Set(f, "Sub", a, b, Trunc(a - b, w), w)
  PROVE  /\ g.kind = "Sub"
         /\ CF(g) <=> a < b
         /\ ZF(g) <=> a = b
         /\ ZF(g) <=> (a - b) % Power(Bits(w)) = 0
         /\ OF(g) <=> \/ Signed(a, w) - Signed(b, w) < -Power(Bits(w) - 1)
                      \/ Signed(a, w) - Signed(b, w) >= Power(Bits(w) - 1)
         /\ ~(SF(g) <=> OF(g)) <=> Signed(a, w) < Signed(b, w)
<1> DEFINE h == Power(Bits(w) - 1)
<1> DEFINE r == Trunc(a - b, w)
<1>1. h \in Nat \ {0} /\ Power(Bits(w)) = 2 * h
  BY DEF IsWidth
<1>2. r = IF a < b THEN a - b + 2 * h ELSE a - b
  <2> HIDE DEF h
  <2>1. a - b \in -(2 * h) .. 2 * (2 * h) - 1 /\ 2 * h \in Nat \ {0}
    BY <1>1
  <2>2. (a - b) % (2 * h) = IF a - b < 0 THEN a - b + 2 * h ELSE IF a - b < 2 * h THEN a - b ELSE a - b - 2 * h
    BY <2>1, Wraps
  <2> QED
    BY <1>1, <2>2 DEF Trunc
<1>3. r \in 0 .. Power(Bits(w)) - 1
  BY <1>1, <1>2
<1>4. /\ Trunc(a, w) = a /\ Trunc(b, w) = b /\ Trunc(r, w) = r
      /\ Msb(a, w) = (IF a >= h THEN 1 ELSE 0) /\ Msb(b, w) = (IF b >= h THEN 1 ELSE 0)
      /\ Msb(r, w) = (IF r >= h THEN 1 ELSE 0)
      /\ Signed(a, w) = (IF a >= h THEN a - 2 * h ELSE a) /\ Signed(b, w) = (IF b >= h THEN b - 2 * h ELSE b)
  BY <1>1, <1>3, SignFact
<1>5. g.kind = "Sub" /\ g.a = a /\ g.b = b /\ g.r = r /\ g.w = w
  BY DEF Set
<1>6. CF(g) <=> Trunc(a, w) < Trunc(b, w)
  BY <1>5 DEF CF, Shifts
<1>7. ZF(g) <=> Trunc(r, w) = 0
  BY <1>5 DEF ZF
<1>8. SF(g) <=> Msb(r, w) = 1
  BY <1>5 DEF SF
<1>9. OF(g) <=> Msb(a, w) # Msb(b, w) /\ Msb(r, w) # Msb(a, w)
  BY <1>5 DEF OF
<1>10. r = (a - b) % Power(Bits(w))
  BY DEF Trunc
<1> HIDE DEF h, r
<1> QED
  <2>1. (CF(g) <=> a < b) /\ (ZF(g) <=> a = b)
    BY <1>1, <1>2, <1>4, <1>6, <1>7
  <2>2. OF(g) <=> Signed(a, w) - Signed(b, w) < -h \/ Signed(a, w) - Signed(b, w) >= h
    BY <1>1, <1>2, <1>4, <1>9
  <2>3. ~(SF(g) <=> OF(g)) <=> Signed(a, w) < Signed(b, w)
    BY <1>1, <1>2, <1>4, <1>8, <1>9
  <2>4. ZF(g) <=> (a - b) % Power(Bits(w)) = 0
    BY <1>4, <1>7, <1>10
  <2> QED
    BY <1>5, <2>1, <2>2, <2>3, <2>4 DEF h

(* The recorded addition.                                                  *)
LEMMA AddFact ==
  ASSUME NEW w, IsWidth(w), NEW a \in 0 .. Power(Bits(w)) - 1, NEW b \in 0 .. Power(Bits(w)) - 1, NEW f,
         NEW g, g = Set(f, "Add", a, b, Trunc(a + b, w), w)
  PROVE  /\ CF(g) <=> a + b >= Power(Bits(w))
         /\ ZF(g) <=> (a + b) % Power(Bits(w)) = 0
         /\ OF(g) <=> \/ Signed(a, w) + Signed(b, w) < -Power(Bits(w) - 1)
                      \/ Signed(a, w) + Signed(b, w) >= Power(Bits(w) - 1)
<1> DEFINE h == Power(Bits(w) - 1)
<1> DEFINE r == Trunc(a + b, w)
<1>1. h \in Nat \ {0} /\ Power(Bits(w)) = 2 * h
  BY DEF IsWidth
<1>2. r = IF a + b >= 2 * h THEN a + b - 2 * h ELSE a + b
  <2> HIDE DEF h
  <2> DEFINE n == Power(Bits(w))
  <2> DEFINE v == a + b
  <2>1. n = 2 * h /\ n \in Nat \ {0} /\ v \in 0 .. 2 * n - 1
    BY <1>1
  <2>2. r = v % n
    BY DEF Trunc
  <2> HIDE DEF n
  <2>3. v % n = IF v < n THEN v ELSE v - n
    <3> HIDE DEF v
    <3> QED
      BY <2>1, Wraps
  <2> HIDE DEF r
  <2> QED
    BY <1>1, <2>1, <2>2, <2>3
<1>3. r \in 0 .. Power(Bits(w)) - 1
  BY <1>1, <1>2
<1>4. /\ Trunc(a, w) = a /\ Trunc(r, w) = r
      /\ Msb(a, w) = (IF a >= h THEN 1 ELSE 0) /\ Msb(b, w) = (IF b >= h THEN 1 ELSE 0)
      /\ Msb(r, w) = (IF r >= h THEN 1 ELSE 0)
      /\ Signed(a, w) = (IF a >= h THEN a - 2 * h ELSE a) /\ Signed(b, w) = (IF b >= h THEN b - 2 * h ELSE b)
  BY <1>1, <1>3, SignFact
<1>5. g.kind = "Add" /\ g.a = a /\ g.b = b /\ g.r = r /\ g.w = w
  BY DEF Set
<1>6. CF(g) <=> Trunc(r, w) < Trunc(a, w)
  BY <1>5 DEF CF, Shifts
<1>7. ZF(g) <=> Trunc(r, w) = 0
  BY <1>5 DEF ZF
<1>8. OF(g) <=> Msb(a, w) = Msb(b, w) /\ Msb(r, w) # Msb(a, w)
  BY <1>5 DEF OF
<1>9. r = (a + b) % Power(Bits(w))
  BY DEF Trunc
<1> HIDE DEF h, r
<1> QED
  <2>1. (CF(g) <=> a + b >= 2 * h) /\ (ZF(g) <=> (a + b) % Power(Bits(w)) = 0)
    <3>1. CF(g) <=> r < a
      BY <1>4, <1>6
    <3>2. ZF(g) <=> r = 0
      BY <1>4, <1>7
    <3>3. CF(g) <=> a + b >= 2 * h
      BY <1>1, <1>2, <3>1
    <3> QED
      BY <1>9, <3>2, <3>3
  <2>2. OF(g) <=> Signed(a, w) + Signed(b, w) < -h \/ Signed(a, w) + Signed(b, w) >= h
    BY <1>1, <1>2, <1>4, <1>8
  <2> QED
    BY <1>1, <2>1, <2>2 DEF h

(* INC and DEC keep the carry of the record they replace.                  *)
LEMMA StepFact ==
  ASSUME NEW w, IsWidth(w), NEW a \in 0 .. Power(Bits(w)) - 1, NEW f, NEW i, NEW d,
         i = Set(f, "Inc", a, 1, Trunc(a + 1, w), w), d = Set(f, "Dec", a, 1, Trunc(a - 1, w), w)
  PROVE  /\ (CF(i) <=> CF(f)) /\ (CF(d) <=> CF(f))
         /\ (ZF(i) <=> (a + 1) % Power(Bits(w)) = 0) /\ (ZF(d) <=> (a - 1) % Power(Bits(w)) = 0)
         /\ OF(i) <=> \/ Signed(a, w) + 1 < -Power(Bits(w) - 1)
                      \/ Signed(a, w) + 1 >= Power(Bits(w) - 1)
         /\ OF(d) <=> \/ Signed(a, w) - 1 < -Power(Bits(w) - 1)
                      \/ Signed(a, w) - 1 >= Power(Bits(w) - 1)
<1> DEFINE h == Power(Bits(w) - 1)
<1> DEFINE up == Trunc(a + 1, w)
<1> DEFINE down == Trunc(a - 1, w)
<1>1. h \in Nat \ {0} /\ Power(Bits(w)) = 2 * h
  BY DEF IsWidth
<1>2. /\ up = IF a + 1 = 2 * h THEN 0 ELSE a + 1
      /\ down = IF a = 0 THEN 2 * h - 1 ELSE a - 1
  <2> HIDE DEF h
  <2> DEFINE n == Power(Bits(w))
  <2>1. n = 2 * h /\ n \in Nat \ {0} /\ a + 1 \in -n .. 2 * n - 1 /\ a - 1 \in -n .. 2 * n - 1
    BY <1>1
  <2>2. up = (a + 1) % n /\ down = (a - 1) % n
    BY DEF Trunc
  <2> HIDE DEF n
  <2>3. (a + 1) % n = IF a + 1 < 0 THEN a + 1 + n ELSE IF a + 1 < n THEN a + 1 ELSE a + 1 - n
    BY <2>1, Wraps
  <2>4. (a - 1) % n = IF a - 1 < 0 THEN a - 1 + n ELSE IF a - 1 < n THEN a - 1 ELSE a - 1 - n
    BY <2>1, Wraps
  <2> HIDE DEF up, down
  <2> QED
    BY <1>1, <2>1, <2>2, <2>3, <2>4
<1>3. up \in 0 .. Power(Bits(w)) - 1 /\ down \in 0 .. Power(Bits(w)) - 1
  BY <1>1, <1>2
<1>4. /\ Trunc(a, w) = a /\ Trunc(up, w) = up /\ Trunc(down, w) = down
      /\ Signed(a, w) = (IF a >= h THEN a - 2 * h ELSE a)
  BY <1>1, <1>3, SignFact
<1>5. /\ i.kind = "Inc" /\ i.a = a /\ i.r = up /\ i.w = w /\ i.carry_in = CF(f)
      /\ d.kind = "Dec" /\ d.a = a /\ d.r = down /\ d.w = w /\ d.carry_in = CF(f)
  BY DEF Set
<1>6. (CF(i) <=> i.carry_in) /\ (CF(d) <=> d.carry_in)
  BY <1>5 DEF CF, Shifts
<1>7. (ZF(i) <=> Trunc(up, w) = 0) /\ (ZF(d) <=> Trunc(down, w) = 0)
  BY <1>5 DEF ZF
<1>8. (OF(i) <=> Trunc(up, w) = h) /\ (OF(d) <=> Trunc(a, w) = h)
  BY <1>5 DEF OF
<1>9. up = (a + 1) % Power(Bits(w)) /\ down = (a - 1) % Power(Bits(w))
  BY DEF Trunc
<1> HIDE DEF h, up, down
<1> QED
  <2>1. (CF(i) <=> CF(f)) /\ (CF(d) <=> CF(f))
    BY <1>5, <1>6
  <2>2. (ZF(i) <=> (a + 1) % Power(Bits(w)) = 0) /\ (ZF(d) <=> (a - 1) % Power(Bits(w)) = 0)
    BY <1>4, <1>7, <1>9
  <2>3. OF(i) <=> Signed(a, w) + 1 < -h \/ Signed(a, w) + 1 >= h
    BY <1>1, <1>2, <1>4, <1>8
  <2>4. OF(d) <=> Signed(a, w) - 1 < -h \/ Signed(a, w) - 1 >= h
    BY <1>1, <1>2, <1>4, <1>8
  <2> QED
    BY <1>1, <2>1, <2>2, <2>3, <2>4 DEF h

(* The carry-in forms, whose flags are computed at once.                   *)
LEMMA AdcFact ==
  ASSUME NEW w, IsWidth(w), NEW a \in 0 .. Power(Bits(w)) - 1, NEW b \in 0 .. Power(Bits(w)) - 1, NEW c \in 0 .. 1,
         NEW g, g = SetExplicit(AdcFlags(a, b, c, Trunc(a + b + c, w), w))
  PROVE  /\ CF(g) <=> a + b + c >= Power(Bits(w))
         /\ ZF(g) <=> (a + b + c) % Power(Bits(w)) = 0
         /\ OF(g) <=> \/ Signed(a, w) + Signed(b, w) + c < -Power(Bits(w) - 1)
                      \/ Signed(a, w) + Signed(b, w) + c >= Power(Bits(w) - 1)
<1> DEFINE h == Power(Bits(w) - 1)
<1> DEFINE n == Power(Bits(w))
<1> DEFINE v == a + b + c
<1> DEFINE r == Trunc(v, w)
<1>1. h \in Nat \ {0} /\ n = 2 * h /\ Power(Bits(w)) = 2 * h
  BY DEF IsWidth
<1>2. n \in Nat \ {0} /\ v \in -n .. 2 * n - 1 /\ v >= 0
  BY <1>1
<1>3. r = v % n
  BY DEF Trunc
<1>4. v % n = IF v < n THEN v ELSE v - n
  <2> HIDE DEF n, v
  <2>1. v % n = IF v < 0 THEN v + n ELSE IF v < n THEN v ELSE v - n
    BY <1>2, Wraps
  <2> QED
    BY <1>2, <2>1
<1>5. r \in 0 .. Power(Bits(w)) - 1 /\ r = IF v < n THEN v ELSE v - n
  <2>1. r = IF v < n THEN v ELSE v - n
    BY <1>3, <1>4
  <2> HIDE DEF r, v
  <2> QED
    BY <1>1, <1>2, <2>1
<1>6. /\ Msb(a, w) = (IF a >= h THEN 1 ELSE 0) /\ Msb(b, w) = (IF b >= h THEN 1 ELSE 0)
      /\ Msb(r, w) = (IF r >= h THEN 1 ELSE 0)
      /\ Signed(a, w) = (IF a >= h THEN a - 2 * h ELSE a) /\ Signed(b, w) = (IF b >= h THEN b - 2 * h ELSE b)
  BY <1>1, <1>5, SignFact
<1> DEFINE e == AdcFlags(a, b, c, r, w)
<1>7. CF(g) <=> "CF" \in e
  BY DEF SetExplicit, CF, Shifts
<1>8. ZF(g) <=> "ZF" \in e
  BY DEF SetExplicit, ZF
<1>9. OF(g) <=> "OF" \in e
  BY DEF SetExplicit, OF
<1>10. /\ "CF" \in e <=> v >= n
       /\ "ZF" \in e <=> r = 0
       /\ "OF" \in e <=> Msb(a, w) = Msb(b, w) /\ Msb(r, w) # Msb(a, w)
  <2> HIDE DEF r
  <2> QED
    BY DEF AdcFlags, CommonFlags
<1> HIDE DEF h, r, e
<1>11. OF(g) <=> Signed(a, w) + Signed(b, w) + c < -h \/ Signed(a, w) + Signed(b, w) + c >= h
  <2> HIDE DEF n
  <2> QED
    BY <1>1, <1>5, <1>6, <1>9, <1>10
<1> QED
  BY <1>3, <1>7, <1>8, <1>10, <1>11 DEF h

(* The eager flags of a subtraction with a borrow in.                       *)
LEMMA SbbFact ==
  ASSUME NEW w, IsWidth(w), NEW a \in 0 .. Power(Bits(w)) - 1, NEW b \in 0 .. Power(Bits(w)) - 1, NEW c \in 0 .. 1,
         NEW g, g = SetExplicit(SbbFlags(a, b, c, Trunc(a - b - c, w), w))
  PROVE  /\ CF(g) <=> a - b - c < 0
         /\ ZF(g) <=> (a - b - c) % Power(Bits(w)) = 0
         /\ OF(g) <=> \/ Signed(a, w) - Signed(b, w) - c < -Power(Bits(w) - 1)
                      \/ Signed(a, w) - Signed(b, w) - c >= Power(Bits(w) - 1)
<1> DEFINE h == Power(Bits(w) - 1)
<1> DEFINE n == Power(Bits(w))
<1> DEFINE v == a - b - c
<1> DEFINE r == Trunc(v, w)
<1>1. h \in Nat \ {0} /\ n = 2 * h /\ Power(Bits(w)) = 2 * h
  BY DEF IsWidth
<1>2. n \in Nat \ {0} /\ v \in -n .. 2 * n - 1 /\ v < n
  BY <1>1
<1>3. r = v % n
  BY DEF Trunc
<1>4. v % n = IF v < 0 THEN v + n ELSE v
  <2> HIDE DEF n, v
  <2> QED
    BY <1>2, Wraps
<1>5. r \in 0 .. Power(Bits(w)) - 1 /\ r = IF v < 0 THEN v + n ELSE v
  <2>1. r = IF v < 0 THEN v + n ELSE v
    BY <1>3, <1>4
  <2> HIDE DEF r, v
  <2> QED
    BY <1>1, <1>2, <2>1
<1>6. /\ Msb(a, w) = (IF a >= h THEN 1 ELSE 0) /\ Msb(b, w) = (IF b >= h THEN 1 ELSE 0)
      /\ Msb(r, w) = (IF r >= h THEN 1 ELSE 0)
      /\ Signed(a, w) = (IF a >= h THEN a - 2 * h ELSE a) /\ Signed(b, w) = (IF b >= h THEN b - 2 * h ELSE b)
  BY <1>1, <1>5, SignFact
<1> DEFINE e == SbbFlags(a, b, c, r, w)
<1>7. CF(g) <=> "CF" \in e
  BY DEF SetExplicit, CF, Shifts
<1>8. ZF(g) <=> "ZF" \in e
  BY DEF SetExplicit, ZF
<1>9. OF(g) <=> "OF" \in e
  BY DEF SetExplicit, OF
<1>10. /\ "CF" \in e <=> v < 0
       /\ "ZF" \in e <=> r = 0
       /\ "OF" \in e <=> Msb(a, w) # Msb(b, w) /\ Msb(r, w) # Msb(a, w)
  <2> HIDE DEF r
  <2> QED
    BY DEF SbbFlags, CommonFlags
<1> HIDE DEF h, r, e
<1>11. OF(g) <=> Signed(a, w) - Signed(b, w) - c < -h \/ Signed(a, w) - Signed(b, w) - c >= h
  <2> HIDE DEF n
  <2> QED
    BY <1>1, <1>5, <1>6, <1>9, <1>10
<1> QED
  BY <1>3, <1>7, <1>8, <1>10, <1>11 DEF h

-----------------------------------------------------------------------------
(* Any sequence of operations.                                             *)

\* The flags are what the last operation, if it was additive, records for what it was given.
LastFlags ==
  last.op \in Additive =>
    /\ last.w \in Widths /\ IsWidth(last.w)
    /\ Fits(last.a, last.w)
    /\ IF last.op \in Unary THEN flags = AluUnary(last.op, last.a, last.w, last.f).f
       ELSE Fits(last.b, last.w) /\ flags = Alu(last.op, last.a, last.b, last.w, last.f).f
UnitInv == Recorded(flags) /\ LastFlags

(* flags.c: every operation leaves a record.                                *)
LEMMA SetRecorded ==
  ASSUME NEW f, NEW kind, NEW a, NEW b, NEW r, NEW w, NEW word
  PROVE  Recorded(Set(f, kind, a, b, r, w)) /\ Recorded(SetExplicit(word))
  BY DEF Recorded, Set, SetExplicit

(* alu.c: so does each binary operation.                                    *)
LEMMA AluRecorded ==
  ASSUME NEW op \in Binary \cup ShiftOps \cup Rotates, NEW a, NEW b, NEW w, NEW f, Recorded(f)
  PROVE  Recorded(Alu(op, a, b, w, f).f)
<1>1. CASE op \in Binary
  BY <1>1, SetRecorded DEF Alu, Binary, ShiftOps
<1>2. CASE op \in ShiftOps
  BY <1>2, SetRecorded DEF Alu, Shift, ShiftOps
<1>3. CASE op \in {"Rol", "Ror"}
  BY <1>3, SetRecorded DEF Alu, Rotate, SetCfOfOnly, ShiftOps
<1>4. CASE op \in {"Rcl", "Rcr"}
  BY <1>4, SetRecorded DEF Alu, RotateThroughCarry, SetCfOfOnly, ShiftOps
<1> QED
  BY <1>1, <1>2, <1>3, <1>4 DEF Rotates

(* alu.c: and each unary one.                                               *)
LEMMA UnaryRecorded ==
  ASSUME NEW op \in Unary, NEW a, NEW w, NEW f, Recorded(f)
  PROVE  Recorded(AluUnary(op, a, w, f).f)
  BY SetRecorded DEF AluUnary, Unary

(* What is remembered of the operation just done.                          *)
LEMMA DidFact ==
  ASSUME NEW op, NEW w, NEW b, Did(op, w, b)
  PROVE  last'.op = op /\ last'.w = w /\ last'.a = acc /\ last'.b = b /\ last'.f = flags
  BY DEF Did, Nothing

(* Nothing is recorded at the start.                                        *)
LEMMA UnitInvInit == Init => UnitInv
<1> SUFFICES ASSUME Init PROVE UnitInv
  OBVIOUS
<1>1. Recorded(flags)
  BY DEF Init, Recorded, NoFlags, SetExplicit
<1>2. last.op = "none"
  BY DEF Init, Nothing
<1> QED
  BY <1>1, <1>2 DEF UnitInv, LastFlags, Additive

(* Every operation keeps the invariant.                                     *)
LEMMA UnitInvStep == UnitInv /\ [Next]_vars => UnitInv'
<1> SUFFICES ASSUME UnitInv, [Next]_vars PROVE UnitInv'
  OBVIOUS
<1> USE DEF UnitInv
<1>1. CASE BinaryOp
  <2>1. PICK op \in Binary, w \in Widths, b \in Operands :
          Fits(acc, w) /\ Fits(b, w) /\ Did(op, w, b) /\ Took(Alu(op, acc, b, w, flags), w)
    BY <1>1 DEF BinaryOp
  <2>2. flags' = Alu(op, acc, b, w, flags).f
    BY <2>1 DEF Took
  <2>3. last'.op = op /\ last'.w = w /\ last'.a = acc /\ last'.b = b /\ last'.f = flags
    BY <2>1, DidFact
  <2>4. IsWidth(w)
    BY WidthFact
  <2>5. op \notin Unary
    BY DEF Unary, Binary
  <2>6. LastFlags'
    BY <2>1, <2>2, <2>3, <2>4, <2>5 DEF LastFlags
  <2>7. Recorded(flags')
    BY <2>2, AluRecorded
  <2> QED
    BY <2>6, <2>7 DEF Recorded
<1>2. CASE ShiftOp
  <2>1. PICK op \in ShiftOps \cup Rotates, n \in Counts :
          Did(op, 1, n) /\ Took(Alu(op, acc, n, 1, flags), 1)
    BY <1>2 DEF ShiftOp
  <2>2. Recorded(flags')
    BY <2>1, AluRecorded DEF Took
  <2>3. last'.op \notin Additive
    BY <2>1, DidFact DEF ShiftOps, Rotates, Additive
  <2> QED
    BY <2>2, <2>3 DEF LastFlags, Recorded
<1>3. CASE UnaryOp
  <2>1. PICK op \in Unary, w \in Widths :
          Fits(acc, w) /\ Did(op, w, 0) /\ Took(AluUnary(op, acc, w, flags), w)
    BY <1>3 DEF UnaryOp
  <2>2. flags' = AluUnary(op, acc, w, flags).f
    BY <2>1 DEF Took
  <2>3. last'.op = op /\ last'.w = w /\ last'.a = acc /\ last'.f = flags
    BY <2>1, DidFact
  <2>4. IsWidth(w)
    BY WidthFact
  <2>5. LastFlags'
    BY <2>1, <2>2, <2>3, <2>4 DEF LastFlags
  <2>6. Recorded(flags')
    BY <2>2, UnaryRecorded
  <2> QED
    BY <2>5, <2>6 DEF Recorded
<1>4. CASE MulOp
  <2>1. PICK op \in {"Mul", "Imul"}, b \in Operands :
          /\ Did(op, 1, b)
          /\ flags' = (IF op = "Mul" THEN Mul(acc, b, 1, flags) ELSE Imul(acc, b, 1, flags)).f
    BY <1>4 DEF MulOp
  <2>2. Recorded(flags')
    BY <2>1, SetRecorded DEF Mul, Imul, SetCfOfOnly
  <2>3. last'.op \notin Additive
    BY <2>1, DidFact DEF Additive
  <2> QED
    BY <2>2, <2>3 DEF LastFlags, Recorded
<1>5. CASE DivOp
  <2>1. PICK op \in {"Div", "Idiv"}, b \in Operands : Did(op, 1, b) /\ flags' = flags
    BY <1>5 DEF DivOp
  <2>2. last'.op \notin Additive
    BY <2>1, DidFact DEF Additive
  <2> QED
    BY <2>1, <2>2 DEF LastFlags, Recorded
<1>6. CASE DecimalOp
  <2>1. PICK op \in {"Daa", "Das", "Aaa", "Aas", "Aam", "Aad"}, imm \in {0, 10} :
          /\ Did(op, 1, imm)
          /\ flags' = LET d == BcdApply(op, acc, high, Eflags(flags), imm)
                      IN  IF d.ok THEN SetExplicit(d.e) ELSE flags
    BY <1>6 DEF DecimalOp
  <2>2. Recorded(flags')
    BY <2>1, SetRecorded
  <2>3. last'.op \notin Additive
    BY <2>1, DidFact DEF Additive
  <2> QED
    BY <2>2, <2>3 DEF LastFlags, Recorded
<1>7. CASE BitOp
  <2>1. PICK op \in {"Bt", "Bts", "Btr", "Btc"}, i \in Counts :
          Did(op, 1, i) /\ flags' = SetExplicit(BitApply(op, acc, i % Bits(1), Eflags(flags)).e)
    BY <1>7 DEF BitOp, Took
  <2>2. last'.op \notin Additive
    BY <2>1, DidFact DEF Additive
  <2> QED
    BY <2>1, <2>2, SetRecorded DEF LastFlags, Recorded
<1>8. CASE ScanOp
  <2>1. PICK reverse \in BOOLEAN, b \in Operands :
          /\ Did(IF reverse THEN "Bsr" ELSE "Bsf", 1, b)
          /\ flags' = SetExplicit(BitScan(reverse, b, 1, acc, Eflags(flags)).e)
    BY <1>8 DEF ScanOp, Took
  <2>2. last'.op \notin Additive
    BY <2>1, DidFact DEF Additive
  <2> QED
    BY <2>1, <2>2, SetRecorded DEF LastFlags, Recorded
<1>9. CASE DoubleOp
  <2>1. PICK left \in BOOLEAN, b \in Operands, n \in Counts :
          /\ Did(IF left THEN "Shld" ELSE "Shrd", 1, n)
          /\ flags' = LET t == DoubleShift(left, acc, b, n, 1, Eflags(flags))
                      IN  IF t.wrote THEN SetExplicit(t.e) ELSE flags
    BY <1>9 DEF DoubleOp, Took
  <2>2. last'.op \notin Additive
    BY <2>1, DidFact DEF Additive
  <2>3. Recorded(flags')
    BY <2>1, SetRecorded
  <2> QED
    BY <2>2, <2>3 DEF LastFlags, Recorded
<1>10. CASE UNCHANGED vars
  BY <1>10 DEF vars, LastFlags, Recorded
<1> QED
  BY <1>1, <1>2, <1>3, <1>4, <1>5, <1>6, <1>7, <1>8, <1>9, <1>10 DEF Next

(* The flags of the last operation are those of its record (flags.c), after *)
(* any sequence: what the two properties below are read from.              *)
THEOREM UnitInvariant == Spec => []UnitInv
  BY UnitInvInit, UnitInvStep, PTL DEF Spec

-----------------------------------------------------------------------------
(* What the flags say of the exact result.                                 *)

(* The record of each additive operation on operands of its width.         *)
LEMMA AdditiveRecord ==
  ASSUME NEW w, IsWidth(w), NEW a, Fits(a, w), NEW b, Fits(b, w), NEW f, NEW c, c = Carry(f)
  PROVE  /\ Alu("Add", a, b, w, f).f = Set(f, "Add", a, b, Trunc(a + b, w), w)
         /\ \A op \in {"Sub", "Cmp"} : Alu(op, a, b, w, f).f = Set(f, "Sub", a, b, Trunc(a - b, w), w)
         /\ Alu("Adc", a, b, w, f).f = SetExplicit(AdcFlags(a, b, c, Trunc(a + b + c, w), w))
         /\ Alu("Sbb", a, b, w, f).f = SetExplicit(SbbFlags(a, b, c, Trunc(a - b - c, w), w))
<1>1. Trunc(a, w) = a /\ Trunc(b, w) = b
  BY SignFact DEF Fits
<1> QED
  BY <1>1 DEF Alu, ShiftOps, Carry

(* The record of a unary operation.                                         *)
LEMMA UnaryRecord ==
  ASSUME NEW w, IsWidth(w), NEW a, Fits(a, w), NEW f
  PROVE  /\ AluUnary("Neg", a, w, f).f = Set(f, "Sub", 0, a, Trunc(0 - a, w), w)
         /\ AluUnary("Inc", a, w, f).f = Set(f, "Inc", a, 1, Trunc(a + 1, w), w)
         /\ AluUnary("Dec", a, w, f).f = Set(f, "Dec", a, 1, Trunc(a - 1, w), w)
<1>1. Trunc(a, w) = a
  BY SignFact DEF Fits
<1>2. a \in Int
  BY DEF Fits, IsWidth
<1>3. -a = 0 - a
  BY <1>2
<1> QED
  BY <1>1, <1>3 DEF AluUnary

(* The record says what the exact result does.                              *)
LEMMA CarriesFromInv == UnitInv => CarriesFit
<1> SUFFICES ASSUME UnitInv, last.op \in Additive
    PROVE  LET n == Power(Bits(last.w))
               u == Exact(last, last.a, last.b)
               s == Exact(last, Signed(last.a, last.w), Signed(last.b, last.w))
           IN  /\ CF(flags) <=> IF last.op \in {"Inc", "Dec"} THEN CF(last.f) ELSE u < 0 \/ u >= n
               /\ OF(flags) <=> s < -(n \div 2) \/ s >= n \div 2
               /\ ZF(flags) <=> u % n = 0
  BY DEF CarriesFit
<1> DEFINE w == last.w
<1> DEFINE a == last.a
<1> DEFINE b == last.b
<1> DEFINE f == last.f
<1> DEFINE c == Carry(f)
<1> DEFINE n == Power(Bits(w))
<1> DEFINE h == Power(Bits(w) - 1)
<1> DEFINE sa == Signed(a, w)
<1> DEFINE sb == Signed(b, w)
<1>1. IsWidth(w) /\ Fits(a, w)
  BY DEF UnitInv, LastFlags
<1>2. h \in Nat \ {0} /\ n = 2 * h /\ n \div 2 = h
  BY <1>1 DEF IsWidth
<1>3. a \in 0 .. n - 1 /\ sa \in -h .. h - 1
  BY <1>1, <1>2, SignFact DEF Fits
<1>4. c \in 0 .. 1
  BY DEF Carry
<1>5. ASSUME last.op \in {"Add", "Adc", "Sub", "Cmp", "Sbb"}
      PROVE  /\ Fits(b, w) /\ flags = Alu(last.op, a, b, w, f).f
             /\ b \in 0 .. n - 1 /\ sb \in -h .. h - 1
  <2>1. Fits(b, w) /\ flags = Alu(last.op, a, b, w, f).f
    BY <1>5 DEF UnitInv, LastFlags, Unary
  <2> QED
    BY <1>1, <1>2, <2>1, SignFact DEF Fits
<1>6. ASSUME last.op \in {"Neg", "Inc", "Dec"}
      PROVE  flags = AluUnary(last.op, a, w, f).f
  BY <1>6 DEF UnitInv, LastFlags, Unary
<1>7. CASE last.op = "Add"
  <2>1. flags = Set(f, "Add", a, b, Trunc(a + b, w), w)
    BY <1>1, <1>5, <1>7, AdditiveRecord
  <2>2. (CF(flags) <=> a + b >= n) /\ (ZF(flags) <=> (a + b) % n = 0) /\ (OF(flags) <=> sa + sb < -h \/ sa + sb >= h)
    BY <1>1, <1>5, <1>7, <2>1, AddFact DEF Fits
  <2>3. Exact(last, a, b) = a + b + 0 /\ Exact(last, sa, sb) = sa + sb + 0
    BY <1>7 DEF Exact
  <2> QED
    BY <1>2, <1>3, <1>5, <1>7, <2>2, <2>3
<1>8. CASE last.op \in {"Sub", "Cmp"}
  <2>1. flags = Set(f, "Sub", a, b, Trunc(a - b, w), w)
    BY <1>1, <1>5, <1>8, AdditiveRecord
  <2>2. (CF(flags) <=> a < b) /\ (ZF(flags) <=> (a - b) % n = 0) /\ (OF(flags) <=> sa - sb < -h \/ sa - sb >= h)
    BY <1>1, <1>5, <1>8, <2>1, SubtractFact DEF Fits
  <2>3. Exact(last, a, b) = a - b - 0 /\ Exact(last, sa, sb) = sa - sb - 0
    BY <1>8 DEF Exact
  <2> QED
    BY <1>2, <1>3, <1>5, <1>8, <2>2, <2>3
<1>9. CASE last.op = "Adc"
  <2>1. flags = SetExplicit(AdcFlags(a, b, c, Trunc(a + b + c, w), w))
    BY <1>1, <1>5, <1>9, AdditiveRecord
  <2>2. /\ CF(flags) <=> a + b + c >= n
        /\ ZF(flags) <=> (a + b + c) % n = 0
        /\ OF(flags) <=> sa + sb + c < -h \/ sa + sb + c >= h
    BY <1>1, <1>4, <1>5, <1>9, <2>1, AdcFact DEF Fits
  <2>3. Exact(last, a, b) = a + b + c /\ Exact(last, sa, sb) = sa + sb + c
    BY <1>9 DEF Exact
  <2> QED
    BY <1>2, <1>3, <1>4, <1>5, <1>9, <2>2, <2>3
<1>10. CASE last.op = "Sbb"
  <2>1. flags = SetExplicit(SbbFlags(a, b, c, Trunc(a - b - c, w), w))
    BY <1>1, <1>5, <1>10, AdditiveRecord
  <2>2. /\ CF(flags) <=> a - b - c < 0
        /\ ZF(flags) <=> (a - b - c) % n = 0
        /\ OF(flags) <=> sa - sb - c < -h \/ sa - sb - c >= h
    BY <1>1, <1>4, <1>5, <1>10, <2>1, SbbFact DEF Fits
  <2>3. Exact(last, a, b) = a - b - c /\ Exact(last, sa, sb) = sa - sb - c
    BY <1>10 DEF Exact
  <2> QED
    BY <1>2, <1>3, <1>4, <1>5, <1>10, <2>2, <2>3
<1>11. CASE last.op = "Neg"
  <2>1. flags = Set(f, "Sub", 0, a, Trunc(0 - a, w), w)
    BY <1>1, <1>6, <1>11, UnaryRecord
  <2>2. 0 \in 0 .. n - 1 /\ Signed(0, w) = 0
    BY <1>1, <1>2, SignFact
  <2>3. (CF(flags) <=> 0 < a) /\ (ZF(flags) <=> (0 - a) % n = 0) /\ (OF(flags) <=> 0 - sa < -h \/ 0 - sa >= h)
    BY <1>1, <2>1, <2>2, SubtractFact DEF Fits
  <2>4. Exact(last, a, b) = -a /\ Exact(last, sa, sb) = -sa
    BY <1>11 DEF Exact
  <2>5. -a = 0 - a /\ -sa = 0 - sa
    BY <1>2, <1>3
  <2> QED
    BY <1>2, <1>3, <1>11, <2>3, <2>4, <2>5
<1>12. CASE last.op \in {"Inc", "Dec"}
  <2> DEFINE i == Set(f, "Inc", a, 1, Trunc(a + 1, w), w)
  <2> DEFINE d == Set(f, "Dec", a, 1, Trunc(a - 1, w), w)
  <2>1. /\ (CF(i) <=> CF(f)) /\ (CF(d) <=> CF(f))
        /\ (ZF(i) <=> (a + 1) % n = 0) /\ (ZF(d) <=> (a - 1) % n = 0)
        /\ (OF(i) <=> sa + 1 < -h \/ sa + 1 >= h) /\ (OF(d) <=> sa - 1 < -h \/ sa - 1 >= h)
    BY <1>1, StepFact DEF Fits
  <2>2. flags = IF last.op = "Inc" THEN i ELSE d
    BY <1>1, <1>6, <1>12, UnaryRecord
  <2>3. last.op = "Inc" => Exact(last, a, b) = a + 1 /\ Exact(last, sa, sb) = sa + 1
    BY DEF Exact
  <2>4. last.op = "Dec" => Exact(last, a, b) = a - 1 /\ Exact(last, sa, sb) = sa - 1
    BY DEF Exact
  <2> QED
    BY <1>2, <1>12, <2>1, <2>2, <2>3, <2>4
<1> QED
  BY <1>7, <1>8, <1>9, <1>10, <1>11, <1>12 DEF Additive

(* A compare then orders its operands.                                      *)
LEMMA OrderFromInv == UnitInv => ConditionsOrder
<1> SUFFICES ASSUME UnitInv PROVE ConditionsOrder
  OBVIOUS
<1>1. \A cc \in Conds : Cond(cc, flags) <=> CondEflags(cc, Eflags(flags))
  BY ConditionsAgree DEF UnitInv
<1>2. ASSUME last.op \in {"Cmp", "Sub"}
      PROVE  LET a == Signed(last.a, last.w)
                 b == Signed(last.b, last.w)
             IN  /\ (Cond("B", flags) <=> last.a < last.b) /\ (Cond("A", flags) <=> last.a > last.b)
                 /\ (Cond("L", flags) <=> a < b) /\ (Cond("G", flags) <=> a > b)
                 /\ (Cond("LE", flags) <=> a <= b) /\ (Cond("BE", flags) <=> last.a <= last.b)
  <2> DEFINE w == last.w
  <2> DEFINE a == last.a
  <2> DEFINE b == last.b
  <2> DEFINE h == Power(Bits(w) - 1)
  <2>1. IsWidth(w) /\ Fits(a, w) /\ Fits(b, w) /\ flags = Alu(last.op, a, b, w, last.f).f
    BY <1>2 DEF UnitInv, LastFlags, Additive, Unary
  <2>2. flags = Set(last.f, "Sub", a, b, Trunc(a - b, w), w)
    BY <1>2, <2>1, AdditiveRecord
  <2>3. /\ flags.kind = "Sub" /\ (CF(flags) <=> a < b) /\ (ZF(flags) <=> a = b)
        /\ ~(SF(flags) <=> OF(flags)) <=> Signed(a, w) < Signed(b, w)
    BY <2>1, <2>2, SubtractFact DEF Fits
  <2>4. /\ h \in Nat \ {0} /\ a \in 0 .. 2 * h - 1 /\ b \in 0 .. 2 * h - 1
        /\ Signed(a, w) = (IF a >= h THEN a - 2 * h ELSE a) /\ Signed(b, w) = (IF b >= h THEN b - 2 * h ELSE b)
    BY <2>1, SignFact DEF Fits, IsWidth
  <2>5. /\ (Cond("B", flags) <=> CF(flags)) /\ (Cond("A", flags) <=> ~ZF(flags) /\ ~CF(flags))
        /\ (Cond("L", flags) <=> ~(SF(flags) <=> OF(flags)))
        /\ (Cond("G", flags) <=> ~ZF(flags) /\ (SF(flags) <=> OF(flags)))
        /\ (Cond("LE", flags) <=> ZF(flags) \/ ~(SF(flags) <=> OF(flags)))
        /\ (Cond("BE", flags) <=> ZF(flags) \/ CF(flags))
    BY <2>3 DEF Cond
  <2> HIDE DEF a, b, w, h
  <2>6. (a = b <=> Signed(a, w) = Signed(b, w)) /\ Signed(a, w) \in Int /\ Signed(b, w) \in Int
    BY <2>4
  <2>7. /\ (Cond("B", flags) <=> a < b) /\ (Cond("A", flags) <=> a > b)
        /\ (Cond("BE", flags) <=> a <= b)
    BY <2>3, <2>4, <2>5
  <2>8. /\ (Cond("L", flags) <=> Signed(a, w) < Signed(b, w)) /\ (Cond("G", flags) <=> Signed(a, w) > Signed(b, w))
        /\ (Cond("LE", flags) <=> Signed(a, w) <= Signed(b, w))
    BY <2>3, <2>5, <2>6
  <2> QED
    BY <2>7, <2>8 DEF a, b, w
<1> QED
  BY <1>1, <1>2 DEF ConditionsOrder

-----------------------------------------------------------------------------
(* What passes from the low half of a byte.                                *)

(* A power is a multiple of every one before it.                            *)
LEMMA PowerMultiple ==
  ASSUME NEW n \in Nat, Doubles(n), NEW k \in 0 .. n
  PROVE  \E m \in Nat : Power(n) = m * Power(k)
<1> DEFINE T == {i \in k .. n : \E m \in Nat : Power(i) = m * Power(k)}
<1>1. k \in T
  <2>1. Power(k) \in Nat
    BY DEF Doubles
  <2>2. Power(k) = 1 * Power(k)
    BY <2>1
  <2>3. k \in k .. n
    OBVIOUS
  <2> QED
    BY <2>2, <2>3
<1>2. ASSUME NEW i \in k .. n - 1, i \in T PROVE i + 1 \in T
  <2>1. PICK m \in Nat : Power(i) = m * Power(k)
    BY <1>2
  <2>2. Power(i + 1) = 2 * Power(i)
    BY DEF Doubles
  <2>3. PICK p \in Nat : p = Power(k)
    BY DEF Doubles
  <2>4. 2 * (m * p) = (2 * m) * p
    OBVIOUS
  <2>5. Power(i + 1) = (2 * m) * Power(k) /\ 2 * m \in Nat /\ i + 1 \in k .. n
    BY <2>1, <2>2, <2>3, <2>4
  <2> QED
    BY <2>5
<1>3. k .. n \subseteq T
  <2> HIDE DEF T
  <2> QED
    BY <1>1, <1>2, InductionInterval
<1>4. n \in T
  <2> HIDE DEF T
  <2> QED
    BY <1>3
<1> QED
  BY <1>4

(* The quotient is unique.                                                  *)
LEMMA DivUnique ==
  ASSUME NEW n \in Nat \ {0}, NEW q \in Int, NEW s \in 0 .. n - 1
  PROVE  (n * q + s) \div n = q
  OBVIOUS

\* The quotient by h of h * q and a little more or less.
Past(e, h) == IF e < 0 THEN -1 ELSE IF e >= h THEN 1 ELSE 0

(* A low part that overflows or borrows moves the quotient by one.          *)
LEMMA PastFact ==
  ASSUME NEW h \in Nat \ {0}, NEW q \in Int, NEW e \in -h .. 2 * h - 1
  PROVE  (h * q + e) \div h = q + Past(e, h)
<1>1. PICK d \in {-1, 0, 1} : d = Past(e, h)
  BY DEF Past
<1>2. e - h * d \in 0 .. h - 1
  BY <1>1 DEF Past
<1>3. PICK s : s = e - h * d
  OBVIOUS
<1>4. h * q + e = h * (q + d) + s
  <2>1. h * (q + d) = h * q + h * d
    OBVIOUS
  <2>2. h * q \in Int /\ h * d \in Int
    OBVIOUS
  <2> QED
    BY <1>3, <2>1, <2>2
<1>5. (h * (q + d) + s) \div h = q + d
  BY <1>2, <1>3, DivUnique
<1> QED
  BY <1>1, <1>4, <1>5

(* Dropping a multiple of twice h does not change the parity of v by h.     *)
LEMMA DropEven ==
  ASSUME NEW h \in Nat \ {0}, NEW t \in Int, NEW v \in Int
  PROVE  ((v - (2 * h) * t) \div h) % 2 = (v \div h) % 2
<1>1. PICK q \in Int, s \in 0 .. h - 1 : v = h * q + s /\ q = v \div h
  <2>1. v \div h \in Int /\ v % h \in 0 .. h - 1 /\ v = h * (v \div h) + (v % h)
    BY DivMod
  <2> QED
    BY <2>1
<1>2. v - (2 * h) * t = h * (q - 2 * t) + s
  <2>1. h * (q - 2 * t) = h * q - (2 * h) * t
    OBVIOUS
  <2>2. h * q \in Int /\ (2 * h) * t \in Int
    OBVIOUS
  <2> QED
    BY <1>1, <2>1, <2>2
<1>3. (h * (q - 2 * t) + s) \div h = q - 2 * t
  BY DivUnique
<1>4. (q - 2 * t) % 2 = q % 2
  OBVIOUS
<1> QED
  BY <1>1, <1>2, <1>3, <1>4, Zenon

(* A remainder is below its divisor.                                        *)
LEMMA ModRange ==
  ASSUME NEW n \in Nat \ {0}, NEW v \in Nat
  PROVE  v % n \in 0 .. n - 1
  BY DivMod

\* x is the exact sum or difference of a and b with a carry in, e that of what they leave by h.
OfHalves(x, e, a, b, h) ==
  /\ x \in Int /\ e \in -h .. 2 * h - 1
  /\ \/ \E c \in 0 .. 1 : x = a + b + c /\ e = (a % h) + (b % h) + c
     \/ \E c \in 0 .. 1 : x = a - b - c /\ e = (a % h) - (b % h) - c

(* So the quotients add up, but for what passed from the low part.          *)
LEMMA HalvesAdd ==
  ASSUME NEW h \in Nat \ {0}, NEW a \in Nat, NEW b \in Nat, NEW x, NEW e, OfHalves(x, e, a, b, h)
  PROVE  ((a \div h) + (b \div h) + (x \div h)) % 2 = (IF e < 0 \/ e >= h THEN 1 ELSE 0)
<1>1. PICK p \in Int, i \in 0 .. h - 1 : a = h * p + i /\ p = a \div h /\ i = a % h
  <2>1. a \in Int
    OBVIOUS
  <2>2. a \div h \in Int /\ a % h \in 0 .. h - 1 /\ a = h * (a \div h) + (a % h)
    BY <2>1, DivMod
  <2> QED
    BY <2>2
<1>2. PICK q \in Int, j \in 0 .. h - 1 : b = h * q + j /\ q = b \div h /\ j = b % h
  <2>1. b \in Int
    OBVIOUS
  <2>2. b \div h \in Int /\ b % h \in 0 .. h - 1 /\ b = h * (b \div h) + (b % h)
    BY <2>1, DivMod
  <2> QED
    BY <2>2
<1>3. PICK d \in {-1, 0, 1} : d = Past(e, h) /\ (d = 0 <=> ~(e < 0 \/ e >= h))
  BY DEF Past, OfHalves
<1>4. e \in -h .. 2 * h - 1 /\ h * p \in Int /\ h * q \in Int
  BY DEF OfHalves
<1>5. CASE \E c \in 0 .. 1 : x = a + b + c /\ e = (a % h) + (b % h) + c
  <2>1. PICK c \in 0 .. 1 : x = a + b + c /\ e = i + j + c
    BY <1>1, <1>2, <1>5
  <2>2. PICK s \in Int : s = p + q
    OBVIOUS
  <2>3. x \div h = s + d
    <3>1. h * (p + q) = h * p + h * q
      OBVIOUS
    <3>2. PICK u \in Int : u = h * p
      OBVIOUS
    <3>3. PICK v \in Int : v = h * q
      OBVIOUS
    <3>4. a = u + i /\ b = v + j /\ h * s = u + v
      BY <1>1, <1>2, <2>2, <3>1, <3>2, <3>3
    <3>5. x = (u + v) + e
      BY <1>4, <2>1, <3>4
    <3>6. x = h * s + e
      BY <3>4, <3>5
    <3>7. (h * s + e) \div h = s + Past(e, h)
      BY <1>4, PastFact
    <3> QED
      BY <1>3, <3>6, <3>7
  <2>4. (p + q + (s + d)) % 2 = (IF d = 0 THEN 0 ELSE 1)
    BY <2>2
  <2> QED
    BY <1>1, <1>2, <1>3, <2>3, <2>4
<1>6. CASE \E c \in 0 .. 1 : x = a - b - c /\ e = (a % h) - (b % h) - c
  <2>1. PICK c \in 0 .. 1 : x = a - b - c /\ e = i - j - c
    BY <1>1, <1>2, <1>6
  <2>2. PICK s \in Int : s = p - q
    OBVIOUS
  <2>3. x \div h = s + d
    <3>1. h * (p - q) = h * p - h * q
      OBVIOUS
    <3>2. PICK u \in Int : u = h * p
      OBVIOUS
    <3>3. PICK v \in Int : v = h * q
      OBVIOUS
    <3>4. a = u + i /\ b = v + j /\ h * s = u - v
      BY <1>1, <1>2, <2>2, <3>1, <3>2, <3>3
    <3>5. x = (u - v) + e
      BY <1>4, <2>1, <3>4
    <3>6. x = h * s + e
      BY <3>4, <3>5
    <3>7. (h * s + e) \div h = s + Past(e, h)
      BY <1>4, PastFact
    <3> QED
      BY <1>3, <3>6, <3>7
  <2>4. (p + q + (s + d)) % 2 = (IF d = 0 THEN 0 ELSE 1)
    BY <2>2
  <2> QED
    BY <1>1, <1>2, <1>3, <2>3, <2>4
<1> QED
  BY <1>5, <1>6 DEF OfHalves

(* Half a byte is a power of two that the widths in use are multiples of.   *)
LEMMA HalfFact ==
  ASSUME NEW w \in Widths \cup {1}
  PROVE  /\ Half \in Nat \ {0, 1}
         /\ ByteBits \div 2 \in Nat /\ Doubles(ByteBits \div 2)
         /\ \E m \in Nat : Power(Bits(w)) = (2 * Half) * m
<1>1. Bits(w) \in Nat /\ Bits(w) >= ByteBits
  BY WidthFact
<1>2. Doubles(Bits(w))
  BY WidthsAssumption DEF Doubles
<1>3. PICK k \in Nat : k = ByteBits \div 2 /\ k >= 1 /\ k + 1 <= ByteBits
  BY ByteAssumption
<1>4. k + 1 \in 0 .. Bits(w) /\ k \in 0 .. Bits(w) /\ 1 \in 0 .. Bits(w)
  BY <1>1, <1>3, ByteAssumption
<1>5. Doubles(k)
  <2>1. \A n \in 0 .. k : n \in 0 .. Bits(w)
    BY <1>1, <1>4
  <2> QED
    BY <1>2, <2>1 DEF Doubles
<1>6. Power(k) \in Nat \ {0} /\ Power(k + 1) = 2 * Power(k) /\ Power(k - 1) \in Nat \ {0} /\ Power(k) = 2 * Power(k - 1)
  <2>1. k - 1 \in 0 .. k /\ (k - 1) + 1 = k /\ k \in 0 .. k
    BY <1>3
  <2> QED
    BY <1>5, <2>1 DEF Doubles
<1>7. PICK m \in Nat : Power(Bits(w)) = m * Power(k + 1)
  BY <1>1, <1>2, <1>4, PowerMultiple
<1>8. Power(Bits(w)) = (2 * Power(k)) * m
  <2>1. PICK p \in Nat : p = Power(k)
    BY <1>6
  <2>2. m * (2 * p) = (2 * p) * m
    OBVIOUS
  <2> QED
    BY <1>6, <1>7, <2>1, <2>2
<1> QED
  BY <1>3, <1>5, <1>6, <1>8 DEF Half

(* flags.c, AF: the exclusive or of the operands and the result shows what  *)
(* passed from the low half of the byte.                                    *)
LEMMA HalfCarry ==
  ASSUME NEW w \in Widths \cup {1}, NEW a \in Nat, NEW b \in Nat, NEW x, NEW e, OfHalves(x, e, a, b, Half)
  PROVE  Bit(Xor(Xor(a, b), Trunc(x, w)), ByteBits \div 2) = 1 <=> e < 0 \/ e >= Half
<1>1. PICK n \in Nat \ {0} : n = Power(Bits(w))
  BY WidthFact DEF IsWidth
<1>2. PICK m \in Nat : n = (2 * Half) * m
  BY <1>1, HalfFact
<1>3. PICK k \in Nat : k = ByteBits \div 2 /\ Doubles(k)
  BY HalfFact
<1>4. PICK h \in Nat \ {0} : h = Half /\ h = Power(k)
  BY <1>3, HalfFact DEF Half
<1>5. x \in Int
  BY DEF OfHalves
<1>6. PICK r \in Nat : r = Trunc(x, w) /\ r = x % n
  BY <1>1, <1>5 DEF Trunc
<1>7. (r \div h) % 2 = (x \div h) % 2
  <2>1. PICK t \in Int : t = x \div n /\ x = n * t + r
    BY <1>5, <1>6, DivMod
  <2>2. PICK u \in Int : u = m * t
    OBVIOUS
  <2>3. n * t = (2 * h) * u
    <3>1. ((2 * h) * m) * t = (2 * h) * (m * t)
      OBVIOUS
    <3> QED
      BY <1>2, <1>4, <2>2, <3>1
  <2>4. (2 * h) * u \in Int
    OBVIOUS
  <2>5. r = x - (2 * h) * u
    BY <1>5, <2>1, <2>3, <2>4
  <2> QED
    BY <1>5, <2>5, DropEven
<1>8. Xor(a, b) \in Nat
  BY XorNat
<1>9. PICK z \in Nat : z = Xor(a, b)
  BY <1>8
<1>10. /\ (Xor(z, r) \div h) % 2 = ((z \div h) + (r \div h)) % 2
       /\ (z \div h) % 2 = ((a \div h) + (b \div h)) % 2
  BY <1>3, <1>4, <1>9, XorBit
<1>11. z \div h \in Int /\ r \div h \in Int /\ a \div h \in Int /\ b \div h \in Int /\ x \div h \in Int
  BY <1>5, DivMod
<1>12. \A i, j, s, t, v \in Int : i % 2 = (j + s) % 2 /\ t % 2 = v % 2 => (i + t) % 2 = (j + s + v) % 2
  OBVIOUS
<1>13. ((z \div h) + (r \div h)) % 2 = ((a \div h) + (b \div h) + (x \div h)) % 2
  BY <1>7, <1>10, <1>11, <1>12
<1>14. ((a \div h) + (b \div h) + (x \div h)) % 2 = (IF e < 0 \/ e >= h THEN 1 ELSE 0)
  BY <1>4, HalvesAdd
<1>15. Bit(Xor(z, r), k) = (Xor(z, r) \div h) % 2
  BY <1>4 DEF Bit
<1> QED
  BY <1>3, <1>4, <1>6, <1>9, <1>10, <1>13, <1>14, <1>15

(* An exact sum or difference is one by its halves.                         *)
LEMMA HalvesOf ==
  ASSUME NEW h \in Nat \ {0}, NEW a \in Nat, NEW b \in Nat, NEW c \in 0 .. 1
  PROVE  /\ OfHalves(a + b + c, (a % h) + (b % h) + c, a, b, h)
         /\ OfHalves(a - b - c, (a % h) - (b % h) - c, a, b, h)
<1>1. a % h \in 0 .. h - 1 /\ b % h \in 0 .. h - 1
  BY DivMod
<1>2. (a % h) + (b % h) + c \in -h .. 2 * h - 1 /\ (a % h) - (b % h) - c \in -h .. 2 * h - 1
  BY <1>1
<1>3. a + b + c \in Int /\ a - b - c \in Int
  OBVIOUS
<1> QED
  BY <1>2, <1>3 DEF OfHalves

HalfKinds == {"Add", "Sub", "Inc", "Dec"}
HalfSet(a, b, r) == Bit(Xor(Xor(a, b), r), ByteBits \div 2) = 1

(* A record keeps what AF is read from.                                     *)
LEMMA HalfRecord ==
  ASSUME NEW f, NEW kind \in HalfKinds, NEW a, NEW b, NEW r, NEW w
  PROVE  AF(Set(f, kind, a, b, r, w)) <=> HalfSet(a, b, r)
<1>1. PICK g : g = Set(f, kind, a, b, r, w)
  OBVIOUS
<1>2. g.kind = kind /\ g.a = a /\ g.b = b /\ g.r = r
  BY <1>1 DEF Set
<1>3. AF(g) <=> HalfSet(g.a, g.b, g.r)
  BY <1>2 DEF AF, Shifts, HalfKinds, HalfSet
<1> QED
  BY <1>1, <1>2, <1>3, Zenon

(* The eager flags hold it themselves.                                      *)
LEMMA HalfEager ==
  ASSUME NEW a, NEW b, NEW c, NEW r, NEW w
  PROVE  /\ AF(SetExplicit(AdcFlags(a, b, c, r, w))) <=> HalfSet(a, b, r)
         /\ AF(SetExplicit(SbbFlags(a, b, c, r, w))) <=> HalfSet(a, b, r)
<1>1. "AF" \in CommonFlags(a, b, r, w) <=> HalfSet(a, b, r)
  BY DEF CommonFlags, HalfSet
<1>2. ASSUME NEW word PROVE AF(SetExplicit(word)) <=> "AF" \in word
  <2>1. PICK g : g = SetExplicit(word)
    OBVIOUS
  <2>2. g.kind = "Explicit" /\ g.word = word
    BY <2>1 DEF SetExplicit
  <2> QED
    BY <2>1, <2>2 DEF AF, Shifts
<1>3. "AF" \in AdcFlags(a, b, c, r, w) <=> HalfSet(a, b, r)
  BY <1>1 DEF AdcFlags
<1>4. "AF" \in SbbFlags(a, b, c, r, w) <=> HalfSet(a, b, r)
  BY <1>1 DEF SbbFlags
<1> QED
  BY <1>2, <1>3, <1>4

(* The record says what passed from the low half of the byte.               *)
LEMMA HalfCarriesFromInv == UnitInv => HalfCarryFits
<1> SUFFICES ASSUME UnitInv, last.op \in Additive
    PROVE  AF(flags) <=> Exact(last, last.a % Half, last.b % Half) < 0 \/ Exact(last, last.a % Half, last.b % Half) >= Half
  BY DEF HalfCarryFits
<1> DEFINE w == last.w
           a == last.a
           b == last.b
           f == last.f
           c == Carry(f)
           i == a % Half
           j == b % Half
           sum(p, q, d) == p + q + d
           diff(p, q, d) == p - q - d
<1>1. w \in Widths \cup {1} /\ IsWidth(w) /\ Fits(a, w)
  BY DEF UnitInv, LastFlags
<1>2. Half \in Nat \ {0, 1}
  BY <1>1, HalfFact
<1>3. a \in Nat /\ c \in 0 .. 1 /\ i \in 0 .. Half - 1
  <2>1. a \in Nat
    BY <1>1 DEF Fits, IsWidth
  <2>2. i \in 0 .. Half - 1
    BY <1>2, <2>1, ModRange
  <2>3. c \in 0 .. 1
    BY DEF Carry
  <2> QED
    BY <2>1, <2>2, <2>3
<1>4. ASSUME last.op \in {"Add", "Adc", "Sub", "Cmp", "Sbb"}
      PROVE  /\ Fits(b, w) /\ flags = Alu(last.op, a, b, w, f).f
             /\ b \in Nat /\ j \in 0 .. Half - 1
  <2>1. Fits(b, w) /\ flags = Alu(last.op, a, b, w, f).f
    BY <1>4 DEF UnitInv, LastFlags, Unary
  <2>2. b \in Nat
    BY <1>1, <2>1 DEF Fits, IsWidth
  <2>3. j \in 0 .. Half - 1
    BY <1>2, <2>2, ModRange
  <2> QED
    BY <2>1, <2>2, <2>3
<1>5. ASSUME last.op \in {"Neg", "Inc", "Dec"}
      PROVE  flags = AluUnary(last.op, a, w, f).f
  BY <1>5 DEF UnitInv, LastFlags, Unary
<1>6. ASSUME NEW p \in Nat, NEW q \in Nat, NEW d \in 0 .. 1
      PROVE  /\ HalfSet(p, q, Trunc(sum(p, q, d), w)) <=> sum(p % Half, q % Half, d) < 0 \/ sum(p % Half, q % Half, d) >= Half
             /\ HalfSet(p, q, Trunc(diff(p, q, d), w)) <=> diff(p % Half, q % Half, d) < 0 \/ diff(p % Half, q % Half, d) >= Half
  <2>1. PICK h \in Nat \ {0} : h = Half
    BY <1>2
  <2>2. OfHalves(sum(p, q, d), sum(p % h, q % h, d), p, q, h) /\ OfHalves(diff(p, q, d), diff(p % h, q % h, d), p, q, h)
    BY HalvesOf
  <2> HIDE DEF w, sum, diff
  <2>3. /\ HalfSet(p, q, Trunc(sum(p, q, d), w)) <=> sum(p % h, q % h, d) < 0 \/ sum(p % h, q % h, d) >= h
        /\ HalfSet(p, q, Trunc(diff(p, q, d), w)) <=> diff(p % h, q % h, d) < 0 \/ diff(p % h, q % h, d) >= h
    BY <1>1, <2>1, <2>2, HalfCarry DEF HalfSet
  <2> QED
    BY <2>1, <2>3
<1>7. \A p \in Int : \A q \in Int : sum(p, q, 0) = p + q /\ diff(p, q, 0) = p - q
  OBVIOUS
<1>0. 0 % Half = 0 /\ 1 % Half = 1
  BY <1>2
<1> DEFINE e == Exact(last, i, j)
<1> SUFFICES AF(flags) <=> e < 0 \/ e >= Half
  OBVIOUS
<1> HIDE DEF sum, diff, w, a, b, f, c, i, j
<1>8. CASE last.op = "Add"
  <2>1. flags = Set(f, "Add", a, b, Trunc(a + b, w), w)
    BY <1>1, <1>4, <1>8, AdditiveRecord
  <2>2. AF(flags) <=> HalfSet(a, b, Trunc(a + b, w))
    BY <2>1, HalfRecord DEF HalfKinds
  <2>3. HalfSet(a, b, Trunc(sum(a, b, 0), w)) <=> sum(i, j, 0) < 0 \/ sum(i, j, 0) >= Half
    BY <1>3, <1>4, <1>6, <1>8 DEF i, j
  <2>4. sum(a, b, 0) = a + b /\ sum(i, j, 0) = i + j /\ i + j + 0 = i + j
    <3>1. a \in Int /\ b \in Int /\ i \in Int /\ j \in Int
      BY <1>2, <1>3, <1>4, <1>8
    <3> QED
      BY <1>7, <3>1
  <2>5. Exact(last, i, j) = i + j + 0
    BY <1>8 DEF Exact
  <2> QED
    BY <2>2, <2>3, <2>4, <2>5
<1>9. CASE last.op \in {"Sub", "Cmp"}
  <2>1. flags = Set(f, "Sub", a, b, Trunc(a - b, w), w)
    BY <1>1, <1>4, <1>9, AdditiveRecord
  <2>2. AF(flags) <=> HalfSet(a, b, Trunc(a - b, w))
    BY <2>1, HalfRecord DEF HalfKinds
  <2>3. HalfSet(a, b, Trunc(diff(a, b, 0), w)) <=> diff(i, j, 0) < 0 \/ diff(i, j, 0) >= Half
    BY <1>3, <1>4, <1>6, <1>9 DEF i, j
  <2>4. diff(a, b, 0) = a - b /\ diff(i, j, 0) = i - j /\ i - j - 0 = i - j
    <3>1. a \in Int /\ b \in Int /\ i \in Int /\ j \in Int
      BY <1>2, <1>3, <1>4, <1>9
    <3> QED
      BY <1>7, <3>1
  <2>5. Exact(last, i, j) = i - j - 0
    BY <1>9 DEF Exact
  <2> QED
    BY <2>2, <2>3, <2>4, <2>5
<1>10. CASE last.op = "Adc"
  <2>1. flags = SetExplicit(AdcFlags(a, b, c, Trunc(a + b + c, w), w))
    BY <1>1, <1>4, <1>10, AdditiveRecord DEF c
  <2>2. AF(flags) <=> HalfSet(a, b, Trunc(a + b + c, w))
    BY <2>1, HalfEager
  <2>3. HalfSet(a, b, Trunc(sum(a, b, c), w)) <=> sum(i, j, c) < 0 \/ sum(i, j, c) >= Half
    BY <1>3, <1>4, <1>6, <1>10 DEF i, j
  <2>4. Exact(last, i, j) = i + j + c
    BY <1>10 DEF Exact, c, f
  <2> QED
    BY <2>2, <2>3, <2>4 DEF sum
<1>11. CASE last.op = "Sbb"
  <2>1. flags = SetExplicit(SbbFlags(a, b, c, Trunc(a - b - c, w), w))
    BY <1>1, <1>4, <1>11, AdditiveRecord DEF c
  <2>2. AF(flags) <=> HalfSet(a, b, Trunc(a - b - c, w))
    BY <2>1, HalfEager
  <2>3. HalfSet(a, b, Trunc(diff(a, b, c), w)) <=> diff(i, j, c) < 0 \/ diff(i, j, c) >= Half
    BY <1>3, <1>4, <1>6, <1>11 DEF i, j
  <2>4. Exact(last, i, j) = i - j - c
    BY <1>11 DEF Exact, c, f
  <2> QED
    BY <2>2, <2>3, <2>4 DEF diff
<1>12. CASE last.op = "Neg"
  <2>1. flags = Set(f, "Sub", 0, a, Trunc(0 - a, w), w)
    BY <1>1, <1>5, <1>12, UnaryRecord
  <2>2. AF(flags) <=> HalfSet(0, a, Trunc(0 - a, w))
    BY <2>1, HalfRecord DEF HalfKinds
  <2>3. HalfSet(0, a, Trunc(diff(0, a, 0), w)) <=> diff(0 % Half, i, 0) < 0 \/ diff(0 % Half, i, 0) >= Half
    BY <1>3, <1>6 DEF i, j
  <2>4. diff(0, a, 0) = 0 - a /\ diff(0, i, 0) = 0 - i /\ 0 % Half = 0 /\ 0 - i = -i
    BY <1>0, <1>2, <1>3, <1>7
  <2>5. Exact(last, i, j) = -i
    BY <1>12 DEF Exact
  <2> QED
    BY <2>2, <2>3, <2>4, <2>5
<1>13. CASE last.op \in {"Inc", "Dec"}
  <2>1. /\ HalfSet(a, 1, Trunc(sum(a, 1, 0), w)) <=> sum(i, 1 % Half, 0) < 0 \/ sum(i, 1 % Half, 0) >= Half
        /\ HalfSet(a, 1, Trunc(diff(a, 1, 0), w)) <=> diff(i, 1 % Half, 0) < 0 \/ diff(i, 1 % Half, 0) >= Half
    BY <1>3, <1>6 DEF i, j
  <2>2. /\ sum(a, 1, 0) = a + 1 /\ sum(i, 1, 0) = i + 1 /\ diff(a, 1, 0) = a - 1 /\ diff(i, 1, 0) = i - 1
        /\ 1 % Half = 1
    BY <1>0, <1>2, <1>3, <1>7
  <2>3. /\ HalfSet(a, 1, Trunc(a + 1, w)) <=> i + 1 < 0 \/ i + 1 >= Half
        /\ HalfSet(a, 1, Trunc(a - 1, w)) <=> i - 1 < 0 \/ i - 1 >= Half
    BY <2>1, <2>2
  <2>4. CASE last.op = "Inc"
    <3>1. flags = Set(f, "Inc", a, 1, Trunc(a + 1, w), w)
      BY <1>1, <1>5, <2>4, UnaryRecord
    <3>2. AF(flags) <=> HalfSet(a, 1, Trunc(a + 1, w))
      BY <3>1, HalfRecord DEF HalfKinds
    <3>3. Exact(last, i, j) = i + 1
      BY <2>4 DEF Exact
    <3> QED
      BY <2>3, <3>2, <3>3
  <2>5. CASE last.op = "Dec"
    <3>1. flags = Set(f, "Dec", a, 1, Trunc(a - 1, w), w)
      BY <1>1, <1>5, <2>5, UnaryRecord
    <3>2. AF(flags) <=> HalfSet(a, 1, Trunc(a - 1, w))
      BY <3>1, HalfRecord DEF HalfKinds
    <3>3. Exact(last, i, j) = i - 1
      BY <2>5 DEF Exact
    <3> QED
      BY <2>3, <3>2, <3>3
  <2> QED
    BY <1>13, <2>4, <2>5
<1> QED
  BY <1>8, <1>9, <1>10, <1>11, <1>12, <1>13 DEF Additive

-----------------------------------------------------------------------------
(* The flags after any sequence of operations.                             *)

(* flags.c, the record and the eager forms: after any sequence of          *)
(* operations the carry, overflow, zero and half carry an addition or a    *)
(* subtraction leaves are those of its exact result, and INC and DEC leave *)
(* the carry alone.                                                        *)
THEOREM CarriesAreRight == Spec => []CarriesExact
<1>1. UnitInv => CarriesExact
  BY CarriesFromInv, HalfCarriesFromInv DEF CarriesExact
<1> QED
  BY <1>1, UnitInvariant, PTL

(* cond.c: every condition is the same from the lazy record and from the   *)
(* word it stands for, and after a compare it orders the operands.         *)
THEOREM ConditionsAreRight == Spec => []ConditionsOrder
  BY UnitInvariant, OrderFromInv, PTL


-----------------------------------------------------------------------------
(* Division.                                                               *)

(* C division truncates towards zero.                                      *)
LEMMA QuotientFact ==
  ASSUME NEW n \in Int, NEW d \in Int \ {0}
  PROVE  /\ Quotient(n, d) \in Int /\ Remainder(n, d) \in Int
         /\ n = Quotient(n, d) * d + Remainder(n, d)
         /\ Abs(Remainder(n, d)) < Abs(d)
         /\ Remainder(n, d) # 0 => (Remainder(n, d) < 0) = (n < 0)
         /\ n >= 0 /\ d > 0 => Quotient(n, d) = n \div d /\ Remainder(n, d) = n % d
<1> DEFINE p == Abs(n)
           e == Abs(d)
           k == p \div e
           m == p % e
           q == Quotient(n, d)
           r == Remainder(n, d)
<1>1. /\ p \in Nat /\ e \in Nat \ {0} /\ n = (IF n < 0 THEN -p ELSE p) /\ d = (IF d < 0 THEN -e ELSE e)
      /\ n >= 0 => p = n
      /\ d > 0 => e = d
  BY DEF Abs
<1>2. q = IF (n < 0) = (d < 0) THEN k ELSE -k
  BY DEF Quotient
<1>3. r = n - d * q
  BY DEF Remainder
<1> HIDE DEF p, e
<1>4. k \in Int /\ m \in 0 .. e - 1 /\ p = e * k + m
  BY <1>1, DivMod
<1>5. n >= 0 /\ d > 0 => k = n \div d /\ m = n % d
  BY <1>1
<1> HIDE DEF k, m, q, r
<1>6. CASE n < 0 /\ d < 0
  <2>1. q = k /\ n = -p /\ d = -e /\ n < 0 /\ d < 0
    BY <1>1, <1>2, <1>6
  <2>2. d * q = -(e * k) /\ q * d = -(e * k)
    BY <1>1, <1>4, <2>1
  <2>3. r = -m
    BY <1>1, <1>3, <1>4, <2>1, <2>2
  <2> QED
    BY <1>1, <1>4, <2>1, <2>2, <2>3 DEF Abs, q, r
<1>7. CASE n < 0 /\ ~(d < 0)
  <2>1. q = -k /\ n = -p /\ d = e /\ n < 0 /\ d > 0
    BY <1>1, <1>2, <1>7
  <2>2. d * q = -(e * k) /\ q * d = -(e * k)
    BY <1>1, <1>4, <2>1
  <2>3. r = -m
    BY <1>1, <1>3, <1>4, <2>1, <2>2
  <2> QED
    BY <1>1, <1>4, <2>1, <2>2, <2>3 DEF Abs, q, r
<1>8. CASE ~(n < 0) /\ d < 0
  <2>1. q = -k /\ n = p /\ d = -e /\ n >= 0 /\ d < 0
    BY <1>1, <1>2, <1>8
  <2>2. d * q = e * k /\ q * d = e * k
    BY <1>1, <1>4, <2>1
  <2>3. r = m
    BY <1>1, <1>3, <1>4, <2>1, <2>2
  <2> QED
    BY <1>1, <1>4, <2>1, <2>2, <2>3 DEF Abs, q, r
<1>9. CASE ~(n < 0) /\ ~(d < 0)
  <2>1. q = k /\ n = p /\ d = e /\ n >= 0 /\ d > 0
    BY <1>1, <1>2, <1>9
  <2>2. d * q = e * k /\ q * d = e * k
    BY <1>1, <1>4, <2>1
  <2>3. r = m
    BY <1>1, <1>3, <1>4, <2>1, <2>2
  <2> QED
    BY <1>1, <1>4, <1>5, <2>1, <2>2, <2>3 DEF Abs, q, r
<1> QED
  BY <1>6, <1>7, <1>8, <1>9

(* A byte of eight bits.                                                   *)
LEMMA OctetFact ==
  /\ Bits(1) = 8 /\ ByteBits \div 2 = 4
  /\ Power(4) = 16 /\ Power(Bits(1) - 1) = 128 /\ Power(Bits(1)) = 256 /\ Half = 16
<1>1. Bits(1) = 8 /\ ByteBits \div 2 = 4
  BY OctetAssumption DEF Bits
<1>2. \A n \in 0 .. 8 : Power(n + 1) = 2 * Power(n)
  BY <1>1, WidthsAssumption
<1>3. Power(0) = 1
  BY WidthsAssumption
<1>4. Power(1) = 2 /\ Power(2) = 4 /\ Power(3) = 8 /\ Power(4) = 16
  <2>1. Power(0 + 1) = 2 * Power(0) /\ Power(1 + 1) = 2 * Power(1)
        /\ Power(2 + 1) = 2 * Power(2) /\ Power(3 + 1) = 2 * Power(3)
    BY <1>2
  <2> QED
    BY <1>3, <2>1
<1>5. Power(5) = 32 /\ Power(6) = 64 /\ Power(7) = 128 /\ Power(8) = 256
  <2>1. Power(4 + 1) = 2 * Power(4) /\ Power(5 + 1) = 2 * Power(5)
        /\ Power(6 + 1) = 2 * Power(6) /\ Power(7 + 1) = 2 * Power(7)
    BY <1>2
  <2> QED
    BY <1>4, <2>1
<1> QED
  BY <1>1, <1>4, <1>5 DEF Half

(* A byte's value is itself modulo 256, and its signed value is in range.  *)
LEMMA ByteFact ==
  ASSUME NEW v
  PROVE  /\ Fits(v, 1) <=> v \in 0 .. 255
         /\ Trunc(v, 1) = v % 256
         /\ v \in 0 .. 255 => /\ v % 256 = v /\ Trunc(v, 1) = v
                              /\ Signed(v, 1) = IF v >= 128 THEN v - 256 ELSE v
         /\ v \in Int => v % 256 \in 0 .. 255
<1>1. IsWidth(1)
  BY WidthFact
<1>2. v \in 0 .. 255 => Signed(v, 1) = IF v >= 128 THEN v - 256 ELSE v
  BY <1>1, SignFact, OctetFact
<1> QED
  BY <1>2, OctetFact DEF Fits, Trunc

(* Any word is signed by its own sign, and truncating a small enough       *)
(* number and signing it again gives it back.                              *)
LEMMA SignedByte ==
  ASSUME NEW v \in -128 .. 127
  PROVE  Trunc(v, 1) \in 0 .. 255 /\ Signed(Trunc(v, 1), 1) = v
<1>1. v % 256 = IF v < 0 THEN v + 256 ELSE v
  OBVIOUS
<1> DEFINE t == Trunc(v, 1)
<1>2. t = IF v < 0 THEN v + 256 ELSE v
  BY <1>1, ByteFact
<1>3. t \in 0 .. 255
  BY <1>2
<1> HIDE DEF t
<1>4. Signed(t, 1) = IF t >= 128 THEN t - 256 ELSE t
  BY <1>3, ByteFact
<1> QED
  BY <1>2, <1>3, <1>4 DEF t

\* After a division the quotient and the remainder are where the division left them.
LastDivision ==
  last.op \in {"Div", "Idiv"} =>
    /\ Fits(last.a, 1) /\ Fits(last.b, 1) /\ Fits(last.hi, 1)
    /\ LET d == IF last.op = "Div" THEN Div(last.hi, last.a, last.b, 1) ELSE Idiv(last.hi, last.a, last.b, 1)
       IN  acc = (IF d.ok THEN d.q ELSE last.a) /\ high = (IF d.ok THEN d.r ELSE last.hi)
\* The upper half of the accumulator never outgrows a byte.
DivisionInv == Fits(high, 1) /\ LastDivision

\* A division of bytes, its dividend and its divisor.
Divided(d, num, hi, lo, by) == d = Div(hi, lo, by, 1) /\ num = hi * 256 + lo
DividedSigned(d, num, s, hi, lo, by) ==
  d = Idiv(hi, lo, by, 1) /\ num = Signed(hi, 1) * 256 + lo /\ s = Signed(by, 1)

(* An unsigned division of bytes is accepted when its quotient is a byte.  *)
LEMMA DivFact ==
  ASSUME NEW hi \in 0 .. 255, NEW lo \in 0 .. 255, NEW by \in 0 .. 255,
         NEW d, NEW num, Divided(d, num, hi, lo, by)
  PROVE  /\ num \in Nat
         /\ IF by # 0 /\ num \div by < 256
            THEN d.ok /\ d.q = num \div by /\ d.r = num % by /\ d.q \in 0 .. 255 /\ d.r \in 0 .. 255
            ELSE ~d.ok
<1>1. /\ Trunc(hi, 1) = hi /\ Trunc(lo, 1) = lo /\ Trunc(by, 1) = by /\ Power(Bits(1)) = 256
      /\ num \in Nat /\ hi * 256 + lo = num /\ d = Div(hi, lo, by, 1)
  BY ByteFact, OctetFact DEF Divided
<1>2. d = IF by = 0 \/ num \div by >= 256 THEN [ok |-> FALSE, q |-> 0, r |-> 0]
          ELSE [ok |-> TRUE, q |-> num \div by, r |-> num % by]
  <2>1. d = LET n == Trunc(hi, 1) * Power(Bits(1)) + Trunc(lo, 1)
                m == Trunc(by, 1)
            IN  IF m = 0 \/ n \div m >= Power(Bits(1)) THEN [ok |-> FALSE, q |-> 0, r |-> 0]
                ELSE [ok |-> TRUE, q |-> n \div m, r |-> n % m]
    BY <1>1 DEF Div
  <2>2. Trunc(hi, 1) * Power(Bits(1)) + Trunc(lo, 1) = num
    BY <1>1
  <2>3. d = LET m == Trunc(by, 1)
            IN  IF m = 0 \/ num \div m >= Power(Bits(1)) THEN [ok |-> FALSE, q |-> 0, r |-> 0]
                ELSE [ok |-> TRUE, q |-> num \div m, r |-> num % m]
    BY <2>1, <2>2, Zenon
  <2>4. d = IF by = 0 \/ num \div by >= Power(Bits(1)) THEN [ok |-> FALSE, q |-> 0, r |-> 0]
            ELSE [ok |-> TRUE, q |-> num \div by, r |-> num % by]
    <3>1. Trunc(by, 1) = by
      BY <1>1
    <3> QED
      BY <2>3, <3>1, Zenon
  <2>5. Power(Bits(1)) = 256
    BY <1>1
  <2> QED
    BY <2>4, <2>5
<1>3. ASSUME by # 0 PROVE num \div by \in Nat /\ num % by \in 0 .. 255
  <2>1. by \in Nat \ {0} /\ num \in Int /\ num >= 0
    BY <1>1, <1>3
  <2>2. num \div by \in Nat /\ num % by \in 0 .. by - 1
    BY <2>1, DivMod
  <2> QED
    BY <2>1, <2>2
<1>4. CASE by # 0 /\ num \div by < 256
  <2>1. d = [ok |-> TRUE, q |-> num \div by, r |-> num % by]
    BY <1>2, <1>3, <1>4
  <2>2. num \div by \in 0 .. 255
    BY <1>3, <1>4
  <2> QED
    BY <1>1, <1>3, <1>4, <2>1, <2>2
<1>5. CASE ~(by # 0 /\ num \div by < 256)
  <2>1. by = 0 \/ num \div by >= 256
    BY <1>3, <1>5
  <2> QED
    BY <1>1, <1>2, <1>5, <2>1
<1> QED
  BY <1>4, <1>5

SignedOutcome(d, num, s) ==
  IF s # 0 /\ -128 <= Quotient(num, s) /\ Quotient(num, s) < 128
  THEN /\ d.ok /\ d.q \in 0 .. 255 /\ d.r \in 0 .. 255
       /\ Signed(d.q, 1) = Quotient(num, s) /\ Signed(d.r, 1) = Remainder(num, s)
  ELSE ~d.ok

(* A signed one when it is between -128 and 127.                           *)
LEMMA IdivFact ==
  ASSUME NEW hi \in 0 .. 255, NEW lo \in 0 .. 255, NEW by \in 0 .. 255,
         NEW d, NEW num, NEW s, DividedSigned(d, num, s, hi, lo, by)
  PROVE  num \in Int /\ s \in Int /\ SignedOutcome(d, num, s)
<1>1. /\ Trunc(lo, 1) = lo /\ Power(Bits(1)) = 256 /\ Power(Bits(1) - 1) = 128
      /\ Signed(hi, 1) \in -128 .. 127 /\ s \in -128 .. 127
      /\ d = Idiv(hi, lo, by, 1) /\ num = Signed(hi, 1) * 256 + lo /\ s = Signed(by, 1)
  BY ByteFact, OctetFact DEF DividedSigned
<1>2. num \in Int
  BY <1>1
<1> DEFINE q == Quotient(num, s)
           r == Remainder(num, s)
<1>3. d = IF s = 0 THEN [ok |-> FALSE, q |-> 0, r |-> 0]
          ELSE IF q < -128 \/ q >= 128 THEN [ok |-> FALSE, q |-> 0, r |-> 0]
          ELSE [ok |-> TRUE, q |-> Trunc(q, 1), r |-> Trunc(r, 1)]
  <2>1. d = LET n == Signed(hi, 1) * Power(Bits(1)) + Trunc(lo, 1)
                m == Signed(by, 1)
                t == Quotient(n, m)
                half == Power(Bits(1) - 1)
            IN  IF m = 0 THEN [ok |-> FALSE, q |-> 0, r |-> 0]
                ELSE IF t < -half \/ t >= half THEN [ok |-> FALSE, q |-> 0, r |-> 0]
                ELSE [ok |-> TRUE, q |-> Trunc(t, 1), r |-> Trunc(Remainder(n, m), 1)]
    BY <1>1 DEF Idiv
  <2>2. Signed(hi, 1) * Power(Bits(1)) + Trunc(lo, 1) = num /\ Signed(by, 1) = s /\ Power(Bits(1) - 1) = 128
    BY <1>1
  <2>3. d = LET t == Quotient(num, s)
            IN  IF s = 0 THEN [ok |-> FALSE, q |-> 0, r |-> 0]
                ELSE IF t < -128 \/ t >= 128 THEN [ok |-> FALSE, q |-> 0, r |-> 0]
                ELSE [ok |-> TRUE, q |-> Trunc(t, 1), r |-> Trunc(Remainder(num, s), 1)]
    BY <2>1, <2>2, Zenon
  <2> QED
    BY <2>3
<1>4. ASSUME s # 0 PROVE q \in Int /\ r \in -128 .. 127
  <2>1. s \in Int \ {0}
    BY <1>1, <1>4
  <2>2. q \in Int /\ r \in Int /\ Abs(r) < Abs(s)
    BY <1>2, <2>1, QuotientFact
  <2> HIDE DEF q, r
  <2>3. r \in -128 .. 127
    BY <1>1, <2>2 DEF Abs
  <2> QED
    BY <2>2, <2>3
<1> HIDE DEF q, r
<1>5. ASSUME s # 0, -128 <= q, q < 128
      PROVE  /\ d.ok /\ d.q \in 0 .. 255 /\ d.r \in 0 .. 255
             /\ Signed(d.q, 1) = q /\ Signed(d.r, 1) = r
  <2>1. q \in -128 .. 127 /\ r \in -128 .. 127
    BY <1>4, <1>5
  <2>2. d = [ok |-> TRUE, q |-> Trunc(q, 1), r |-> Trunc(r, 1)]
    BY <1>3, <1>5, <2>1
  <2>3. /\ Trunc(q, 1) \in 0 .. 255 /\ Signed(Trunc(q, 1), 1) = q
        /\ Trunc(r, 1) \in 0 .. 255 /\ Signed(Trunc(r, 1), 1) = r
    BY <2>1, SignedByte
  <2> QED
    BY <2>2, <2>3
<1>6. ASSUME ~(s # 0 /\ -128 <= q /\ q < 128) PROVE ~d.ok
  <2>1. s = 0 \/ (s # 0 /\ (q < -128 \/ q >= 128))
    BY <1>4, <1>6
  <2> QED
    BY <1>3, <2>1
<1> QED
  BY <1>1, <1>2, <1>5, <1>6 DEF SignedOutcome, q, r

(* An accepted quotient is right, and only one that does not fit is        *)
(* refused.                                                                *)
LEMMA DivisionExactFact == LastDivision => DivisionExact
<1> SUFFICES ASSUME LastDivision, last.op \in {"Div", "Idiv"} PROVE DivisionExact
  BY DEF DivisionExact
<1>1. PICK hi \in 0 .. 255, lo \in 0 .. 255, by \in 0 .. 255 : hi = last.hi /\ lo = last.a /\ by = last.b
  BY ByteFact DEF LastDivision
<1>2. Power(Bits(1)) = 256 /\ 256 \div 2 = 128
  BY OctetFact
<1>3. CASE last.op = "Div"
  <2>1. PICK d : d = Div(hi, lo, by, 1)
    OBVIOUS
  <2>2. PICK num : num = hi * 256 + lo
    OBVIOUS
  <2>0. Divided(d, num, hi, lo, by)
    BY <2>1, <2>2 DEF Divided
  <2>3. acc = (IF d.ok THEN d.q ELSE lo) /\ high = (IF d.ok THEN d.r ELSE hi)
    BY <1>1, <1>3, <2>1 DEF LastDivision
  <2>4. num \in Nat /\ IF by # 0 /\ num \div by < 256
                         THEN d.ok /\ d.q = num \div by /\ d.r = num % by /\ d.q \in 0 .. 255 /\ d.r \in 0 .. 255
                         ELSE ~d.ok
    BY <2>0, DivFact
  <2> DEFINE right(x, y) == num = x * by + y /\ Abs(y) < Abs(by) /\ (y # 0 => (y < 0) = (num < 0))
             fits == by # 0 /\ Quotient(num, by) < 256
  <2>5. DivisionExact <=> IF fits THEN right(acc, high) ELSE acc = lo /\ high = hi
    <3>1. DivisionExact <=>
            LET n == Power(Bits(1))
                m == last.hi * n + last.a
                x == last.b
                y == Quotient(m, x)
            IN  IF x # 0 /\ y < n
                THEN m = acc * x + high /\ Abs(high) < Abs(x) /\ (high # 0 => (high < 0) = (m < 0))
                ELSE acc = last.a /\ high = last.hi
      BY <1>3 DEF DivisionExact
    <3>2. last.hi * Power(Bits(1)) + last.a = num /\ last.b = by /\ Power(Bits(1)) = 256
      BY <1>1, <1>2, <2>2
    <3>3. DivisionExact <=>
            IF by # 0 /\ Quotient(num, by) < 256
            THEN num = acc * by + high /\ Abs(high) < Abs(by) /\ (high # 0 => (high < 0) = (num < 0))
            ELSE acc = last.a /\ high = last.hi
      BY <3>1, <3>2, Zenon
    <3> QED
      BY <1>1, <3>3
  <2>6. ASSUME by # 0
        PROVE  /\ Quotient(num, by) = num \div by
               /\ right(num \div by, num % by)
    <3>1. by \in Int \ {0} /\ by > 0 /\ num \in Int /\ num >= 0
      BY <2>4, <2>6
    <3>2. Quotient(num, by) = num \div by /\ Remainder(num, by) = num % by
      BY <3>1, QuotientFact
    <3>3. right(Quotient(num, by), Remainder(num, by))
      BY <3>1, QuotientFact
    <3> QED
      BY <3>2, <3>3
  <2> HIDE DEF right
  <2> QED
    BY <2>3, <2>4, <2>5, <2>6
<1>4. CASE last.op = "Idiv"
  <2>1. PICK d : d = Idiv(hi, lo, by, 1)
    OBVIOUS
  <2>2. PICK s : s = Signed(by, 1)
    OBVIOUS
  <2>3. PICK num : num = Signed(hi, 1) * 256 + lo
    OBVIOUS
  <2>0. DividedSigned(d, num, s, hi, lo, by)
    BY <2>1, <2>2, <2>3 DEF DividedSigned
  <2>4. acc = (IF d.ok THEN d.q ELSE lo) /\ high = (IF d.ok THEN d.r ELSE hi)
    BY <1>1, <1>4, <2>1 DEF LastDivision
  <2>5. num \in Int /\ s \in Int /\ SignedOutcome(d, num, s)
    BY <2>0, IdivFact
  <2> DEFINE right(x, y) == num = x * s + y /\ Abs(y) < Abs(s) /\ (y # 0 => (y < 0) = (num < 0))
             fits == s # 0 /\ Quotient(num, s) >= -128 /\ Quotient(num, s) < 128
  <2>6. DivisionExact <=> IF fits THEN right(Signed(acc, 1), Signed(high, 1)) ELSE acc = lo /\ high = hi
    BY <1>1, <1>2, <1>4, <2>2, <2>3 DEF DivisionExact
  <2>7. ASSUME s # 0
        PROVE  Quotient(num, s) \in Int /\ right(Quotient(num, s), Remainder(num, s))
    <3>1. s \in Int \ {0} /\ num \in Int
      BY <2>5, <2>7
    <3> QED
      BY <3>1, QuotientFact
  <2> HIDE DEF right
  <2> QED
    BY <2>4, <2>5, <2>6, <2>7 DEF SignedOutcome
<1> QED
  BY <1>3, <1>4

(* The upper half of a byte product is a byte.                              *)
LEMMA MulHigh ==
  ASSUME NEW a \in 0 .. 255, NEW b \in 0 .. 255, NEW f
  PROVE  Mul(a, b, 1, f).hi \in 0 .. 255 /\ Imul(a, b, 1, f).hi \in 0 .. 255
<1>1. Trunc(a, 1) = a /\ Trunc(b, 1) = b /\ Signed(a, 1) \in Int /\ Signed(b, 1) \in Int /\ Power(Bits(1)) = 256
  BY ByteFact, OctetFact
<1>2. Mul(a, b, 1, f).hi \in 0 .. 255
  <2>1. PICK full : full = a * b
    OBVIOUS
  <2>2. full \in Nat /\ full <= 65025
    <3>1. a * b \in Nat /\ a * b <= 255 * b /\ 255 * b <= 65025
      OBVIOUS
    <3> QED
      BY <2>1, <3>1
  <2>3. Mul(a, b, 1, f).hi = full \div 256
    BY <1>1, <2>1 DEF Mul
  <2> QED
    BY <2>2, <2>3
<1>3. Imul(a, b, 1, f).hi \in 0 .. 255
  <2>1. PICK full : full = Signed(a, 1) * Signed(b, 1)
    OBVIOUS
  <2>2. full \in Int
    BY <1>1, <2>1
  <2>3. Imul(a, b, 1, f).hi = Trunc(full \div 256, 1)
    BY <1>1, <2>1 DEF Imul
  <2>4. full \div 256 \in Int
    BY <2>2
  <2> QED
    BY <2>3, <2>4, ByteFact
<1> QED
  BY <1>2, <1>3

(* What AAA and AAS leave in AH is a byte: AX wraps at its sixteen bits.    *)
LEMMA AsciiHigh ==
  ASSUME NEW sub \in BOOLEAN, NEW a \in 0 .. 255, NEW h \in 0 .. 255, NEW e
  PROVE  AsciiAdjust(sub, a, h, e).ah \in 0 .. 255
<1> DEFINE ax == IF ~(a % 16 > 9 \/ "AF" \in e) THEN h * 256 + a
                 ELSE IF sub THEN (h * 256 + a - 6 - 256) % 65536 ELSE (h * 256 + a + 6 + 256) % 65536
<1>1. AsciiAdjust(sub, a, h, e).ah = ax \div 256
  BY SMT DEF AsciiAdjust
<1>2. /\ (h * 256 + a) \div 256 \in 0 .. 255
      /\ ((h * 256 + a - 6 - 256) % 65536) \div 256 \in 0 .. 255
      /\ ((h * 256 + a + 6 + 256) % 65536) \div 256 \in 0 .. 255
  BY SMT
<1>3. ax \div 256 \in 0 .. 255
  BY <1>2, SMT
<1> HIDE DEF ax
<1> QED
  BY <1>1, <1>3, SMT

Adjustments == {"Daa", "Das", "Aaa", "Aas", "Aam", "Aad"}
Bases == {0, 10}

(* No decimal adjustment leaves more than a byte in AH.                     *)
LEMMA BcdHigh ==
  ASSUME NEW op \in Adjustments, NEW a \in 0 .. 255, NEW h \in 0 .. 255, NEW e, NEW imm \in Bases
  PROVE  BcdApply(op, a, h, e, imm).ah \in 0 .. 255
<1>1. CASE op = "Daa"
  BY <1>1 DEF BcdApply, Daa
<1>2. CASE op = "Das"
  BY <1>2 DEF BcdApply, Das
<1>3. CASE op = "Aaa"
  <2>1. BcdApply(op, a, h, e, imm) = AsciiAdjust(FALSE, a, h, e)
    BY <1>3 DEF BcdApply
  <2> QED
    BY <2>1, AsciiHigh
<1>4. CASE op = "Aas"
  <2>1. BcdApply(op, a, h, e, imm) = AsciiAdjust(TRUE, a, h, e)
    BY <1>4 DEF BcdApply
  <2> QED
    BY <2>1, AsciiHigh
<1>5. CASE op = "Aam"
  <2>1. BcdApply(op, a, h, e, imm) = Aam(a, h, e, imm)
    BY <1>5 DEF BcdApply
  <2>2. a \div 10 \in 0 .. 255
    OBVIOUS
  <2>3. Aam(a, h, e, imm).ah \in 0 .. 255
    BY <2>2 DEF Aam, Bases
  <2> QED
    BY <2>1, <2>3
<1>6. CASE op = "Aad"
  BY <1>6 DEF BcdApply, Aad
<1> QED
  BY <1>1, <1>2, <1>3, <1>4, <1>5, <1>6 DEF Adjustments

(* No division has been done at the start.                                  *)
LEMMA DivisionInvInit == Init => DivisionInv
  BY ByteFact DEF Init, Nothing, DivisionInv, LastDivision

(* Every operation leaves a byte in the upper half, and a division its result.*)
LEMMA DivisionInvStep == DivisionInv /\ [Next]_vars => DivisionInv'
<1> SUFFICES ASSUME DivisionInv, [Next]_vars PROVE DivisionInv'
  OBVIOUS
<1>1. high \in 0 .. 255
  BY ByteFact DEF DivisionInv
<1>2. ASSUME high' \in 0 .. 255, last'.op \notin {"Div", "Idiv"} PROVE DivisionInv'
  BY <1>2, ByteFact DEF DivisionInv, LastDivision
<1>3. CASE BinaryOp
  <2>1. PICK op \in Binary, w \in Widths, b \in Operands : Did(op, w, b) /\ Took(Alu(op, acc, b, w, flags), w)
    BY <1>3 DEF BinaryOp
  <2> QED
    BY <1>1, <1>2, <2>1, DidFact DEF Took, Binary
<1>4. CASE ShiftOp
  <2>1. PICK op \in ShiftOps \cup Rotates, n \in Counts : Did(op, 1, n) /\ Took(Alu(op, acc, n, 1, flags), 1)
    BY <1>4 DEF ShiftOp
  <2> QED
    BY <1>1, <1>2, <2>1, DidFact DEF Took, ShiftOps, Rotates
<1>5. CASE UnaryOp
  <2>1. PICK op \in Unary, w \in Widths : Did(op, w, 0) /\ Took(AluUnary(op, acc, w, flags), w)
    BY <1>5 DEF UnaryOp
  <2> QED
    BY <1>1, <1>2, <2>1, DidFact DEF Took, Unary
<1>6. CASE MulOp
  <2>1. PICK op \in {"Mul", "Imul"}, b \in Operands :
          /\ Fits(acc, 1) /\ Fits(b, 1) /\ Did(op, 1, b)
          /\ high' = (IF op = "Mul" THEN Mul(acc, b, 1, flags) ELSE Imul(acc, b, 1, flags)).hi
    BY <1>6 DEF MulOp
  <2>2. acc \in 0 .. 255 /\ b \in 0 .. 255
    BY <2>1, ByteFact
  <2>3. high' \in 0 .. 255
    BY <2>1, <2>2, MulHigh
  <2> QED
    BY <1>2, <2>1, <2>3, DidFact
<1>7. CASE DivOp
  <2>1. PICK op \in {"Div", "Idiv"}, b \in Operands :
          /\ Fits(acc, 1) /\ Fits(b, 1) /\ Did(op, 1, b)
          /\ LET d == IF op = "Div" THEN Div(high, acc, b, 1) ELSE Idiv(high, acc, b, 1)
             IN  acc' = (IF d.ok THEN d.q ELSE acc) /\ high' = (IF d.ok THEN d.r ELSE high)
    BY <1>7 DEF DivOp
  <2>2. acc \in 0 .. 255 /\ b \in 0 .. 255
    BY <2>1, ByteFact
  <2>3. last'.op = op /\ last'.a = acc /\ last'.b = b /\ last'.hi = high
    BY <2>1 DEF Did, Nothing
  <2>4. high' \in 0 .. 255
    <3>1. CASE op = "Div"
      <4>1. PICK d, num : Divided(d, num, high, acc, b)
        BY DEF Divided
      <4>2. ~d.ok \/ d.r \in 0 .. 255
        BY <1>1, <2>2, <4>1, DivFact
      <4> QED
        BY <1>1, <2>1, <3>1, <4>1, <4>2 DEF Divided
    <3>2. CASE op = "Idiv"
      <4>1. PICK d, num, s : DividedSigned(d, num, s, high, acc, b)
        BY DEF DividedSigned
      <4>2. ~d.ok \/ d.r \in 0 .. 255
        BY <1>1, <2>2, <4>1, IdivFact DEF SignedOutcome
      <4> QED
        BY <1>1, <2>1, <3>2, <4>1, <4>2 DEF DividedSigned
    <3> QED
      BY <3>1, <3>2
  <2>5. LastDivision'
    BY <2>1, <2>3 DEF LastDivision, DivisionInv, Fits
  <2> QED
    BY <2>4, <2>5, ByteFact DEF DivisionInv
<1>8. CASE DecimalOp
  <2>1. PICK op \in {"Daa", "Das", "Aaa", "Aas", "Aam", "Aad"}, imm \in {0, 10} :
          /\ Fits(acc, 1) /\ Did(op, 1, imm)
          /\ high' = BcdApply(op, acc, high, Eflags(flags), imm).ah
    BY <1>8 DEF DecimalOp
  <2>2. acc \in 0 .. 255
    BY <2>1, ByteFact
  <2>3. high' \in 0 .. 255
    <3>1. PICK e : e = Eflags(flags)
      OBVIOUS
    <3>2. high' = BcdApply(op, acc, high, e, imm).ah
      BY <2>1, <3>1
    <3>3. op \in Adjustments /\ imm \in Bases
      BY DEF Adjustments, Bases
    <3>4. BcdApply(op, acc, high, e, imm).ah \in 0 .. 255
      BY <1>1, <2>2, <3>3, BcdHigh
    <3> QED
      BY <3>2, <3>4
  <2> QED
    BY <1>2, <2>1, <2>3, DidFact
<1>9. CASE BitOp
  <2>1. PICK op \in {"Bt", "Bts", "Btr", "Btc"}, i \in Counts : Did(op, 1, i) /\ UNCHANGED high
    BY <1>9 DEF BitOp, Took
  <2> QED
    BY <1>1, <1>2, <2>1, DidFact
<1>10. CASE ScanOp
  <2>1. PICK reverse \in BOOLEAN, b \in Operands :
          Did(IF reverse THEN "Bsr" ELSE "Bsf", 1, b) /\ UNCHANGED high
    BY <1>10 DEF ScanOp, Took
  <2> QED
    BY <1>1, <1>2, <2>1, DidFact
<1>11. CASE DoubleOp
  <2>1. PICK left \in BOOLEAN, n \in Counts : Did(IF left THEN "Shld" ELSE "Shrd", 1, n) /\ UNCHANGED high
    BY <1>11 DEF DoubleOp, Took
  <2> QED
    BY <1>1, <1>2, <2>1, DidFact
<1>12. CASE UNCHANGED vars
  BY <1>12 DEF vars, DivisionInv, LastDivision, Fits
<1> QED
  BY <1>3, <1>4, <1>5, <1>6, <1>7, <1>8, <1>9, <1>10, <1>11, <1>12 DEF Next

(* The halves of the accumulator stay bytes and hold what the last         *)
(* division left.                                                          *)
THEOREM DivisionInvariant == Spec => []DivisionInv
  BY DivisionInvInit, DivisionInvStep, PTL DEF Spec

(* alu.c, DIV and IDIV: a quotient that is accepted is right, with its     *)
(* remainder, and only one that does not fit is refused.                   *)
THEOREM DivisionsAreRight == Spec => []DivisionExact
<1>1. DivisionInv => DivisionExact
  BY DivisionExactFact DEF DivisionInv
<1> QED
  BY <1>1, DivisionInvariant, PTL

-----------------------------------------------------------------------------
(* Decimal adjustment.                                                     *)

(* The word of a record has its carries too.                                *)
LEMMA WordHasCarries ==
  ASSUME NEW f
  PROVE  ("CF" \in Eflags(f) <=> CF(f)) /\ ("AF" \in Eflags(f) <=> AF(f))
<1>1. CASE f.kind = "None"
  BY <1>1 DEF Eflags, CF, AF, Shifts
<1>2. CASE f.kind = "Explicit"
  BY <1>2 DEF Eflags, CF, AF, Shifts, ArithFlags
<1>3. CASE f.kind \notin {"None", "Explicit"}
  BY <1>3 DEF Eflags, ArithFlags
<1> QED
  BY <1>1, <1>2, <1>3

\* What an addition or a subtraction of bytes leaves for the adjustment that follows it.
Added(al, e, x, y, c) ==
  /\ al = (x + y + c) % 256
  /\ "CF" \in e <=> x + y + c >= 256
  /\ "AF" \in e <=> (x % 16) + (y % 16) + c >= 16
Taken(al, e, x, y, c) ==
  /\ al = (x - y - c) % 256
  /\ "CF" \in e <=> x - y - c < 0
  /\ "AF" \in e <=> (x % 16) - (y % 16) - c < 0

DecimalSum(x, y, c) == ToDecimal(x) + ToDecimal(y) + c
DecimalDifference(x, y, c) == ToDecimal(x) - ToDecimal(y) - c

(* The digits of a two-digit decimal.                                       *)
LEMMA Digits ==
  ASSUME NEW x \in 0 .. 255, IsBcd(x)
  PROVE  \E i, j \in 0 .. 9 : x = 16 * i + j /\ x % 16 = j /\ ToDecimal(x) = 10 * i + j
<1>1. x \div 16 \in 0 .. 9 /\ x % 16 \in 0 .. 9 /\ x = 16 * (x \div 16) + (x % 16)
  BY DEF IsBcd
<1> QED
  BY <1>1 DEF ToDecimal

(* Two digits are a decimal.                                                *)
LEMMA OfDigits ==
  ASSUME NEW v \in 0 .. 255, NEW i \in 0 .. 9, NEW j \in 0 .. 9, v = 16 * i + j
  PROVE  IsBcd(v) /\ ToDecimal(v) = 10 * i + j
<1>1. v \div 16 = i /\ v % 16 = j
  OBVIOUS
<1> QED
  BY <1>1 DEF IsBcd, ToDecimal

(* Which flags an adjustment leaves is decided in steps.                    *)
LEMMA WithFact ==
  ASSUME NEW e, NEW af, NEW cf, NEW of, NEW al
  PROVE  "CF" \in With(ResultFlags(With(With(e, "AF", af), "CF", cf), al), "OF", of) <=> cf
  BY DEF With, ResultFlags

(* DAA after an addition of two decimals.                                   *)
LEMMA DaaFact ==
  ASSUME NEW x \in 0 .. 255, NEW y \in 0 .. 255, NEW c \in 0 .. 1, NEW al, NEW ah, NEW e,
         IsBcd(x), IsBcd(y), Added(al, e, x, y, c)
  PROVE  /\ IsBcd(Daa(al, ah, e).al) /\ ToDecimal(Daa(al, ah, e).al) = DecimalSum(x, y, c) % 100
         /\ "CF" \in Daa(al, ah, e).e <=> DecimalSum(x, y, c) > 99
<1>0. PICK n : n = DecimalSum(x, y, c)
  OBVIOUS
<1> DEFINE low == al % 16 > 9 \/ "AF" \in e
           al1 == IF low THEN (al + 6) % 256 ELSE al
           up == al > 153 \/ "CF" \in e
           al2 == IF up THEN (al1 + 96) % 256 ELSE al1
<1>1. Daa(al, ah, e).al = al2 /\ ("CF" \in Daa(al, ah, e).e <=> up)
  <2>1. Daa(al, ah, e).al = al2
    BY DEF Daa
  <2>2. \E of : Daa(al, ah, e).e = With(ResultFlags(With(With(e, "AF", low), "CF", up), al2), "OF", of)
    BY DEF Daa
  <2> HIDE DEF low, up, al2
  <2> QED
    BY <2>1, <2>2, WithFact
<1>2. PICK i \in 0 .. 9, j \in 0 .. 9 : x = 16 * i + j /\ x % 16 = j /\ ToDecimal(x) = 10 * i + j
  BY Digits
<1>3. PICK k \in 0 .. 9, l \in 0 .. 9 : y = 16 * k + l /\ y % 16 = l /\ ToDecimal(y) = 10 * k + l
  BY Digits
<1>4. PICK s \in 0 .. 19, t \in 0 .. 18 : s = j + l + c /\ t = i + k
  <2>1. j + l + c \in 0 .. 19 /\ i + k \in 0 .. 18
    OBVIOUS
  <2> QED
    BY <2>1
<1>5. /\ al = (16 * t + s) % 256 /\ n = 10 * t + s
      /\ "CF" \in e <=> 16 * t + s >= 256
      /\ "AF" \in e <=> s >= 16
  <2>1. x + y + c = 16 * t + s
    BY <1>2, <1>3, <1>4
  <2>2. ToDecimal(x) + ToDecimal(y) + c = 10 * t + s
    BY <1>2, <1>3, <1>4
  <2> QED
    BY <1>0, <1>2, <1>3, <1>4, <2>1, <2>2 DEF Added, DecimalSum
<1>6. al \in 0 .. 255 /\ al = IF 16 * t + s >= 256 THEN 16 * t + s - 256 ELSE 16 * t + s
  <2>1. PICK m \in 0 .. 511 : m = 16 * t + s
    <3>1. 16 * t + s \in 0 .. 511
      OBVIOUS
    <3> QED
      BY <3>1
  <2>2. m % 256 \in 0 .. 255 /\ m % 256 = IF m >= 256 THEN m - 256 ELSE m
    OBVIOUS
  <2> QED
    BY <1>5, <2>1, <2>2
<1>7. low <=> s > 9
  BY <1>5, <1>6
<1>8. up <=> n > 99
  BY <1>5, <1>6
<1> HIDE DEF low, up
<1>9. PICK u \in 0 .. 9, v \in 0 .. 9 : n % 100 = 10 * u + v /\ al2 = 16 * u + v
  <2>1. al1 = IF s > 9 THEN (al + 6) % 256 ELSE al
    BY <1>7
  <2>2. al2 = IF n > 99 THEN (al1 + 96) % 256 ELSE al1
    BY <1>8
  <2> HIDE DEF al1, al2
  <2>3. PICK v \in 0 .. 9, t1 \in 0 .. 19 : 16 * t1 + v = (IF s > 9 THEN 16 * t + s + 6 ELSE 16 * t + s) /\ n = 10 * t1 + v
    <3>1. CASE s > 9
      <4>1. s - 10 \in 0 .. 9 /\ t + 1 \in 0 .. 19 /\ 16 * (t + 1) + (s - 10) = 16 * t + s + 6 /\ n = 10 * (t + 1) + (s - 10)
        BY <1>5, <3>1
      <4> QED
        BY <3>1, <4>1
    <3>2. CASE s <= 9
      BY <1>5, <3>2
    <3> QED
      BY <3>1, <3>2
  <2>4. al1 = (16 * t1 + v) % 256 /\ al1 \in 0 .. 255
    BY <1>6, <2>1, <2>3
  <2>5. n > 99 <=> t1 >= 10
    BY <2>3
  <2>6. PICK u \in 0 .. 9 : u = IF t1 >= 10 THEN t1 - 10 ELSE t1
    OBVIOUS
  <2>7. al2 = 16 * u + v
    <3>1. CASE t1 >= 10
      <4>1. PICK m \in 160 .. 320 : m = 16 * t1 + v
        <5>1. 16 * t1 + v \in 160 .. 320
          BY <3>1
        <5> QED
          BY <5>1
      <4>2. ((m % 256) + 96) % 256 = m - 160
        OBVIOUS
      <4>3. al2 = m - 160
        BY <2>2, <2>4, <2>5, <3>1, <4>1, <4>2
      <4> QED
        BY <2>6, <3>1, <4>1, <4>3
    <3>2. CASE t1 < 10
      <4>1. 16 * t1 + v \in 0 .. 255 /\ u = t1
        BY <2>6, <3>2
      <4>2. (16 * t1 + v) % 256 = 16 * t1 + v
        BY <4>1
      <4> QED
        BY <2>2, <2>4, <2>5, <3>2, <4>1, <4>2
    <3> QED
      BY <3>1, <3>2
  <2>8. n % 100 = 10 * u + v
    BY <2>3, <2>6
  <2> QED
    BY <2>7, <2>8
<1>10. al2 \in 0 .. 255
  BY <1>9
<1> HIDE DEF al2
<1> QED
  BY <1>0, <1>1, <1>8, <1>9, <1>10, OfDigits

(* DAS after a subtraction of two decimals.                                 *)
LEMMA DasFact ==
  ASSUME NEW x \in 0 .. 255, NEW y \in 0 .. 255, NEW c \in 0 .. 1, NEW al, NEW ah, NEW e,
         IsBcd(x), IsBcd(y), Taken(al, e, x, y, c)
  PROVE  /\ IsBcd(Das(al, ah, e).al) /\ ToDecimal(Das(al, ah, e).al) = DecimalDifference(x, y, c) % 100
         /\ "CF" \in Das(al, ah, e).e <=> DecimalDifference(x, y, c) < 0
<1>0. PICK n : n = DecimalDifference(x, y, c)
  OBVIOUS
<1> DEFINE low == al % 16 > 9 \/ "AF" \in e
           al1 == IF low THEN (al - 6) % 256 ELSE al
           up == al > 153 \/ "CF" \in e
           al2 == IF up THEN (al1 - 96) % 256 ELSE al1
           cf == up \/ (low /\ al < 6) \/ "CF" \in e
<1>1. Das(al, ah, e).al = al2 /\ ("CF" \in Das(al, ah, e).e <=> cf)
  <2>1. Das(al, ah, e).al = al2
    BY DEF Das
  <2>2. \E of : Das(al, ah, e).e = With(ResultFlags(With(With(e, "AF", low), "CF", cf), al2), "OF", of)
    BY DEF Das
  <2> HIDE DEF low, cf, al2
  <2> QED
    BY <2>1, <2>2, WithFact
<1>2. PICK i \in 0 .. 9, j \in 0 .. 9 : x = 16 * i + j /\ x % 16 = j /\ ToDecimal(x) = 10 * i + j
  BY Digits
<1>3. PICK k \in 0 .. 9, l \in 0 .. 9 : y = 16 * k + l /\ y % 16 = l /\ ToDecimal(y) = 10 * k + l
  BY Digits
<1>4. PICK s \in -10 .. 9, t \in -9 .. 9 : s = j - l - c /\ t = i - k
  <2>1. j - l - c \in -10 .. 9 /\ i - k \in -9 .. 9
    OBVIOUS
  <2> QED
    BY <2>1
<1>5. /\ al = (16 * t + s) % 256 /\ n = 10 * t + s
      /\ "CF" \in e <=> 16 * t + s < 0
      /\ "AF" \in e <=> s < 0
  <2>1. x - y - c = 16 * t + s
    BY <1>2, <1>3, <1>4
  <2>2. ToDecimal(x) - ToDecimal(y) - c = 10 * t + s
    BY <1>2, <1>3, <1>4
  <2> QED
    BY <1>0, <1>2, <1>3, <1>4, <2>1, <2>2 DEF Taken, DecimalDifference
<1>6. al \in 0 .. 255 /\ al = IF 16 * t + s < 0 THEN 16 * t + s + 256 ELSE 16 * t + s
  <2>1. PICK m \in -256 .. 255 : m = 16 * t + s
    <3>1. 16 * t + s \in -256 .. 255
      OBVIOUS
    <3> QED
      BY <3>1
  <2>2. m % 256 \in 0 .. 255 /\ m % 256 = IF m < 0 THEN m + 256 ELSE m
    OBVIOUS
  <2> QED
    BY <1>5, <2>1, <2>2
<1>7. low <=> s < 0
  BY <1>5, <1>6
<1>8. up <=> n < 0
  BY <1>5, <1>6
<1>9. low /\ al < 6 => n < 0
  BY <1>5, <1>6, <1>7
<1> HIDE DEF low, up
<1>10. PICK u \in 0 .. 9, v \in 0 .. 9 : n % 100 = 10 * u + v /\ al2 = 16 * u + v
  <2>1. al1 = IF s < 0 THEN (al - 6) % 256 ELSE al
    BY <1>7
  <2>2. al2 = IF n < 0 THEN (al1 - 96) % 256 ELSE al1
    BY <1>8
  <2> HIDE DEF al1, al2
  <2>3. PICK v \in 0 .. 9, t1 \in -10 .. 9 : 16 * t1 + v = (IF s < 0 THEN 16 * t + s - 6 ELSE 16 * t + s) /\ n = 10 * t1 + v
    <3>1. CASE s < 0
      <4>1. s + 10 \in 0 .. 9 /\ t - 1 \in -10 .. 9 /\ 16 * (t - 1) + (s + 10) = 16 * t + s - 6 /\ n = 10 * (t - 1) + (s + 10)
        BY <1>5, <3>1
      <4> QED
        BY <3>1, <4>1
    <3>2. CASE s >= 0
      BY <1>5, <3>2
    <3> QED
      BY <3>1, <3>2
  <2>4. al1 = (16 * t1 + v) % 256 /\ al1 \in 0 .. 255
    BY <1>6, <2>1, <2>3
  <2>5. n < 0 <=> t1 < 0
    BY <2>3
  <2>6. PICK u \in 0 .. 9 : u = IF t1 < 0 THEN t1 + 10 ELSE t1
    OBVIOUS
  <2>7. al2 = 16 * u + v
    <3>1. CASE t1 < 0
      <4>1. PICK m \in -160 .. -1 : m = 16 * t1 + v
        <5>1. 16 * t1 + v \in -160 .. -1
          BY <3>1
        <5> QED
          BY <5>1
      <4>2. ((m % 256) - 96) % 256 = m + 160
        OBVIOUS
      <4>3. al2 = m + 160
        BY <2>2, <2>4, <2>5, <3>1, <4>1, <4>2
      <4> QED
        BY <2>6, <3>1, <4>1, <4>3
    <3>2. CASE t1 >= 0
      <4>1. 16 * t1 + v \in 0 .. 255 /\ u = t1
        BY <2>6, <3>2
      <4>2. (16 * t1 + v) % 256 = 16 * t1 + v
        BY <4>1
      <4> QED
        BY <2>2, <2>4, <2>5, <3>2, <4>1, <4>2
    <3> QED
      BY <3>1, <3>2
  <2>8. n % 100 = 10 * u + v
    BY <2>3, <2>6
  <2> QED
    BY <2>7, <2>8
<1>11. al2 \in 0 .. 255
  BY <1>10
<1>12. cf <=> n < 0
  BY <1>5, <1>8, <1>9 DEF up
<1> HIDE DEF al2
<1> QED
  BY <1>0, <1>1, <1>10, <1>11, <1>12, OfDigits

\* The accumulator holds what the last addition or subtraction made of its operands, and after an
\* adjustment what that made of such a sum or difference.
LastSum ==
  LET c == IF last.op \in {"Adc", "Sbb"} THEN Carry(last.f) ELSE 0
  IN  /\ last.op \in {"Add", "Adc"} => acc = Trunc(last.a + last.b + c, last.w)
      /\ last.op \in {"Sub", "Sbb"} => acc = Trunc(last.a - last.b - c, last.w)
CarriedIn(l) == IF l.before \in {"Adc", "Sbb"} THEN l.c ELSE 0
Given(l) == l.x \in 0 .. 255 /\ l.y \in 0 .. 255 /\ l.c \in 0 .. 1
LastAdjusted ==
  /\ last.op = "Daa" /\ last.before \in {"Add", "Adc"} =>
       /\ Given(last)
       /\ \E al, ah, e : /\ Added(al, e, last.x, last.y, CarriedIn(last))
                         /\ acc = Daa(al, ah, e).al /\ flags = SetExplicit(Daa(al, ah, e).e)
  /\ last.op = "Das" /\ last.before \in {"Sub", "Sbb"} =>
       /\ Given(last)
       /\ \E al, ah, e : /\ Taken(al, e, last.x, last.y, CarriedIn(last))
                         /\ acc = Das(al, ah, e).al /\ flags = SetExplicit(Das(al, ah, e).e)
DecimalInv == UnitInv /\ LastSum /\ LastAdjusted

(* bcd.c: what was adjusted is the decimal sum or difference.               *)
LEMMA DecimalFromInv == LastAdjusted => DecimalExact
<1> SUFFICES ASSUME LastAdjusted, IsBcd(last.x), IsBcd(last.y),
                    \/ last.op = "Daa" /\ last.before \in {"Add", "Adc"}
                    \/ last.op = "Das" /\ last.before \in {"Sub", "Sbb"}
    PROVE  LET c == IF last.before \in {"Adc", "Sbb"} THEN last.c ELSE 0
               sum == IF last.op = "Daa" THEN ToDecimal(last.x) + ToDecimal(last.y) + c
                      ELSE ToDecimal(last.x) - ToDecimal(last.y) - c
           IN  IsBcd(acc) /\ ToDecimal(acc) = sum % 100 /\ CF(flags) = (sum < 0 \/ sum > 99)
  BY DEF DecimalExact
<1> DEFINE x == last.x
           y == last.y
           c == CarriedIn(last)
<1>1. \A word : CF(SetExplicit(word)) <=> "CF" \in word
  BY DEF CF, SetExplicit, Shifts
<1>2. x \in 0 .. 255 /\ y \in 0 .. 255 /\ c \in 0 .. 1
  BY DEF LastAdjusted, Given, CarriedIn
<1>3. ToDecimal(x) \in 0 .. 99 /\ ToDecimal(y) \in 0 .. 99
  BY <1>2, Digits
<1>4. CF(flags) \in BOOLEAN
  BY DEF CF
<1>5. CASE last.op = "Daa" /\ last.before \in {"Add", "Adc"}
  <2>1. PICK al, ah, e : /\ Added(al, e, x, y, c)
                         /\ acc = Daa(al, ah, e).al /\ flags = SetExplicit(Daa(al, ah, e).e)
    BY <1>5 DEF LastAdjusted
  <2>2. PICK n : n = DecimalSum(x, y, c)
    OBVIOUS
  <2> HIDE DEF x, y, c
  <2>3. IsBcd(x) /\ IsBcd(y)
    BY DEF x, y
  <2>4. IsBcd(acc) /\ ToDecimal(acc) = n % 100 /\ (CF(flags) <=> n > 99)
    <3>1. /\ IsBcd(Daa(al, ah, e).al) /\ ToDecimal(Daa(al, ah, e).al) = DecimalSum(x, y, c) % 100
          /\ "CF" \in Daa(al, ah, e).e <=> DecimalSum(x, y, c) > 99
      BY <1>2, <2>1, <2>3, DaaFact
    <3>2. CF(flags) <=> "CF" \in Daa(al, ah, e).e
      BY <1>1, <2>1
    <3> QED
      BY <2>1, <2>2, <3>1, <3>2
  <2>5. n >= 0
    BY <1>2, <1>3, <2>2 DEF DecimalSum
  <2> QED
    BY <1>4, <1>5, <2>2, <2>4, <2>5 DEF DecimalSum, x, y, c, CarriedIn
<1>6. CASE last.op = "Das" /\ last.before \in {"Sub", "Sbb"}
  <2>1. PICK al, ah, e : /\ Taken(al, e, x, y, c)
                         /\ acc = Das(al, ah, e).al /\ flags = SetExplicit(Das(al, ah, e).e)
    BY <1>6 DEF LastAdjusted
  <2>2. PICK n : n = DecimalDifference(x, y, c)
    OBVIOUS
  <2> HIDE DEF x, y, c
  <2>3. IsBcd(x) /\ IsBcd(y)
    BY DEF x, y
  <2>4. IsBcd(acc) /\ ToDecimal(acc) = n % 100 /\ (CF(flags) <=> n < 0)
    <3>1. /\ IsBcd(Das(al, ah, e).al) /\ ToDecimal(Das(al, ah, e).al) = DecimalDifference(x, y, c) % 100
          /\ "CF" \in Das(al, ah, e).e <=> DecimalDifference(x, y, c) < 0
      BY <1>2, <2>1, <2>3, DasFact
    <3>2. CF(flags) <=> "CF" \in Das(al, ah, e).e
      BY <1>1, <2>1
    <3> QED
      BY <2>1, <2>2, <3>1, <3>2
  <2>5. n <= 99
    BY <1>2, <1>3, <2>2 DEF DecimalDifference
  <2> QED
    BY <1>4, <1>6, <2>2, <2>4, <2>5 DEF DecimalDifference, x, y, c, CarriedIn
<1> QED
  BY <1>5, <1>6

(* What the accumulator takes.                                              *)
LEMMA AdditiveResult ==
  ASSUME NEW w, IsWidth(w), NEW a, Fits(a, w), NEW b, Fits(b, w), NEW f, NEW c, c = Carry(f)
  PROVE  /\ Alu("Add", a, b, w, f).r = Trunc(a + b, w) /\ Alu("Adc", a, b, w, f).r = Trunc(a + b + c, w)
         /\ Alu("Sub", a, b, w, f).r = Trunc(a - b, w) /\ Alu("Sbb", a, b, w, f).r = Trunc(a - b - c, w)
<1>1. Trunc(a, w) = a /\ Trunc(b, w) = b
  BY SignFact DEF Fits
<1> QED
  BY <1>1 DEF Alu, ShiftOps, Carry

(* Nothing has been adjusted at the start.                                  *)
LEMMA DecimalInvInit == Init => DecimalInv
<1>1. Init => last.op = "none"
  BY DEF Init, Nothing
<1> QED
  BY <1>1, UnitInvInit DEF DecimalInv, LastSum, LastAdjusted

(* What an adjustment finds after an addition or subtraction of bytes.      *)
LEMMA AdjustFinds ==
  ASSUME UnitInv, LastSum, last.w = 1, last.op \in {"Add", "Adc", "Sub", "Sbb"},
         NEW c, c = (IF last.op \in {"Adc", "Sbb"} THEN Carry(last.f) ELSE 0)
  PROVE  /\ last.a \in 0 .. 255 /\ last.b \in 0 .. 255 /\ c \in 0 .. 1 /\ Carry(last.f) \in 0 .. 1
         /\ last.op \in {"Add", "Adc"} => Added(acc, Eflags(flags), last.a, last.b, c)
         /\ last.op \in {"Sub", "Sbb"} => Taken(acc, Eflags(flags), last.a, last.b, c)
<1>1. Fits(last.a, 1) /\ Fits(last.b, 1)
  BY DEF UnitInv, LastFlags, Additive, Unary
<1>2. last.a \in 0 .. 255 /\ last.b \in 0 .. 255
  BY <1>1, ByteFact
<1>3. c \in 0 .. 1 /\ Carry(last.f) \in 0 .. 1
  BY DEF Carry
<1>4. Half = 16 /\ Power(Bits(1)) = 256
  BY OctetFact
<1>5. last.op \in Additive
  BY DEF Additive
<1>6. ("CF" \in Eflags(flags) <=> CF(flags)) /\ ("AF" \in Eflags(flags) <=> AF(flags))
  BY WordHasCarries
<1>7. CarriesFit /\ HalfCarryFits
  BY CarriesFromInv, HalfCarriesFromInv
<1> DEFINE u == Exact(last, last.a, last.b)
           h == Exact(last, last.a % 16, last.b % 16)
<1>8. (CF(flags) <=> u < 0 \/ u >= 256) /\ (AF(flags) <=> h < 0 \/ h >= 16)
  BY <1>4, <1>5, <1>7 DEF CarriesFit, HalfCarryFits
<1>9. PICK i \in 0 .. 15, j \in 0 .. 15 : i = last.a % 16 /\ j = last.b % 16
  <2>1. last.a % 16 \in 0 .. 15 /\ last.b % 16 \in 0 .. 15
    BY <1>2
  <2> QED
    BY <2>1
<1>10. CASE last.op \in {"Add", "Adc"}
  <2>1. u = last.a + last.b + c /\ h = (last.a % 16) + (last.b % 16) + c
    BY <1>10 DEF Exact
  <2>2. acc = (last.a + last.b + c) % 256
    BY <1>4, <1>10 DEF LastSum, Trunc
  <2> HIDE DEF u, h
  <2>3. u >= 0 /\ h >= 0
    <3>1. PICK a \in 0 .. 255, b \in 0 .. 255 : a = last.a /\ b = last.b
      BY <1>2
    <3>2. u = a + b + c /\ h = i + j + c
      BY <1>9, <2>1, <3>1
    <3> QED
      BY <1>3, <3>2
  <2> QED
    BY <1>2, <1>3, <1>6, <1>8, <1>10, <2>1, <2>2, <2>3 DEF Added
<1>11. CASE last.op \in {"Sub", "Sbb"}
  <2>1. u = last.a - last.b - c /\ h = (last.a % 16) - (last.b % 16) - c
    BY <1>11 DEF Exact
  <2>2. acc = (last.a - last.b - c) % 256
    BY <1>4, <1>11 DEF LastSum, Trunc
  <2> HIDE DEF u, h
  <2>3. u < 256 /\ h < 16
    <3>1. PICK a \in 0 .. 255, b \in 0 .. 255 : a = last.a /\ b = last.b
      BY <1>2
    <3>2. u = a - b - c /\ h = i - j - c
      BY <1>9, <2>1, <3>1
    <3> QED
      BY <1>3, <3>2
  <2> QED
    BY <1>2, <1>3, <1>6, <1>8, <1>11, <2>1, <2>2, <2>3 DEF Taken
<1> QED
  BY <1>10, <1>11

(* Every operation keeps it.                                                *)
LEMMA DecimalInvStep == DecimalInv /\ [Next]_vars => DecimalInv'
<1> SUFFICES ASSUME DecimalInv, [Next]_vars PROVE LastSum' /\ LastAdjusted'
  BY UnitInvStep DEF DecimalInv
<1>0. UnitInv /\ LastSum /\ LastAdjusted
  BY DEF DecimalInv
<1>1. ASSUME last'.op \notin {"Add", "Adc", "Sub", "Sbb", "Daa", "Das"} PROVE LastSum' /\ LastAdjusted'
  BY <1>1 DEF LastSum, LastAdjusted
<1>2. CASE BinaryOp
  <2>1. PICK op \in Binary, w \in Widths, b \in Operands :
          Fits(acc, w) /\ Fits(b, w) /\ Did(op, w, b) /\ acc' = Alu(op, acc, b, w, flags).r
    BY <1>2 DEF BinaryOp, Took
  <2>2. last'.op = op /\ last'.w = w /\ last'.a = acc /\ last'.b = b /\ last'.f = flags
    BY <2>1, DidFact
  <2>3. LastAdjusted'
    BY <2>2 DEF LastAdjusted, Binary
  <2>4. PICK c : c = Carry(flags)
    OBVIOUS
  <2>5. /\ Alu("Add", acc, b, w, flags).r = Trunc(acc + b, w) /\ Alu("Adc", acc, b, w, flags).r = Trunc(acc + b + c, w)
        /\ Alu("Sub", acc, b, w, flags).r = Trunc(acc - b, w) /\ Alu("Sbb", acc, b, w, flags).r = Trunc(acc - b - c, w)
    <3>1. IsWidth(w)
      BY WidthFact
    <3> QED
      BY <2>1, <2>4, <3>1, AdditiveResult
  <2>6. acc + b + 0 = acc + b /\ acc - b - 0 = acc - b
    <3>1. acc \in Int /\ b \in Int
      BY <2>1, WidthFact DEF Fits, IsWidth
    <3> QED
      BY <3>1
  <2>7. LastSum'
    <3>1. CASE op = "Add"
      BY <2>1, <2>2, <2>5, <2>6, <3>1 DEF LastSum
    <3>2. CASE op = "Adc"
      BY <2>1, <2>2, <2>4, <2>5, <3>2 DEF LastSum
    <3>3. CASE op = "Sub"
      BY <2>1, <2>2, <2>5, <2>6, <3>3 DEF LastSum
    <3>4. CASE op = "Sbb"
      BY <2>1, <2>2, <2>4, <2>5, <3>4 DEF LastSum
    <3>5. CASE op \notin {"Add", "Adc", "Sub", "Sbb"}
      BY <2>2, <3>5 DEF LastSum
    <3> QED
      BY <3>1, <3>2, <3>3, <3>4, <3>5
  <2> QED
    BY <2>3, <2>7
<1>3. CASE ShiftOp
  <2>1. PICK op \in ShiftOps \cup Rotates, n \in Counts : Did(op, 1, n)
    BY <1>3 DEF ShiftOp
  <2> QED
    BY <1>1, <2>1, DidFact DEF ShiftOps, Rotates
<1>4. CASE UnaryOp
  <2>1. PICK op \in Unary, w \in Widths : Did(op, w, 0)
    BY <1>4 DEF UnaryOp
  <2> QED
    BY <1>1, <2>1, DidFact DEF Unary
<1>5. CASE MulOp
  <2>1. PICK op \in {"Mul", "Imul"}, b \in Operands : Did(op, 1, b)
    BY <1>5 DEF MulOp
  <2> QED
    BY <1>1, <2>1, DidFact
<1>6. CASE DivOp
  <2>1. PICK op \in {"Div", "Idiv"}, b \in Operands : Did(op, 1, b)
    BY <1>6 DEF DivOp
  <2> QED
    BY <1>1, <2>1, DidFact
<1>7. CASE DecimalOp
  <2>1. PICK op \in {"Daa", "Das", "Aaa", "Aas", "Aam", "Aad"}, imm \in {0, 10} :
          /\ Did(op, 1, imm)
          /\ acc' = BcdApply(op, acc, high, Eflags(flags), imm).al
          /\ flags' = IF BcdApply(op, acc, high, Eflags(flags), imm).ok
                      THEN SetExplicit(BcdApply(op, acc, high, Eflags(flags), imm).e) ELSE flags
    BY <1>7 DEF DecimalOp
  <2>2. last'.op = op
    BY <2>1, DidFact
  <2>3. LastSum'
    BY <2>2 DEF LastSum
  <2>4. op \in {"Daa", "Das"} =>
          /\ last'.before = (IF last.w = 1 THEN last.op ELSE "none")
          /\ last'.x = last.a /\ last'.y = last.b /\ last'.c = Carry(last.f)
    BY <2>1 DEF Did, Nothing
  <2>5. PICK c : c = (IF last.op \in {"Adc", "Sbb"} THEN Carry(last.f) ELSE 0)
    OBVIOUS
  <2>6. PICK e : e = Eflags(flags)
    OBVIOUS
  <2>7. CASE op = "Daa" /\ last'.before \in {"Add", "Adc"}
    <3>1. last.w = 1 /\ last.op \in {"Add", "Adc"} /\ last'.before = last.op
      BY <2>4, <2>7
    <3>2. /\ last.a \in 0 .. 255 /\ last.b \in 0 .. 255 /\ Carry(last.f) \in 0 .. 1
          /\ Added(acc, e, last.a, last.b, c)
      BY <1>0, <2>5, <2>6, <3>1, AdjustFinds
    <3>3. c = CarriedIn(last')
      BY <2>4, <2>5, <2>7, <3>1 DEF CarriedIn
    <3>4. acc' = Daa(acc, high, e).al /\ flags' = SetExplicit(Daa(acc, high, e).e)
      <4>1. BcdApply(op, acc, high, e, imm) = Daa(acc, high, e)
        BY <2>7 DEF BcdApply
      <4>2. Daa(acc, high, e).ok
        BY DEF Daa
      <4> QED
        BY <2>1, <2>6, <4>1, <4>2
    <3>5. Given(last')
      BY <2>4, <2>7, <3>2 DEF Given
    <3>6. Added(acc, e, last'.x, last'.y, CarriedIn(last'))
      BY <2>4, <2>7, <3>2, <3>3
    <3>7. \E al, ah, g : /\ Added(al, g, last'.x, last'.y, CarriedIn(last'))
                         /\ acc' = Daa(al, ah, g).al /\ flags' = SetExplicit(Daa(al, ah, g).e)
      BY <3>4, <3>6
    <3> QED
      BY <2>2, <2>3, <2>7, <3>5, <3>7 DEF LastAdjusted
  <2>8. CASE op = "Das" /\ last'.before \in {"Sub", "Sbb"}
    <3>1. last.w = 1 /\ last.op \in {"Sub", "Sbb"} /\ last'.before = last.op
      BY <2>4, <2>8
    <3>2. /\ last.a \in 0 .. 255 /\ last.b \in 0 .. 255 /\ Carry(last.f) \in 0 .. 1
          /\ Taken(acc, e, last.a, last.b, c)
      BY <1>0, <2>5, <2>6, <3>1, AdjustFinds
    <3>3. c = CarriedIn(last')
      BY <2>4, <2>5, <2>8, <3>1 DEF CarriedIn
    <3>4. acc' = Das(acc, high, e).al /\ flags' = SetExplicit(Das(acc, high, e).e)
      <4>1. BcdApply(op, acc, high, e, imm) = Das(acc, high, e)
        BY <2>8 DEF BcdApply
      <4>2. Das(acc, high, e).ok
        BY DEF Das
      <4> QED
        BY <2>1, <2>6, <4>1, <4>2
    <3>5. Given(last')
      BY <2>4, <2>8, <3>2 DEF Given
    <3>6. Taken(acc, e, last'.x, last'.y, CarriedIn(last'))
      BY <2>4, <2>8, <3>2, <3>3
    <3>7. \E al, ah, g : /\ Taken(al, g, last'.x, last'.y, CarriedIn(last'))
                         /\ acc' = Das(al, ah, g).al /\ flags' = SetExplicit(Das(al, ah, g).e)
      BY <3>4, <3>6
    <3> QED
      BY <2>2, <2>3, <2>8, <3>5, <3>7 DEF LastAdjusted
  <2>9. CASE ~(op = "Daa" /\ last'.before \in {"Add", "Adc"}) /\ ~(op = "Das" /\ last'.before \in {"Sub", "Sbb"})
    BY <2>2, <2>3, <2>9 DEF LastAdjusted
  <2> QED
    BY <2>7, <2>8, <2>9
<1>8. CASE BitOp
  <2>1. PICK op \in {"Bt", "Bts", "Btr", "Btc"}, i \in Counts : Did(op, 1, i)
    BY <1>8 DEF BitOp
  <2> QED
    BY <1>1, <2>1, DidFact
<1>9. CASE ScanOp
  <2>1. PICK reverse \in BOOLEAN, b \in Operands : Did(IF reverse THEN "Bsr" ELSE "Bsf", 1, b)
    BY <1>9 DEF ScanOp
  <2> QED
    BY <1>1, <2>1, DidFact
<1>10. CASE DoubleOp
  <2>1. PICK left \in BOOLEAN, n \in Counts : Did(IF left THEN "Shld" ELSE "Shrd", 1, n)
    BY <1>10 DEF DoubleOp
  <2> QED
    BY <1>1, <2>1, DidFact
<1>11. CASE UNCHANGED vars
  BY <1>0, <1>11 DEF vars, LastSum, LastAdjusted
<1> QED
  BY <1>2, <1>3, <1>4, <1>5, <1>6, <1>7, <1>8, <1>9, <1>10, <1>11 DEF Next

(* The accumulator and the flags after an adjustment are those DAA or DAS  *)
(* makes of the sum or difference of the two bytes before it.              *)
THEOREM DecimalInvariant == Spec => []DecimalInv
  BY DecimalInvInit, DecimalInvStep, PTL DEF Spec

(* bcd.c: adding or subtracting two-digit decimals and adjusting gives the *)
(* decimal sum or difference, and CF the decimal carry.                    *)
THEOREM DecimalsAreRight == Spec => []DecimalExact
<1>1. DecimalInv => DecimalExact
  BY DecimalFromInv DEF DecimalInv
<1> QED
  BY <1>1, DecimalInvariant, PTL

-----------------------------------------------------------------------------
(* Shifts and rotates.                                                      *)

(* The powers a byte and its carry need.                                    *)
LEMMA PowerTable ==
  /\ Power(0) = 1 /\ Power(1) = 2 /\ Power(2) = 4 /\ Power(3) = 8 /\ Power(4) = 16
  /\ Power(5) = 32 /\ Power(6) = 64 /\ Power(7) = 128 /\ Power(8) = 256 /\ Power(9) = 512
<1>1. Bits(1) = 8
  BY OctetFact
<1>2. Power(0) = 1 /\ \A n \in 0 .. 8 : Power(n + 1) = 2 * Power(n)
  BY <1>1, WidthsAssumption
<1>3. Power(0 + 1) = 2 /\ Power(1 + 1) = 4 /\ Power(2 + 1) = 8 /\ Power(3 + 1) = 16
  BY <1>2
<1>4. Power(1) = 2 /\ Power(2) = 4 /\ Power(3) = 8 /\ Power(4) = 16
  BY <1>3
<1>5. Power(4 + 1) = 32 /\ Power(5 + 1) = 64 /\ Power(6 + 1) = 128 /\ Power(7 + 1) = 256 /\ Power(8 + 1) = 512
  BY <1>2, <1>4
<1> QED
  BY <1>2, <1>4, <1>5

\* The widths that rotate: a byte, and a byte with the carry.
Turns == {8, 9}

(* They split into a power and the rest.                                    *)
LEMMA PowerSplit ==
  ASSUME NEW n \in Turns, NEW j \in 0 .. n
  PROVE  /\ Power(j) \in Nat \ {0} /\ Power(n - j) \in Nat \ {0} /\ Power(n) = Power(j) * Power(n - j)
         /\ j < n => Power(j + 1) = 2 * Power(j) /\ Power(n - j) = 2 * Power(n - (j + 1)) /\ Power(n - (j + 1)) \in Nat \ {0}
<1>1. CASE n = 8
  <2>1. j \in 0 .. 8
    BY <1>1
  <2>2. j = 0 \/ j = 1 \/ j = 2 \/ j = 3 \/ j = 4 \/ j = 5 \/ j = 6 \/ j = 7 \/ j = 8
    BY <2>1
  <2> QED
    BY <1>1, <2>2, PowerTable
<1>2. CASE n = 9
  <2>1. j \in 0 .. 9
    BY <1>2
  <2>2. j = 0 \/ j = 1 \/ j = 2 \/ j = 3 \/ j = 4 \/ j = 5 \/ j = 6 \/ j = 7 \/ j = 8 \/ j = 9
    BY <2>1
  <2> QED
    BY <1>2, <2>2, PowerTable
<1> QED
  BY <1>1, <1>2 DEF Turns

\* x of n bits turned left by j.
Turned(x, j, n) == ((x * Power(j)) % Power(n)) + (x \div Power(n - j))

\* Turning exchanges the two parts of a word.
Exchanged(hi, lo, m, k) ==
  /\ ((hi * k + lo) * m) % (m * k) = lo * m
  /\ (hi * k + lo) \div k = hi
  /\ lo * m + hi \in 0 .. m * k - 1
  /\ m * k \in Nat \ {0}

(* It does, whatever the two parts.                                         *)
LEMMA Exchange ==
  ASSUME NEW m \in Nat \ {0}, NEW k \in Nat \ {0}, NEW hi \in 0 .. m - 1, NEW lo \in 0 .. k - 1
  PROVE  Exchanged(hi, lo, m, k)
<1>1. (hi * k + lo) * m = (m * k) * hi + lo * m
  OBVIOUS
<1>2. lo * m \in 0 .. m * k - m /\ m * k \in Nat \ {0}
  <2>1. lo * m <= (k - 1) * m /\ lo * m >= 0
    OBVIOUS
  <2>2. (k - 1) * m = m * k - m
    OBVIOUS
  <2>3. lo * m \in Int /\ m * k \in Int /\ m * k > 0
    OBVIOUS
  <2> QED
    BY <2>1, <2>2, <2>3
<1>3. PICK n \in Nat \ {0} : n = m * k
  BY <1>2
<1>4. PICK s \in 0 .. n - 1 : s = lo * m
  BY <1>2, <1>3
<1>5. (n * hi + s) % n = s
  OBVIOUS
<1>6. (hi * k + lo) \div k = hi
  <2>1. (k * hi + lo) \div k = hi
    BY DivUnique
  <2>2. k * hi = hi * k
    OBVIOUS
  <2> QED
    BY <2>1, <2>2
<1>7. ((hi * k + lo) * m) % (m * k) = lo * m
  BY <1>1, <1>3, <1>4, <1>5
<1>8. lo * m + hi \in 0 .. m * k - 1
  BY <1>2
<1> QED
  BY <1>2, <1>6, <1>7, <1>8 DEF Exchanged

(* The parts of a word turned by j.                                         *)
LEMMA TurnParts ==
  ASSUME NEW n \in Turns, NEW j \in 0 .. n, NEW x \in 0 .. Power(n) - 1
  PROVE  \E hi \in 0 .. Power(j) - 1, lo \in 0 .. Power(n - j) - 1 :
           x = hi * Power(n - j) + lo /\ Turned(x, j, n) = lo * Power(j) + hi
<1>1. PICK m \in Nat \ {0}, k \in Nat \ {0} : m = Power(j) /\ k = Power(n - j) /\ Power(n) = m * k
  BY PowerSplit
<1>2. PICK hi \in Int, lo \in 0 .. k - 1 : hi = x \div k /\ x = k * hi + lo
  <2>1. x \in Int
    BY <1>1
  <2>2. x \div k \in Int /\ x % k \in 0 .. k - 1 /\ x = k * (x \div k) + (x % k)
    BY <2>1, DivMod
  <2> QED
    BY <2>2
<1>3. hi \in 0 .. m - 1
  <2>1. x \in 0 .. m * k - 1
    BY <1>1
  <2>2. hi >= 0
    <3>1. hi < 0 => k * hi <= -k
      OBVIOUS
    <3>2. k * hi \in Int
      OBVIOUS
    <3> QED
      BY <1>2, <2>1, <3>1, <3>2
  <2>3. hi < m
    <3>1. hi >= m => k * hi >= k * m
      OBVIOUS
    <3>2. k * m = m * k /\ k * hi \in Int /\ m * k \in Int
      OBVIOUS
    <3> QED
      BY <1>2, <2>1, <3>1, <3>2
  <2> QED
    BY <2>2, <2>3
<1>4. x = hi * k + lo
  <2>1. k * hi = hi * k
    OBVIOUS
  <2> QED
    BY <1>2, <2>1
<1>5. Turned(x, j, n) = lo * m + hi
  <2>0. Exchanged(hi, lo, m, k)
    BY <1>3, Exchange
  <2>1. ((hi * k + lo) * m) % (m * k) = lo * m /\ (hi * k + lo) \div k = hi
    BY <2>0 DEF Exchanged
  <2>2. (x * m) % (m * k) = lo * m /\ x \div k = hi
    BY <1>4, <2>1
  <2>3. Turned(x, j, n) = ((x * m) % (m * k)) + (x \div k)
    BY <1>1 DEF Turned
  <2> QED
    BY <2>2, <2>3
<1> QED
  BY <1>1, <1>3, <1>4, <1>5

\* One bit to the left, the top one coming round, and one bit back.
Left(y, n) == ((2 * y) % Power(n)) + (y \div Power(n - 1))
Right(y, n) == (y \div 2) + (y % 2) * Power(n - 1)

(* It is a word.                                                            *)
LEMMA TurnRange ==
  ASSUME NEW n \in Turns, NEW j \in 0 .. n, NEW x \in 0 .. Power(n) - 1
  PROVE  Turned(x, j, n) \in 0 .. Power(n) - 1
<1>1. PICK m \in Nat \ {0}, k \in Nat \ {0} : m = Power(j) /\ k = Power(n - j) /\ Power(n) = m * k
  BY PowerSplit
<1>2. PICK hi \in 0 .. m - 1, lo \in 0 .. k - 1 : Turned(x, j, n) = lo * m + hi
  BY <1>1, TurnParts
<1>3. Exchanged(hi, lo, m, k)
  BY Exchange
<1>4. lo * m + hi \in 0 .. m * k - 1
  BY <1>3 DEF Exchanged
<1> QED
  BY <1>1, <1>2, <1>4

(* One more bit.                                                            *)
LEMMA TurnStep ==
  ASSUME NEW n \in Turns, NEW j \in 0 .. n - 1, NEW x \in 0 .. Power(n) - 1
  PROVE  Turned(x, j + 1, n) = Left(Turned(x, j, n), n)
<1>0. n \in Nat /\ j \in 0 .. n /\ j + 1 \in 0 .. n /\ j < n
  BY DEF Turns
<1>1. PICK m \in Nat \ {0}, k \in Nat \ {0} : /\ m = Power(j) /\ k = Power(n - (j + 1))
                                             /\ Power(j + 1) = 2 * m /\ Power(n - j) = 2 * k
                                             /\ Power(n) = m * (2 * k)
  BY <1>0, PowerSplit
<1>2. PICK hi \in 0 .. m - 1, lo \in 0 .. 2 * k - 1 : x = hi * (2 * k) + lo /\ Turned(x, j, n) = lo * m + hi
  BY <1>0, <1>1, TurnParts
<1>3. PICK t \in {0, 1}, l \in 0 .. k - 1 : lo = t * k + l
  <2>1. CASE lo < k
    <3>1. lo = 0 * k + lo
      OBVIOUS
    <3> QED
      BY <2>1, <3>1
  <2>2. CASE lo >= k
    <3>1. lo = 1 * k + (lo - k) /\ lo - k \in 0 .. k - 1
      BY <2>2
    <3> QED
      BY <3>1
  <2> QED
    BY <2>1, <2>2
<1>4. PICK p \in Nat \ {0} : p = m * k
  <2>1. m * k \in Nat \ {0}
    OBVIOUS
  <2> QED
    BY <2>1
<1>5. PICK q \in 0 .. p - m : q = l * m
  <2>1. l * m <= (k - 1) * m /\ l * m >= 0 /\ l * m \in Int
    OBVIOUS
  <2>2. (k - 1) * m = m * k - m
    OBVIOUS
  <2> QED
    BY <1>4, <2>1, <2>2
<1>6. /\ lo * m = t * p + q
      /\ x = (2 * hi + t) * k + l
      /\ Power(n) = 2 * p
  <2>1. (t * k + l) * m = t * (m * k) + l * m
    OBVIOUS
  <2>2. hi * (2 * k) + (t * k + l) = (2 * hi + t) * k + l
    OBVIOUS
  <2>3. m * (2 * k) = 2 * (m * k)
    OBVIOUS
  <2> QED
    BY <1>1, <1>2, <1>3, <1>4, <1>5, <2>1, <2>2, <2>3
<1>7. Turned(x, j + 1, n) = 2 * q + (2 * hi + t)
  <2>1. 2 * hi + t \in 0 .. 2 * m - 1 /\ 2 * m \in Nat \ {0}
    OBVIOUS
  <2>2. PICK g \in 0 .. 2 * m - 1 : g = 2 * hi + t
    BY <2>1
  <2>3. PICK r \in Nat \ {0} : r = 2 * m
    BY <2>1
  <2>4. ((g * k + l) * r) % (r * k) = l * r /\ (g * k + l) \div k = g
    <3>1. Exchanged(g, l, r, k)
      BY <2>2, <2>3, Exchange
    <3> QED
      BY <3>1 DEF Exchanged
  <2>5. Turned(x, j + 1, n) = ((x * r) % (r * k)) + (x \div k)
    <3>1. (2 * m) * k = m * (2 * k)
      OBVIOUS
    <3> QED
      BY <1>1, <2>3, <3>1 DEF Turned
  <2>6. l * r = 2 * q
    <3>1. l * (2 * m) = 2 * (l * m)
      OBVIOUS
    <3> QED
      BY <1>5, <2>3, <3>1
  <2> QED
    BY <1>6, <2>2, <2>4, <2>5, <2>6
<1>8. PICK y : y = Turned(x, j, n) /\ y = t * p + (q + hi)
  BY <1>2, <1>5, <1>6
<1>9. q + hi \in 0 .. p - 1
  BY <1>5
<1>10. y \in 0 .. 2 * p - 1 /\ (y >= p <=> t = 1) /\ y - t * p = q + hi
  BY <1>8, <1>9
<1>11. Power(n - 1) = p
  <2>1. 1 \in 0 .. n /\ 0 \in 0 .. n /\ 0 < n /\ n - 0 = n /\ 0 + 1 = 1
    BY <1>0 DEF Turns
  <2>2. Power(n - 0) = 2 * Power(n - (0 + 1)) /\ Power(n - (0 + 1)) \in Nat \ {0}
    BY <2>1, PowerSplit
  <2> QED
    BY <1>6, <2>1, <2>2
<1>12. Left(y, n) = 2 * (q + hi) + t
  <2>1. Left(y, n) = ((2 * y) % (2 * p)) + (y \div p)
    BY <1>6, <1>11 DEF Left
  <2>2. CASE t = 0
    <3>1. 2 * y \in 0 .. 2 * p - 1 /\ y \in 0 .. p - 1 /\ y = q + hi
      BY <1>8, <1>9, <2>2
    <3>2. (2 * y) % (2 * p) = 2 * y /\ y \div p = 0
      BY <3>1
    <3> QED
      BY <2>1, <2>2, <3>1, <3>2
  <2>3. CASE t = 1
    <3>1. PICK z \in 0 .. p - 1 : z = q + hi /\ y = p * 1 + z
      BY <1>8, <1>9, <2>3
    <3>2. y \div p = 1
      BY <3>1, DivUnique
    <3>3. PICK r \in Nat \ {0} : r = 2 * p
      OBVIOUS
    <3>4. 2 * z \in 0 .. r - 1 /\ 2 * y = r + 2 * z
      BY <3>1, <3>3
    <3>5. (r + 2 * z) % r = 2 * z
      BY <3>4
    <3> QED
      BY <2>1, <2>3, <3>1, <3>2, <3>3, <3>4, <3>5
  <2> QED
    BY <2>2, <2>3
<1> QED
  BY <1>5, <1>7, <1>8, <1>12

(* All the way round, and not at all.                                       *)
LEMMA TurnWhole ==
  ASSUME NEW n \in Turns, NEW x \in 0 .. Power(n) - 1
  PROVE  Turned(x, 0, n) = x /\ Turned(x, n, n) = x
<1>1. n \in Nat /\ n - 0 = n /\ n - n = 0 /\ Power(0) = 1
  BY PowerTable DEF Turns
<1>2. PICK p \in Nat \ {0} : p = Power(n)
  BY <1>1, PowerSplit
<1>3. (x * 1) % p = x /\ x \div p = 0 /\ (x * p) % p = 0 /\ x \div 1 = x
  <2>1. x \in 0 .. p - 1
    BY <1>2
  <2>2. x * 1 = x /\ x \div 1 = x /\ x % p = x /\ x \div p = 0
    BY <2>1
  <2>3. (p * x + 0) % p = 0
    BY <2>1
  <2>4. x * p = p * x + 0
    BY <2>1
  <2> QED
    BY <2>2, <2>3, <2>4
<1>4. Turned(x, 0, n) = ((x * 1) % p) + (x \div p) /\ Turned(x, n, n) = ((x * p) % p) + (x \div 1)
  BY <1>1, <1>2 DEF Turned
<1> QED
  BY <1>2, <1>3, <1>4

(* The way back.                                                            *)
LEMMA TurnBack ==
  ASSUME NEW n \in Turns, NEW y \in 0 .. Power(n) - 1
  PROVE  /\ Right(Left(y, n), n) = y
         /\ Left(y, n) % 2 = y \div Power(n - 1)
<1>1. PICK h \in {128, 256} : Power(n) = 2 * h /\ Power(n - 1) = h
  BY PowerTable DEF Turns
<1>2. PICK t \in {0, 1}, z \in 0 .. h - 1 : y = h * t + z
  <2>1. y \in 0 .. 2 * h - 1
    BY <1>1
  <2>2. CASE y < h
    BY <2>1, <2>2
  <2>3. CASE y >= h
    <3>1. y - h \in 0 .. h - 1 /\ y = h * 1 + (y - h)
      BY <2>1, <2>3
    <3> QED
      BY <3>1
  <2> QED
    BY <2>2, <2>3
<1>3. y \div h = t
  BY <1>2
<1>4. (2 * y) % (2 * h) = 2 * z
  BY <1>2
<1>5. Left(y, n) = 2 * z + t
  BY <1>1, <1>3, <1>4 DEF Left
<1>6. (2 * z + t) \div 2 = z /\ (2 * z + t) % 2 = t
  OBVIOUS
<1>7. z + t * h = y
  BY <1>2
<1> QED
  BY <1>1, <1>3, <1>5, <1>6, <1>7 DEF Right

-----------------------------------------------------------------------------
(* One bit at a time. *)

(* F is the course of n moves by one bit.                                   *)
IsCourse(F, op, a, c, n) ==
  /\ F = [k \in 0 .. n |-> F[k]]
  /\ F[0] = <<a, c>>
  /\ \A k \in 0 .. n - 1 : F[k + 1] = OneBit(op, F[k], 1)

\* One turn of the function that moves one bit at a time.
MoveStep(g, op, a, c, n) == [k \in 0 .. n |-> IF k = 0 THEN <<a, c>> ELSE OneBit(op, g[k - 1], 1)]

(* There is one course.                                                     *)
LEMMA MovedIs ==
  ASSUME NEW op, NEW a, NEW c, NEW n \in Nat, NEW F, IsCourse(F, op, a, c, n)
  PROVE  Moved(op, a, c, n, 1) = F[n]
<1>1. F = MoveStep(F, op, a, c, n)
  <2>1. ASSUME NEW k \in 0 .. n PROVE F[k] = IF k = 0 THEN <<a, c>> ELSE OneBit(op, F[k - 1], 1)
    <3>1. CASE k = 0
      BY <3>1 DEF IsCourse
    <3>2. CASE k # 0
      <4>1. k - 1 \in 0 .. n - 1 /\ (k - 1) + 1 = k
        BY <3>2
      <4>2. F[(k - 1) + 1] = OneBit(op, F[k - 1], 1)
        BY <4>1, Zenon DEF IsCourse
      <4> QED
        BY <3>2, <4>1, <4>2, Zenon
    <3> QED
      BY <3>1, <3>2
  <2> QED
    BY <2>1, Zenon DEF IsCourse, MoveStep
<1> DEFINE G == CHOOSE g : g = MoveStep(g, op, a, c, n)
<1>2. G = MoveStep(G, op, a, c, n)
  BY <1>1
<1>3. Moved(op, a, c, n, 1) = G[n]
  BY Zenon DEF Moved, MoveStep
<1> HIDE DEF G
<1> DEFINE T == {k \in 0 .. n : G[k] = F[k]}
<1>4. 0 \in T
  <2>1. 0 \in 0 .. n
    OBVIOUS
  <2> QED
    BY <1>1, <1>2, <2>1, Zenon DEF MoveStep
<1>5. ASSUME NEW k \in 0 .. n - 1, k \in T PROVE k + 1 \in T
  <2>1. k + 1 \in 0 .. n /\ k + 1 # 0 /\ (k + 1) - 1 = k
    OBVIOUS
  <2>2. G[k + 1] = OneBit(op, G[(k + 1) - 1], 1) /\ F[k + 1] = OneBit(op, F[(k + 1) - 1], 1)
    BY <1>1, <1>2, <2>1, Zenon DEF MoveStep
  <2> QED
    BY <1>5, <2>1, <2>2, Zenon
<1>6. 0 .. n \subseteq T
  <2> HIDE DEF T
  <2> QED
    BY <1>4, <1>5, InductionInterval
<1> QED
  BY <1>3, <1>6

\* The shifts and rotates.
Movers == ShiftOps \cup Rotates

\* One bit of the byte y, with the carry s.
ByteMoves(y, s) ==
  /\ OneBit("Shl", <<y, s>>, 1) = <<(2 * y) % 256, y \div 128>>
  /\ OneBit("Shr", <<y, s>>, 1) = <<y \div 2, y % 2>>
  /\ OneBit("Sar", <<y, s>>, 1) = <<(y \div 2) + (y \div 128) * 128, y % 2>>
  /\ OneBit("Rol", <<y, s>>, 1) = <<((2 * y) % 256) + (y \div 128), y \div 128>>
  /\ OneBit("Ror", <<y, s>>, 1) = <<(y \div 2) + (y % 2) * 128, y % 2>>
  /\ OneBit("Rcl", <<y, s>>, 1) = <<((2 * y) % 256) + s, y \div 128>>
  /\ OneBit("Rcr", <<y, s>>, 1) = <<(y \div 2) + s * 128, y % 2>>

(* Each kind of move, of a byte.                                            *)
LEMMA OneBitFact ==
  ASSUME NEW y \in 0 .. 255, NEW s
  PROVE  ByteMoves(y, s)
<1>1. Msb(y, 1) = y \div 128
  <2>1. (y \div 128) % 2 = y \div 128
    OBVIOUS
  <2> QED
    BY <2>1, OctetFact DEF Msb, Bit
<1>2. Trunc(2 * y, 1) = (2 * y) % 256 /\ Power(Bits(1) - 1) = 128
  BY OctetFact DEF Trunc
<1> QED
  BY <1>1, <1>2 DEF OneBit, ByteMoves

\* A shift or rotate of the byte a leaves what its count of moves by one bit does.
Stepwise(op, a, b, f) ==
  LET m == Moved(op, a, Carry(f), MaskedCount(b), 1)
      r == Alu(op, a, b, 1, f)
  IN  MaskedCount(b) > 0 => r.r = m[1] /\ Carry(r.f) = m[2]

\* F is the course of the moves, and its end is what the operation leaves.
EndsAs(F, op, a, b, f) ==
  /\ IsCourse(F, op, a, Carry(f), b % 32)
  /\ b % 32 > 0 => /\ Alu(op, a, b, 1, f).r = F[b % 32][1]
                   /\ Carry(Alu(op, a, b, 1, f).f) = F[b % 32][2]

(* From the course of the moves.                                            *)
LEMMA StepwiseFact ==
  ASSUME NEW op, NEW a, NEW b \in Nat, NEW f, NEW F, EndsAs(F, op, a, b, f)
  PROVE  Stepwise(op, a, b, f)
<1>1. MaskedCount(b) = b % 32
  BY OctetAssumption DEF MaskedCount, Bits
<1>2. PICK n \in Nat : n = b % 32
  OBVIOUS
<1>3. Moved(op, a, Carry(f), n, 1) = F[n]
  <2>1. PICK c : c = Carry(f)
    OBVIOUS
  <2>2. IsCourse(F, op, a, c, n)
    BY <1>2, <2>1 DEF EndsAs
  <2>3. Moved(op, a, c, n, 1) = F[n]
    BY <2>2, MovedIs
  <2> QED
    BY <2>1, <2>3
<1> QED
  BY <1>1, <1>2, <1>3 DEF Stepwise, EndsAs

(* A rotate changes the carry to the bit it names.                          *)
LEMMA CarrySet ==
  ASSUME NEW f, NEW v \in {0, 1}, NEW of
  PROVE  Carry(SetCfOfOnly(f, v = 1, of)) = v
  BY DEF SetCfOfOnly, SetExplicit, CF, Carry, Shifts

(* A carry is a bit.                                                        *)
LEMMA CarryBit ==
  ASSUME NEW f
  PROVE  Carry(f) \in {0, 1} /\ Carry(f) = IF CF(f) THEN 1 ELSE 0
  BY DEF Carry

\* The count an operation uses.
IsCount(n, b) == n = b % 32

\* What the rotates by n leave.
RotatesTo(a, b, f, n) ==
  /\ LET y == Turned(a, n % 8, 8) IN
       Alu("Rol", a, b, 1, f).r = y /\ Carry(Alu("Rol", a, b, 1, f).f) = y % 2
  /\ LET y == Turned(a, (8 - (n % 8)) % 8, 8) IN
       Alu("Ror", a, b, 1, f).r = y /\ Carry(Alu("Ror", a, b, 1, f).f) = y \div 128

(* They do.                                                                 *)
LEMMA RotateResult ==
  ASSUME NEW a \in 0 .. 255, NEW b \in Nat, NEW f, NEW n \in 1 .. 31, IsCount(n, b)
  PROVE  RotatesTo(a, b, f, n)
<1>1. Trunc(a, 1) = a /\ MaskedCount(Trunc(b, 1)) = n /\ Bits(1) = 8
  <2>1. (b % 256) % 32 = b % 32
    OBVIOUS
  <2>2. MaskedCount(b % 256) = (b % 256) % 32
    BY OctetAssumption DEF MaskedCount, Bits
  <2> QED
    BY <2>1, <2>2, ByteFact, OctetFact DEF IsCount
<1>2. PICK i \in 0 .. 8 : i = n % 8
  OBVIOUS
<1>3. PICK j \in 0 .. 8 : j = (8 - i) % 8
  BY <1>2
<1>4. ASSUME NEW l \in 0 .. 8
      PROVE  /\ Trunc(a * Power(l), 1) + a \div Power(8 - l) = Turned(a, l, 8)
             /\ Turned(a, l, 8) \in 0 .. 255
             /\ Msb(Turned(a, l, 8), 1) = Turned(a, l, 8) \div 128
             /\ Turned(a, l, 8) \div 128 \in {0, 1} /\ Turned(a, l, 8) % 2 \in {0, 1}
  <2>1. Trunc(a * Power(l), 1) + a \div Power(8 - l) = Turned(a, l, 8)
    BY <1>1 DEF Trunc, Turned
  <2>2. Power(8) = 256 /\ 8 \in Turns
    BY PowerTable DEF Turns
  <2>3. PICK y : y = Turned(a, l, 8)
    OBVIOUS
  <2>4. y \in 0 .. 255
    <3>1. a \in 0 .. Power(8) - 1
      BY <2>2
    <3>2. Turned(a, l, 8) \in 0 .. Power(8) - 1
      BY <2>2, <3>1, TurnRange
    <3> QED
      BY <2>2, <2>3, <3>2
  <2>5. Msb(y, 1) = (y \div 128) % 2
    BY OctetFact DEF Msb, Bit
  <2>6. (y \div 128) % 2 = y \div 128 /\ y \div 128 \in {0, 1} /\ y % 2 \in {0, 1}
    BY <2>4
  <2> QED
    BY <2>1, <2>3, <2>4, <2>5, <2>6
<1>5. PICK y : y = Turned(a, i, 8)
  OBVIOUS
<1>6. PICK z : z = Turned(a, j, 8)
  OBVIOUS
<1>7. PICK t : t = Trunc(b, 1) /\ MaskedCount(t) = n
  BY <1>1
<1>8. Alu("Rol", a, b, 1, f) = Rotate("Rol", a, t, 1, f) /\ Alu("Ror", a, b, 1, f) = Rotate("Ror", a, t, 1, f)
  BY <1>1, <1>7 DEF Alu, ShiftOps
<1>9. n # 0 /\ MaskedCount(t) % Bits(1) = i /\ (Bits(1) - i) % Bits(1) = j
  BY <1>1, <1>2, <1>3, <1>7
<1> DEFINE turned(l) == Trunc(a * Power(l), 1) + a \div Power(Bits(1) - l)
<1>12. turned(i) = y /\ turned(j) = z
  BY <1>1, <1>4, <1>5, <1>6
<1>13. Rotate("Rol", a, t, 1, f).r = y /\ \E of : Rotate("Rol", a, t, 1, f).f = SetCfOfOnly(f, y % 2 = 1, of)
  <2>1. \E of : Rotate("Rol", a, t, 1, f) = [r |-> turned(i), f |-> SetCfOfOnly(f, turned(i) % 2 = 1, of)]
    BY <1>7, <1>9, Zenon DEF Rotate
  <2> HIDE DEF turned
  <2> QED
    BY <1>12, <2>1
<1>14. Rotate("Ror", a, t, 1, f).r = z /\ \E of : Rotate("Ror", a, t, 1, f).f = SetCfOfOnly(f, Msb(z, 1) = 1, of)
  <2>1. \E of : Rotate("Ror", a, t, 1, f) = [r |-> turned(j), f |-> SetCfOfOnly(f, Msb(turned(j), 1) = 1, of)]
    BY <1>7, <1>9, Zenon DEF Rotate
  <2> HIDE DEF turned
  <2> QED
    BY <1>12, <2>1
<1>10. Alu("Rol", a, b, 1, f).r = y /\ Carry(Alu("Rol", a, b, 1, f).f) = y % 2
  <2>1. PICK v \in {0, 1} : v = y % 2
    BY <1>4, <1>5
  <2>2. \A of : Carry(SetCfOfOnly(f, v = 1, of)) = v
    BY CarrySet
  <2> QED
    BY <1>8, <1>13, <2>1, <2>2
<1>11. Alu("Ror", a, b, 1, f).r = z /\ Carry(Alu("Ror", a, b, 1, f).f) = z \div 128
  <2>1. PICK v \in {0, 1} : v = z \div 128 /\ Msb(z, 1) = v
    BY <1>4, <1>6
  <2>2. \A of : Carry(SetCfOfOnly(f, v = 1, of)) = v
    BY CarrySet
  <2> QED
    BY <1>8, <1>14, <2>1, <2>2
<1> QED
  BY <1>2, <1>3, <1>5, <1>6, <1>10, <1>11 DEF RotatesTo

\* y and z are x turned by j and by one more, coming round.
IsNext(y, z, x, j, n) == y = Turned(x, j, n) /\ z = Turned(x, (j + 1) % n, n)
\* z is y turned by one bit to the left, h being the weight of the top bit, and y is z turned back.
Round(y, z, h) ==
  /\ y \in 0 .. 2 * h - 1 /\ z \in 0 .. 2 * h - 1
  /\ z = ((2 * y) % (2 * h)) + (y \div h) /\ z % 2 = y \div h
  /\ y = (z \div 2) + (z % 2) * h

(* One step round.                                                          *)
LEMMA TurnRound ==
  ASSUME NEW n \in Turns, NEW j \in 0 .. n - 1, NEW x \in 0 .. Power(n) - 1, NEW y, NEW z, IsNext(y, z, x, j, n)
  PROVE  Round(y, z, Power(n - 1))
<1>1. n \in Nat \ {0} /\ j \in 0 .. n /\ j + 1 \in 0 .. n
  BY DEF Turns
<1>2. PICK h \in Nat \ {0} : h = Power(n - 1) /\ Power(n) = 2 * h
  BY PowerTable DEF Turns
<1>3. y \in 0 .. Power(n) - 1
  BY <1>1, TurnRange DEF IsNext
<1>4. Turned(x, j + 1, n) = Left(Turned(x, j, n), n)
  BY TurnStep
<1>5. Turned(x, (j + 1) % n, n) = Turned(x, j + 1, n)
  <2>1. CASE j + 1 = n
    <3>1. (j + 1) % n = 0
      BY <1>1, <2>1
    <3>2. Turned(x, 0, n) = x /\ Turned(x, n, n) = x
      BY TurnWhole
    <3> QED
      BY <2>1, <3>1, <3>2
  <2>2. CASE j + 1 # n
    <3>1. (j + 1) % n = j + 1
      BY <1>1, <2>2
    <3> QED
      BY <3>1
  <2> QED
    BY <2>1, <2>2
<1>6. z = Turned(x, j + 1, n) /\ z = Left(y, n)
  BY <1>4, <1>5 DEF IsNext
<1>7. z \in 0 .. Power(n) - 1
  <2>1. Turned(x, j + 1, n) \in 0 .. Power(n) - 1
    BY <1>1, TurnRange
  <2> QED
    BY <1>6, <2>1
<1>8. Right(Left(y, n), n) = y /\ Left(y, n) % 2 = y \div Power(n - 1)
  BY <1>3, TurnBack
<1>9. y = (z \div 2) + (z % 2) * h /\ z % 2 = y \div h /\ z = ((2 * y) % (2 * h)) + (y \div h)
  BY <1>2, <1>6, <1>8 DEF Left, Right
<1> QED
  BY <1>2, <1>3, <1>7, <1>9 DEF Round

(* Round a byte, and round a byte and the carry.                            *)
LEMMA TurnByte ==
  ASSUME NEW x \in 0 .. 255, NEW j \in 0 .. 7, NEW y, NEW z, IsNext(y, z, x, j, 8)
  PROVE  Round(y, z, 128)
<1>1. PICK n \in Turns : n = 8 /\ Power(n) = 256 /\ Power(n - 1) = 128
  BY PowerTable DEF Turns
<1>2. j \in 0 .. n - 1 /\ x \in 0 .. Power(n) - 1 /\ IsNext(y, z, x, j, n)
  BY <1>1
<1>3. Round(y, z, Power(n - 1))
  BY <1>2, TurnRound
<1> QED
  BY <1>1, <1>3

(* Round a byte and the carry.                                              *)
LEMMA TurnWide ==
  ASSUME NEW x \in 0 .. 511, NEW j \in 0 .. 8, NEW y, NEW z, IsNext(y, z, x, j, 9)
  PROVE  Round(y, z, 256)
<1>1. PICK n \in Turns : n = 9 /\ Power(n) = 512 /\ Power(n - 1) = 256
  BY PowerTable DEF Turns
<1>2. j \in 0 .. n - 1 /\ x \in 0 .. Power(n) - 1 /\ IsNext(y, z, x, j, n)
  BY <1>1
<1>3. Round(y, z, Power(n - 1))
  BY <1>2, TurnRound
<1> QED
  BY <1>1, <1>3

(* Not turned at all.                                                       *)
LEMMA NotTurned ==
  ASSUME NEW x
  PROVE  /\ x \in 0 .. 255 => Turned(x, 0, 8) = x
         /\ x \in 0 .. 511 => Turned(x, 0, 9) = x
<1>1. 8 \in Turns /\ 9 \in Turns /\ Power(8) = 256 /\ Power(9) = 512
  BY PowerTable DEF Turns
<1>2. ASSUME x \in 0 .. 255 PROVE Turned(x, 0, 8) = x
  <2>1. x \in 0 .. Power(8) - 1
    BY <1>1, <1>2
  <2> QED
    BY <1>1, <2>1, TurnWhole
<1>3. ASSUME x \in 0 .. 511 PROVE Turned(x, 0, 9) = x
  <2>1. x \in 0 .. Power(9) - 1
    BY <1>1, <1>3
  <2> QED
    BY <1>1, <2>1, TurnWhole
<1> QED
  BY <1>2, <1>3

(* ROL.                                                                     *)
LEMMA RolMoves ==
  ASSUME NEW a \in 0 .. 255, NEW b \in Nat, NEW f
  PROVE  Stepwise("Rol", a, b, f)
<1>1. PICK n \in 0 .. 31 : n = b % 32
  OBVIOUS
<1>2. PICK c : c = Carry(f)
  OBVIOUS
<1> DEFINE turned(k) == Turned(a, k % 8, 8)
<1> DEFINE F == [k \in 0 .. n |-> <<turned(k), IF k = 0 THEN c ELSE turned(k) % 2>>]
<1>3. F[0] = <<a, c>>
  <2>1. turned(0) = a
    <3>1. 0 % 8 = 0
      OBVIOUS
    <3>2. Turned(a, 0, 8) = a
      BY NotTurned
    <3> QED
      BY <3>1, <3>2
  <2>2. 0 \in 0 .. n
    BY <1>1
  <2> HIDE DEF turned
  <2> QED
    BY <2>1, <2>2
<1>4. ASSUME NEW k \in 0 .. n - 1 PROVE F[k + 1] = OneBit("Rol", F[k], 1)
  <2>1. PICK i \in 0 .. 7 : i = k % 8 /\ (k + 1) % 8 = (i + 1) % 8
    OBVIOUS
  <2>2. PICK y, z : IsNext(y, z, a, i, 8)
    BY DEF IsNext
  <2>3. Round(y, z, 128)
    BY <2>2, TurnByte
  <2>4. y \in 0 .. 255 /\ z = ((2 * y) % 256) + (y \div 128) /\ z % 2 = y \div 128
    BY <2>3 DEF Round
  <2>5. turned(k) = y /\ turned(k + 1) = z
    BY <2>1, <2>2 DEF IsNext
  <2>6. k + 1 \in 0 .. n /\ k \in 0 .. n /\ k + 1 # 0
    BY <1>1
  <2> HIDE DEF turned
  <2>7. F[k + 1] = <<z, z % 2>> /\ \E s : F[k] = <<y, s>>
    BY <2>5, <2>6
  <2> HIDE DEF F
  <2>8. PICK s : F[k] = <<y, s>>
    BY <2>7
  <2>9. ByteMoves(y, s)
    BY <2>4, OneBitFact
  <2> QED
    BY <2>4, <2>7, <2>8, <2>9 DEF ByteMoves
<1>5. IsCourse(F, "Rol", a, c, n)
  <2>1. F = [k \in 0 .. n |-> F[k]]
    OBVIOUS
  <2> HIDE DEF F
  <2> QED
    BY <1>3, <1>4, <2>1 DEF IsCourse
<1>6. n > 0 => Alu("Rol", a, b, 1, f).r = turned(n) /\ Carry(Alu("Rol", a, b, 1, f).f) = turned(n) % 2
  <2>1. ASSUME n > 0 PROVE RotatesTo(a, b, f, n)
    <3>1. n \in 1 .. 31 /\ IsCount(n, b)
      BY <1>1, <2>1 DEF IsCount
    <3> QED
      BY <3>1, RotateResult
  <2> QED
    BY <2>1 DEF RotatesTo
<1>7. n > 0 => F[n] = <<turned(n), turned(n) % 2>>
  BY <1>1
<1> HIDE DEF F, turned
<1>8. EndsAs(F, "Rol", a, b, f)
  BY <1>1, <1>2, <1>5, <1>6, <1>7 DEF EndsAs
<1> QED
  BY <1>8, StepwiseFact

(* ROR.                                                                     *)
LEMMA RorMoves ==
  ASSUME NEW a \in 0 .. 255, NEW b \in Nat, NEW f
  PROVE  Stepwise("Ror", a, b, f)
<1>1. PICK n \in 0 .. 31 : n = b % 32
  OBVIOUS
<1>2. PICK c : c = Carry(f)
  OBVIOUS
<1> DEFINE turned(k) == Turned(a, (8 - (k % 8)) % 8, 8)
<1> DEFINE F == [k \in 0 .. n |-> <<turned(k), IF k = 0 THEN c ELSE turned(k) \div 128>>]
<1>3. F[0] = <<a, c>>
  <2>1. turned(0) = a
    <3>1. (8 - (0 % 8)) % 8 = 0
      OBVIOUS
    <3>2. Turned(a, 0, 8) = a
      BY NotTurned
    <3> QED
      BY <3>1, <3>2
  <2>2. 0 \in 0 .. n
    BY <1>1
  <2> HIDE DEF turned
  <2> QED
    BY <2>1, <2>2
<1>4. ASSUME NEW k \in 0 .. n - 1 PROVE F[k + 1] = OneBit("Ror", F[k], 1)
  <2>1. PICK i \in 0 .. 7 : i = (8 - ((k + 1) % 8)) % 8 /\ (8 - (k % 8)) % 8 = (i + 1) % 8
    OBVIOUS
  <2>2. PICK y, z : IsNext(y, z, a, i, 8)
    BY DEF IsNext
  <2>3. Round(y, z, 128)
    BY <2>2, TurnByte
  <2>4. z \in 0 .. 255 /\ z % 2 = y \div 128 /\ y = (z \div 2) + (z % 2) * 128
    BY <2>3 DEF Round
  <2>5. turned(k) = z /\ turned(k + 1) = y
    BY <2>1, <2>2 DEF IsNext
  <2>6. k + 1 \in 0 .. n /\ k \in 0 .. n /\ k + 1 # 0
    BY <1>1
  <2> HIDE DEF turned
  <2>7. F[k + 1] = <<y, y \div 128>> /\ \E s : F[k] = <<z, s>>
    BY <2>5, <2>6
  <2> HIDE DEF F
  <2>8. PICK s : F[k] = <<z, s>>
    BY <2>7
  <2>9. ByteMoves(z, s)
    BY <2>4, OneBitFact
  <2> QED
    BY <2>4, <2>7, <2>8, <2>9 DEF ByteMoves
<1>5. IsCourse(F, "Ror", a, c, n)
  <2>1. F = [k \in 0 .. n |-> F[k]]
    OBVIOUS
  <2> HIDE DEF F
  <2> QED
    BY <1>3, <1>4, <2>1 DEF IsCourse
<1>6. n > 0 => Alu("Ror", a, b, 1, f).r = turned(n) /\ Carry(Alu("Ror", a, b, 1, f).f) = turned(n) \div 128
  <2>1. ASSUME n > 0 PROVE RotatesTo(a, b, f, n)
    <3>1. n \in 1 .. 31 /\ IsCount(n, b)
      BY <1>1, <2>1 DEF IsCount
    <3> QED
      BY <3>1, RotateResult
  <2> QED
    BY <2>1 DEF RotatesTo
<1>7. n > 0 => F[n] = <<turned(n), turned(n) \div 128>>
  BY <1>1
<1> HIDE DEF F, turned
<1>8. EndsAs(F, "Ror", a, b, f)
  BY <1>1, <1>2, <1>5, <1>6, <1>7 DEF EndsAs
<1> QED
  BY <1>8, StepwiseFact

\* What the rotates through the carry leave.
ThroughTo(a, b, f, n) ==
  /\ LET y == Turned(a + 256 * Carry(f), n % 9, 9) IN
       Alu("Rcl", a, b, 1, f).r = y % 256 /\ Carry(Alu("Rcl", a, b, 1, f).f) = y \div 256
  /\ LET y == Turned(a + 256 * Carry(f), (9 - (n % 9)) % 9, 9) IN
       Alu("Rcr", a, b, 1, f).r = y % 256 /\ Carry(Alu("Rcr", a, b, 1, f).f) = y \div 256

(* They do.                                                                 *)
LEMMA ThroughResult ==
  ASSUME NEW a \in 0 .. 255, NEW b \in Nat, NEW f, NEW n \in 1 .. 31, IsCount(n, b)
  PROVE  ThroughTo(a, b, f, n)
<1>1. Trunc(a, 1) = a /\ MaskedCount(Trunc(b, 1)) = n /\ Bits(1) = 8 /\ Bits(1) + 1 = 9
  <2>1. (b % 256) % 32 = b % 32
    OBVIOUS
  <2>2. MaskedCount(b % 256) = (b % 256) % 32
    BY OctetAssumption DEF MaskedCount, Bits
  <2> QED
    BY <2>1, <2>2, ByteFact, OctetFact DEF IsCount
<1>2. PICK i \in 0 .. 9 : i = n % 9
  OBVIOUS
<1>3. PICK j \in 0 .. 9 : j = (9 - i) % 9
  BY <1>2
<1>4. PICK x \in 0 .. 511 : x = a + (IF CF(f) THEN Power(8) ELSE 0) /\ x = a + 256 * Carry(f)
  BY PowerTable DEF Carry
<1>5. ASSUME NEW l \in 0 .. 9
      PROVE  \E v \in {0, 1} : Bit(Turned(x, l, 9), 8) = v /\ Turned(x, l, 9) \div 256 = v
  <2>1. Power(9) = 512 /\ Power(8) = 256 /\ 9 \in Turns
    BY PowerTable DEF Turns
  <2>2. PICK y : y = Turned(x, l, 9)
    OBVIOUS
  <2>3. y \in 0 .. 511
    <3>1. x \in 0 .. Power(9) - 1
      BY <2>1
    <3>2. Turned(x, l, 9) \in 0 .. Power(9) - 1
      BY <2>1, <3>1, TurnRange
    <3> QED
      BY <2>1, <2>2, <3>2
  <2>4. Bit(y, 8) = (y \div 256) % 2
    BY <2>1 DEF Bit
  <2>5. (y \div 256) % 2 = y \div 256 /\ y \div 256 \in {0, 1}
    BY <2>3
  <2> QED
    BY <2>2, <2>4, <2>5
<1>6. PICK t : t = Trunc(b, 1) /\ MaskedCount(t) = n
  BY <1>1
<1>7. Alu("Rcl", a, b, 1, f) = RotateThroughCarry("Rcl", a, t, 1, f) /\ Alu("Rcr", a, b, 1, f) = RotateThroughCarry("Rcr", a, t, 1, f)
  BY <1>1, <1>6 DEF Alu, ShiftOps
<1>8. n # 0 /\ MaskedCount(t) % (Bits(1) + 1) = i /\ ((Bits(1) + 1) - i) % (Bits(1) + 1) = j
  BY <1>1, <1>2, <1>3, <1>6
<1>9. x = a + (IF CF(f) THEN Power(Bits(1)) ELSE 0)
  BY <1>1, <1>4
<1> DEFINE turned(l) == ((x * Power(l)) % Power(Bits(1) + 1)) + (x \div Power((Bits(1) + 1) - l))
<1>10. PICK y : y = Turned(x, i, 9)
  OBVIOUS
<1>11. PICK z : z = Turned(x, j, 9)
  OBVIOUS
<1>12. turned(i) = y /\ turned(j) = z /\ Trunc(y, 1) = y % 256 /\ Trunc(z, 1) = z % 256
  BY <1>1, <1>10, <1>11, ByteFact DEF Turned
<1>13. \E of : RotateThroughCarry("Rcl", a, t, 1, f) = [r |-> Trunc(y, 1), f |-> SetCfOfOnly(f, Bit(y, Bits(1)) = 1, of)]
  <2>1. RotateThroughCarry("Rcl", a, t, 1, f) =
          [r |-> Trunc(turned(i), 1),
           f |-> SetCfOfOnly(f, Bit(turned(i), Bits(1)) = 1, (Msb(Trunc(turned(i), 1), 1) = 1) # (Bit(turned(i), Bits(1)) = 1))]
    BY <1>6, <1>8, <1>9, Zenon DEF RotateThroughCarry
  <2> HIDE DEF turned
  <2> QED
    BY <1>12, <2>1
<1>14. \E of : RotateThroughCarry("Rcr", a, t, 1, f) = [r |-> Trunc(z, 1), f |-> SetCfOfOnly(f, Bit(z, Bits(1)) = 1, of)]
  <2>1. RotateThroughCarry("Rcr", a, t, 1, f) =
          [r |-> Trunc(turned(j), 1),
           f |-> SetCfOfOnly(f, Bit(turned(j), Bits(1)) = 1,
                             Msb(Trunc(turned(j), 1), 1) # Bit(Trunc(turned(j), 1), Bits(1) - 2))]
    BY <1>6, <1>8, <1>9, Zenon DEF RotateThroughCarry
  <2> HIDE DEF turned
  <2> QED
    BY <1>12, <2>1
<1> HIDE DEF turned
<1>15. Alu("Rcl", a, b, 1, f).r = y % 256 /\ Carry(Alu("Rcl", a, b, 1, f).f) = y \div 256
  <2>1. PICK v \in {0, 1} : v = Bit(y, Bits(1)) /\ v = y \div 256
    BY <1>1, <1>2, <1>5, <1>10
  <2>2. \A of : Carry(SetCfOfOnly(f, v = 1, of)) = v
    BY CarrySet
  <2> QED
    BY <1>7, <1>12, <1>13, <2>1, <2>2
<1>16. Alu("Rcr", a, b, 1, f).r = z % 256 /\ Carry(Alu("Rcr", a, b, 1, f).f) = z \div 256
  <2>1. PICK v \in {0, 1} : v = Bit(z, Bits(1)) /\ v = z \div 256
    BY <1>1, <1>3, <1>5, <1>11
  <2>2. \A of : Carry(SetCfOfOnly(f, v = 1, of)) = v
    BY CarrySet
  <2> QED
    BY <1>7, <1>12, <1>14, <2>1, <2>2
<1> QED
  BY <1>2, <1>3, <1>4, <1>10, <1>11, <1>15, <1>16 DEF ThroughTo

(* RCL.                                                                     *)
LEMMA RclMoves ==
  ASSUME NEW a \in 0 .. 255, NEW b \in Nat, NEW f
  PROVE  Stepwise("Rcl", a, b, f)
<1>1. PICK n \in 0 .. 31 : n = b % 32
  OBVIOUS
<1>2. PICK c \in {0, 1} : c = Carry(f)
  BY CarryBit
<1>3. PICK x \in 0 .. 511 : x = a + 256 * c
  OBVIOUS
<1> DEFINE turned(k) == Turned(x, k % 9, 9)
<1> DEFINE F == [k \in 0 .. n |-> <<turned(k) % 256, turned(k) \div 256>>]
<1>4. F[0] = <<a, c>>
  <2>1. turned(0) = x
    <3>1. 0 % 9 = 0
      OBVIOUS
    <3>2. Turned(x, 0, 9) = x
      BY NotTurned
    <3> QED
      BY <3>1, <3>2
  <2>2. 0 \in 0 .. n /\ x % 256 = a /\ x \div 256 = c
    BY <1>1, <1>3
  <2> HIDE DEF turned
  <2> QED
    BY <2>1, <2>2
<1>5. ASSUME NEW k \in 0 .. n - 1 PROVE F[k + 1] = OneBit("Rcl", F[k], 1)
  <2>1. PICK i \in 0 .. 8 : i = k % 9 /\ (k + 1) % 9 = (i + 1) % 9
    OBVIOUS
  <2>2. PICK y, z : IsNext(y, z, x, i, 9)
    BY DEF IsNext
  <2>3. Round(y, z, 256)
    BY <2>2, TurnWide
  <2>4. y \in 0 .. 511 /\ z = ((2 * y) % 512) + (y \div 256)
    BY <2>3 DEF Round
  <2>5. turned(k) = y /\ turned(k + 1) = z
    BY <2>1, <2>2 DEF IsNext
  <2>6. k + 1 \in 0 .. n /\ k \in 0 .. n
    BY <1>1
  <2> HIDE DEF turned
  <2>7. F[k + 1] = <<z % 256, z \div 256>> /\ F[k] = <<y % 256, y \div 256>>
    BY <2>5, <2>6
  <2> HIDE DEF F
  <2>8. PICK u \in 0 .. 255, s \in {0, 1} : u = y % 256 /\ s = y \div 256 /\ y = 256 * s + u
    BY <2>4
  <2>9. ByteMoves(u, s)
    BY OneBitFact
  <2>10. z % 256 = ((2 * u) % 256) + s /\ z \div 256 = u \div 128
    <3>1. PICK p \in {0, 1}, q \in 0 .. 127 : u = 128 * p + q
      <4>1. u \div 128 \in {0, 1} /\ u % 128 \in 0 .. 127 /\ u = 128 * (u \div 128) + (u % 128)
        OBVIOUS
      <4> QED
        BY <4>1
    <3>2. (2 * y) % 512 = 256 * p + 2 * q
      BY <2>8, <3>1
    <3>3. z = 256 * p + (2 * q + s)
      BY <2>4, <2>8, <3>2
    <3>4. z % 256 = 2 * q + s /\ z \div 256 = p /\ u \div 128 = p /\ (2 * u) % 256 = 2 * q
      BY <3>1, <3>3
    <3> QED
      BY <3>4
  <2> QED
    BY <2>7, <2>8, <2>9, <2>10 DEF ByteMoves
<1>6. IsCourse(F, "Rcl", a, c, n)
  <2>1. F = [k \in 0 .. n |-> F[k]]
    OBVIOUS
  <2> HIDE DEF F
  <2> QED
    BY <1>4, <1>5, <2>1 DEF IsCourse
<1>7. n > 0 => Alu("Rcl", a, b, 1, f).r = turned(n) % 256 /\ Carry(Alu("Rcl", a, b, 1, f).f) = turned(n) \div 256
  <2>1. ASSUME n > 0 PROVE ThroughTo(a, b, f, n)
    <3>1. n \in 1 .. 31 /\ IsCount(n, b)
      BY <1>1, <2>1 DEF IsCount
    <3> QED
      BY <3>1, ThroughResult
  <2> QED
    BY <1>2, <1>3, <2>1 DEF ThroughTo
<1>8. F[n] = <<turned(n) % 256, turned(n) \div 256>>
  BY <1>1
<1> HIDE DEF F, turned
<1>9. EndsAs(F, "Rcl", a, b, f)
  BY <1>1, <1>2, <1>6, <1>7, <1>8 DEF EndsAs
<1> QED
  BY <1>9, StepwiseFact

(* RCR.                                                                     *)
LEMMA RcrMoves ==
  ASSUME NEW a \in 0 .. 255, NEW b \in Nat, NEW f
  PROVE  Stepwise("Rcr", a, b, f)
<1>1. PICK n \in 0 .. 31 : n = b % 32
  OBVIOUS
<1>2. PICK c \in {0, 1} : c = Carry(f)
  BY CarryBit
<1>3. PICK x \in 0 .. 511 : x = a + 256 * c
  OBVIOUS
<1> DEFINE turned(k) == Turned(x, (9 - (k % 9)) % 9, 9)
<1> DEFINE F == [k \in 0 .. n |-> <<turned(k) % 256, turned(k) \div 256>>]
<1>4. F[0] = <<a, c>>
  <2>1. turned(0) = x
    <3>1. (9 - (0 % 9)) % 9 = 0
      OBVIOUS
    <3>2. Turned(x, 0, 9) = x
      BY NotTurned
    <3> QED
      BY <3>1, <3>2
  <2>2. 0 \in 0 .. n /\ x % 256 = a /\ x \div 256 = c
    BY <1>1, <1>3
  <2> HIDE DEF turned
  <2> QED
    BY <2>1, <2>2
<1>5. ASSUME NEW k \in 0 .. n - 1 PROVE F[k + 1] = OneBit("Rcr", F[k], 1)
  <2>1. PICK i \in 0 .. 8 : i = (9 - ((k + 1) % 9)) % 9 /\ (9 - (k % 9)) % 9 = (i + 1) % 9
    OBVIOUS
  <2>2. PICK y, z : IsNext(y, z, x, i, 9)
    BY DEF IsNext
  <2>3. Round(y, z, 256)
    BY <2>2, TurnWide
  <2>4. z \in 0 .. 511 /\ y = (z \div 2) + (z % 2) * 256
    BY <2>3 DEF Round
  <2>5. turned(k) = z /\ turned(k + 1) = y
    BY <2>1, <2>2 DEF IsNext
  <2>6. k + 1 \in 0 .. n /\ k \in 0 .. n
    BY <1>1
  <2> HIDE DEF turned
  <2>7. F[k + 1] = <<y % 256, y \div 256>> /\ F[k] = <<z % 256, z \div 256>>
    BY <2>5, <2>6
  <2> HIDE DEF F
  <2>8. PICK u \in 0 .. 255, s \in {0, 1} : u = z % 256 /\ s = z \div 256 /\ z = 256 * s + u
    BY <2>4
  <2>9. ByteMoves(u, s)
    BY OneBitFact
  <2>10. y % 256 = (u \div 2) + s * 128 /\ y \div 256 = u % 2
    <3>1. PICK q \in 0 .. 127, p \in {0, 1} : u = 2 * q + p
      <4>1. u % 2 \in {0, 1} /\ u \div 2 \in 0 .. 127 /\ u = 2 * (u \div 2) + (u % 2)
        OBVIOUS
      <4> QED
        BY <4>1
    <3>2. z \div 2 = 128 * s + q /\ z % 2 = p
      BY <2>8, <3>1
    <3>3. y = 256 * p + (128 * s + q)
      BY <2>4, <3>2
    <3>4. y % 256 = 128 * s + q /\ y \div 256 = p /\ u \div 2 = q /\ u % 2 = p
      BY <3>1, <3>3
    <3> QED
      BY <3>4
  <2> QED
    BY <2>7, <2>8, <2>9, <2>10 DEF ByteMoves
<1>6. IsCourse(F, "Rcr", a, c, n)
  <2>1. F = [k \in 0 .. n |-> F[k]]
    OBVIOUS
  <2> HIDE DEF F
  <2> QED
    BY <1>4, <1>5, <2>1 DEF IsCourse
<1>7. n > 0 => Alu("Rcr", a, b, 1, f).r = turned(n) % 256 /\ Carry(Alu("Rcr", a, b, 1, f).f) = turned(n) \div 256
  <2>1. ASSUME n > 0 PROVE ThroughTo(a, b, f, n)
    <3>1. n \in 1 .. 31 /\ IsCount(n, b)
      BY <1>1, <2>1 DEF IsCount
    <3> QED
      BY <3>1, ThroughResult
  <2> QED
    BY <1>2, <1>3, <2>1 DEF ThroughTo
<1>8. F[n] = <<turned(n) % 256, turned(n) \div 256>>
  BY <1>1
<1> HIDE DEF F, turned
<1>9. EndsAs(F, "Rcr", a, b, f)
  BY <1>1, <1>2, <1>6, <1>7, <1>8 DEF EndsAs
<1> QED
  BY <1>9, StepwiseFact

\* What the shifts by k leave of the byte a, and the bit they move out last.
ShlTo(a, k) == IF k >= 8 THEN 0 ELSE (a * Power(k)) % 256
ShlOut(a, k) == IF k > 8 THEN 0 ELSE (a \div Power(8 - k)) % 2
ShrTo(a, k) == IF k >= 8 THEN 0 ELSE a \div Power(k)
SarTo(a, k) == IF k >= 8 THEN (IF a >= 128 THEN 255 ELSE 0)
               ELSE ((IF a >= 128 THEN a - 256 ELSE a) \div Power(k)) % 256
ShrOut(a, k) == IF k > 8 THEN 0 ELSE (a \div Power(k - 1)) % 2
SarOut(a, k) == IF k > 8 THEN a \div 128 ELSE (a \div Power(k - 1)) % 2

\* One more bit to the left.
ShlNext(a, k) ==
  /\ ShlTo(a, k) \in 0 .. 255
  /\ ShlTo(a, k + 1) = (2 * ShlTo(a, k)) % 256
  /\ ShlOut(a, k + 1) = ShlTo(a, k) \div 128
ShrNext(a, k) ==
  /\ ShrTo(a, k) \in 0 .. 255
  /\ ShrTo(a, k + 1) = ShrTo(a, k) \div 2
  /\ ShrOut(a, k + 1) = ShrTo(a, k) % 2
SarNext(a, k) ==
  /\ SarTo(a, k) \in 0 .. 255
  /\ SarTo(a, k + 1) = (SarTo(a, k) \div 2) + (SarTo(a, k) \div 128) * 128
  /\ SarOut(a, k + 1) = SarTo(a, k) % 2

(* SHL moves one bit more.                                                  *)
LEMMA ShlStep ==
  ASSUME NEW a \in 0 .. 255, NEW k \in Nat
  PROVE  ShlNext(a, k)
<1>1. CASE k >= 8
  BY <1>1 DEF ShlNext, ShlTo, ShlOut
<1>2. CASE k = 7
  <2>1. ShlTo(a, 7) = (a * 128) % 256 /\ ShlTo(a, 8) = 0 /\ ShlOut(a, 8) = a % 2
    BY PowerTable DEF ShlTo, ShlOut
  <2>2. PICK q \in 0 .. 127, p \in {0, 1} : a = 2 * q + p
    <3>1. a % 2 \in {0, 1} /\ a \div 2 \in 0 .. 127 /\ a = 2 * (a \div 2) + (a % 2)
      OBVIOUS
    <3> QED
      BY <3>1
  <2>3. (a * 128) % 256 = 128 * p /\ a % 2 = p
    BY <2>2
  <2> QED
    BY <1>2, <2>1, <2>3 DEF ShlNext
<1>3. CASE k = 0
  <2>1. ShlTo(a, 0) = (a * 1) % 256 /\ ShlTo(a, 1) = (a * 2) % 256 /\ ShlOut(a, 1) = (a \div 128) % 2
    <3>1. ~(0 >= 8) /\ ~(1 >= 8) /\ ~(1 > 8) /\ 8 - 1 = 7
      OBVIOUS
    <3> QED
      BY <3>1, PowerTable, Zenon DEF ShlTo, ShlOut
  <2> QED
    BY <1>3, <2>1 DEF ShlNext
<1>4. CASE k = 1
  <2>1. ShlTo(a, 1) = (a * 2) % 256 /\ ShlTo(a, 2) = (a * 4) % 256 /\ ShlOut(a, 2) = (a \div 64) % 2
    <3>1. ~(1 >= 8) /\ ~(2 >= 8) /\ ~(2 > 8) /\ 8 - 2 = 6
      OBVIOUS
    <3> QED
      BY <3>1, PowerTable, Zenon DEF ShlTo, ShlOut
  <2> QED
    BY <1>4, <2>1 DEF ShlNext
<1>5. CASE k = 2
  <2>1. ShlTo(a, 2) = (a * 4) % 256 /\ ShlTo(a, 3) = (a * 8) % 256 /\ ShlOut(a, 3) = (a \div 32) % 2
    <3>1. ~(2 >= 8) /\ ~(3 >= 8) /\ ~(3 > 8) /\ 8 - 3 = 5
      OBVIOUS
    <3> QED
      BY <3>1, PowerTable, Zenon DEF ShlTo, ShlOut
  <2> QED
    BY <1>5, <2>1 DEF ShlNext
<1>6. CASE k = 3
  <2>1. ShlTo(a, 3) = (a * 8) % 256 /\ ShlTo(a, 4) = (a * 16) % 256 /\ ShlOut(a, 4) = (a \div 16) % 2
    <3>1. ~(3 >= 8) /\ ~(4 >= 8) /\ ~(4 > 8) /\ 8 - 4 = 4
      OBVIOUS
    <3> QED
      BY <3>1, PowerTable, Zenon DEF ShlTo, ShlOut
  <2> QED
    BY <1>6, <2>1 DEF ShlNext
<1>7. CASE k = 4
  <2>1. ShlTo(a, 4) = (a * 16) % 256 /\ ShlTo(a, 5) = (a * 32) % 256 /\ ShlOut(a, 5) = (a \div 8) % 2
    <3>1. ~(4 >= 8) /\ ~(5 >= 8) /\ ~(5 > 8) /\ 8 - 5 = 3
      OBVIOUS
    <3> QED
      BY <3>1, PowerTable, Zenon DEF ShlTo, ShlOut
  <2> QED
    BY <1>7, <2>1 DEF ShlNext
<1>8. CASE k = 5
  <2>1. ShlTo(a, 5) = (a * 32) % 256 /\ ShlTo(a, 6) = (a * 64) % 256 /\ ShlOut(a, 6) = (a \div 4) % 2
    <3>1. ~(5 >= 8) /\ ~(6 >= 8) /\ ~(6 > 8) /\ 8 - 6 = 2
      OBVIOUS
    <3> QED
      BY <3>1, PowerTable, Zenon DEF ShlTo, ShlOut
  <2> QED
    BY <1>8, <2>1 DEF ShlNext
<1>9. CASE k = 6
  <2>1. ShlTo(a, 6) = (a * 64) % 256 /\ ShlTo(a, 7) = (a * 128) % 256 /\ ShlOut(a, 7) = (a \div 2) % 2
    <3>1. ~(6 >= 8) /\ ~(7 >= 8) /\ ~(7 > 8) /\ 8 - 7 = 1
      OBVIOUS
    <3> QED
      BY <3>1, PowerTable, Zenon DEF ShlTo, ShlOut
  <2> QED
    BY <1>9, <2>1 DEF ShlNext
<1>10. k \in 0 .. 6 => k = 0 \/ k = 1 \/ k = 2 \/ k = 3 \/ k = 4 \/ k = 5 \/ k = 6
  OBVIOUS
<1> QED
  BY <1>1, <1>2, <1>3, <1>4, <1>5, <1>6, <1>7, <1>8, <1>9, <1>10

(* SHR moves one bit more.                                                  *)
LEMMA ShrStep ==
  ASSUME NEW a \in 0 .. 255, NEW k \in Nat
  PROVE  ShrNext(a, k)
<1>1. CASE k >= 8
  BY <1>1, PowerTable DEF ShrNext, ShrTo, ShrOut
<1>2. CASE k \in 0 .. 7
  <2>1. k = 0 \/ k = 1 \/ k = 2 \/ k = 3 \/ k = 4 \/ k = 5 \/ k = 6 \/ k = 7
    BY <1>2
  <2> QED
    BY <2>1, PowerTable, SMTT(60) DEF ShrNext, ShrTo, ShrOut
<1> QED
  BY <1>1, <1>2

\* y is a byte of the signed q, and one more bit to the right halves it and keeps its sign.
HalvedSigned(q, y) ==
  /\ y = q % 256 /\ y \in 0 .. 255
  /\ (q \div 2) % 256 = (y \div 2) + (y \div 128) * 128
  /\ y % 2 = q % 2

\* SAR by k leaves the signed q, and by one more its half.
SarBy(q, a, k) == SarTo(a, k) = q % 256 /\ SarTo(a, k + 1) = (q \div 2) % 256 /\ SarOut(a, k + 1) = q % 2

(* Halving a signed byte.                                                   *)
LEMMA HalveSigned ==
  ASSUME NEW q \in -128 .. 127
  PROVE  \E y : HalvedSigned(q, y)
<1>1. CASE q >= 0
  <2>1. HalvedSigned(q, q)
    BY <1>1 DEF HalvedSigned
  <2> QED
    BY <2>1
<1>2. CASE q < 0
  <2>1. PICK y \in 128 .. 255 : y = q + 256
    BY <1>2
  <2>2. q = y - 256 /\ q % 256 = y /\ y \div 128 = 1
    BY <2>1
  <2>3. q \div 2 = (y \div 2) - 128 /\ y \div 2 \in 64 .. 127
    BY <2>2
  <2>4. (q \div 2) % 256 = (y \div 2) + 128
    BY <2>3
  <2>5. y % 2 = q % 2
    BY <2>2
  <2>6. HalvedSigned(q, y)
    BY <2>1, <2>2, <2>4, <2>5 DEF HalvedSigned
  <2> QED
    BY <2>6
<1> QED
  BY <1>1, <1>2

(* SAR moves one bit more.                                                  *)
LEMMA SarStep ==
  ASSUME NEW a \in 0 .. 255, NEW k \in Nat
  PROVE  SarNext(a, k)
<1>1. CASE k >= 8
  BY <1>1, PowerTable DEF SarNext, SarTo, SarOut
<1>2. PICK s \in -128 .. 127 : s = IF a >= 128 THEN a - 256 ELSE a
  OBVIOUS
<1>3. ASSUME NEW q \in -128 .. 127, SarBy(q, a, k) PROVE SarNext(a, k)
  BY <1>3, HalveSigned DEF HalvedSigned, SarBy, SarNext
<1>4. CASE k = 0
  <2>1. SarTo(a, 0) = (s \div 1) % 256 /\ SarTo(a, 1) = (s \div 2) % 256 /\ SarOut(a, 1) = (a \div 1) % 2
    BY <1>2, PowerTable DEF SarTo, SarOut
  <2>2. PICK q \in -128 .. 127 : q = s \div 1
    OBVIOUS
  <2>3. s \div 2 = q \div 2 /\ (a \div 1) % 2 = q % 2
    BY <1>2, <2>2
  <2>4. SarBy(q, a, k)
    BY <1>4, <2>1, <2>2, <2>3 DEF SarBy
  <2> QED
    BY <1>3, <2>4
<1>5. CASE k = 1
  <2>1. SarTo(a, 1) = (s \div 2) % 256 /\ SarTo(a, 2) = (s \div 4) % 256 /\ SarOut(a, 2) = (a \div 2) % 2
    BY <1>2, PowerTable DEF SarTo, SarOut
  <2>2. PICK q \in -128 .. 127 : q = s \div 2
    OBVIOUS
  <2>3. s \div 4 = q \div 2 /\ (a \div 2) % 2 = q % 2
    BY <1>2, <2>2
  <2>4. SarBy(q, a, k)
    BY <1>5, <2>1, <2>2, <2>3 DEF SarBy
  <2> QED
    BY <1>3, <2>4
<1>6. CASE k = 2
  <2>1. SarTo(a, 2) = (s \div 4) % 256 /\ SarTo(a, 3) = (s \div 8) % 256 /\ SarOut(a, 3) = (a \div 4) % 2
    BY <1>2, PowerTable DEF SarTo, SarOut
  <2>2. PICK q \in -128 .. 127 : q = s \div 4
    OBVIOUS
  <2>3. s \div 8 = q \div 2 /\ (a \div 4) % 2 = q % 2
    BY <1>2, <2>2
  <2>4. SarBy(q, a, k)
    BY <1>6, <2>1, <2>2, <2>3 DEF SarBy
  <2> QED
    BY <1>3, <2>4
<1>7. CASE k = 3
  <2>1. SarTo(a, 3) = (s \div 8) % 256 /\ SarTo(a, 4) = (s \div 16) % 256 /\ SarOut(a, 4) = (a \div 8) % 2
    BY <1>2, PowerTable DEF SarTo, SarOut
  <2>2. PICK q \in -128 .. 127 : q = s \div 8
    OBVIOUS
  <2>3. s \div 16 = q \div 2 /\ (a \div 8) % 2 = q % 2
    BY <1>2, <2>2
  <2>4. SarBy(q, a, k)
    BY <1>7, <2>1, <2>2, <2>3 DEF SarBy
  <2> QED
    BY <1>3, <2>4
<1>8. CASE k = 4
  <2>1. SarTo(a, 4) = (s \div 16) % 256 /\ SarTo(a, 5) = (s \div 32) % 256 /\ SarOut(a, 5) = (a \div 16) % 2
    BY <1>2, PowerTable DEF SarTo, SarOut
  <2>2. PICK q \in -128 .. 127 : q = s \div 16
    OBVIOUS
  <2>3. s \div 32 = q \div 2 /\ (a \div 16) % 2 = q % 2
    BY <1>2, <2>2
  <2>4. SarBy(q, a, k)
    BY <1>8, <2>1, <2>2, <2>3 DEF SarBy
  <2> QED
    BY <1>3, <2>4
<1>9. CASE k = 5
  <2>1. SarTo(a, 5) = (s \div 32) % 256 /\ SarTo(a, 6) = (s \div 64) % 256 /\ SarOut(a, 6) = (a \div 32) % 2
    BY <1>2, PowerTable DEF SarTo, SarOut
  <2>2. PICK q \in -128 .. 127 : q = s \div 32
    OBVIOUS
  <2>3. s \div 64 = q \div 2 /\ (a \div 32) % 2 = q % 2
    BY <1>2, <2>2
  <2>4. SarBy(q, a, k)
    BY <1>9, <2>1, <2>2, <2>3 DEF SarBy
  <2> QED
    BY <1>3, <2>4
<1>10. CASE k = 6
  <2>1. SarTo(a, 6) = (s \div 64) % 256 /\ SarTo(a, 7) = (s \div 128) % 256 /\ SarOut(a, 7) = (a \div 64) % 2
    BY <1>2, PowerTable DEF SarTo, SarOut
  <2>2. PICK q \in -128 .. 127 : q = s \div 64
    OBVIOUS
  <2>3. s \div 128 = q \div 2 /\ (a \div 64) % 2 = q % 2
    BY <1>2, <2>2
  <2>4. SarBy(q, a, k)
    BY <1>10, <2>1, <2>2, <2>3 DEF SarBy
  <2> QED
    BY <1>3, <2>4
<1>11. CASE k = 7
  <2>1. SarTo(a, 7) = (s \div 128) % 256 /\ SarTo(a, 8) = (IF a >= 128 THEN 255 ELSE 0) /\ SarOut(a, 8) = (a \div 128) % 2
    BY <1>2, PowerTable DEF SarTo, SarOut
  <2>2. PICK q \in -128 .. 127 : q = s \div 128
    OBVIOUS
  <2>3. (q \div 2) % 256 = (IF a >= 128 THEN 255 ELSE 0) /\ (a \div 128) % 2 = q % 2
    BY <1>2, <2>2
  <2>4. SarBy(q, a, k)
    BY <1>11, <2>1, <2>2, <2>3 DEF SarBy
  <2> QED
    BY <1>3, <2>4
<1>12. k \in 0 .. 7 => k = 0 \/ k = 1 \/ k = 2 \/ k = 3 \/ k = 4 \/ k = 5 \/ k = 6 \/ k = 7
  OBVIOUS
<1> QED
  BY <1>1, <1>4, <1>5, <1>6, <1>7, <1>8, <1>9, <1>10, <1>11, <1>12

\* What the shifts by n leave.
ShiftsTo(a, b, f, n) ==
  /\ Alu("Shl", a, b, 1, f).r = ShlTo(a, n) /\ Carry(Alu("Shl", a, b, 1, f).f) = ShlOut(a, n)
  /\ Alu("Shr", a, b, 1, f).r = ShrTo(a, n) /\ Carry(Alu("Shr", a, b, 1, f).f) = ShrOut(a, n)
  /\ Alu("Sar", a, b, 1, f).r = SarTo(a, n) /\ Carry(Alu("Sar", a, b, 1, f).f) = SarOut(a, n)

(* The carry a shift's record holds.                                        *)
LEMMA ShiftCarries ==
  ASSUME NEW a \in 0 .. 255, NEW n \in 1 .. 31, NEW r, NEW f
  PROVE  /\ Carry(Set(f, "Shl", a, n, r, 1)) = ShlOut(a, n)
         /\ Carry(Set(f, "Shr", a, n, r, 1)) = ShrOut(a, n)
         /\ Carry(Set(f, "Sar", a, n, r, 1)) = SarOut(a, n)
<1>1. Bits(1) = 8 /\ Msb(a, 1) = a \div 128 /\ a \div 128 \in {0, 1}
  <2>1. (a \div 128) % 2 = a \div 128 /\ a \div 128 \in {0, 1}
    OBVIOUS
  <2> QED
    BY <2>1, OctetFact DEF Msb, Bit
<1>2. ASSUME NEW j \in 0 .. 8 PROVE Bit(a, j) = (a \div Power(j)) % 2 /\ Bit(a, j) \in {0, 1}
  <2>1. PICK p \in Nat \ {0} : p = Power(j)
    BY <1>1, WidthsAssumption
  <2>2. a \div p \in Nat
    OBVIOUS
  <2>3. (a \div p) % 2 \in {0, 1}
    BY <2>2
  <2> QED
    BY <2>1, <2>3 DEF Bit
<1>3. n <= 8 => 8 - n \in 0 .. 8 /\ n - 1 \in 0 .. 8
  OBVIOUS
<1>4. ASSUME NEW op \in Shifts
      PROVE  Carry(Set(f, op, a, n, r, 1)) = IF n > 8 THEN (IF op = "Sar" /\ a \div 128 = 1 THEN 1 ELSE 0)
                                             ELSE IF op = "Shl" THEN (IF Bit(a, 8 - n) = 1 THEN 1 ELSE 0)
                                             ELSE (IF Bit(a, n - 1) = 1 THEN 1 ELSE 0)
  <2> DEFINE s == Set(f, op, a, n, r, 1)
  <2>1. s.kind = op /\ s.a = a /\ s.b = n /\ s.w = 1
    BY DEF Set
  <2> HIDE DEF s
  <2>2. CF(s) <=> ShiftCarry(s)
    BY <2>1 DEF CF, Shifts
  <2>3. ShiftCarry(s) <=> IF n > 8 THEN op = "Sar" /\ a \div 128 = 1
                          ELSE IF op = "Shl" THEN Bit(a, 8 - n) = 1 ELSE Bit(a, n - 1) = 1
    BY <1>1, <2>1 DEF ShiftCarry
  <2>4. Carry(s) = IF CF(s) THEN 1 ELSE 0
    BY DEF Carry
  <2>5. Carry(s) = IF n > 8 THEN (IF op = "Sar" /\ a \div 128 = 1 THEN 1 ELSE 0)
                   ELSE IF op = "Shl" THEN (IF Bit(a, 8 - n) = 1 THEN 1 ELSE 0)
                   ELSE (IF Bit(a, n - 1) = 1 THEN 1 ELSE 0)
    <3>1. CASE n > 8
      BY <2>2, <2>3, <2>4, <3>1, Zenon
    <3>2. CASE ~(n > 8) /\ op = "Shl"
      BY <2>2, <2>3, <2>4, <3>2, Zenon
    <3>3. CASE ~(n > 8) /\ op # "Shl"
      BY <2>2, <2>3, <2>4, <3>3, Zenon
    <3> QED
      BY <3>1, <3>2, <3>3
  <2> QED
    BY <2>5 DEF s
<1>5. {"Shl", "Shr", "Sar"} = Shifts
  BY DEF Shifts
<1>6. CASE n > 8
  BY <1>1, <1>4, <1>5, <1>6 DEF ShlOut, ShrOut, SarOut
<1>7. CASE n <= 8
  <2>1. Bit(a, 8 - n) = ShlOut(a, n) /\ Bit(a, n - 1) = ShrOut(a, n) /\ Bit(a, n - 1) = SarOut(a, n)
    BY <1>2, <1>3, <1>7 DEF ShlOut, ShrOut, SarOut
  <2>2. Bit(a, 8 - n) \in {0, 1} /\ Bit(a, n - 1) \in {0, 1}
    BY <1>2, <1>3, <1>7
  <2>3. ASSUME NEW op \in Shifts
        PROVE  Carry(Set(f, op, a, n, r, 1)) = IF op = "Shl" THEN Bit(a, 8 - n) ELSE Bit(a, n - 1)
    BY <1>4, <1>7, <2>2
  <2> QED
    BY <1>5, <2>1, <2>3
<1> QED
  BY <1>6, <1>7

(* The shifts leave that.                                                   *)
LEMMA ShiftResults ==
  ASSUME NEW a \in 0 .. 255, NEW b \in Nat, NEW f, NEW n \in 1 .. 31, IsCount(n, b)
  PROVE  ShiftsTo(a, b, f, n)
<1>1. Trunc(a, 1) = a /\ MaskedCount(Trunc(b, 1)) = n /\ Bits(1) = 8
  <2>1. (b % 256) % 32 = b % 32
    OBVIOUS
  <2>2. MaskedCount(b % 256) = (b % 256) % 32
    BY OctetAssumption DEF MaskedCount, Bits
  <2> QED
    BY <2>1, <2>2, ByteFact, OctetFact DEF IsCount
<1>2. PICK t : t = Trunc(b, 1) /\ MaskedCount(t) = n
  BY <1>1
<1>3. ASSUME NEW op \in ShiftOps PROVE Alu(op, a, b, 1, f) = Shift(op, a, t, 1, f)
  BY <1>1, <1>2, <1>3 DEF Alu, ShiftOps
<1>4. ASSUME NEW op \in ShiftOps
      PROVE  Alu(op, a, b, 1, f).r = ShiftResult(op, a, n, 1)
             /\ Alu(op, a, b, 1, f).f = Set(f, op, a, n, ShiftResult(op, a, n, 1), 1)
  <2>1. n # 0
    OBVIOUS
  <2>2. Shift(op, a, t, 1, f) = [r |-> ShiftResult(op, a, n, 1), f |-> Set(f, op, a, n, ShiftResult(op, a, n, 1), 1)]
    BY <1>2, <2>1 DEF Shift
  <2> QED
    BY <1>3, <2>2
<1>5. Msb(a, 1) = 1 <=> a >= 128
  <2>1. (a \div 128) % 2 = 1 <=> a >= 128
    OBVIOUS
  <2> QED
    BY <2>1, OctetFact DEF Msb, Bit
<1>6. Signed(a, 1) = (IF a >= 128 THEN a - 256 ELSE a) /\ Power(Bits(1)) - 1 = 255
  BY ByteFact, OctetFact
<1>7. ShiftResult("Shl", a, n, 1) = ShlTo(a, n)
  BY <1>1, ByteFact DEF ShiftResult, ShlTo
<1>8. ShiftResult("Shr", a, n, 1) = ShrTo(a, n)
  BY <1>1 DEF ShiftResult, ShrTo
<1>9. ShiftResult("Sar", a, n, 1) = SarTo(a, n)
  <2>1. \A v : Trunc(v, 1) = v % 256
    BY ByteFact
  <2> QED
    BY <1>1, <1>5, <1>6, <2>1 DEF ShiftResult, SarTo
<1>10. {"Shl", "Shr", "Sar"} = ShiftOps
  BY DEF ShiftOps
<1>11. /\ Alu("Shl", a, b, 1, f).r = ShlTo(a, n) /\ Alu("Shl", a, b, 1, f).f = Set(f, "Shl", a, n, ShlTo(a, n), 1)
       /\ Alu("Shr", a, b, 1, f).r = ShrTo(a, n) /\ Alu("Shr", a, b, 1, f).f = Set(f, "Shr", a, n, ShrTo(a, n), 1)
       /\ Alu("Sar", a, b, 1, f).r = SarTo(a, n) /\ Alu("Sar", a, b, 1, f).f = Set(f, "Sar", a, n, SarTo(a, n), 1)
  BY <1>4, <1>7, <1>8, <1>9, <1>10
<1>12. \A r : /\ Carry(Set(f, "Shl", a, n, r, 1)) = ShlOut(a, n)
              /\ Carry(Set(f, "Shr", a, n, r, 1)) = ShrOut(a, n)
              /\ Carry(Set(f, "Sar", a, n, r, 1)) = SarOut(a, n)
  BY ShiftCarries
<1> QED
  BY <1>11, <1>12, Zenon DEF ShiftsTo

(* SHL.                                                                     *)
LEMMA ShlMoves ==
  ASSUME NEW a \in 0 .. 255, NEW b \in Nat, NEW f
  PROVE  Stepwise("Shl", a, b, f)
<1>1. PICK n \in 0 .. 31 : n = b % 32
  OBVIOUS
<1>2. PICK c : c = Carry(f)
  OBVIOUS
<1> DEFINE F == [k \in 0 .. n |-> <<ShlTo(a, k), IF k = 0 THEN c ELSE ShlOut(a, k)>>]
<1>3. F[0] = <<a, c>>
  <2>1. ShlTo(a, 0) = a /\ 0 \in 0 .. n
    BY <1>1, PowerTable DEF ShlTo
  <2> QED
    BY <2>1
<1>4. ASSUME NEW k \in 0 .. n - 1 PROVE F[k + 1] = OneBit("Shl", F[k], 1)
  <2>1. k + 1 \in 0 .. n /\ k \in 0 .. n /\ k + 1 # 0 /\ k \in Nat
    BY <1>1
  <2>2. F[k + 1] = <<ShlTo(a, k + 1), ShlOut(a, k + 1)>> /\ \E s : F[k] = <<ShlTo(a, k), s>>
    BY <2>1
  <2> HIDE DEF F
  <2>3. PICK y, s : y = ShlTo(a, k) /\ F[k] = <<y, s>>
    BY <2>2
  <2>4. ShlNext(a, k)
    BY <2>1, ShlStep
  <2>5. y \in 0 .. 255
    BY <2>3, <2>4 DEF ShlNext
  <2>6. ByteMoves(y, s)
    BY <2>5, OneBitFact
  <2> QED
    BY <2>2, <2>3, <2>4, <2>6 DEF ByteMoves, ShlNext
<1>5. IsCourse(F, "Shl", a, c, n)
  <2>1. F = [k \in 0 .. n |-> F[k]]
    OBVIOUS
  <2> HIDE DEF F
  <2> QED
    BY <1>3, <1>4, <2>1 DEF IsCourse
<1>6. n > 0 => Alu("Shl", a, b, 1, f).r = ShlTo(a, n) /\ Carry(Alu("Shl", a, b, 1, f).f) = ShlOut(a, n)
  <2>1. ASSUME n > 0 PROVE ShiftsTo(a, b, f, n)
    <3>1. n \in 1 .. 31 /\ IsCount(n, b)
      BY <1>1, <2>1 DEF IsCount
    <3> QED
      BY <3>1, ShiftResults
  <2> QED
    BY <2>1 DEF ShiftsTo
<1>7. n > 0 => F[n] = <<ShlTo(a, n), ShlOut(a, n)>>
  BY <1>1
<1> HIDE DEF F
<1>8. EndsAs(F, "Shl", a, b, f)
  BY <1>1, <1>2, <1>5, <1>6, <1>7 DEF EndsAs
<1> QED
  BY <1>8, StepwiseFact

(* SHR.                                                                     *)
LEMMA ShrMoves ==
  ASSUME NEW a \in 0 .. 255, NEW b \in Nat, NEW f
  PROVE  Stepwise("Shr", a, b, f)
<1>1. PICK n \in 0 .. 31 : n = b % 32
  OBVIOUS
<1>2. PICK c : c = Carry(f)
  OBVIOUS
<1> DEFINE F == [k \in 0 .. n |-> <<ShrTo(a, k), IF k = 0 THEN c ELSE ShrOut(a, k)>>]
<1>3. F[0] = <<a, c>>
  <2>1. ShrTo(a, 0) = a /\ 0 \in 0 .. n
    BY <1>1, PowerTable DEF ShrTo
  <2> QED
    BY <2>1
<1>4. ASSUME NEW k \in 0 .. n - 1 PROVE F[k + 1] = OneBit("Shr", F[k], 1)
  <2>1. k + 1 \in 0 .. n /\ k \in 0 .. n /\ k + 1 # 0 /\ k \in Nat
    BY <1>1
  <2>2. F[k + 1] = <<ShrTo(a, k + 1), ShrOut(a, k + 1)>> /\ \E s : F[k] = <<ShrTo(a, k), s>>
    BY <2>1
  <2> HIDE DEF F
  <2>3. PICK y, s : y = ShrTo(a, k) /\ F[k] = <<y, s>>
    BY <2>2
  <2>4. ShrNext(a, k)
    BY <2>1, ShrStep
  <2>5. y \in 0 .. 255
    BY <2>3, <2>4 DEF ShrNext
  <2>6. ByteMoves(y, s)
    BY <2>5, OneBitFact
  <2> QED
    BY <2>2, <2>3, <2>4, <2>6 DEF ByteMoves, ShrNext
<1>5. IsCourse(F, "Shr", a, c, n)
  <2>1. F = [k \in 0 .. n |-> F[k]]
    OBVIOUS
  <2> HIDE DEF F
  <2> QED
    BY <1>3, <1>4, <2>1 DEF IsCourse
<1>6. n > 0 => Alu("Shr", a, b, 1, f).r = ShrTo(a, n) /\ Carry(Alu("Shr", a, b, 1, f).f) = ShrOut(a, n)
  <2>1. ASSUME n > 0 PROVE ShiftsTo(a, b, f, n)
    <3>1. n \in 1 .. 31 /\ IsCount(n, b)
      BY <1>1, <2>1 DEF IsCount
    <3> QED
      BY <3>1, ShiftResults
  <2> QED
    BY <2>1 DEF ShiftsTo
<1>7. n > 0 => F[n] = <<ShrTo(a, n), ShrOut(a, n)>>
  BY <1>1
<1> HIDE DEF F
<1>8. EndsAs(F, "Shr", a, b, f)
  BY <1>1, <1>2, <1>5, <1>6, <1>7 DEF EndsAs
<1> QED
  BY <1>8, StepwiseFact

(* SAR.                                                                     *)
LEMMA SarMoves ==
  ASSUME NEW a \in 0 .. 255, NEW b \in Nat, NEW f
  PROVE  Stepwise("Sar", a, b, f)
<1>1. PICK n \in 0 .. 31 : n = b % 32
  OBVIOUS
<1>2. PICK c : c = Carry(f)
  OBVIOUS
<1> DEFINE F == [k \in 0 .. n |-> <<SarTo(a, k), IF k = 0 THEN c ELSE SarOut(a, k)>>]
<1>3. F[0] = <<a, c>>
  <2>1. SarTo(a, 0) = a /\ 0 \in 0 .. n
    BY <1>1, PowerTable DEF SarTo
  <2> QED
    BY <2>1
<1>4. ASSUME NEW k \in 0 .. n - 1 PROVE F[k + 1] = OneBit("Sar", F[k], 1)
  <2>1. k + 1 \in 0 .. n /\ k \in 0 .. n /\ k + 1 # 0 /\ k \in Nat
    BY <1>1
  <2>2. F[k + 1] = <<SarTo(a, k + 1), SarOut(a, k + 1)>> /\ \E s : F[k] = <<SarTo(a, k), s>>
    BY <2>1
  <2> HIDE DEF F
  <2>3. PICK y, s : y = SarTo(a, k) /\ F[k] = <<y, s>>
    BY <2>2
  <2>4. SarNext(a, k)
    BY <2>1, SarStep
  <2>5. y \in 0 .. 255
    BY <2>3, <2>4 DEF SarNext
  <2>6. ByteMoves(y, s)
    BY <2>5, OneBitFact
  <2> QED
    BY <2>2, <2>3, <2>4, <2>6 DEF ByteMoves, SarNext
<1>5. IsCourse(F, "Sar", a, c, n)
  <2>1. F = [k \in 0 .. n |-> F[k]]
    OBVIOUS
  <2> HIDE DEF F
  <2> QED
    BY <1>3, <1>4, <2>1 DEF IsCourse
<1>6. n > 0 => Alu("Sar", a, b, 1, f).r = SarTo(a, n) /\ Carry(Alu("Sar", a, b, 1, f).f) = SarOut(a, n)
  <2>1. ASSUME n > 0 PROVE ShiftsTo(a, b, f, n)
    <3>1. n \in 1 .. 31 /\ IsCount(n, b)
      BY <1>1, <2>1 DEF IsCount
    <3> QED
      BY <3>1, ShiftResults
  <2> QED
    BY <2>1 DEF ShiftsTo
<1>7. n > 0 => F[n] = <<SarTo(a, n), SarOut(a, n)>>
  BY <1>1
<1> HIDE DEF F
<1>8. EndsAs(F, "Sar", a, b, f)
  BY <1>1, <1>2, <1>5, <1>6, <1>7 DEF EndsAs
<1> QED
  BY <1>8, StepwiseFact

(* Any of them.                                                             *)
LEMMA AllStepwise ==
  ASSUME NEW op \in Movers, NEW a \in 0 .. 255, NEW b \in Nat, NEW f
  PROVE  Stepwise(op, a, b, f)
<1>1. op \in {"Shl", "Shr", "Sar", "Rol", "Ror", "Rcl", "Rcr"}
  BY DEF Movers, ShiftOps, Rotates
<1> QED
  BY <1>1, ShlMoves, ShrMoves, SarMoves, RolMoves, RorMoves, RclMoves, RcrMoves

(* The last operation, if it was a shift or a rotate, left what Alu does.   *)
LastMoved ==
  last.op \in Movers =>
    /\ last.w = 1 /\ last.a \in 0 .. 255 /\ last.b \in Nat
    /\ acc = Alu(last.op, last.a, last.b, 1, last.f).r
    /\ flags = Alu(last.op, last.a, last.b, 1, last.f).f

(* It is moved one bit at a time.                                           *)
LEMMA MovesFromInv == LastMoved => ShiftsStepwise
<1> SUFFICES ASSUME LastMoved, last.op \in Movers PROVE ShiftsStepwise
  BY DEF ShiftsStepwise, Movers
<1>0. PICK f : f = last.f
  OBVIOUS
<1>1. PICK op \in Movers, a \in 0 .. 255, b \in Nat : op = last.op /\ a = last.a /\ b = last.b /\ f = last.f
  BY <1>0 DEF LastMoved
<1>2. Stepwise(op, a, b, f)
  BY AllStepwise
<1>3. last.w = 1 /\ acc = Alu(op, a, b, 1, f).r /\ flags = Alu(op, a, b, 1, f).f
  BY <1>1 DEF LastMoved
<1>4. PICK m : m = Moved(op, a, Carry(f), MaskedCount(b), 1)
  OBVIOUS
<1>5. MaskedCount(b) > 0 => acc = m[1] /\ Carry(flags) = m[2]
  BY <1>2, <1>3, <1>4 DEF Stepwise
<1> QED
  BY <1>1, <1>3, <1>4, <1>5 DEF ShiftsStepwise

(* Nothing has been shifted at the start.                                   *)
LEMMA LastMovedInit == Init => LastMoved
<1>1. "none" \notin Movers
  BY DEF Movers, ShiftOps, Rotates
<1> QED
  BY <1>1 DEF Init, Nothing, LastMoved

(* A shift or rotate leaves what Alu does, and the rest are neither.        *)
LEMMA LastMovedStep == LastMoved /\ [Next]_vars => LastMoved'
<1> SUFFICES ASSUME LastMoved, [Next]_vars PROVE LastMoved'
  OBVIOUS
<1>1. ASSUME last'.op \notin Movers PROVE LastMoved'
  BY <1>1 DEF LastMoved
<1>2. CASE BinaryOp
  <2>1. PICK op \in Binary, w \in Widths, b \in Operands : Did(op, w, b)
    BY <1>2 DEF BinaryOp
  <2> QED
    BY <1>1, <2>1, DidFact DEF Binary, Movers, ShiftOps, Rotates
<1>3. CASE ShiftOp
  <2>1. PICK op \in Movers, n \in Counts : Fits(acc, 1) /\ Did(op, 1, n) /\ Took(Alu(op, acc, n, 1, flags), 1)
    BY <1>3 DEF ShiftOp, Movers
  <2>2. acc \in 0 .. 255 /\ n \in Nat
    BY <2>1, ByteFact, WidthsAssumption
  <2>3. last'.op = op /\ last'.w = 1 /\ last'.a = acc /\ last'.b = n /\ last'.f = flags
    BY <2>1, DidFact
  <2>4. acc' = Alu(op, acc, n, 1, flags).r /\ flags' = Alu(op, acc, n, 1, flags).f
    BY <2>1 DEF Took
  <2> QED
    BY <2>2, <2>3, <2>4, Zenon DEF LastMoved
<1>4. CASE UnaryOp
  <2>1. PICK op \in Unary, w \in Widths : Did(op, w, 0)
    BY <1>4 DEF UnaryOp
  <2> QED
    BY <1>1, <2>1, DidFact DEF Unary, Movers, ShiftOps, Rotates
<1>5. CASE MulOp
  <2>1. PICK op \in {"Mul", "Imul"}, b \in Operands : Did(op, 1, b)
    BY <1>5 DEF MulOp
  <2> QED
    BY <1>1, <2>1, DidFact DEF Movers, ShiftOps, Rotates
<1>6. CASE DivOp
  <2>1. PICK op \in {"Div", "Idiv"}, b \in Operands : Did(op, 1, b)
    BY <1>6 DEF DivOp
  <2> QED
    BY <1>1, <2>1, DidFact DEF Movers, ShiftOps, Rotates
<1>7. CASE DecimalOp
  <2>1. PICK op \in Adjustments, imm \in Bases : Did(op, 1, imm)
    BY <1>7 DEF DecimalOp, Adjustments, Bases
  <2> QED
    BY <1>1, <2>1, DidFact DEF Adjustments, Movers, ShiftOps, Rotates
<1>8. CASE BitOp
  <2>1. PICK op \in {"Bt", "Bts", "Btr", "Btc"}, i \in Counts : Did(op, 1, i)
    BY <1>8 DEF BitOp
  <2> QED
    BY <1>1, <2>1, DidFact DEF Movers, ShiftOps, Rotates
<1>9. CASE ScanOp
  <2>1. PICK reverse \in BOOLEAN, b \in Operands : Did(IF reverse THEN "Bsr" ELSE "Bsf", 1, b)
    BY <1>9 DEF ScanOp
  <2>2. last'.op = IF reverse THEN "Bsr" ELSE "Bsf"
    BY <2>1, DidFact
  <2> QED
    BY <1>1, <2>2 DEF Movers, ShiftOps, Rotates
<1>10. CASE DoubleOp
  <2>1. PICK left \in BOOLEAN, n \in Counts : Did(IF left THEN "Shld" ELSE "Shrd", 1, n)
    BY <1>10 DEF DoubleOp
  <2>2. last'.op = IF left THEN "Shld" ELSE "Shrd"
    BY <2>1, DidFact
  <2> QED
    BY <1>1, <2>2 DEF Movers, ShiftOps, Rotates
<1>11. CASE UNCHANGED vars
  BY <1>11 DEF vars, LastMoved
<1> QED
  BY <1>2, <1>3, <1>4, <1>5, <1>6, <1>7, <1>8, <1>9, <1>10, <1>11 DEF Next

(* Of the code of alu.c and flags.c: a shift or rotate by any count, up to  *)
(* and past the width, leaves the value and the carry that as many moves by *)
(* one bit leave, after any sequence of operations.                         *)
THEOREM ShiftsAreRight == Spec => []ShiftsStepwise
<1>1. Spec => []LastMoved
  BY LastMovedInit, LastMovedStep, PTL DEF Spec
<1> QED
  BY <1>1, MovesFromInv, PTL
=============================================================================
