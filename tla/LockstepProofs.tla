----------------------------- MODULE LockstepProofs -----------------------------
(***************************************************************************)
(* The WebAssembly backend does what the interpreter does, for every       *)
(* program of decoded instructions, every memory window and every width of *)
(* a byte.  What it knows of the flag record is true of the record the     *)
(* guest state holds, so the conditions and the carries it computes from   *)
(* the record's words are the record's own; each instruction then leaves   *)
(* the two states alike up to the carry-in byte of a record that does not  *)
(* read it, or both of them stopped at the same instruction.               *)
(* LockstepArm64Proofs says the same of the ARM64 backend; X64Agrees is    *)
(* checked by TLC only.                                                    *)
(***************************************************************************)
EXTENDS Lockstep, Induction

(* A turn of a quotient and a remainder.                                    *)
LEMMA DivMod ==
  ASSUME NEW n \in Nat \ {0}, NEW v \in Int
  PROVE  /\ v \div n \in Int /\ v % n \in 0 .. n - 1 /\ v = n * (v \div n) + (v % n)
         /\ v >= 0 => v \div n \in Nat
  OBVIOUS

(* They are the only ones.                                                  *)
LEMMA DivUnique ==
  ASSUME NEW n \in Nat \ {0}, NEW q \in Int, NEW r \in 0 .. n - 1
  PROVE  /\ (n * q + r) \div n = q /\ (n * q + r) % n = r
  OBVIOUS

(* A number in two parts.                                                   *)
LEMMA Split ==
  ASSUME NEW n \in Nat \ {0}, NEW v \in Int
  PROVE  \E q \in Int, r \in 0 .. n - 1 : v = n * q + r /\ v \div n = q /\ v % n = r /\ (v >= 0 => q >= 0)
<1>1. v \div n \in Int /\ v % n \in 0 .. n - 1 /\ v = n * (v \div n) + (v % n) /\ (v >= 0 => v \div n >= 0)
  BY DivMod
<1> QED
  BY <1>1

(* A remainder is not changed by a multiple.                                *)
LEMMA ModMultiple ==
  ASSUME NEW n \in Nat \ {0}, NEW q \in Int, NEW v \in Int
  PROVE  (n * q + v) % n = v % n
<1>1. PICK h \in Int, r \in 0 .. n - 1 : v = n * h + r /\ v % n = r
  BY DivMod
<1>2. n * q + v = n * (q + h) + r
  <2>1. n * (q + h) = n * q + n * h /\ n * q \in Int /\ n * h \in Int
    OBVIOUS
  <2> QED
    BY <1>1, <2>1
<1>3. (n * (q + h) + r) % n = r
  <2>1. q + h \in Int
    OBVIOUS
  <2> QED
    BY <2>1, DivUnique
<1> QED
  BY <1>1, <1>2, <1>3

(* Adding before and after the remainder is taken.                          *)
LEMMA ModAdd ==
  ASSUME NEW n \in Nat \ {0}, NEW v \in Int, NEW u \in Int
  PROVE  ((v % n) + u) % n = (v + u) % n
<1>1. PICK h \in Int, r \in 0 .. n - 1 : v = n * h + r /\ v % n = r
  BY DivMod
<1>2. v + u = n * h + (r + u)
  <2>1. n * h \in Int
    OBVIOUS
  <2> QED
    BY <1>1, <2>1
<1>3. (n * h + (r + u)) % n = (r + u) % n
  <2>1. r + u \in Int
    OBVIOUS
  <2> QED
    BY <2>1, ModMultiple
<1> QED
  BY <1>1, <1>2, <1>3

(* Taking the remainder of a multiple first changes nothing.                *)
LEMMA ModMod ==
  ASSUME NEW n \in Nat \ {0}, NEW e \in Nat \ {0}, NEW v \in Int
  PROVE  (v % (n * e)) % n = v % n
<1>1. n * e \in Nat \ {0}
  OBVIOUS
<1>2. PICK h \in Int, r \in 0 .. n * e - 1 : v = (n * e) * h + r /\ v % (n * e) = r
  <2>1. PICK m \in Nat \ {0} : m = n * e
    BY <1>1
  <2>2. v \div m \in Int /\ v % m \in 0 .. m - 1 /\ v = m * (v \div m) + (v % m)
    BY DivMod
  <2> QED
    BY <2>1, <2>2
<1>3. v = n * (e * h) + r /\ e * h \in Int /\ r \in Int
  <2>1. (n * e) * h = n * (e * h) /\ e * h \in Int
    OBVIOUS
  <2> QED
    BY <1>2, <2>1
<1>4. (n * (e * h) + r) % n = r % n
  BY <1>3, ModMultiple
<1> QED
  BY <1>2, <1>3, <1>4

-----------------------------------------------------------------------------
(* Words.                                                                   *)

(* The powers in use, and how many bits the widths have.                    *)
LEMMA BitsFact ==
  /\ ByteBits \in Nat /\ ByteBits >= 2
  /\ Bits(1) = ByteBits /\ Bits(2) = 2 * ByteBits /\ Bits(4) = 4 * ByteBits
  /\ \A w \in Width : Bits(w) \in Nat /\ Bits(w) >= 2 /\ Bits(w) <= Bits(4) /\ Bits(w) - 1 \in 0 .. Bits(4)
  BY ByteAssumption DEF Bits, Width

(* The powers the widths use.                                                *)
LEMMA PowerFact ==
  /\ Power(0) = 1
  /\ \A n \in 0 .. Bits(4) + 1 : Power(n) \in Nat \ {0}
  /\ \A n \in 0 .. Bits(4) : Power(n + 1) = 2 * Power(n)
<1>1. PICK b \in Nat : b = Bits(4)
  BY BitsFact
<1>2. Power(0) = 1 /\ \A n \in 0 .. b + 3 : Power(n) \in Nat \ {0} /\ Power(n + 1) = 2 * Power(n)
  BY <1>1, PowerAssumption
<1>3. 0 .. b + 1 \subseteq 0 .. b + 3 /\ 0 .. b \subseteq 0 .. b + 3
  OBVIOUS
<1>4. (\A n \in 0 .. b + 1 : Power(n) \in Nat \ {0}) /\ (\A n \in 0 .. b : Power(n + 1) = 2 * Power(n))
  BY <1>2, <1>3
<1> QED
  BY <1>1, <1>2, <1>4

(* A power of a sum.                                                         *)
LEMMA PowerAdd ==
  ASSUME NEW m \in Nat, NEW n \in Nat, m + n <= Bits(4) + 1
  PROVE  Power(m + n) = Power(m) * Power(n)
<1> DEFINE T == {i \in 0 .. n : Power(m + i) = Power(m) * Power(i)}
<1>0. Bits(4) \in Nat
  BY BitsFact, Bits(4) = 4 * ByteBits
<1>1. 0 \in T
  <2>1. Power(m) \in Nat /\ m + 0 = m
    <3>1. m \in 0 .. Bits(4) + 1
      BY <1>0
    <3> QED
      BY <3>1, PowerFact
  <2> QED
    BY <2>1, PowerFact
<1>2. ASSUME NEW i \in 0 .. n - 1, i \in T PROVE i + 1 \in T
  <2>1. m + i \in 0 .. Bits(4) /\ i \in 0 .. Bits(4) /\ m \in 0 .. Bits(4) + 1 /\ m + (i + 1) = (m + i) + 1
    BY <1>0
  <2>2. Power(m + (i + 1)) = 2 * Power(m + i) /\ Power(i + 1) = 2 * Power(i)
    BY <2>1, PowerFact
  <2>3. PICK p \in Nat, q \in Nat : p = Power(m) /\ q = Power(i)
    <3>1. i \in 0 .. Bits(4) + 1
      BY <1>0, <2>1
    <3> QED
      BY <2>1, <3>1, PowerFact
  <2>4. 2 * (p * q) = p * (2 * q)
    OBVIOUS
  <2>5. Power(m + i) = p * q
    BY <1>2, <2>3
  <2> QED
    BY <2>2, <2>3, <2>4, <2>5
<1>3. 0 .. n \subseteq T
  <2> HIDE DEF T
  <2> QED
    BY <1>1, <1>2, InductionInterval
<1> QED
  BY <1>3

(* The widths' powers.                                                       *)
LEMMA WidthFact ==
  ASSUME NEW w \in Width
  PROVE  /\ Power(Bits(w)) \in Nat \ {0} /\ Power(Bits(w) - 1) \in Nat \ {0}
         /\ Power(Bits(w)) = 2 * Power(Bits(w) - 1) /\ Power(Bits(w)) <= Power(Bits(4))
         /\ Power(Bits(1)) <= Power(Bits(w))
<1>1. Bits(w) \in 0 .. Bits(4) + 1 /\ Bits(w) - 1 \in 0 .. Bits(4) /\ Bits(w) - 1 \in 0 .. Bits(4) + 1
  BY BitsFact
<1>2. (Bits(w) - 1) + 1 = Bits(w)
  BY BitsFact
<1>3. Power(Bits(w)) \in Nat \ {0} /\ Power(Bits(w) - 1) \in Nat \ {0} /\ Power(Bits(w)) = 2 * Power(Bits(w) - 1)
  BY <1>1, <1>2, PowerFact
<1>4. ASSUME NEW u \in Width, NEW v \in Width, Bits(u) <= Bits(v) PROVE Power(Bits(u)) <= Power(Bits(v))
  <2>1. PICK d \in Nat : Bits(v) = Bits(u) + d /\ Bits(u) \in Nat
    <3>1. Bits(v) - Bits(u) \in Nat /\ Bits(v) = Bits(u) + (Bits(v) - Bits(u))
      BY <1>4, BitsFact
    <3> QED
      BY <3>1, BitsFact
  <2>2. Power(Bits(v)) = Power(Bits(u)) * Power(d)
    <3>1. Bits(u) + d <= Bits(4) + 1
      BY <2>1, BitsFact
    <3> QED
      BY <2>1, <3>1, PowerAdd
  <2>3. Power(d) \in Nat \ {0} /\ Power(Bits(u)) \in Nat \ {0}
    <3>1. d \in 0 .. Bits(4) + 1 /\ Bits(u) \in 0 .. Bits(4) + 1
      BY <2>1, BitsFact
    <3> QED
      BY <3>1, PowerFact
  <2>4. ASSUME NEW p \in Nat \ {0}, NEW q \in Nat \ {0} PROVE p <= p * q
    OBVIOUS
  <2> QED
    BY <2>2, <2>3, <2>4
<1>5. Bits(1) <= Bits(w) /\ Bits(w) <= Bits(4) /\ 1 \in Width /\ 4 \in Width
  BY BitsFact DEF Width
<1> QED
  BY <1>3, <1>4, <1>5

(* Truncation gives a word, and leaves one alone.                            *)
LEMMA TruncFact ==
  ASSUME NEW w \in Width, NEW v \in Int
  PROVE  /\ Trunc(v, w) \in 0 .. Power(Bits(w)) - 1 /\ Trunc(v, w) \in Dwords /\ Trunc(v, w) \in Nat
         /\ v \in 0 .. Power(Bits(w)) - 1 => Trunc(v, w) = v
         /\ Trunc(Trunc(v, w), w) = Trunc(v, w)
<1>1. Power(Bits(w)) \in Nat \ {0} /\ Power(Bits(w)) <= Power(Bits(4))
  BY WidthFact
<1>2. Power(Bits(4)) \in Nat \ {0}
  BY WidthFact DEF Width
<1> QED
  BY <1>1, <1>2 DEF Trunc, Dwords

(* It can be done before or after a sum.                                     *)
LEMMA TruncAdd ==
  ASSUME NEW w \in Width, NEW v \in Int, NEW u \in Int
  PROVE  /\ Trunc(Trunc(v, w) + u, w) = Trunc(v + u, w)
         /\ Trunc(u + Trunc(v, w), w) = Trunc(u + v, w)
<1>1. Power(Bits(w)) \in Nat \ {0}
  BY WidthFact
<1>2. Trunc(Trunc(v, w) + u, w) = Trunc(v + u, w)
  BY <1>1, ModAdd DEF Trunc
<1>3. Trunc(v, w) \in Int
  BY TruncFact
<1>4. u + Trunc(v, w) = Trunc(v, w) + u /\ u + v = v + u
  BY <1>3
<1> QED
  BY <1>2, <1>4

(* A narrower truncation after a wider one.                                 *)
LEMMA TruncTrunc ==
  ASSUME NEW u \in Width, NEW w \in Width, u <= w, NEW v \in Int
  PROVE  Trunc(Trunc(v, w), u) = Trunc(v, u)
<1>1. PICK d \in Nat : Bits(w) = Bits(u) + d /\ Bits(u) \in Nat
  <2>1. Bits(w) - Bits(u) \in Nat /\ Bits(w) = Bits(u) + (Bits(w) - Bits(u))
    BY BitsFact DEF Width
  <2> QED
    BY <2>1, BitsFact
<1>2. Power(Bits(w)) = Power(Bits(u)) * Power(d)
  <2>1. Bits(u) + d <= Bits(4) + 1
    BY <1>1, BitsFact
  <2> QED
    BY <1>1, <2>1, PowerAdd
<1>3. Power(d) \in Nat \ {0} /\ Power(Bits(u)) \in Nat \ {0}
  <2>1. d \in 0 .. Bits(4) + 1 /\ Bits(u) \in 0 .. Bits(4) + 1
    BY <1>1, BitsFact
  <2> QED
    BY <2>1, PowerFact
<1> QED
  BY <1>2, <1>3, ModMod DEF Trunc

(* The low bits of a truncated value are those of the value.                *)
LEMMA BitTrunc ==
  ASSUME NEW w \in Width, NEW v \in Int, NEW i \in 0 .. Bits(w) - 1
  PROVE  Bit(Trunc(v, w), i) = Bit(v, i)
<1>1. PICK d \in Nat : Bits(w) = (i + 1) + d /\ i + 1 \in Nat
  <2>1. Bits(w) - (i + 1) \in Nat /\ Bits(w) = (i + 1) + (Bits(w) - (i + 1))
    BY BitsFact
  <2> QED
    BY <2>1
<1>2. i \in 0 .. Bits(4) /\ d \in 0 .. Bits(4) + 1 /\ (i + 1) + d <= Bits(4) + 1
  BY <1>1, BitsFact
<1>3. PICK p \in Nat \ {0}, q \in Nat \ {0} : p = Power(i) /\ q = Power(d) /\ Power(Bits(w)) = (2 * p) * q
  <2>1. Power(Bits(w)) = Power(i + 1) * Power(d)
    BY <1>1, <1>2, PowerAdd
  <2>2. Power(i + 1) = 2 * Power(i) /\ Power(i) \in Nat \ {0} /\ Power(d) \in Nat \ {0}
    <3>1. i \in 0 .. Bits(4) + 1
      BY <1>2, BitsFact
    <3> QED
      BY <1>2, <3>1, PowerFact
  <2> QED
    BY <2>1, <2>2
<1>4. PICK h \in Int, r \in 0 .. (2 * p) * q - 1 : v = ((2 * p) * q) * h + r /\ Trunc(v, w) = r
  <2>1. PICK m \in Nat \ {0} : m = (2 * p) * q
    OBVIOUS
  <2>2. v \div m \in Int /\ v % m \in 0 .. m - 1 /\ v = m * (v \div m) + (v % m)
    BY DivMod
  <2> QED
    BY <1>3, <2>1, <2>2 DEF Trunc
<1>5. PICK s \in Int, t \in 0 .. p - 1 : r = p * s + t /\ r \div p = s
  <2>1. r \in Int
    OBVIOUS
  <2> QED
    BY <2>1, Split
<1>6. v = p * (2 * (q * h) + s) + t /\ q * h \in Int
  <2>1. ((2 * p) * q) * h = p * (2 * (q * h)) /\ q * h \in Int
    OBVIOUS
  <2>2. p * (2 * (q * h) + s) = p * (2 * (q * h)) + p * s /\ p * (2 * (q * h)) \in Int /\ p * s \in Int
    BY <2>1
  <2> QED
    BY <1>4, <1>5, <2>1, <2>2
<1>7. v \div p = 2 * (q * h) + s
  <2>1. 2 * (q * h) + s \in Int
    BY <1>6
  <2> QED
    BY <1>6, <2>1, DivUnique
<1>8. (2 * (q * h) + s) % 2 = s % 2
  BY <1>6, ModMultiple
<1> QED
  BY <1>3, <1>4, <1>5, <1>7, <1>8 DEF Bit

(* The sign and the signed value see only the bits of their width.          *)
LEMMA SignedTrunc ==
  ASSUME NEW w \in Width, NEW v \in Int
  PROVE  Msb(Trunc(v, w), w) = Msb(v, w) /\ Signed(Trunc(v, w), w) = Signed(v, w) /\ Signed(v, w) \in Int
<1>1. Bits(w) - 1 \in 0 .. Bits(w) - 1
  BY BitsFact
<1>2. Msb(Trunc(v, w), w) = Msb(v, w)
  BY <1>1, BitTrunc DEF Msb
<1>3. Trunc(Trunc(v, w), w) = Trunc(v, w) /\ Trunc(v, w) \in Nat /\ Power(Bits(w)) \in Nat
  BY TruncFact, WidthFact
<1> QED
  BY <1>2, <1>3 DEF Signed

(* The parity is of the low byte, which every width keeps.                   *)
LEMMA ParityTrunc ==
  ASSUME NEW w \in Width, NEW v \in Int
  PROVE  EvenParity(Trunc(v, w)) = EvenParity(v)
<1>1. ASSUME NEW i \in 0 .. ByteBits - 1 PROVE Bit(Trunc(v, w), i) = Bit(v, i)
  <2>1. i \in 0 .. Bits(w) - 1
    BY BitsFact DEF Width, Bits
  <2> QED
    BY <2>1, BitTrunc
<1>2. {i \in 0 .. ByteBits - 1 : Bit(Trunc(v, w), i) = 1} = {i \in 0 .. ByteBits - 1 : Bit(v, i) = 1}
  BY <1>1
<1> QED
  BY <1>2 DEF EvenParity

(* The sign bit and the signed value of a word.                              *)
LEMMA SignFact ==
  ASSUME NEW w \in Width, NEW v \in 0 .. Power(Bits(w)) - 1
  PROVE  /\ Trunc(v, w) = v
         /\ Msb(v, w) = IF v >= Power(Bits(w) - 1) THEN 1 ELSE 0
         /\ Signed(v, w) = IF v >= Power(Bits(w) - 1) THEN v - Power(Bits(w)) ELSE v
<1>1. PICK h \in Nat \ {0} : h = Power(Bits(w) - 1) /\ Power(Bits(w)) = 2 * h
  BY WidthFact
<1>2. (v \div h) % 2 = IF v >= h THEN 1 ELSE 0
  <2>1. CASE v >= h
    <3>1. v = h * 1 + (v - h) /\ v - h \in 0 .. h - 1
      BY <1>1, <2>1
    <3>2. v \div h = 1
      BY <3>1, DivUnique
    <3> QED
      BY <2>1, <3>2
  <2>2. CASE v < h
    <3>1. v = h * 0 + v /\ v \in 0 .. h - 1
      BY <1>1, <2>2
    <3>2. v \div h = 0
      BY <3>1, DivUnique
    <3> QED
      BY <2>2, <3>2, <1>1
  <2> QED
    BY <1>1, <2>1, <2>2
<1>3. Trunc(v, w) = v
  BY TruncFact, WidthFact
<1> QED
  BY <1>1, <1>2, <1>3 DEF Msb, Bit, Signed

(* A word with one of its fields replaced is a word.                        *)
LEMMA FieldFact ==
  ASSUME NEW v \in Dwords, NEW j \in 0 .. 3, NEW w \in Width, j + w <= 4, NEW x \in Int
  PROVE  /\ WithField(v, j, w, x) \in Dwords
         /\ j = 0 /\ w = 4 => WithField(v, j, w, x) = Trunc(x, w)
<1>1. /\ j * ByteBits \in Nat /\ Bits(w) \in Nat /\ (4 - (j + w)) * ByteBits \in Nat
      /\ Bits(4) = (j * ByteBits + Bits(w)) + (4 - (j + w)) * ByteBits
      /\ j * ByteBits + Bits(w) \in Nat /\ j * ByteBits + Bits(w) <= Bits(4) + 1
  <2>1. PICK b \in Nat : b = ByteBits
    BY BitsFact
  <2>2. Bits(w) = w * b /\ Bits(4) = 4 * b
    BY <2>1 DEF Bits
  <2>3. j \in {0, 1, 2, 3} /\ w \in {1, 2, 4}
    BY DEF Width
  <2>4. 4 - (j + w) \in Nat
    BY <2>3
  <2>5. PICK y \in Nat : y = 4 - (j + w)
    BY <2>4
  <2>6. j * b \in Nat /\ w * b \in Nat /\ y * b \in Nat /\ 4 * b = (j * b + w * b) + y * b
    <3>1. j + w + y = 4
      BY <2>3, <2>5
    <3>2. (j + w + y) * b = (j * b + w * b) + y * b
      BY <2>3
    <3> QED
      BY <2>3, <3>1, <3>2
  <2> QED
    BY <2>1, <2>2, <2>5, <2>6
<1>2. PICK p \in Nat \ {0}, q \in Nat \ {0}, e \in Nat \ {0} :
        p = Power(j * ByteBits) /\ q = Power(Bits(w)) /\ e = Power((4 - (j + w)) * ByteBits) /\ Power(Bits(4)) = (p * q) * e
  <2>1. Power(Bits(4)) = (Power(j * ByteBits) * Power(Bits(w))) * Power((4 - (j + w)) * ByteBits)
    <3>1. Power(j * ByteBits + Bits(w)) = Power(j * ByteBits) * Power(Bits(w))
      BY <1>1, PowerAdd
    <3>2. (j * ByteBits + Bits(w)) + (4 - (j + w)) * ByteBits <= Bits(4) + 1
      BY <1>1
    <3>3. Power((j * ByteBits + Bits(w)) + (4 - (j + w)) * ByteBits) = Power(j * ByteBits + Bits(w)) * Power((4 - (j + w)) * ByteBits)
      BY <1>1, <3>2, PowerAdd
    <3> QED
      BY <1>1, <3>1, <3>3
  <2>2. j * ByteBits \in 0 .. Bits(4) + 1 /\ Bits(w) \in 0 .. Bits(4) + 1 /\ (4 - (j + w)) * ByteBits \in 0 .. Bits(4) + 1
    BY <1>1
  <2> QED
    BY <2>1, <2>2, PowerFact
<1>3. PICK u \in Nat, l \in 0 .. p - 1 : v = p * u + l /\ v \div p = u
  <2>1. v \in Int /\ v >= 0
    BY WidthFact DEF Dwords
  <2>2. \E i \in Int, g \in 0 .. p - 1 : v = p * i + g /\ v \div p = i /\ (v >= 0 => i >= 0)
    BY <2>1, Split
  <2> QED
    BY <2>1, <2>2
<1>4. PICK h \in Nat, m \in 0 .. q - 1 : u = q * h + m /\ u % q = m
  <2>1. u \in Int /\ u >= 0
    OBVIOUS
  <2>2. PICK i \in Int, g \in 0 .. q - 1 : u = q * i + g /\ u \div q = i /\ u % q = g /\ (u >= 0 => i >= 0)
    BY <2>1, Split
  <2>3. i \in Nat
    BY <2>1, <2>2
  <2> QED
    BY <2>2, <2>3, Zenon
<1>5. PICK y \in 0 .. q - 1 : y = Trunc(x, w)
  BY <1>2, TruncFact
<1>6. WithField(v, j, w, x) = p * (q * h + y) + l
  <2>1. WithField(v, j, w, x) = v + (y - m) * p
    BY <1>2, <1>3, <1>4, <1>5 DEF WithField, Trunc
  <2>2. p * (q * h + y) = p * (q * h) + p * y /\ p * (q * h + m) = p * (q * h) + p * m /\ (y - m) * p = p * y - p * m
    OBVIOUS
  <2>3. p * (q * h) \in Int /\ p * y \in Int /\ p * m \in Int
    OBVIOUS
  <2> QED
    BY <1>3, <1>4, <2>1, <2>2, <2>3
<1>7. h < e
  <2>1. v < (p * q) * e
    BY <1>2 DEF Dwords
  <2>2. SUFFICES ASSUME h >= e PROVE FALSE
    OBVIOUS
  <2>3. (p * q) * h >= (p * q) * e
    <3>1. PICK n \in Nat : n = p * q
      OBVIOUS
    <3>2. n * h >= n * e
      BY <2>2
    <3> QED
      BY <3>1, <3>2
  <2>4. p * u = (p * q) * h + p * m /\ p * m \in Nat /\ (p * q) * h \in Nat /\ (p * q) * e \in Nat
    <3>1. p * (q * h + m) = (p * q) * h + p * m
      OBVIOUS
    <3> QED
      BY <1>4, <3>1
  <2> QED
    BY <1>3, <2>1, <2>3, <2>4
<1>8. p * (q * h + y) + l \in 0 .. (p * q) * e - 1
  <2>1. q * h + y <= q * e - 1
    <3>1. q * (h + 1) <= q * e
      BY <1>7
    <3>2. q * (h + 1) = q * h + q /\ q * h \in Nat /\ q * e \in Nat
      OBVIOUS
    <3> QED
      BY <3>1, <3>2
  <2>2. PICK n \in Nat, t \in Nat : n = q * h + y /\ t = q * e
    OBVIOUS
  <2>3. p * (n + 1) <= p * t
    BY <2>1, <2>2
  <2>4. p * (n + 1) = p * n + p /\ p * n \in Nat /\ p * t \in Nat /\ p * t = (p * q) * e
    BY <2>2
  <2> QED
    BY <2>2, <2>3, <2>4
<1>9. ASSUME j = 0, w = 4 PROVE WithField(v, j, w, x) = Trunc(x, w)
  <2>1. p = 1 /\ q = Power(Bits(4))
    BY <1>2, <1>9, BitsFact, PowerFact
  <2>2. l = 0 /\ u = v /\ v \in 0 .. q - 1
    BY <1>3, <2>1 DEF Dwords
  <2>3. h = 0
    <3>1. e = 1
      BY <1>2, <1>9, BitsFact, PowerFact
    <3> QED
      BY <1>7, <3>1
  <2> QED
    BY <1>5, <1>6, <2>1, <2>2, <2>3
<1> QED
  BY <1>2, <1>6, <1>8, <1>9 DEF Dwords

(* Bitwise conjunction, and what it determines, is of numbers.             *)

\* One turn of the conjunction, over the pairs below x and y.
AndStep(f, x, y) == [p \in (0 .. x) \X (0 .. y) |->
  IF p[1] = 0 \/ p[2] = 0 THEN 0 ELSE 2 * f[<<p[1] \div 2, p[2] \div 2>>] + (p[1] % 2) * (p[2] % 2)]

(* Halving.                                                                 *)
LEMMA Halves ==
  ASSUME NEW x \in Nat
  PROVE  /\ x \div 2 \in Nat /\ x % 2 \in {0, 1} /\ x = 2 * (x \div 2) + (x % 2)
         /\ x # 0 => x \div 2 < x
  OBVIOUS

(* The pairs a turn reads.                                                  *)
LEMMA AndReads ==
  ASSUME NEW x \in Nat, NEW y \in Nat, NEW p \in (0 .. x) \X (0 .. y)
  PROVE  /\ p[1] \in 0 .. x /\ p[2] \in 0 .. y
         /\ <<p[1] \div 2, p[2] \div 2>> \in (0 .. x) \X (0 .. y)
         /\ p[1] # 0 => p[1] \div 2 < p[1]
         /\ (p[1] % 2) * (p[2] % 2) \in Nat
<1>1. p[1] \in 0 .. x /\ p[2] \in 0 .. y
  OBVIOUS
<1>2. p[1] \div 2 \in 0 .. x /\ p[2] \div 2 \in 0 .. y /\ (p[1] # 0 => p[1] \div 2 < p[1])
  BY <1>1
<1>3. p[1] % 2 \in {0, 1} /\ p[2] % 2 \in {0, 1}
  BY <1>1
<1>4. (p[1] % 2) * (p[2] % 2) \in Nat
  BY <1>3
<1> QED
  BY <1>1, <1>2, <1>4

(* The recursive function the conjunction chooses exists.                   *)
LEMMA AndExists ==
  ASSUME NEW x \in Nat, NEW y \in Nat
  PROVE  \E f \in [(0 .. x) \X (0 .. y) -> Nat] : f = AndStep(f, x, y)
<1> DEFINE S == (0 .. x) \X (0 .. y)
<1> DEFINE turn(f, p) == IF p[1] = 0 \/ p[2] = 0 THEN 0 ELSE 2 * f[<<p[1] \div 2, p[2] \div 2>>] + (p[1] % 2) * (p[2] % 2)
<1> DEFINE T == {n \in 0 .. x : \E f \in [S -> Nat] : \A p \in S : p[1] <= n => f[p] = turn(f, p)}
<1>1. 0 \in T
  <2> DEFINE f == [p \in S |-> 0]
  <2>1. f \in [S -> Nat] /\ 0 \in 0 .. x
    OBVIOUS
  <2>2. ASSUME NEW p \in S, p[1] <= 0 PROVE f[p] = turn(f, p)
    <3>1. p[1] = 0
      BY <2>2, AndReads
    <3> QED
      BY <3>1
  <2> HIDE DEF f, S, turn
  <2> QED
    BY <2>1, <2>2
<1>2. ASSUME NEW n \in 0 .. x - 1, n \in T PROVE n + 1 \in T
  <2>1. PICK f \in [S -> Nat] : \A p \in S : p[1] <= n => f[p] = turn(f, p)
    BY <1>2
  <2> DEFINE g == [p \in S |-> turn(f, p)]
  <2>2. \A p \in S : turn(f, p) \in Nat
    <3> SUFFICES ASSUME NEW p \in S PROVE turn(f, p) \in Nat
      OBVIOUS
    <3>1. <<p[1] \div 2, p[2] \div 2>> \in S /\ (p[1] % 2) * (p[2] % 2) \in Nat
      BY AndReads
    <3>2. f[<<p[1] \div 2, p[2] \div 2>>] \in Nat
      BY <2>1, <3>1
    <3> QED
      BY <3>1, <3>2
  <2>3. g \in [S -> Nat]
    BY <2>2
  <2>4. ASSUME NEW p \in S, p[1] <= n + 1 PROVE g[p] = turn(g, p)
    <3> DEFINE q == <<p[1] \div 2, p[2] \div 2>>
    <3>1. g[p] = turn(f, p)
      OBVIOUS
    <3>2. CASE p[1] = 0 \/ p[2] = 0
      BY <3>1, <3>2
    <3>3. CASE p[1] # 0 /\ p[2] # 0
      <4>1. q \in S /\ p[1] \in Nat /\ p[1] \div 2 < p[1]
        BY <3>3, AndReads
      <4>2. q[1] <= n
        BY <2>4, <4>1
      <4>3. g[q] = turn(f, q) /\ f[q] = turn(f, q)
        BY <2>1, <4>1, <4>2
      <4>4. g[q] = f[q]
        BY <4>3
      <4> QED
        BY <3>1, <3>3, <4>4
    <3> QED
      BY <3>2, <3>3
  <2>5. n + 1 \in 0 .. x
    OBVIOUS
  <2> HIDE DEF g, S, turn
  <2> QED
    BY <2>3, <2>4, <2>5
<1>3. 0 .. x \subseteq T
  <2> HIDE DEF T
  <2> QED
    BY <1>1, <1>2, InductionInterval
<1>4. PICK f \in [S -> Nat] : \A p \in S : p[1] <= x => f[p] = turn(f, p)
  <2>1. x \in T
    <3> HIDE DEF T
    <3> QED
      BY <1>3
  <2> QED
    BY <2>1
<1>5. \A p \in S : f[p] = turn(f, p)
  BY <1>4, AndReads
<1>6. f = [p \in S |-> turn(f, p)]
  <2> HIDE DEF S, turn
  <2> QED
    BY <1>4, <1>5
<1> QED
  BY <1>4, <1>6 DEF AndStep

(* Its value does not depend on how far it was defined.                     *)
LEMMA AndUnique ==
  ASSUME NEW x \in Nat, NEW y \in Nat, NEW f, f = AndStep(f, x, y),
         NEW u \in 0 .. x, NEW v \in 0 .. y, NEW g, g = AndStep(g, u, v)
  PROVE  g[<<u, v>>] = f[<<u, v>>]
<1> DEFINE S == (0 .. u) \X (0 .. v)
<1> DEFINE T == {n \in Nat : \A p \in S : p[1] = n => g[p] = f[p]}
<1>1. ASSUME NEW n \in Nat, \A m \in Nat : m < n => m \in T PROVE n \in T
  <2> SUFFICES ASSUME NEW p \in S, p[1] = n PROVE g[p] = f[p]
    OBVIOUS
  <2> DEFINE q == <<p[1] \div 2, p[2] \div 2>>
  <2>1. p \in (0 .. x) \X (0 .. y)
    OBVIOUS
  <2>2. CASE p[1] = 0 \/ p[2] = 0
    BY <2>1, <2>2 DEF AndStep
  <2>3. CASE p[1] # 0 /\ p[2] # 0
    <3>1. q \in S /\ q[1] \in Nat /\ q[1] < n
      BY <2>3, AndReads
    <3>2. g[q] = f[q]
      BY <1>1, <3>1
    <3>3. g[p] = 2 * g[q] + (p[1] % 2) * (p[2] % 2)
      BY <2>3 DEF AndStep
    <3>4. f[p] = 2 * f[q] + (p[1] % 2) * (p[2] % 2)
      BY <2>1, <2>3 DEF AndStep
    <3> QED
      BY <3>2, <3>3, <3>4
  <2> QED
    BY <2>2, <2>3
<1>2. Nat \subseteq T
  <2> HIDE DEF T
  <2> QED
    BY <1>1, StrongInduction
<1>3. <<u, v>> \in S /\ u \in T
  BY <1>2
<1> QED
  BY <1>3

(* The bitwise operations yield numbers.                                    *)
LEMMA BitwiseFact ==
  ASSUME NEW x \in Nat, NEW y \in Nat
  PROVE  And(x, y) \in Nat /\ Or(x, y) \in Int /\ Xor(x, y) \in Int
<1> DEFINE g == CHOOSE f : f = AndStep(f, x, y)
<1>1. PICK f \in [(0 .. x) \X (0 .. y) -> Nat] : f = AndStep(f, x, y)
  BY AndExists
<1>2. g = AndStep(g, x, y)
  BY <1>1
<1>3. And(x, y) = g[<<x, y>>]
  BY DEF And, AndStep
<1> HIDE DEF g
<1>4. x \in 0 .. x /\ y \in 0 .. y /\ <<x, y>> \in (0 .. x) \X (0 .. y)
  OBVIOUS
<1>5. g[<<x, y>>] = f[<<x, y>>]
  BY <1>1, <1>2, <1>4, AndUnique
<1>6. And(x, y) \in Nat
  BY <1>1, <1>3, <1>4, <1>5
<1> QED
  BY <1>6 DEF Or, Xor

\* Two records from which every flag is the same: the carry-in byte counts only where it is read.
SameRecord(f, g) ==
  /\ f.kind = g.kind /\ f.a = g.a /\ f.b = g.b /\ f.r = g.r /\ f.w = g.w /\ f.word = g.word
  /\ CarryInIsLive(f.kind) => f.carry_in = g.carry_in

(* The carry of such records.                                                *)
LEMMA SameCarry ==
  ASSUME NEW f, NEW g, SameRecord(f, g)
  PROVE  CF(f) = CF(g)
<1>1. ShiftCarry(f) = ShiftCarry(g)
  BY DEF SameRecord, ShiftCarry
<1> QED
  BY <1>1 DEF SameRecord, CarryInIsLive, CF

(* Every flag of them.                                                       *)
LEMMA SameEflags ==
  ASSUME NEW f, NEW g, SameRecord(f, g)
  PROVE  /\ CF(f) = CF(g) /\ ZF(f) = ZF(g) /\ SF(f) = SF(g) /\ PF(f) = PF(g) /\ AF(f) = AF(g) /\ OF(f) = OF(g)
         /\ Eflags(f) = Eflags(g)
<1>1. CF(f) = CF(g)
  BY SameCarry
<1>2. ZF(f) = ZF(g) /\ SF(f) = SF(g) /\ PF(f) = PF(g)
  BY DEF SameRecord, ZF, SF, PF
<1>3. AF(f) = AF(g)
  BY DEF SameRecord, AF
<1>4. OF(f) = OF(g)
  BY <1>1 DEF SameRecord, OF
<1>5. Eflags(f) = Eflags(g)
  BY <1>1, <1>2, <1>3, <1>4 DEF SameRecord, Eflags
<1> QED
  BY <1>1, <1>2, <1>3, <1>4, <1>5

(* Every condition of them.                                                  *)
LEMMA SameCond ==
  ASSUME NEW f, NEW g, SameRecord(f, g), NEW cc
  PROVE  Cond(cc, f) = Cond(cc, g)
<1>1. f.kind = g.kind /\ f.word = g.word
  BY DEF SameRecord
<1>2. /\ CF(f) = CF(g) /\ ZF(f) = ZF(g) /\ SF(f) = SF(g) /\ PF(f) = PF(g) /\ OF(f) = OF(g)
  BY SameEflags
<1>3. CASE f.kind \in {"None", "Explicit"}
  BY <1>1, <1>3 DEF Cond
<1>4. CASE f.kind \notin {"None", "Explicit"}
  <2> DEFINE of(x) == CASE cc = "O" -> x.o [] cc = "NO" -> ~x.o
         [] cc = "B" -> x.c [] cc = "NB" -> ~x.c
         [] cc = "Z" -> x.z [] cc = "NZ" -> ~x.z
         [] cc = "BE" -> x.z \/ x.c [] cc = "A" -> ~x.z /\ ~x.c
         [] cc = "S" -> x.s [] cc = "NS" -> ~x.s
         [] cc = "P" -> x.p [] cc = "NP" -> ~x.p
         [] cc = "L" -> ~(x.s <=> x.o) [] cc = "GE" -> (x.s <=> x.o)
         [] cc = "LE" -> x.z \/ ~(x.s <=> x.o)
         [] cc = "G" -> ~x.z /\ (x.s <=> x.o)
  <2>1. Cond(cc, f) = of([o |-> OF(f), c |-> CF(f), z |-> ZF(f), s |-> SF(f), p |-> PF(f)])
    BY <1>4 DEF Cond
  <2>2. Cond(cc, g) = of([o |-> OF(g), c |-> CF(g), z |-> ZF(g), s |-> SF(g), p |-> PF(g)])
    BY <1>1, <1>4 DEF Cond
  <2> HIDE DEF of
  <2> QED
    BY <1>2, <2>1, <2>2
<1> QED
  BY <1>3, <1>4

\* A record whose words are the operands and the result at its width.
Exact(f) ==
  /\ f.w \in Width /\ f.a \in 0 .. Power(Bits(f.w)) - 1 /\ f.b \in 0 .. Power(Bits(f.w)) - 1 /\ f.r \in Int
  /\ f.kind = "Sub" => f.r = Trunc(f.a - f.b, f.w)
  /\ f.kind = "Add" => f.r = Trunc(f.a + f.b, f.w)
  /\ f.kind = "Inc" => f.r = Trunc(f.a + 1, f.w)
  /\ f.kind = "Dec" => f.r = Trunc(f.a - 1, f.w)

\* The conditions that are not the negation of another.
PositiveConds == {"O", "B", "Z", "BE", "S", "P", "L", "LE"}

(* The condition a negated one negates is not negated itself.                *)
LEMMA PositiveFact ==
  ASSUME NEW cc \in Conds
  PROVE  WasmPositive(cc) \in PositiveConds
  BY DEF WasmPositive, PositiveConds, Conds

(* A negated condition is the other one's opposite.                          *)
LEMMA NegativeFact ==
  ASSUME NEW cc \in Conds, NEW f, f.kind \in {"Sub", "Logic", "Add", "Inc", "Dec"}
  PROVE  Cond(cc, f) = ((WasmPositive(cc) = cc) = Cond(WasmPositive(cc), f))
<1>1. f.kind \notin {"None", "Explicit"}
  OBVIOUS
<1>2. /\ CF(f) \in BOOLEAN /\ ZF(f) \in BOOLEAN /\ SF(f) \in BOOLEAN /\ PF(f) \in BOOLEAN
  BY DEF CF, ZF, SF, PF, EvenParity
<1>3. OF(f) \in BOOLEAN
  BY DEF OF
<1> QED
  BY <1>1, <1>2, <1>3 DEF Conds, WasmPositive, Cond

(* A remainder of what went round at most once.                              *)
LEMMA Wraps ==
  ASSUME NEW n \in Nat \ {0}, NEW v \in -n .. 2 * n - 1
  PROVE  v % n = IF v < 0 THEN v + n ELSE IF v < n THEN v ELSE v - n
  OBVIOUS

(* A difference, a sum and a step: the sign and the wrap, over numbers.      *)
LEMMA DifferenceFact ==
  ASSUME NEW n \in Nat \ {0}, NEW a \in 0 .. n - 1, NEW b \in 0 .. n - 1
  PROVE  /\ (a - b) % n = IF a < b THEN a - b + n ELSE a - b
         /\ (a + b) % n = IF a + b >= n THEN a + b - n ELSE a + b
         /\ (a + 1) % n = IF a + 1 = n THEN 0 ELSE a + 1
         /\ (a - 1) % n = IF a = 0 THEN n - 1 ELSE a - 1
<1>1. /\ a - b \in -n .. 2 * n - 1 /\ a + b \in -n .. 2 * n - 1 /\ a + 1 \in -n .. 2 * n - 1 /\ a - 1 \in -n .. 2 * n - 1
  OBVIOUS
<1>3. PICK u, v, x, y : /\ u = a + 1 /\ v = a - 1 /\ x = a - b /\ y = a + b
                        /\ u \in -n .. 2 * n - 1 /\ v \in -n .. 2 * n - 1 /\ x \in -n .. 2 * n - 1 /\ y \in -n .. 2 * n - 1
  BY <1>1, Zenon
<1>4. /\ u % n = (IF u < 0 THEN u + n ELSE IF u < n THEN u ELSE u - n)
      /\ v % n = (IF v < 0 THEN v + n ELSE IF v < n THEN v ELSE v - n)
      /\ x % n = (IF x < 0 THEN x + n ELSE IF x < n THEN x ELSE x - n)
      /\ y % n = (IF y < 0 THEN y + n ELSE IF y < n THEN y ELSE y - n)
  BY <1>3, Wraps
<1>5. (a - b) % n = (IF a < b THEN a - b + n ELSE a - b)
  BY <1>3, <1>4
<1>6. (a + b) % n = (IF a + b >= n THEN a + b - n ELSE a + b)
  BY <1>3, <1>4
<1>7. (a + 1) % n = (IF a + 1 = n THEN 0 ELSE a + 1)
  BY <1>3, <1>4
<1>8. (a - 1) % n = (IF a = 0 THEN n - 1 ELSE a - 1)
  BY <1>3, <1>4
<1> QED
  BY <1>5, <1>6, <1>7, <1>8

(* What an exact record says, in numbers.                                   *)
LEMMA ExactFact ==
  ASSUME NEW f, Exact(f), f.kind \in {"Sub", "Logic", "Add", "Inc", "Dec"}, NEW h, h = Power(Bits(f.w) - 1),
         NEW r, r = Trunc(f.r, f.w)
  PROVE  /\ h \in Nat \ {0} /\ Power(Bits(f.w)) = 2 * h
         /\ f.a \in 0 .. 2 * h - 1 /\ f.b \in 0 .. 2 * h - 1 /\ r \in 0 .. 2 * h - 1
         /\ Trunc(f.a, f.w) = f.a /\ Trunc(f.b, f.w) = f.b
         /\ Msb(f.a, f.w) = (IF f.a >= h THEN 1 ELSE 0) /\ Signed(f.a, f.w) = (IF f.a >= h THEN f.a - 2 * h ELSE f.a)
         /\ Msb(f.b, f.w) = (IF f.b >= h THEN 1 ELSE 0) /\ Signed(f.b, f.w) = (IF f.b >= h THEN f.b - 2 * h ELSE f.b)
         /\ Msb(f.r, f.w) = (IF r >= h THEN 1 ELSE 0)
         /\ Msb(r, f.w) = (IF r >= h THEN 1 ELSE 0) /\ Signed(r, f.w) = (IF r >= h THEN r - 2 * h ELSE r)
         /\ f.kind = "Sub" => r = IF f.a < f.b THEN f.a - f.b + 2 * h ELSE f.a - f.b
         /\ f.kind = "Add" => r = IF f.a + f.b >= 2 * h THEN f.a + f.b - 2 * h ELSE f.a + f.b
         /\ f.kind = "Inc" => r = IF f.a + 1 = 2 * h THEN 0 ELSE f.a + 1
         /\ f.kind = "Dec" => r = IF f.a = 0 THEN 2 * h - 1 ELSE f.a - 1
         /\ f.kind # "Logic" => f.r = r
<1>1. f.w \in Width /\ f.a \in 0 .. Power(Bits(f.w)) - 1 /\ f.b \in 0 .. Power(Bits(f.w)) - 1 /\ f.r \in Int
  BY DEF Exact
<1>2. h \in Nat \ {0} /\ Power(Bits(f.w)) = 2 * h
  BY <1>1, WidthFact
<1>3. r \in 0 .. Power(Bits(f.w)) - 1 /\ Trunc(r, f.w) = r
  BY <1>1, TruncFact
<1>4. Msb(f.r, f.w) = Msb(r, f.w)
  BY <1>1, SignedTrunc
<1>5. f.kind # "Logic" => f.r = r
  <2>1. f.a - f.b \in Int /\ f.a + f.b \in Int /\ f.a + 1 \in Int /\ f.a - 1 \in Int
    BY <1>1, <1>2
  <2>2. \A v \in Int : Trunc(Trunc(v, f.w), f.w) = Trunc(v, f.w)
    BY <1>1, TruncFact
  <2> QED
    BY <2>1, <2>2 DEF Exact
<1>6. /\ Trunc(f.a - f.b, f.w) = (IF f.a < f.b THEN f.a - f.b + 2 * h ELSE f.a - f.b)
      /\ Trunc(f.a + f.b, f.w) = (IF f.a + f.b >= 2 * h THEN f.a + f.b - 2 * h ELSE f.a + f.b)
      /\ Trunc(f.a + 1, f.w) = (IF f.a + 1 = 2 * h THEN 0 ELSE f.a + 1)
      /\ Trunc(f.a - 1, f.w) = (IF f.a = 0 THEN 2 * h - 1 ELSE f.a - 1)
  <2>2. PICK p \in Nat \ {0} : p = 2 * h /\ Power(Bits(f.w)) = p
    BY <1>2
  <2>1. f.a \in 0 .. p - 1 /\ f.b \in 0 .. p - 1
    BY <1>1, <2>2
  <2>3. /\ (f.a - f.b) % p = (IF f.a < f.b THEN f.a - f.b + p ELSE f.a - f.b)
        /\ (f.a + f.b) % p = (IF f.a + f.b >= p THEN f.a + f.b - p ELSE f.a + f.b)
        /\ (f.a + 1) % p = (IF f.a + 1 = p THEN 0 ELSE f.a + 1)
        /\ (f.a - 1) % p = (IF f.a = 0 THEN p - 1 ELSE f.a - 1)
    BY <2>1, DifferenceFact
  <2> QED
    BY <2>2, <2>3 DEF Trunc
<1>7. /\ f.kind = "Sub" => r = Trunc(f.a - f.b, f.w)
      /\ f.kind = "Add" => r = Trunc(f.a + f.b, f.w)
      /\ f.kind = "Inc" => r = Trunc(f.a + 1, f.w)
      /\ f.kind = "Dec" => r = Trunc(f.a - 1, f.w)
  BY <1>5 DEF Exact
<1>8. /\ Trunc(f.a, f.w) = f.a /\ Trunc(f.b, f.w) = f.b
      /\ Msb(f.a, f.w) = (IF f.a >= h THEN 1 ELSE 0) /\ Signed(f.a, f.w) = (IF f.a >= h THEN f.a - 2 * h ELSE f.a)
      /\ Msb(f.b, f.w) = (IF f.b >= h THEN 1 ELSE 0) /\ Signed(f.b, f.w) = (IF f.b >= h THEN f.b - 2 * h ELSE f.b)
      /\ Msb(r, f.w) = (IF r >= h THEN 1 ELSE 0) /\ Signed(r, f.w) = (IF r >= h THEN r - 2 * h ELSE r)
  BY <1>1, <1>2, <1>3, SignFact
<1> QED
  BY <1>1, <1>2, <1>3, <1>4, <1>5, <1>6, <1>7, <1>8

(* The flags of an exact record, in the same numbers.                       *)
LEMMA NumbersFact ==
  ASSUME NEW f, Exact(f), f.kind \in WasmInline, NEW h, h = Power(Bits(f.w) - 1), NEW r, r = Trunc(f.r, f.w)
  PROVE  /\ ZF(f) <=> r = 0
         /\ SF(f) <=> r >= h
         /\ PF(f) <=> EvenParity(r)
         /\ f.kind = "Sub" => (CF(f) <=> f.a < f.b)
         /\ f.kind = "Add" => (CF(f) <=> r < f.a)
         /\ f.kind \in {"Inc", "Dec"} => (CF(f) <=> f.carry_in)
         /\ f.kind = "Logic" => ~CF(f) /\ ~OF(f)
         /\ f.kind = "Sub" => (OF(f) <=> ((f.a >= h) # (f.b >= h) /\ (r >= h) # (f.a >= h)))
         /\ f.kind = "Add" => (OF(f) <=> ((f.a >= h) = (f.b >= h) /\ (r >= h) # (f.a >= h)))
         /\ f.kind = "Inc" => (OF(f) <=> r = h)
         /\ f.kind = "Dec" => (OF(f) <=> f.a = h)
<1>0. f.kind \in {"Sub", "Logic", "Add", "Inc", "Dec"}
  BY DEF WasmInline
<1>1. /\ h \in Nat \ {0} /\ f.a \in 0 .. 2 * h - 1 /\ f.b \in 0 .. 2 * h - 1 /\ r \in 0 .. 2 * h - 1
      /\ Trunc(f.a, f.w) = f.a /\ Trunc(f.b, f.w) = f.b
      /\ Msb(f.a, f.w) = (IF f.a >= h THEN 1 ELSE 0)
      /\ Msb(f.b, f.w) = (IF f.b >= h THEN 1 ELSE 0)
      /\ Msb(f.r, f.w) = (IF r >= h THEN 1 ELSE 0)
      /\ f.w \in Width /\ f.r \in Int
  BY <1>0, ExactFact DEF Exact
<1>2. EvenParity(r) <=> EvenParity(f.r)
  BY <1>1, ParityTrunc
<1>3. (ZF(f) <=> r = 0) /\ (SF(f) <=> r >= h) /\ (PF(f) <=> EvenParity(r))
  BY <1>0, <1>1, <1>2 DEF ZF, SF, PF
<1>4. /\ f.kind = "Sub" => (CF(f) <=> f.a < f.b)
      /\ f.kind = "Add" => (CF(f) <=> r < f.a)
      /\ f.kind \in {"Inc", "Dec"} => (CF(f) <=> f.carry_in)
      /\ f.kind = "Logic" => ~CF(f)
  BY <1>0, <1>1 DEF CF, Shifts
<1>5. /\ f.kind = "Sub" => (OF(f) <=> ((f.a >= h) # (f.b >= h) /\ (r >= h) # (f.a >= h)))
      /\ f.kind = "Add" => (OF(f) <=> ((f.a >= h) = (f.b >= h) /\ (r >= h) # (f.a >= h)))
      /\ f.kind = "Inc" => (OF(f) <=> r = h)
      /\ f.kind = "Dec" => (OF(f) <=> f.a = h)
      /\ f.kind = "Logic" => ~OF(f)
  BY <1>0, <1>1 DEF OF
<1> QED
  BY <1>3, <1>4, <1>5

(* What a record's condition reads.                                          *)
LEMMA CondParts ==
  ASSUME NEW f, f.kind \in WasmInline
  PROVE  /\ Cond("O", f) = OF(f)
         /\ Cond("B", f) = CF(f)
         /\ Cond("Z", f) = ZF(f)
         /\ Cond("BE", f) = (ZF(f) \/ CF(f))
         /\ Cond("S", f) = SF(f)
         /\ Cond("P", f) = PF(f)
         /\ Cond("L", f) = (~(SF(f) <=> OF(f)))
         /\ Cond("LE", f) = (ZF(f) \/ ~(SF(f) <=> OF(f)))
<1>1. Cond("O", f) = OF(f)
  BY DEF Cond, WasmInline
<1>2. Cond("B", f) = CF(f)
  BY DEF Cond, WasmInline
<1>3. Cond("Z", f) = ZF(f)
  BY DEF Cond, WasmInline
<1>4. Cond("BE", f) = (ZF(f) \/ CF(f))
  BY DEF Cond, WasmInline
<1>5. Cond("S", f) = SF(f)
  BY DEF Cond, WasmInline
<1>6. Cond("P", f) = PF(f)
  BY DEF Cond, WasmInline
<1>7. Cond("L", f) = (~(SF(f) <=> OF(f)))
  BY DEF Cond, WasmInline
<1>8. Cond("LE", f) = (ZF(f) \/ ~(SF(f) <=> OF(f)))
  BY DEF Cond, WasmInline
<1> QED
  BY <1>1, <1>2, <1>3, <1>4, <1>5, <1>6, <1>7, <1>8

(* What each of the emitters of jit_wasm_cond.c computes.                    *)
LEMMA SubParts ==
  ASSUME NEW a, NEW b, NEW r, NEW w
  PROVE  /\ WasmSub("O", a, b, r, w) = (Msb(a, w) # Msb(b, w) /\ Msb(a, w) # Msb(r, w))
         /\ WasmSub("B", a, b, r, w) = (a < b)
         /\ WasmSub("Z", a, b, r, w) = (r = 0)
         /\ WasmSub("BE", a, b, r, w) = (a <= b)
         /\ WasmSub("S", a, b, r, w) = (Signed(r, w) < 0)
         /\ WasmSub("P", a, b, r, w) = EvenParity(r)
         /\ WasmSub("L", a, b, r, w) = (Signed(a, w) < Signed(b, w))
         /\ WasmSub("LE", a, b, r, w) = (Signed(a, w) <= Signed(b, w))
<1>1. WasmSub("O", a, b, r, w) = (Msb(a, w) # Msb(b, w) /\ Msb(a, w) # Msb(r, w))
  BY DEF WasmSub
<1>2. WasmSub("B", a, b, r, w) = (a < b)
  BY DEF WasmSub
<1>3. WasmSub("Z", a, b, r, w) = (r = 0)
  BY DEF WasmSub
<1>4. WasmSub("BE", a, b, r, w) = (a <= b)
  BY DEF WasmSub
<1>5. WasmSub("S", a, b, r, w) = (Signed(r, w) < 0)
  BY DEF WasmSub
<1>6. WasmSub("P", a, b, r, w) = EvenParity(r)
  BY DEF WasmSub
<1>7. WasmSub("L", a, b, r, w) = (Signed(a, w) < Signed(b, w))
  BY DEF WasmSub
<1>8. WasmSub("LE", a, b, r, w) = (Signed(a, w) <= Signed(b, w))
  BY DEF WasmSub
<1> QED
  BY <1>1, <1>2, <1>3, <1>4, <1>5, <1>6, <1>7, <1>8

(* emit_add.                                                                 *)
LEMMA AddParts ==
  ASSUME NEW a, NEW b, NEW r, NEW w
  PROVE  /\ WasmAdd("O", a, b, r, w) = (Msb(a, w) # Msb(r, w) /\ Msb(b, w) # Msb(r, w))
         /\ WasmAdd("B", a, b, r, w) = (r < a)
         /\ WasmAdd("Z", a, b, r, w) = (r = 0)
         /\ WasmAdd("BE", a, b, r, w) = (r < a \/ r = 0)
         /\ WasmAdd("S", a, b, r, w) = (Signed(r, w) < 0)
         /\ WasmAdd("P", a, b, r, w) = EvenParity(r)
         /\ WasmAdd("L", a, b, r, w) = ((Msb(r, w) = 1) # (Msb(a, w) # Msb(r, w) /\ Msb(b, w) # Msb(r, w)))
         /\ WasmAdd("LE", a, b, r, w) = (((Msb(r, w) = 1) # (Msb(a, w) # Msb(r, w) /\ Msb(b, w) # Msb(r, w))) \/ r = 0)
<1>1. WasmAdd("O", a, b, r, w) = (Msb(a, w) # Msb(r, w) /\ Msb(b, w) # Msb(r, w))
  BY DEF WasmAdd
<1>2. WasmAdd("B", a, b, r, w) = (r < a)
  BY DEF WasmAdd
<1>3. WasmAdd("Z", a, b, r, w) = (r = 0)
  BY DEF WasmAdd, WasmSub
<1>4. WasmAdd("BE", a, b, r, w) = (r < a \/ r = 0)
  BY DEF WasmAdd
<1>5. WasmAdd("S", a, b, r, w) = (Signed(r, w) < 0)
  BY DEF WasmAdd, WasmSub
<1>6. WasmAdd("P", a, b, r, w) = EvenParity(r)
  BY DEF WasmAdd, WasmSub
<1>7. WasmAdd("L", a, b, r, w) = ((Msb(r, w) = 1) # (Msb(a, w) # Msb(r, w) /\ Msb(b, w) # Msb(r, w)))
  BY DEF WasmAdd
<1>8. WasmAdd("LE", a, b, r, w) = (((Msb(r, w) = 1) # (Msb(a, w) # Msb(r, w) /\ Msb(b, w) # Msb(r, w))) \/ r = 0)
  BY DEF WasmAdd
<1> QED
  BY <1>1, <1>2, <1>3, <1>4, <1>5, <1>6, <1>7, <1>8

(* The flags of a record are true or false.                                 *)
LEMMA FlagsBoolean ==
  ASSUME NEW f, f.kind \in WasmInline
  PROVE  /\ CF(f) \in BOOLEAN /\ ZF(f) \in BOOLEAN /\ SF(f) \in BOOLEAN /\ PF(f) \in BOOLEAN /\ OF(f) \in BOOLEAN
<1>0. \A r : EvenParity(r) \in BOOLEAN
  BY DEF EvenParity
<1>1. CF(f) \in BOOLEAN
  BY DEF CF
<1>2. ZF(f) \in BOOLEAN /\ SF(f) \in BOOLEAN
  BY DEF ZF, SF, WasmInline
<1>3. PF(f) \in BOOLEAN
  BY <1>0 DEF PF, WasmInline
<1>4. OF(f) \in BOOLEAN
  BY DEF OF, WasmInline
<1> QED
  BY <1>1, <1>2, <1>3, <1>4

(* WasmSub is the condition of a record of its kind. *)
LEMMA SubCond ==
  ASSUME NEW f, Exact(f), f.kind = "Sub", NEW cc \in PositiveConds, NEW r, r = Trunc(f.r, f.w)
  PROVE  WasmSub(cc, f.a, f.b, r, f.w) = Cond(cc, f)
<1>0. f.kind \in WasmInline
  BY DEF WasmInline
<1>1. PICK h : h = Power(Bits(f.w) - 1)
  OBVIOUS
<1>2. /\ h \in Nat \ {0} /\ f.a \in 0 .. 2 * h - 1 /\ f.b \in 0 .. 2 * h - 1 /\ r \in 0 .. 2 * h - 1
      /\ Msb(f.a, f.w) = (IF f.a >= h THEN 1 ELSE 0) /\ Signed(f.a, f.w) = (IF f.a >= h THEN f.a - 2 * h ELSE f.a)
      /\ Msb(f.b, f.w) = (IF f.b >= h THEN 1 ELSE 0) /\ Signed(f.b, f.w) = (IF f.b >= h THEN f.b - 2 * h ELSE f.b)
      /\ Msb(r, f.w) = (IF r >= h THEN 1 ELSE 0) /\ Signed(r, f.w) = (IF r >= h THEN r - 2 * h ELSE r)
      /\ r = (IF f.a < f.b THEN f.a - f.b + 2 * h ELSE f.a - f.b)
  BY <1>0, <1>1, ExactFact
<1>3. /\ (ZF(f) <=> r = 0) /\ (SF(f) <=> r >= h) /\ (PF(f) <=> EvenParity(r)) /\ (CF(f) <=> f.a < f.b)
      /\ (OF(f) <=> ((f.a >= h) # (f.b >= h) /\ (r >= h) # (f.a >= h)))
  BY <1>0, <1>1, NumbersFact
<1>4. /\ CF(f) \in BOOLEAN /\ ZF(f) \in BOOLEAN /\ SF(f) \in BOOLEAN /\ PF(f) \in BOOLEAN /\ OF(f) \in BOOLEAN
      /\ EvenParity(r) \in BOOLEAN
  BY <1>0, FlagsBoolean DEF EvenParity
<1>5. WasmSub("O", f.a, f.b, r, f.w) = Cond("O", f)
  BY <1>0, <1>2, <1>3, <1>4, CondParts, SubParts
<1>6. WasmSub("B", f.a, f.b, r, f.w) = Cond("B", f)
  BY <1>0, <1>2, <1>3, <1>4, CondParts, SubParts
<1>7. WasmSub("Z", f.a, f.b, r, f.w) = Cond("Z", f)
  BY <1>0, <1>2, <1>3, <1>4, CondParts, SubParts
<1>8. WasmSub("BE", f.a, f.b, r, f.w) = Cond("BE", f)
  BY <1>0, <1>2, <1>3, <1>4, CondParts, SubParts
<1>9. WasmSub("S", f.a, f.b, r, f.w) = Cond("S", f)
  BY <1>0, <1>2, <1>3, <1>4, CondParts, SubParts
<1>10. WasmSub("P", f.a, f.b, r, f.w) = Cond("P", f)
  BY <1>0, <1>2, <1>3, <1>4, CondParts, SubParts
<1>11. WasmSub("L", f.a, f.b, r, f.w) = Cond("L", f)
  BY <1>0, <1>2, <1>3, <1>4, CondParts, SubParts
<1>12. WasmSub("LE", f.a, f.b, r, f.w) = Cond("LE", f)
  BY <1>0, <1>2, <1>3, <1>4, CondParts, SubParts
<1> QED
  BY <1>5, <1>6, <1>7, <1>8, <1>9, <1>10, <1>11, <1>12 DEF PositiveConds

(* WasmLogic is the condition of a record of its kind. *)
LEMMA LogicCond ==
  ASSUME NEW f, Exact(f), f.kind = "Logic", NEW cc \in PositiveConds, NEW r, r = Trunc(f.r, f.w)
  PROVE  WasmLogic(cc, r, f.w) = Cond(cc, f)
<1>0. f.kind \in WasmInline
  BY DEF WasmInline
<1>1. PICK h : h = Power(Bits(f.w) - 1)
  OBVIOUS
<1>2. /\ h \in Nat \ {0} /\ f.a \in 0 .. 2 * h - 1 /\ f.b \in 0 .. 2 * h - 1 /\ r \in 0 .. 2 * h - 1
      /\ Signed(r, f.w) = (IF r >= h THEN r - 2 * h ELSE r)
  BY <1>0, <1>1, ExactFact
<1>3. /\ (ZF(f) <=> r = 0) /\ (SF(f) <=> r >= h) /\ (PF(f) <=> EvenParity(r)) /\ ~CF(f) /\ ~OF(f)
  BY <1>0, <1>1, NumbersFact
<1>4. /\ CF(f) \in BOOLEAN /\ ZF(f) \in BOOLEAN /\ SF(f) \in BOOLEAN /\ PF(f) \in BOOLEAN /\ OF(f) \in BOOLEAN
      /\ EvenParity(r) \in BOOLEAN
  BY <1>0, FlagsBoolean DEF EvenParity
<1>5. WasmLogic("O", r, f.w) = Cond("O", f)
  BY <1>0, <1>2, <1>3, <1>4, CondParts DEF WasmLogic
<1>6. WasmLogic("B", r, f.w) = Cond("B", f)
  BY <1>0, <1>2, <1>3, <1>4, CondParts DEF WasmLogic
<1>7. WasmLogic("Z", r, f.w) = Cond("Z", f)
  BY <1>0, <1>2, <1>3, <1>4, CondParts DEF WasmLogic
<1>8. WasmLogic("BE", r, f.w) = Cond("BE", f)
  BY <1>0, <1>2, <1>3, <1>4, CondParts DEF WasmLogic
<1>9. WasmLogic("S", r, f.w) = Cond("S", f)
  BY <1>0, <1>2, <1>3, <1>4, CondParts DEF WasmLogic
<1>10. WasmLogic("P", r, f.w) = Cond("P", f)
  BY <1>0, <1>2, <1>3, <1>4, CondParts DEF WasmLogic
<1>11. WasmLogic("L", r, f.w) = Cond("L", f)
  BY <1>0, <1>2, <1>3, <1>4, CondParts DEF WasmLogic
<1>12. WasmLogic("LE", r, f.w) = Cond("LE", f)
  BY <1>0, <1>2, <1>3, <1>4, CondParts DEF WasmLogic
<1> QED
  BY <1>5, <1>6, <1>7, <1>8, <1>9, <1>10, <1>11, <1>12 DEF PositiveConds

(* WasmAdd is the condition of a record of its kind. *)
LEMMA AddCond ==
  ASSUME NEW f, Exact(f), f.kind = "Add", NEW cc \in PositiveConds, NEW r, r = Trunc(f.r, f.w)
  PROVE  WasmAdd(cc, f.a, f.b, r, f.w) = Cond(cc, f)
<1>0. f.kind \in WasmInline
  BY DEF WasmInline
<1>1. PICK h : h = Power(Bits(f.w) - 1)
  OBVIOUS
<1>2. /\ h \in Nat \ {0} /\ f.a \in 0 .. 2 * h - 1 /\ f.b \in 0 .. 2 * h - 1 /\ r \in 0 .. 2 * h - 1
      /\ Msb(f.a, f.w) = (IF f.a >= h THEN 1 ELSE 0)
      /\ Msb(f.b, f.w) = (IF f.b >= h THEN 1 ELSE 0)
      /\ Msb(r, f.w) = (IF r >= h THEN 1 ELSE 0) /\ Signed(r, f.w) = (IF r >= h THEN r - 2 * h ELSE r)
      /\ r = (IF f.a + f.b >= 2 * h THEN f.a + f.b - 2 * h ELSE f.a + f.b)
  BY <1>0, <1>1, ExactFact
<1>3. /\ (ZF(f) <=> r = 0) /\ (SF(f) <=> r >= h) /\ (PF(f) <=> EvenParity(r)) /\ (CF(f) <=> r < f.a)
      /\ (OF(f) <=> ((f.a >= h) = (f.b >= h) /\ (r >= h) # (f.a >= h)))
  BY <1>0, <1>1, NumbersFact
<1>4. /\ CF(f) \in BOOLEAN /\ ZF(f) \in BOOLEAN /\ SF(f) \in BOOLEAN /\ PF(f) \in BOOLEAN /\ OF(f) \in BOOLEAN
      /\ EvenParity(r) \in BOOLEAN
  BY <1>0, FlagsBoolean DEF EvenParity
<1>5. WasmAdd("O", f.a, f.b, r, f.w) = Cond("O", f)
  BY <1>0, <1>2, <1>3, <1>4, CondParts, AddParts
<1>6. WasmAdd("B", f.a, f.b, r, f.w) = Cond("B", f)
  BY <1>0, <1>2, <1>3, <1>4, CondParts, AddParts
<1>7. WasmAdd("Z", f.a, f.b, r, f.w) = Cond("Z", f)
  BY <1>0, <1>2, <1>3, <1>4, CondParts, AddParts
<1>8. WasmAdd("BE", f.a, f.b, r, f.w) = Cond("BE", f)
  BY <1>0, <1>2, <1>3, <1>4, CondParts, AddParts
<1>9. WasmAdd("S", f.a, f.b, r, f.w) = Cond("S", f)
  BY <1>0, <1>2, <1>3, <1>4, CondParts, AddParts
<1>10. WasmAdd("P", f.a, f.b, r, f.w) = Cond("P", f)
  BY <1>0, <1>2, <1>3, <1>4, CondParts, AddParts
<1>11. WasmAdd("L", f.a, f.b, r, f.w) = Cond("L", f)
  BY <1>0, <1>2, <1>3, <1>4, CondParts, AddParts
<1>12. WasmAdd("LE", f.a, f.b, r, f.w) = Cond("LE", f)
  BY <1>0, <1>2, <1>3, <1>4, CondParts, AddParts
<1> QED
  BY <1>5, <1>6, <1>7, <1>8, <1>9, <1>10, <1>11, <1>12 DEF PositiveConds

(* WasmIncDec is the condition of a record of its kind. *)
LEMMA IncDecCond ==
  ASSUME NEW f, Exact(f), f.kind \in {"Inc", "Dec"}, f.carry_in \in BOOLEAN, NEW cc \in PositiveConds, NEW r, r = Trunc(f.r, f.w)
  PROVE  WasmIncDec(cc, f.kind = "Dec", f.a, f.b, r, f.w, f.carry_in) = Cond(cc, f)
<1>0. f.kind \in WasmInline
  BY DEF WasmInline
<1>1. PICK h : h = Power(Bits(f.w) - 1)
  OBVIOUS
<1>2. /\ h \in Nat \ {0} /\ f.a \in 0 .. 2 * h - 1 /\ f.b \in 0 .. 2 * h - 1 /\ r \in 0 .. 2 * h - 1
      /\ Signed(f.a, f.w) = (IF f.a >= h THEN f.a - 2 * h ELSE f.a)
      /\ Signed(r, f.w) = (IF r >= h THEN r - 2 * h ELSE r)
      /\ f.kind = "Inc" => r = IF f.a + 1 = 2 * h THEN 0 ELSE f.a + 1
      /\ f.kind = "Dec" => r = IF f.a = 0 THEN 2 * h - 1 ELSE f.a - 1
  BY <1>0, <1>1, ExactFact
<1>3. /\ (ZF(f) <=> r = 0) /\ (SF(f) <=> r >= h) /\ (PF(f) <=> EvenParity(r)) /\ (CF(f) <=> f.carry_in)
      /\ f.kind = "Inc" => (OF(f) <=> r = h)
      /\ f.kind = "Dec" => (OF(f) <=> f.a = h)
  BY <1>0, <1>1, NumbersFact
<1>4. /\ CF(f) \in BOOLEAN /\ ZF(f) \in BOOLEAN /\ SF(f) \in BOOLEAN /\ PF(f) \in BOOLEAN /\ OF(f) \in BOOLEAN
      /\ EvenParity(r) \in BOOLEAN
  BY <1>0, FlagsBoolean DEF EvenParity
<1>5. WasmIncDec("O", f.kind = "Dec", f.a, f.b, r, f.w, f.carry_in) = Cond("O", f)
  <2>1. CASE f.kind = "Inc"
    BY <1>0, <1>1, <1>2, <1>3, <1>4, <2>1, CondParts DEF WasmIncDec, WasmSub
  <2>2. CASE f.kind = "Dec"
    BY <1>0, <1>1, <1>2, <1>3, <1>4, <2>2, CondParts DEF WasmIncDec, WasmSub
  <2> QED
    BY <2>1, <2>2
<1>6. WasmIncDec("B", f.kind = "Dec", f.a, f.b, r, f.w, f.carry_in) = Cond("B", f)
  <2>1. CASE f.kind = "Inc"
    BY <1>0, <1>1, <1>2, <1>3, <1>4, <2>1, CondParts DEF WasmIncDec, WasmSub
  <2>2. CASE f.kind = "Dec"
    BY <1>0, <1>1, <1>2, <1>3, <1>4, <2>2, CondParts DEF WasmIncDec, WasmSub
  <2> QED
    BY <2>1, <2>2
<1>7. WasmIncDec("Z", f.kind = "Dec", f.a, f.b, r, f.w, f.carry_in) = Cond("Z", f)
  <2>1. CASE f.kind = "Inc"
    BY <1>0, <1>1, <1>2, <1>3, <1>4, <2>1, CondParts DEF WasmIncDec, WasmSub
  <2>2. CASE f.kind = "Dec"
    BY <1>0, <1>1, <1>2, <1>3, <1>4, <2>2, CondParts DEF WasmIncDec, WasmSub
  <2> QED
    BY <2>1, <2>2
<1>8. WasmIncDec("BE", f.kind = "Dec", f.a, f.b, r, f.w, f.carry_in) = Cond("BE", f)
  <2>1. CASE f.kind = "Inc"
    BY <1>0, <1>1, <1>2, <1>3, <1>4, <2>1, CondParts DEF WasmIncDec, WasmSub
  <2>2. CASE f.kind = "Dec"
    BY <1>0, <1>1, <1>2, <1>3, <1>4, <2>2, CondParts DEF WasmIncDec, WasmSub
  <2> QED
    BY <2>1, <2>2
<1>9. WasmIncDec("S", f.kind = "Dec", f.a, f.b, r, f.w, f.carry_in) = Cond("S", f)
  <2>1. CASE f.kind = "Inc"
    BY <1>0, <1>1, <1>2, <1>3, <1>4, <2>1, CondParts DEF WasmIncDec, WasmSub
  <2>2. CASE f.kind = "Dec"
    BY <1>0, <1>1, <1>2, <1>3, <1>4, <2>2, CondParts DEF WasmIncDec, WasmSub
  <2> QED
    BY <2>1, <2>2
<1>10. WasmIncDec("P", f.kind = "Dec", f.a, f.b, r, f.w, f.carry_in) = Cond("P", f)
  <2>1. CASE f.kind = "Inc"
    BY <1>0, <1>1, <1>2, <1>3, <1>4, <2>1, CondParts DEF WasmIncDec, WasmSub
  <2>2. CASE f.kind = "Dec"
    BY <1>0, <1>1, <1>2, <1>3, <1>4, <2>2, CondParts DEF WasmIncDec, WasmSub
  <2> QED
    BY <2>1, <2>2
<1>11. WasmIncDec("L", f.kind = "Dec", f.a, f.b, r, f.w, f.carry_in) = Cond("L", f)
  <2>1. CASE f.kind = "Inc"
    BY <1>0, <1>1, <1>2, <1>3, <1>4, <2>1, CondParts DEF WasmIncDec, WasmSub
  <2>2. CASE f.kind = "Dec"
    BY <1>0, <1>1, <1>2, <1>3, <1>4, <2>2, CondParts DEF WasmIncDec, WasmSub
  <2> QED
    BY <2>1, <2>2
<1>12. WasmIncDec("LE", f.kind = "Dec", f.a, f.b, r, f.w, f.carry_in) = Cond("LE", f)
  <2>1. CASE f.kind = "Inc"
    BY <1>0, <1>1, <1>2, <1>3, <1>4, <2>1, CondParts DEF WasmIncDec, WasmSub
  <2>2. CASE f.kind = "Dec"
    BY <1>0, <1>1, <1>2, <1>3, <1>4, <2>2, CondParts DEF WasmIncDec, WasmSub
  <2> QED
    BY <2>1, <2>2
<1> QED
  BY <1>5, <1>6, <1>7, <1>8, <1>9, <1>10, <1>11, <1>12 DEF PositiveConds

\* What a block knows of the record it last made.
Known(last, lw, f) ==
  /\ last \in WasmInline => f.kind = last /\ f.w = lw /\ Exact(f)
  /\ last \in {"None", "Explicit"} => f.kind = last

(* x86p_wasm_cond_value: whatever the block knows, the condition is the record's. *)
THEOREM WasmCondFact ==
  ASSUME NEW m, m.c.flags \in Records, Known(m.last, m.lw, m.c.flags), NEW cc \in Conds
  PROVE  WasmCond(m, cc) <=> Cond(cc, m.c.flags)
<1>1. PICK f \in Records : f = m.c.flags
  OBVIOUS
<1>2. CASE m.last \notin WasmInline
  BY <1>1, <1>2 DEF WasmCond
<1>3. CASE m.last \in WasmInline
  <2>1. f.kind = m.last /\ f.w = m.lw /\ Exact(f) /\ f.kind \in {"Sub", "Logic", "Add", "Inc", "Dec"}
    BY <1>1, <1>3 DEF Known, WasmInline
  <2>2. PICK yes \in PositiveConds : yes = WasmPositive(cc)
    BY PositiveFact
  <2>3. PICK r : r = Trunc(f.r, f.w)
    OBVIOUS
  <2>4. Trunc(f.a, f.w) = f.a /\ Trunc(f.b, f.w) = f.b
    BY <2>1, ExactFact
  <2>5. f.carry_in \in BOOLEAN
    BY DEF Records
  <2>6. Cond(cc, f) = ((yes = cc) = Cond(yes, f))
    BY <2>1, <2>2, NegativeFact
  <2>7. CASE f.kind = "Sub"
    <3>0. m.last = "Sub" /\ m.last \in WasmInline
      BY <1>3, <2>1, <2>7
    <3>4. WasmCond(m, cc) = ((WasmPositive(cc) = cc) = WasmSub(WasmPositive(cc), Trunc(m.c.flags.a, m.lw), Trunc(m.c.flags.b, m.lw), Trunc(m.c.flags.r, m.lw), m.lw))
      BY <3>0, Zenon DEF WasmCond
    <3>1. WasmCond(m, cc) = ((yes = cc) = WasmSub(yes, f.a, f.b, r, f.w))
      BY <1>1, <2>1, <2>2, <2>3, <2>4, <3>4
    <3>2. WasmSub(yes, f.a, f.b, r, f.w) = Cond(yes, f)
      BY <2>1, <2>3, <2>7, SubCond
    <3> QED
      BY <1>1, <1>3, <2>1, <2>5, <2>6, <3>1, <3>2
  <2>8. CASE f.kind = "Logic"
    <3>0. m.last = "Logic" /\ m.last \in WasmInline
      BY <1>3, <2>1, <2>8
    <3>4. WasmCond(m, cc) = ((WasmPositive(cc) = cc) = WasmLogic(WasmPositive(cc), Trunc(m.c.flags.r, m.lw), m.lw))
      BY <3>0, Zenon DEF WasmCond
    <3>1. WasmCond(m, cc) = ((yes = cc) = WasmLogic(yes, r, f.w))
      BY <1>1, <2>1, <2>2, <2>3, <2>4, <3>4
    <3>2. WasmLogic(yes, r, f.w) = Cond(yes, f)
      BY <2>1, <2>3, <2>8, LogicCond
    <3> QED
      BY <1>1, <1>3, <2>1, <2>5, <2>6, <3>1, <3>2
  <2>9. CASE f.kind = "Add"
    <3>0. m.last = "Add" /\ m.last \in WasmInline
      BY <1>3, <2>1, <2>9
    <3>4. WasmCond(m, cc) = ((WasmPositive(cc) = cc) = WasmAdd(WasmPositive(cc), Trunc(m.c.flags.a, m.lw), Trunc(m.c.flags.b, m.lw), Trunc(m.c.flags.r, m.lw), m.lw))
      BY <3>0, Zenon DEF WasmCond
    <3>1. WasmCond(m, cc) = ((yes = cc) = WasmAdd(yes, f.a, f.b, r, f.w))
      BY <1>1, <2>1, <2>2, <2>3, <2>4, <3>4
    <3>2. WasmAdd(yes, f.a, f.b, r, f.w) = Cond(yes, f)
      BY <2>1, <2>3, <2>9, AddCond
    <3> QED
      BY <1>1, <1>3, <2>1, <2>5, <2>6, <3>1, <3>2
  <2>10. CASE f.kind \in {"Inc", "Dec"}
    <3>0. m.last \notin {"Sub", "Logic", "Add"} /\ m.last \in WasmInline
      BY <1>3, <2>1, <2>10
    <3>4. WasmCond(m, cc) = ((WasmPositive(cc) = cc) = WasmIncDec(WasmPositive(cc), m.last = "Dec", Trunc(m.c.flags.a, m.lw),
            Trunc(m.c.flags.b, m.lw), Trunc(m.c.flags.r, m.lw), m.lw, m.c.flags.carry_in))
      BY <3>0, Zenon DEF WasmCond
    <3>1. WasmCond(m, cc) = ((yes = cc) = WasmIncDec(yes, f.kind = "Dec", f.a, f.b, r, f.w, f.carry_in))
      BY <1>1, <2>1, <2>2, <2>3, <2>4, <3>4
    <3>2. WasmIncDec(yes, f.kind = "Dec", f.a, f.b, r, f.w, f.carry_in) = Cond(yes, f)
      BY <2>1, <2>3, <2>5, <2>10, IncDecCond
    <3> QED
      BY <1>1, <1>3, <2>1, <2>5, <2>6, <3>1, <3>2
  <2> QED
    BY <2>1, <2>7, <2>8, <2>9, <2>10
<1> QED
  BY <1>2, <1>3

(* x86p_wasm_carry_in: and so is the carry.                                  *)
THEOREM WasmCarryFact ==
  ASSUME NEW m, m.c.flags \in Records, Known(m.last, m.lw, m.c.flags)
  PROVE  WasmCarry(m) <=> CF(m.c.flags)
<1>1. PICK f \in Records : f = m.c.flags
  OBVIOUS
<1>2. CASE m.last \in WasmInline
  <2>1. f.kind = m.last /\ Exact(f)
    BY <1>1, <1>2 DEF Known
  <2>2. PICK h : h = Power(Bits(f.w) - 1)
    OBVIOUS
  <2>3. PICK r : r = Trunc(f.r, f.w)
    OBVIOUS
  <2>4. /\ f.kind = "Sub" => (CF(f) <=> f.a < f.b)
        /\ f.kind = "Add" => (CF(f) <=> r < f.a)
        /\ f.kind \in {"Inc", "Dec"} => (CF(f) <=> f.carry_in)
        /\ f.kind = "Logic" => ~CF(f)
        /\ f.kind = "Add" => f.r = r
    BY <1>2, <2>1, <2>2, <2>3, NumbersFact, ExactFact DEF WasmInline
  <2>5. WasmCarry(m) = WasmKnownCarry(f.kind, f)
    BY <1>1, <1>2, <2>1 DEF WasmCarry
  <2>6. f.carry_in \in BOOLEAN
    BY DEF Records
  <2> QED
    BY <1>1, <1>2, <2>1, <2>4, <2>5, <2>6 DEF WasmKnownCarry, WasmInline
<1>3. CASE m.last \in {"None", "Explicit"}
  <2>1. f.kind = m.last /\ WasmCarry(m) = WasmKnownCarry(f.kind, f)
    BY <1>1, <1>3 DEF WasmCarry, Known
  <2> QED
    BY <1>1, <1>3, <2>1 DEF WasmKnownCarry, CF, Shifts
<1>4. CASE m.last \notin WasmInline \cup {"None", "Explicit"}
  <2>1. CASE WasmCarryArm(f.kind, f.w)
    <3>1. WasmCarry(m) = WasmKnownCarry(f.kind, f)
      BY <1>1, <1>4, <2>1 DEF WasmCarry
    <3>2. f.kind \in {"Sub", "Add"} => Trunc(f.a, f.w) = f.a /\ Trunc(f.b, f.w) = f.b /\ Trunc(f.r, f.w) = f.r
      <4>1. f.a \in Dwords /\ f.b \in Dwords /\ (f.kind # "Logic" => f.r \in Dwords)
        BY DEF Records
      <4>2. \A v \in Dwords : Trunc(v, 4) = v
        <5>1. \A v \in Dwords : v \in Int
          BY WidthFact DEF Dwords, Width
        <5> QED
          BY <5>1, TruncFact DEF Dwords, Width
      <4> QED
        BY <2>1, <4>1, <4>2 DEF WasmCarryArm
    <3>3. f.carry_in \in BOOLEAN
      BY DEF Records
    <3>4. f.kind \in {"Logic", "Dec", "Inc", "Explicit", "None", "Sub", "Add"}
      BY <2>1 DEF WasmCarryArm
    <3> QED
      BY <1>1, <3>1, <3>2, <3>3, <3>4 DEF WasmKnownCarry, CF, Shifts
  <2>2. CASE ~WasmCarryArm(f.kind, f.w)
    BY <1>1, <1>4, <2>2 DEF WasmCarry
  <2> QED
    BY <2>1, <2>2
<1> QED
  BY <1>2, <1>3, <1>4

(* The bits of the flag word are powers of two.                             *)
LEMMA PositionFact ==
  ASSUME NEW n \in 0 .. 11
  PROVE  Power(n) \in Nat \ {0}
<1>1. PICK b \in Nat : b = Bits(4) /\ b >= 8
  BY BitsFact
<1>2. \A i \in 0 .. b + 3 : Power(i) \in Nat \ {0}
  BY <1>1, PowerAssumption
<1>3. n \in 0 .. b + 3
  BY <1>1
<1> QED
  BY <1>2, <1>3

(* The flags are flags.                                                      *)
LEMMA EflagsFact ==
  ASSUME NEW f
  PROVE  Eflags(f) \in SUBSET ArithFlags
  BY DEF Eflags

(* What a dword holds.                                                       *)
LEMMA DwordsFact ==
  /\ Power(Bits(4)) \in Nat \ {0} /\ (\A v \in Dwords : v \in Int /\ v \in Nat /\ Trunc(v, 4) = v)
  /\ 0 \in Dwords /\ 1 \in Dwords /\ (\A w \in Width : \A v \in 0 .. Power(Bits(w)) - 1 : v \in Dwords)
  /\ (\A v \in Bytes : v \in Dwords) /\ \A v \in 0 .. Bits(4) : v \in Dwords
<1>1. 4 \in Width /\ 1 \in Width
  BY DEF Width
<1>2. PICK p \in Nat \ {0} : p = Power(Bits(4))
  BY <1>1, WidthFact
<1>3. p >= 2
  <2>1. Power(Bits(4)) = 2 * Power(Bits(4) - 1) /\ Power(Bits(4) - 1) \in Nat \ {0}
    BY <1>1, WidthFact
  <2> QED
    BY <1>2, <2>1
<1>4. Dwords = 0 .. p - 1
  BY <1>2 DEF Dwords
<1>5. \A v \in Dwords : v \in Int /\ v \in Nat /\ Trunc(v, 4) = v
  <2>1. ASSUME NEW v \in Dwords PROVE Trunc(v, 4) = v
    <3>1. v \in Int /\ v \in 0 .. Power(Bits(4)) - 1
      BY <1>2, <1>4
    <3> QED
      BY <1>1, <3>1, TruncFact
  <2> QED
    BY <1>4, <2>1
<1>6. ASSUME NEW w \in Width PROVE \A v \in 0 .. Power(Bits(w)) - 1 : v \in Dwords
  <2>1. PICK q \in Nat \ {0} : q = Power(Bits(w)) /\ q <= p
    BY <1>2, WidthFact
  <2> QED
    BY <1>4, <2>1
<1>7. \A v \in Bytes : v \in Dwords
  BY <1>1, <1>6 DEF Bytes
<1>8. \A v \in 0 .. Bits(4) : v \in Dwords
  <2>1. PICK b \in Nat : b = Bits(4)
    BY BitsFact
  <2> DEFINE T == {i \in 0 .. b : i < Power(i)}
  <2>2. 0 \in T
    BY <2>1, PowerFact
  <2>3. ASSUME NEW i \in 0 .. b - 1, i \in T PROVE i + 1 \in T
    <3>1. i \in 0 .. b /\ i + 1 \in 0 .. b
      BY <2>1
    <3>2. Power(i + 1) = 2 * Power(i) /\ Power(i) \in Nat /\ i < Power(i)
      <4>1. i \in 0 .. b + 1
        BY <2>1
      <4> QED
        BY <2>1, <2>3, <3>1, <4>1, PowerFact
    <3> QED
      BY <3>1, <3>2
  <2>4. 0 .. b \subseteq T
    <3> HIDE DEF T
    <3> QED
      BY <2>1, <2>2, <2>3, InductionInterval
  <2>5. b < p
    <3>1. b \in T
      BY <2>1, <2>4
    <3> QED
      BY <1>2, <2>1, <3>1
  <2> QED
    BY <1>4, <2>1, <2>5
<1> QED
  BY <1>2, <1>3, <1>4, <1>5, <1>6, <1>7, <1>8

(* x86p_flags_set, and the explicit record: they are records.                *)
LEMMA SetFact ==
  ASSUME NEW f, NEW kind \in Kinds, NEW a \in Dwords, NEW b \in Dwords, NEW r \in Int, kind # "Logic" => r \in Dwords,
         NEW w \in Width
  PROVE  /\ Set(f, kind, a, b, r, w) \in Records
         /\ \A g : CF(f) = CF(g) => Set(f, kind, a, b, r, w) = Set(g, kind, a, b, r, w)
         /\ \A g \in Records : Stored(g, kind, a, b, r, w) \in Records
         /\ \A g \in Records : (CarryInIsLive(kind) => g.carry_in = CF(f))
                                  => SameRecord(Stored(g, kind, a, b, r, w), Set(f, kind, a, b, r, w))
<1>1. CF(f) \in BOOLEAN
  BY DEF CF
<1>2. Set(f, kind, a, b, r, w) \in Records
  BY <1>1 DEF Set, Records
<1>3. \A g : CF(f) = CF(g) => Set(f, kind, a, b, r, w) = Set(g, kind, a, b, r, w)
  BY DEF Set
<1>4. ASSUME NEW g \in Records
      PROVE  /\ Stored(g, kind, a, b, r, w) \in Records
             /\ (CarryInIsLive(kind) => g.carry_in = CF(f)) => SameRecord(Stored(g, kind, a, b, r, w), Set(f, kind, a, b, r, w))
  <2> DEFINE R == [kind : Kinds, a : Dwords, b : Dwords, r : Int, w : {0} \cup Width, carry_in : BOOLEAN, word : SUBSET ArithFlags]
  <2> DEFINE e == Stored(g, kind, a, b, r, w)
  <2>1. g \in R
    BY DEF Records
  <2>2. e \in R /\ e.kind = kind /\ e.a = a /\ e.b = b /\ e.r = r /\ e.w = w /\ e.carry_in = g.carry_in /\ e.word = {}
    BY <2>1 DEF Stored
  <2>3. e \in Records
    BY <2>2 DEF Records
  <2> HIDE DEF e
  <2>4. (CarryInIsLive(kind) => g.carry_in = CF(f)) => SameRecord(e, Set(f, kind, a, b, r, w))
    BY <2>2 DEF SameRecord, Set
  <2> QED
    BY <2>3, <2>4 DEF e
<1> QED
  BY <1>2, <1>3, <1>4

(* The record of a set of flags.                                             *)
LEMMA ExplicitFact ==
  ASSUME NEW e \in SUBSET ArithFlags
  PROVE  SetExplicit(e) \in Records /\ SetExplicit(e).kind = "Explicit"
  BY DwordsFact DEF SetExplicit, Records, Kinds, Width

(* A record is as itself.                                                    *)
LEMMA SameSelf ==
  ASSUME NEW f
  PROVE  SameRecord(f, f)
  BY DEF SameRecord

(* Only CF and OF change.                                                   *)
LEMMA CfOfFact ==
  ASSUME NEW f, NEW cf, NEW of
  PROVE  /\ SetCfOfOnly(f, cf, of) \in Records /\ SetCfOfOnly(f, cf, of).kind = "Explicit"
         /\ \A g : SameRecord(f, g) => SetCfOfOnly(f, cf, of) = SetCfOfOnly(g, cf, of)
<1>1. (Eflags(f) \ {"CF", "OF"}) \cup (IF cf THEN {"CF"} ELSE {}) \cup (IF of THEN {"OF"} ELSE {}) \in SUBSET ArithFlags
  BY EflagsFact DEF ArithFlags
<1>2. \A g : SameRecord(f, g) => Eflags(f) = Eflags(g)
  BY SameEflags
<1> QED
  BY <1>1, <1>2, ExplicitFact DEF SetCfOfOnly

AluOps == Binary \cup ShiftOps \cup Rotates

(* A count is below the bits of a dword.                                    *)
LEMMA CountFact ==
  ASSUME NEW b \in Int
  PROVE  MaskedCount(b) \in 0 .. Bits(4) - 1 /\ MaskedCount(b) \in Dwords /\ MaskedCount(b) \in Nat
<1>1. PICK n \in Nat \ {0} : n = Bits(4)
  BY BitsFact
<1>2. b % n \in 0 .. n - 1
  BY DivMod
<1> QED
  BY <1>1, <1>2, DwordsFact DEF MaskedCount

(* A shift gives a dword.                                                    *)
LEMMA ShiftResultFact ==
  ASSUME NEW op \in ShiftOps, NEW w \in Width, NEW a \in 0 .. Power(Bits(w)) - 1, NEW n \in 0 .. Bits(4) - 1
  PROVE  ShiftResult(op, a, n, w) \in Dwords /\ ShiftResult(op, a, n, w) \in Int
<1>1. PICK p \in Nat \ {0} : p = Power(Bits(w))
  BY WidthFact
<1>2. PICK q \in Nat \ {0} : q = Power(n)
  <2>1. PICK b \in Nat : b = Bits(4)
    BY BitsFact
  <2>2. n \in 0 .. b + 1
    BY <2>1
  <2> QED
    BY <2>1, <2>2, PowerFact
<1>3. a \in 0 .. p - 1 /\ a \in Int /\ Signed(a, w) \in Int
  BY <1>1, SignedTrunc
<1>4. Trunc(a * q, w) \in Dwords
  <2>1. a * q \in Int
    BY <1>3
  <2> QED
    BY <2>1, TruncFact
<1>5. a \div q \in Dwords
  <2>1. a \div q \in 0 .. p - 1
    <3>1. PICK h \in Int, r \in 0 .. q - 1 : a = q * h + r /\ a \div q = h /\ h >= 0
      BY <1>3, Split
    <3>2. h <= q * h
      BY <3>1
    <3> QED
      BY <1>3, <3>1, <3>2
  <2> QED
    BY <1>1, <2>1, DwordsFact
<1>6. Trunc(Signed(a, w) \div q, w) \in Dwords
  <2>1. Signed(a, w) \div q \in Int
    BY <1>3, DivMod
  <2> QED
    BY <2>1, TruncFact
<1>7. Power(Bits(w)) - 1 \in Dwords
  <2>1. p - 1 \in 0 .. p - 1
    OBVIOUS
  <2> QED
    BY <1>1, <2>1, DwordsFact
<1>8. ShiftResult(op, a, n, w) \in Dwords
  BY <1>2, <1>4, <1>5, <1>6, <1>7, DwordsFact DEF ShiftResult, ShiftOps
<1> QED
  BY <1>8, DwordsFact

(* SHL, SHR and SAR depend on the old record only through its flags.         *)
LEMMA ShiftFact ==
  ASSUME NEW op \in ShiftOps, NEW w \in Width, NEW a \in 0 .. Power(Bits(w)) - 1, NEW b \in Int, NEW f \in Records
  PROVE  /\ Shift(op, a, b, w, f).r \in Int /\ Shift(op, a, b, w, f).f \in Records
         /\ \A g : SameRecord(f, g) => /\ Shift(op, a, b, w, f).r = Shift(op, a, b, w, g).r
                                       /\ SameRecord(Shift(op, a, b, w, f).f, Shift(op, a, b, w, g).f)
<1> DEFINE n == MaskedCount(b)
<1> DEFINE r == ShiftResult(op, a, n, w)
<1>1. n \in 0 .. Bits(4) - 1 /\ n \in Dwords
  BY CountFact
<1>2. r \in Dwords /\ r \in Int /\ a \in Dwords /\ a \in Int
  BY <1>1, ShiftResultFact, DwordsFact
<1>3. op \in Kinds
  BY DEF ShiftOps, Kinds, Shifts
<1>4. \A g : Shift(op, a, b, w, g) = IF n = 0 THEN [r |-> a, f |-> g] ELSE [r |-> r, f |-> Set(g, op, a, n, r, w)]
  BY DEF Shift
<1> HIDE DEF n, r
<1>5. Set(f, op, a, n, r, w) \in Records /\ \A g : CF(f) = CF(g) => Set(f, op, a, n, r, w) = Set(g, op, a, n, r, w)
  BY <1>1, <1>2, <1>3, SetFact
<1>6. \A g : SameRecord(f, g) => CF(f) = CF(g)
  BY SameCarry
<1> QED
  BY <1>2, <1>4, <1>5, <1>6, SameSelf

(* A left rotation's two parts.                                             *)
LEMMA PartsFact ==
  ASSUME NEW x \in Int, NEW i \in 0 .. Bits(4) + 1, NEW j \in 0 .. Bits(4) + 1
  PROVE  x * Power(i) \in Int /\ x \div Power(j) \in Int
<1>1. PICK p \in Nat \ {0}, q \in Nat \ {0} : p = Power(i) /\ q = Power(j)
  BY PowerFact
<1>2. x * p \in Int /\ x \div q \in Int
  BY DivMod
<1> QED
  BY <1>1, <1>2

(* So do ROL and ROR.                                                        *)
LEMMA RotateFact ==
  ASSUME NEW op \in {"Rol", "Ror"}, NEW w \in Width, NEW a \in Int, NEW b \in Int, NEW f \in Records
  PROVE  /\ Rotate(op, a, b, w, f).r \in Int /\ Rotate(op, a, b, w, f).f \in Records
         /\ \A g : SameRecord(f, g) => /\ Rotate(op, a, b, w, f).r = Rotate(op, a, b, w, g).r
                                       /\ SameRecord(Rotate(op, a, b, w, f).f, Rotate(op, a, b, w, g).f)
<1> DEFINE n == MaskedCount(b) % Bits(w)
<1> DEFINE left == IF op = "Rol" THEN n ELSE (Bits(w) - n) % Bits(w)
<1> DEFINE r == Trunc(a * Power(left), w) + a \div Power(Bits(w) - left)
<1> DEFINE cf == IF op = "Rol" THEN r % 2 = 1 ELSE Msb(r, w) = 1
<1> DEFINE next == IF op = "Rol" THEN cf ELSE Bit(r, Bits(w) - 2) = 1
<1>1. PICK s \in Nat \ {0} : s = Bits(w) /\ s <= Bits(4) /\ Bits(4) \in Nat
  BY BitsFact
<1>2. n \in 0 .. s - 1
  <2>1. PICK m \in Nat : m = MaskedCount(b)
    BY CountFact
  <2>2. m % s \in 0 .. s - 1
    BY DivMod
  <2> QED
    BY <1>1, <2>1, <2>2
<1>3. left \in 0 .. s - 1
  <2>1. s - n \in Int
    BY <1>2
  <2>2. (s - n) % s \in 0 .. s - 1
    BY <2>1, DivMod
  <2> QED
    BY <1>1, <1>2, <2>2
<1> HIDE DEF n
<1>4. r \in Int
  <2> HIDE DEF left
  <2>1. left \in 0 .. Bits(4) + 1 /\ Bits(w) - left \in 0 .. Bits(4) + 1
    BY <1>1, <1>3
  <2>2. a * Power(left) \in Int /\ a \div Power(Bits(w) - left) \in Int
    BY <2>1, PartsFact
  <2>3. Trunc(a * Power(left), w) \in Nat
    BY <2>2, TruncFact
  <2> QED
    BY <2>2, <2>3
<1>5. \A g : Rotate(op, a, b, w, g) = IF MaskedCount(b) = 0 THEN [r |-> a, f |-> g]
                                      ELSE [r |-> r, f |-> SetCfOfOnly(g, cf, (Msb(r, w) = 1) # next)]
  BY DEF Rotate, n
<1> HIDE DEF left, r, cf, next
<1>6. /\ SetCfOfOnly(f, cf, (Msb(r, w) = 1) # next) \in Records
      /\ \A g : SameRecord(f, g) => SetCfOfOnly(f, cf, (Msb(r, w) = 1) # next) = SetCfOfOnly(g, cf, (Msb(r, w) = 1) # next)
  BY CfOfFact
<1> QED
  BY <1>4, <1>5, <1>6, SameSelf

(* So do RCL and RCR, whose carry-in they read.                              *)
LEMMA RotateThroughFact ==
  ASSUME NEW op \in {"Rcl", "Rcr"}, NEW w \in Width, NEW a \in Int, NEW b \in Int, NEW f \in Records
  PROVE  /\ RotateThroughCarry(op, a, b, w, f).r \in Int /\ RotateThroughCarry(op, a, b, w, f).f \in Records
         /\ \A g : SameRecord(f, g) =>
              /\ RotateThroughCarry(op, a, b, w, f).r = RotateThroughCarry(op, a, b, w, g).r
              /\ SameRecord(RotateThroughCarry(op, a, b, w, f).f, RotateThroughCarry(op, a, b, w, g).f)
<1> DEFINE wide == Bits(w) + 1
<1> DEFINE n == MaskedCount(b) % wide
<1> DEFINE left == IF op = "Rcl" THEN n ELSE (wide - n) % wide
<1> DEFINE x(g) == a + (IF CF(g) THEN Power(Bits(w)) ELSE 0)
<1> DEFINE y(g) == ((x(g) * Power(left)) % Power(wide)) + (x(g) \div Power(wide - left))
<1> DEFINE r(g) == Trunc(y(g), w)
<1> DEFINE cf(g) == Bit(y(g), Bits(w)) = 1
<1> DEFINE of(g) == IF op = "Rcl" THEN (Msb(r(g), w) = 1) # cf(g) ELSE Msb(r(g), w) # Bit(r(g), Bits(w) - 2)
<1>1. PICK s \in Nat \ {0} : s = wide /\ s <= Bits(4) + 1 /\ Bits(4) \in Nat
  BY BitsFact
<1>2. n \in 0 .. s - 1
  <2>1. PICK m \in Nat : m = MaskedCount(b)
    BY CountFact
  <2>2. m % s \in 0 .. s - 1
    BY DivMod
  <2> QED
    BY <1>1, <2>1, <2>2
<1>3. left \in 0 .. s - 1
  <2>1. s - n \in Int
    BY <1>2
  <2>2. (s - n) % s \in 0 .. s - 1
    BY <2>1, DivMod
  <2> QED
    BY <1>1, <1>2, <2>2
<1> HIDE DEF n
<1>4. r(f) \in Int
  <2> HIDE DEF left
  <2>1. left \in 0 .. Bits(4) + 1 /\ wide - left \in 0 .. Bits(4) + 1 /\ wide \in 0 .. Bits(4) + 1
    BY <1>1, <1>3
  <2>2. x(f) \in Int
    BY WidthFact
  <2> HIDE DEF x
  <2>3. x(f) * Power(left) \in Int /\ x(f) \div Power(wide - left) \in Int
    BY <2>1, <2>2, PartsFact
  <2>4. PICK p \in Nat \ {0} : p = Power(wide)
    BY <2>1, PowerFact
  <2>5. (x(f) * Power(left)) % p \in Int
    BY <2>3, DivMod
  <2>6. y(f) \in Int
    BY <2>3, <2>4, <2>5
  <2> HIDE DEF y
  <2> QED
    BY <2>6, TruncFact
<1>5. \A g : RotateThroughCarry(op, a, b, w, g) =
               IF MaskedCount(b) = 0 THEN [r |-> a, f |-> g] ELSE [r |-> r(g), f |-> SetCfOfOnly(g, cf(g), of(g))]
  BY DEF RotateThroughCarry, n
<1>6. \A g : CF(f) = CF(g) => r(f) = r(g) /\ cf(f) = cf(g) /\ of(f) = of(g)
  <2>1. \A g : CF(f) = CF(g) => x(f) = x(g)
    OBVIOUS
  <2> HIDE DEF x
  <2>2. \A g : CF(f) = CF(g) => y(f) = y(g)
    BY <2>1
  <2> HIDE DEF y
  <2> QED
    BY <2>2
<1> HIDE DEF left, x, y, r, cf, of
<1>7. \A g : SameRecord(f, g) => CF(f) = CF(g)
  BY SameCarry
<1>8. /\ SetCfOfOnly(f, cf(f), of(f)) \in Records
      /\ \A g : SameRecord(f, g) => SetCfOfOnly(f, cf(f), of(f)) = SetCfOfOnly(g, cf(f), of(f))
  BY CfOfFact
<1>9. ASSUME NEW g, SameRecord(f, g)
      PROVE  r(f) = r(g) /\ SetCfOfOnly(f, cf(f), of(f)) = SetCfOfOnly(g, cf(g), of(g))
  BY <1>6, <1>7, <1>8, <1>9
<1> QED
  BY <1>4, <1>5, <1>8, <1>9, SameSelf

(* x86p_alu's recorded operations.                                          *)
RecordedOps == {"Add", "Sub", "Cmp", "Or", "And", "Test", "Xor"}

(* The inlined operations: their words, the record the interpreter makes of them, and that it is exact.*)
LEMMA InlineFact ==
  ASSUME NEW op \in Inlined, NEW x \in Int, NEW y \in Int, NEW w \in Width, NEW f
  PROVE  LET a == Trunc(x, w)
             b == Trunc(y, w)
             r == AluResult(op, x, y, w)
             e == Set(f, InlineKind(op), a, b, r, w)
         IN  /\ a \in Dwords /\ b \in Dwords /\ r \in Int /\ (InlineKind(op) # "Logic" => r \in Dwords)
             /\ InlineKind(op) \in {"Add", "Sub", "Logic"} /\ InlineKind(op) \in Kinds
             /\ Alu(op, x, y, w, f) = [r |-> r, f |-> e]
             /\ AluResult(op, a, b, w) = r
             /\ Exact(e)
<1> DEFINE a == Trunc(x, w)
<1> DEFINE b == Trunc(y, w)
<1> DEFINE r == AluResult(op, x, y, w)
<1> DEFINE e == Set(f, InlineKind(op), a, b, r, w)
<1>1. /\ a \in 0 .. Power(Bits(w)) - 1 /\ b \in 0 .. Power(Bits(w)) - 1 /\ a \in Dwords /\ b \in Dwords /\ a \in Nat /\ b \in Nat
      /\ Trunc(a, w) = a /\ Trunc(b, w) = b
  BY TruncFact
<1>2. InlineKind(op) \in {"Add", "Sub", "Logic"} /\ InlineKind(op) \in Kinds
  BY DEF InlineKind, Inlined, Kinds
<1> HIDE DEF a, b
<1>3. \A g, u, v : Trunc(u, w) = a /\ Trunc(v, w) = b =>
        Alu(op, u, v, w, g) =
          CASE op = "Add" -> [r |-> Trunc(a + b, w), f |-> Set(g, "Add", a, b, Trunc(a + b, w), w)]
            [] op \in {"Sub", "Cmp"} -> [r |-> Trunc(a - b, w), f |-> Set(g, "Sub", a, b, Trunc(a - b, w), w)]
            [] op = "Or" -> [r |-> Or(a, b), f |-> Set(g, "Logic", a, b, Or(a, b), w)]
            [] op \in {"And", "Test"} -> [r |-> And(a, b), f |-> Set(g, "Logic", a, b, And(a, b), w)]
            [] op = "Xor" -> [r |-> Xor(a, b), f |-> Set(g, "Logic", a, b, Xor(a, b), w)]
  BY DEF Alu, Inlined
<1>4. /\ op = "Add" => r = Trunc(a + b, w)
      /\ op \in {"Sub", "Cmp"} => r = Trunc(a - b, w)
      /\ op = "Or" => r = Or(a, b)
      /\ op \in {"And", "Test"} => r = And(a, b)
      /\ op = "Xor" => r = Xor(a, b)
  BY <1>3 DEF AluResult, a, b
<1>5. AluResult(op, a, b, w) = r
  <2>1. Alu(op, a, b, w, NoFlags) = Alu(op, x, y, w, NoFlags)
    BY <1>1, <1>3 DEF a, b
  <2> QED
    BY <2>1 DEF AluResult
<1>6. Alu(op, x, y, w, f) = [r |-> r, f |-> e]
  <2>1. CASE op = "Add"
    BY <1>3, <1>4, <2>1 DEF InlineKind, a, b
  <2>2. CASE op \in {"Sub", "Cmp"}
    BY <1>3, <1>4, <2>2 DEF InlineKind, a, b
  <2>3. CASE op = "Or"
    BY <1>3, <1>4, <2>3 DEF InlineKind, a, b
  <2>4. CASE op \in {"And", "Test"}
    BY <1>3, <1>4, <2>4 DEF InlineKind, a, b
  <2>5. CASE op = "Xor"
    BY <1>3, <1>4, <2>5 DEF InlineKind, a, b
  <2> QED
    BY <2>1, <2>2, <2>3, <2>4, <2>5 DEF Inlined
<1>7. /\ Trunc(a + b, w) \in Dwords /\ Trunc(a - b, w) \in Dwords /\ Trunc(a + b, w) \in Int /\ Trunc(a - b, w) \in Int
      /\ Or(a, b) \in Int /\ And(a, b) \in Int /\ Xor(a, b) \in Int
  <2>1. a + b \in Int /\ a - b \in Int
    BY <1>1
  <2>2. And(a, b) \in Nat /\ Or(a, b) \in Int /\ Xor(a, b) \in Int
    BY <1>1, BitwiseFact
  <2>3. Trunc(a + b, w) \in Dwords /\ Trunc(a - b, w) \in Dwords /\ Trunc(a + b, w) \in Nat /\ Trunc(a - b, w) \in Nat
    BY <2>1, TruncFact
  <2> QED
    BY <2>2, <2>3
<1> HIDE DEF r
<1>8. r \in Int /\ (InlineKind(op) # "Logic" => r \in Dwords)
  BY <1>4, <1>7 DEF Inlined, InlineKind
<1>9. /\ InlineKind(op) = "Add" => r = Trunc(a + b, w)
      /\ InlineKind(op) = "Sub" => r = Trunc(a - b, w)
  BY <1>4 DEF Inlined, InlineKind
<1>10. Exact(e)
  BY <1>1, <1>2, <1>8, <1>9 DEF Exact, Set
<1> QED
  BY <1>1, <1>2, <1>5, <1>6, <1>8, <1>10 DEF a, b, r, e

(* With a carry in.                                                         *)
LEMMA CarriedFact ==
  ASSUME NEW op \in {"Adc", "Sbb"}, NEW x \in Int, NEW y \in Int, NEW w \in Width, NEW f
  PROVE  /\ Alu(op, x, y, w, f).r \in Int /\ Alu(op, x, y, w, f).f \in Records /\ Alu(op, x, y, w, f).f.kind = "Explicit"
         /\ \A g : SameRecord(f, g) => Alu(op, x, y, w, f) = Alu(op, x, y, w, g)
<1> DEFINE a == Trunc(x, w)
<1> DEFINE b == Trunc(y, w)
<1> DEFINE carry(g) == IF CF(g) THEN 1 ELSE 0
<1> DEFINE sum(d) == Trunc(a + b + d, w)
<1> DEFINE rest(d) == Trunc(a - b - d, w)
<1>1. a \in Int /\ b \in Int /\ carry(f) \in Int
  BY TruncFact
<1>2. \A g : Alu("Adc", x, y, w, g) = [r |-> sum(carry(g)), f |-> SetExplicit(AdcFlags(a, b, carry(g), sum(carry(g)), w))]
  BY DEF Alu, ShiftOps
<1>3. \A g : Alu("Sbb", x, y, w, g) = [r |-> rest(carry(g)), f |-> SetExplicit(SbbFlags(a, b, carry(g), rest(carry(g)), w))]
  BY DEF Alu, ShiftOps
<1> HIDE DEF a, b
<1>4. sum(carry(f)) \in Int /\ rest(carry(f)) \in Int
  BY <1>1, TruncFact
<1>5. \A c1, r : AdcFlags(a, b, c1, r, w) \in SUBSET ArithFlags /\ SbbFlags(a, b, c1, r, w) \in SUBSET ArithFlags
  <2>1. \A r : CommonFlags(a, b, r, w) \in SUBSET ArithFlags
    BY DEF CommonFlags, ArithFlags
  <2> QED
    BY <2>1 DEF AdcFlags, SbbFlags, ArithFlags
<1>6. \A g : SameRecord(f, g) => carry(f) = carry(g)
  <2>1. \A g : SameRecord(f, g) => CF(f) = CF(g)
    BY SameCarry
  <2> QED
    BY <2>1
<1> HIDE DEF carry, sum, rest
<1>7. /\ SetExplicit(AdcFlags(a, b, carry(f), sum(carry(f)), w)) \in Records
      /\ SetExplicit(SbbFlags(a, b, carry(f), rest(carry(f)), w)) \in Records
      /\ SetExplicit(AdcFlags(a, b, carry(f), sum(carry(f)), w)).kind = "Explicit"
      /\ SetExplicit(SbbFlags(a, b, carry(f), rest(carry(f)), w)).kind = "Explicit"
  BY <1>5, ExplicitFact
<1>8. CASE op = "Adc"
  BY <1>2, <1>4, <1>6, <1>7, <1>8
<1>9. CASE op = "Sbb"
  BY <1>3, <1>4, <1>6, <1>7, <1>9
<1> QED
  BY <1>8, <1>9

(* x86p_alu: an integer and a record, the same from the same record.        *)
LEMMA AluFact ==
  ASSUME NEW op \in AluOps, NEW x \in Int, NEW y \in Int, NEW w \in Width, NEW f \in Records
  PROVE  /\ Alu(op, x, y, w, f).r \in Int /\ Alu(op, x, y, w, f).f \in Records
         /\ \A g : SameRecord(f, g) => /\ Alu(op, x, y, w, f).r = Alu(op, x, y, w, g).r
                                       /\ SameRecord(Alu(op, x, y, w, f).f, Alu(op, x, y, w, g).f)
<1>1. CASE op \in Inlined
  <2> DEFINE a == Trunc(x, w)
  <2> DEFINE b == Trunc(y, w)
  <2> DEFINE r == AluResult(op, x, y, w)
  <2> DEFINE kind == InlineKind(op)
  <2>1. /\ a \in Dwords /\ b \in Dwords /\ r \in Int /\ (kind # "Logic" => r \in Dwords) /\ kind \in Kinds
        /\ \A g : Alu(op, x, y, w, g) = [r |-> r, f |-> Set(g, kind, a, b, r, w)]
    BY <1>1, InlineFact
  <2> HIDE DEF a, b, r, kind
  <2>2. Set(f, kind, a, b, r, w) \in Records /\ \A g : CF(f) = CF(g) => Set(f, kind, a, b, r, w) = Set(g, kind, a, b, r, w)
    BY <2>1, SetFact
  <2>3. \A g : SameRecord(f, g) => CF(f) = CF(g)
    BY SameCarry
  <2> QED
    BY <2>1, <2>2, <2>3, SameSelf
<1>2. CASE op \in {"Adc", "Sbb"}
  BY <1>2, CarriedFact, SameSelf
<1>3. CASE op \in ShiftOps
  <2>1. PICK a \in 0 .. Power(Bits(w)) - 1, b \in Int : a = Trunc(x, w) /\ b = Trunc(y, w)
    BY TruncFact
  <2>2. \A g : Alu(op, x, y, w, g) = Shift(op, a, b, w, g)
    BY <1>3, <2>1 DEF Alu, ShiftOps
  <2> QED
    BY <1>3, <2>2, ShiftFact
<1>4. CASE op \in Rotates
  <2>1. PICK a \in Int, b \in Int : a = Trunc(x, w) /\ b = Trunc(y, w)
    BY TruncFact
  <2>2. CASE op \in {"Rol", "Ror"}
    <3>1. \A g : Alu(op, x, y, w, g) = Rotate(op, a, b, w, g)
      BY <2>1, <2>2 DEF Alu, ShiftOps
    <3> QED
      BY <2>2, <3>1, RotateFact
  <2>3. CASE op \in {"Rcl", "Rcr"}
    <3>1. \A g : Alu(op, x, y, w, g) = RotateThroughCarry(op, a, b, w, g)
      BY <2>1, <2>3 DEF Alu, ShiftOps
    <3> QED
      BY <2>3, <3>1, RotateThroughFact
  <2> QED
    BY <1>4, <2>2, <2>3 DEF Rotates
<1> QED
  BY <1>1, <1>2, <1>3, <1>4 DEF AluOps, Binary, Inlined

(* Alu reads its operands at its width.                                     *)
LEMMA AluReads ==
  ASSUME NEW op \in AluOps, NEW x, NEW y, NEW u, NEW v, NEW w, NEW f, Trunc(x, w) = Trunc(u, w), Trunc(y, w) = Trunc(v, w)
  PROVE  Alu(op, x, y, w, f) = Alu(op, u, v, w, f)
  BY DEF Alu

(* x86p_alu_unary.                                                          *)
LEMMA UnaryRecord ==
  ASSUME NEW op \in {"Neg", "Inc", "Dec"}, NEW x \in Int, NEW w \in Width, NEW f
  PROVE  LET a == Trunc(x, w)
             r == UnaryResult(op, x, w)
             kind == IF op = "Neg" THEN "Sub" ELSE op
             p == IF op = "Neg" THEN 0 ELSE a
             q == IF op = "Neg" THEN a ELSE 1
             e == Set(f, kind, p, q, r, w)
         IN  /\ p \in Dwords /\ q \in Dwords /\ r \in Dwords /\ r \in Int /\ kind \in Kinds /\ kind # "Logic"
             /\ AluUnary(op, x, w, f) = [r |-> r, f |-> e]
             /\ Exact(e)
<1> DEFINE a == Trunc(x, w)
<1> DEFINE r == UnaryResult(op, x, w)
<1> DEFINE kind == IF op = "Neg" THEN "Sub" ELSE op
<1> DEFINE p == IF op = "Neg" THEN 0 ELSE a
<1> DEFINE q == IF op = "Neg" THEN a ELSE 1
<1> DEFINE e == Set(f, kind, p, q, r, w)
<1>1. a \in 0 .. Power(Bits(w)) - 1 /\ a \in Dwords /\ a \in Nat
  BY TruncFact
<1>2. 1 \in 0 .. Power(Bits(w)) - 1 /\ 0 \in 0 .. Power(Bits(w)) - 1
  <2>1. PICK h \in Nat \ {0} : Power(Bits(w)) = 2 * h
    BY WidthFact
  <2> QED
    BY <2>1
<1>3. kind \in Kinds /\ kind # "Logic" /\ kind \in {"Sub", "Inc", "Dec"}
  BY DEF Kinds
<1> HIDE DEF a
<1>4. \A g : AluUnary(op, x, w, g) =
        CASE op = "Neg" -> [r |-> Trunc(-a, w), f |-> Set(g, "Sub", 0, a, Trunc(-a, w), w)]
          [] op = "Inc" -> [r |-> Trunc(a + 1, w), f |-> Set(g, "Inc", a, 1, Trunc(a + 1, w), w)]
          [] op = "Dec" -> [r |-> Trunc(a - 1, w), f |-> Set(g, "Dec", a, 1, Trunc(a - 1, w), w)]
  BY DEF AluUnary, a
<1>5. /\ op = "Neg" => r = Trunc(-a, w)
      /\ op = "Inc" => r = Trunc(a + 1, w)
      /\ op = "Dec" => r = Trunc(a - 1, w)
  BY <1>4 DEF UnaryResult
<1>6. r \in Dwords /\ r \in Int
  <2>1. -a \in Int /\ a + 1 \in Int /\ a - 1 \in Int
    BY <1>1
  <2>2. Trunc(-a, w) \in Dwords /\ Trunc(a + 1, w) \in Dwords /\ Trunc(a - 1, w) \in Dwords
    BY <2>1, TruncFact
  <2> QED
    BY <1>5, <2>2, DwordsFact
<1>7. AluUnary(op, x, w, f) = [r |-> r, f |-> e]
  <2>1. CASE op = "Neg"
    BY <1>4, <1>5, <2>1
  <2>2. CASE op = "Inc"
    BY <1>4, <1>5, <2>2
  <2>3. CASE op = "Dec"
    BY <1>4, <1>5, <2>3
  <2> QED
    BY <2>1, <2>2, <2>3
<1>8. -a = 0 - a
  BY <1>1
<1> HIDE DEF r
<1>9. /\ kind = "Sub" => r = Trunc(p - q, w)
      /\ kind = "Inc" => r = Trunc(p + 1, w)
      /\ kind = "Dec" => r = Trunc(p - 1, w)
      /\ p \in 0 .. Power(Bits(w)) - 1 /\ q \in 0 .. Power(Bits(w)) - 1
  BY <1>1, <1>2, <1>5, <1>8
<1> HIDE DEF p, q
<1>10. Exact(e)
  <2>1. e.kind = kind /\ e.a = p /\ e.b = q /\ e.r = r /\ e.w = w
    BY DEF Set
  <2> HIDE DEF e, kind
  <2> QED
    BY <1>3, <1>6, <1>9, <2>1 DEF Exact
<1>11. p \in Dwords /\ q \in Dwords
  BY <1>9, DwordsFact
<1> QED
  BY <1>3, <1>6, <1>7, <1>10, <1>11 DEF a, r, p, q

(* INC, DEC, NEG and NOT depend on the old record only through its flags.    *)
LEMMA UnaryFact ==
  ASSUME NEW op \in Unary, NEW x \in Int, NEW w \in Width, NEW f \in Records
  PROVE  /\ AluUnary(op, x, w, f).r \in Int /\ AluUnary(op, x, w, f).f \in Records
         /\ \A g : SameRecord(f, g) => /\ AluUnary(op, x, w, f).r = AluUnary(op, x, w, g).r
                                       /\ SameRecord(AluUnary(op, x, w, f).f, AluUnary(op, x, w, g).f)
<1>1. CASE op = "Not"
  <2>1. \A g : AluUnary(op, x, w, g) = [r |-> Not(Trunc(x, w), w), f |-> g]
    BY <1>1 DEF AluUnary
  <2>2. Not(Trunc(x, w), w) \in Int
    <3>1. Trunc(Trunc(x, w), w) \in Nat /\ Power(Bits(w)) \in Nat
      BY TruncFact, WidthFact
    <3> QED
      BY <3>1 DEF Not
  <2> QED
    BY <2>1, <2>2
<1>2. CASE op # "Not"
  <2> DEFINE a == Trunc(x, w)
  <2> DEFINE r == UnaryResult(op, x, w)
  <2> DEFINE kind == IF op = "Neg" THEN "Sub" ELSE op
  <2> DEFINE p == IF op = "Neg" THEN 0 ELSE a
  <2> DEFINE q == IF op = "Neg" THEN a ELSE 1
  <2>0. op \in {"Neg", "Inc", "Dec"}
    BY <1>2 DEF Unary
  <2>1. /\ p \in Dwords /\ q \in Dwords /\ r \in Dwords /\ r \in Int /\ kind \in Kinds
        /\ \A g : AluUnary(op, x, w, g) = [r |-> r, f |-> Set(g, kind, p, q, r, w)]
    BY <2>0, UnaryRecord
  <2> HIDE DEF a, r, kind, p, q
  <2>2. Set(f, kind, p, q, r, w) \in Records /\ \A g : CF(f) = CF(g) => Set(f, kind, p, q, r, w) = Set(g, kind, p, q, r, w)
    BY <2>1, SetFact
  <2>3. \A g : SameRecord(f, g) => CF(f) = CF(g)
    BY SameCarry
  <2> QED
    BY <2>1, <2>2, <2>3, SameSelf
<1> QED
  BY <1>1, <1>2

(* The products.                                                            *)
LEMMA ProductFact ==
  ASSUME NEW x \in Int, NEW y \in Int, NEW w \in Width, NEW f \in Records
  PROVE  /\ Mul(x, y, w, f).lo \in Int /\ Mul(x, y, w, f).hi \in Int /\ Mul(x, y, w, f).f \in Records
         /\ Imul(x, y, w, f).lo \in Int /\ Imul(x, y, w, f).hi \in Int /\ Imul(x, y, w, f).f \in Records
         /\ \A g : SameRecord(f, g) => Mul(x, y, w, f) = Mul(x, y, w, g) /\ Imul(x, y, w, f) = Imul(x, y, w, g)
         /\ Imul(x, Trunc(y, w), w, f) = Imul(x, y, w, f)
<1>1. PICK p \in Nat \ {0} : p = Power(Bits(w))
  BY WidthFact
<1>2. \A v \in Int : Trunc(v, w) \in Int /\ v \div p \in Int
  BY TruncFact, DivMod
<1>3. Trunc(x, w) * Trunc(y, w) \in Int /\ Signed(x, w) * Signed(y, w) \in Int
  <2>1. Trunc(x, w) \in Int /\ Trunc(y, w) \in Int /\ Signed(x, w) \in Int /\ Signed(y, w) \in Int
    BY TruncFact, SignedTrunc
  <2> QED
    BY <2>1
<1>4. /\ \A g, cf, of : SetCfOfOnly(f, cf, of) \in Records /\ (SameRecord(f, g) => SetCfOfOnly(f, cf, of) = SetCfOfOnly(g, cf, of))
  BY CfOfFact
<1>5. ASSUME NEW full \in Int
      PROVE  Trunc(full, w) \in Int /\ full \div Power(Bits(w)) \in Int /\ Trunc(full \div Power(Bits(w)), w) \in Int
  BY <1>1, <1>2
<1>6. Mul(x, y, w, f).lo \in Int /\ Mul(x, y, w, f).hi \in Int /\ Mul(x, y, w, f).f \in Records
  BY <1>3, <1>4, <1>5 DEF Mul
<1>7. Imul(x, y, w, f).lo \in Int /\ Imul(x, y, w, f).hi \in Int /\ Imul(x, y, w, f).f \in Records
  BY <1>3, <1>4, <1>5 DEF Imul
<1>8. \A g : SameRecord(f, g) => Mul(x, y, w, f) = Mul(x, y, w, g)
  BY <1>4 DEF Mul
<1>9. \A g : SameRecord(f, g) => Imul(x, y, w, f) = Imul(x, y, w, g)
  BY <1>4 DEF Imul
<1>10. Imul(x, Trunc(y, w), w, f) = Imul(x, y, w, f)
  <2>1. Signed(Trunc(y, w), w) = Signed(y, w)
    BY SignedTrunc
  <2> QED
    BY <2>1 DEF Imul
<1> QED
  BY <1>6, <1>7, <1>8, <1>9, <1>10

(* The quotients.                                                           *)
LEMMA QuotientFact ==
  ASSUME NEW n \in Int, NEW d \in Int, d # 0
  PROVE  Quotient(n, d) \in Int /\ Remainder(n, d) \in Int
<1>1. Abs(n) \in Int /\ Abs(d) \in Nat \ {0}
  BY DEF Abs
<1>2. PICK q \in Int : q = Abs(n) \div Abs(d)
  BY <1>1, DivMod
<1>3. Quotient(n, d) \in Int
  BY <1>2 DEF Quotient
<1>4. d * Quotient(n, d) \in Int
  BY <1>3
<1> QED
  BY <1>3, <1>4 DEF Remainder

(* A division's results are numbers.                                         *)
LEMMA DivisionFact ==
  ASSUME NEW hi \in Int, NEW lo \in Int, NEW d \in Int, NEW w \in Width
  PROVE  /\ Div(hi, lo, d, w).q \in Int /\ Div(hi, lo, d, w).r \in Int
         /\ Idiv(hi, lo, d, w).q \in Int /\ Idiv(hi, lo, d, w).r \in Int
<1>1. PICK p \in Nat \ {0} : p = Power(Bits(w))
  BY WidthFact
<1>2. /\ Trunc(hi, w) \in Int /\ Trunc(lo, w) \in Int /\ Trunc(d, w) \in Nat /\ Signed(hi, w) \in Int /\ Signed(d, w) \in Int
  BY TruncFact, SignedTrunc
<1>3. PICK num \in Int, by \in Nat : num = Trunc(hi, w) * p + Trunc(lo, w) /\ by = Trunc(d, w)
  BY <1>2
<1>4. Div(hi, lo, d, w).q \in Int /\ Div(hi, lo, d, w).r \in Int
  <2>1. Div(hi, lo, d, w) = IF by = 0 \/ num \div by >= p THEN [ok |-> FALSE, q |-> 0, r |-> 0]
                            ELSE [ok |-> TRUE, q |-> num \div by, r |-> num % by]
    BY <1>1, <1>3 DEF Div
  <2>2. by # 0 => num \div by \in Int /\ num % by \in Int
    BY DivMod
  <2> QED
    BY <2>1, <2>2
<1>5. PICK sn \in Int, sb \in Int : sn = Signed(hi, w) * p + Trunc(lo, w) /\ sb = Signed(d, w)
  BY <1>2
<1>6. Idiv(hi, lo, d, w).q \in Int /\ Idiv(hi, lo, d, w).r \in Int
  <2>1. sb # 0 => Quotient(sn, sb) \in Int /\ Remainder(sn, sb) \in Int
    BY QuotientFact
  <2>2. sb # 0 => Trunc(Quotient(sn, sb), w) \in Int /\ Trunc(Remainder(sn, sb), w) \in Int
    BY <2>1, TruncFact
  <2> QED
    BY <1>1, <1>5, <2>2 DEF Idiv
<1> QED
  BY <1>4, <1>6

(* x86p_double_shift, x86p_bit_apply.                                       *)
LEMMA DoubleShiftFact ==
  ASSUME NEW left \in BOOLEAN, NEW x \in Int, NEW y \in Int, NEW count \in Int, NEW w \in Width, NEW e \in SUBSET ArithFlags
  PROVE  LET n == MaskedCount(count)
             t == DoubleShift(left, x, y, count, w, e)
         IN  /\ t.r \in Int /\ t.e \in SUBSET ArithFlags
             /\ t.wrote <=> n # 0 /\ n <= Bits(w)
             /\ ~t.wrote => (t.defined <=> n = 0)
             /\ DoubleShift(left, x, y, n, w, e) = t
             /\ DoubleShift(left, x, Trunc(y, w), count, w, e) = t
<1> DEFINE n == MaskedCount(count)
<1> DEFINE t == DoubleShift(left, x, y, count, w, e)
<1> DEFINE moved(j) == IF left THEN Trunc(Trunc(x, w) * Power(j), w) + Trunc(y, w) \div Power(Bits(w) - j)
                       ELSE Trunc(x, w) \div Power(j) + Trunc(Trunc(y, w) * Power(Bits(w) - j), w)
<1>1. n \in 0 .. Bits(4) - 1 /\ n \in Nat /\ MaskedCount(n) = n
  <2>1. PICK b \in Nat \ {0} : b = Bits(4)
    BY BitsFact
  <2>2. n \in 0 .. b - 1 /\ n \in Nat
    BY <2>1, CountFact
  <2>3. n % b = n
    BY <2>1, <2>2
  <2> QED
    BY <2>1, <2>2, <2>3 DEF MaskedCount
<1>2. Bits(w) \in Nat /\ Bits(w) <= Bits(4) /\ Bits(4) \in Nat
  BY BitsFact
<1>3. n <= Bits(w) => moved(n) \in Int
  <2>1. SUFFICES ASSUME n <= Bits(w) PROVE moved(n) \in Int
    OBVIOUS
  <2>2. Trunc(x, w) \in Int /\ Trunc(y, w) \in Int
    BY TruncFact
  <2>3. n \in 0 .. Bits(4) + 1 /\ Bits(w) - n \in 0 .. Bits(4) + 1
    BY <1>1, <1>2, <2>1
  <2>4. /\ Trunc(x, w) * Power(n) \in Int /\ Trunc(y, w) \div Power(Bits(w) - n) \in Int
        /\ Trunc(x, w) \div Power(n) \in Int /\ Trunc(y, w) * Power(Bits(w) - n) \in Int
    BY <2>2, <2>3, PartsFact
  <2>5. Trunc(Trunc(x, w) * Power(n), w) \in Int /\ Trunc(Trunc(y, w) * Power(Bits(w) - n), w) \in Int
    BY <2>4, TruncFact
  <2> QED
    BY <2>4, <2>5
<1>4. t = IF n = 0 \/ n > Bits(w) THEN [wrote |-> FALSE, defined |-> n = 0, r |-> x, e |-> e]
          ELSE [wrote |-> TRUE, defined |-> TRUE, r |-> moved(n), e |-> t.e]
  BY DEF DoubleShift
<1>5. t.e \in SUBSET ArithFlags
  BY DEF DoubleShift, ArithFlags
<1>6. DoubleShift(left, x, y, n, w, e) = t
  BY <1>1 DEF DoubleShift
<1>7. DoubleShift(left, x, Trunc(y, w), count, w, e) = t
  <2>1. Trunc(Trunc(y, w), w) = Trunc(y, w)
    BY TruncFact
  <2> QED
    BY <2>1 DEF DoubleShift
<1> HIDE DEF moved, t
<1>8. t.r \in Int /\ (t.wrote <=> n # 0 /\ n <= Bits(w)) /\ (~t.wrote => (t.defined <=> n = 0))
  <2>1. CASE n = 0 \/ n > Bits(w)
    <3>1. t.r = x /\ t.wrote = FALSE /\ t.defined = (n = 0)
      BY <1>4, <2>1
    <3>2. ~(n # 0 /\ n <= Bits(w))
      BY <1>1, <1>2, <2>1
    <3> QED
      BY <3>1, <3>2
  <2>2. CASE ~(n = 0 \/ n > Bits(w))
    <3>1. t.r = moved(n) /\ t.wrote = TRUE
      BY <1>4, <2>2
    <3>2. n # 0 /\ n <= Bits(w)
      BY <1>1, <1>2, <2>2
    <3> QED
      BY <1>3, <3>1, <3>2
  <2> QED
    BY <2>1, <2>2
<1> QED
  BY <1>5, <1>6, <1>7, <1>8 DEF t

(* So is a bit operation's.                                                  *)
LEMMA BitApplyFact ==
  ASSUME NEW op \in BitOps, NEW v \in Int, NEW i \in 0 .. Bits(4), NEW e \in SUBSET ArithFlags
  PROVE  BitApply(op, v, i, e).r \in Int /\ BitApply(op, v, i, e).e \in SUBSET ArithFlags
<1>1. PICK p \in Nat \ {0} : p = Power(i)
  <2>1. PICK b \in Nat : b = Bits(4)
    BY BitsFact
  <2>2. i \in 0 .. b + 1
    BY <2>1
  <2> QED
    BY <2>1, <2>2, PowerFact
<1>2. BitApply(op, v, i, e).r \in Int
  BY <1>1 DEF BitApply, BitOps
<1>3. BitApply(op, v, i, e).e \in SUBSET ArithFlags
  BY DEF BitApply, ArithFlags
<1> QED
  BY <1>2, <1>3

(* A byte of a word.                                                        *)
LEMMA ByteFact ==
  ASSUME NEW v \in Int, NEW j \in 0 .. 3
  PROVE  ByteOf(v, j) \in Bytes /\ ByteOf(v, j) \in Dwords /\ ByteOf(v, j) \in Nat
<1>1. PICK b \in Nat : b = ByteBits /\ b >= 2 /\ Bits(4) = 4 * b /\ Bits(1) = b
  BY BitsFact
<1>2. j * b \in 0 .. 4 * b + 1 /\ b \in 0 .. 4 * b + 1
  <2>1. j = 0 \/ j = 1 \/ j = 2 \/ j = 3
    OBVIOUS
  <2> QED
    BY <2>1
<1>3. PICK p \in Nat \ {0}, q \in Nat \ {0} : p = Power(j * b) /\ q = Power(b)
  BY <1>1, <1>2, PowerFact
<1>4. (v \div p) % q \in 0 .. q - 1
  <2>1. v \div p \in Int
    BY DivMod
  <2> QED
    BY <2>1, DivMod
<1>5. ByteOf(v, j) = (v \div p) % q /\ Bytes = 0 .. q - 1
  BY <1>1, <1>3 DEF ByteOf, Bytes
<1> QED
  BY <1>4, <1>5, DwordsFact

(* The number of a register and of its byte.                                *)
LEMMA RegisterFact ==
  ASSUME NEW r \in 0 .. 7
  PROVE  r % 4 \in 0 .. 3 /\ r % 4 \in 0 .. 7 /\ r \div 4 \in 0 .. 3 /\ (r \div 4) + 1 <= 4
<1>1. r \in {0, 1, 2, 3, 4, 5, 6, 7}
  OBVIOUS
<1> QED
  BY <1>1

(* A register read at a width.                                               *)
LEMMA ReadRegFact ==
  ASSUME NEW d, d.reg \in [0 .. 7 -> Dwords], NEW r \in 0 .. 7, NEW w \in Width
  PROVE  /\ ReadReg(d, r, w) \in 0 .. Power(Bits(w)) - 1 /\ ReadReg(d, r, w) \in Dwords /\ ReadReg(d, r, w) \in Int
         /\ Trunc(ReadReg(d, r, w), w) = ReadReg(d, r, w)
         /\ \A e : d.reg = e.reg => ReadReg(d, r, w) = ReadReg(e, r, w)
<1>1. ReadReg(d, r, w) \in 0 .. Power(Bits(w)) - 1
  <2>1. CASE w = 1
    <3>1. r % 4 \in 0 .. 7 /\ r \div 4 \in 0 .. 3
      BY RegisterFact
    <3>2. d.reg[r % 4] \in Int
      BY <3>1, DwordsFact
    <3>3. ByteOf(d.reg[r % 4], r \div 4) \in Bytes
      BY <3>1, <3>2, ByteFact
    <3> QED
      BY <2>1, <3>3 DEF ReadReg, Bytes
  <2>2. CASE w # 1
    <3>1. d.reg[r] \in Int
      BY DwordsFact
    <3> QED
      BY <2>2, <3>1, TruncFact DEF ReadReg
  <2> QED
    BY <2>1, <2>2
<1>2. ReadReg(d, r, w) \in Dwords /\ ReadReg(d, r, w) \in Int
  BY <1>1, DwordsFact
<1>3. Trunc(ReadReg(d, r, w), w) = ReadReg(d, r, w)
  BY <1>1, <1>2, TruncFact
<1>4. \A e : d.reg = e.reg => ReadReg(d, r, w) = ReadReg(e, r, w)
  BY DEF ReadReg
<1> QED
  BY <1>1, <1>2, <1>3, <1>4

(* The value of w bytes of memory.                                          *)
LoadStep(f, mem, a, w) == [i \in 0 .. w |-> IF i = 0 THEN 0 ELSE f[i - 1] + mem[a + i - 1] * Power((i - 1) * ByteBits)]
LoadOf(mem, a, w) == LET f == CHOOSE f : f = LoadStep(f, mem, a, w) IN f[w]

(* A load depends on the memory alone.                                       *)
LEMMA LoadIs ==
  ASSUME NEW d, NEW a, NEW w
  PROVE  Load(d, a, w) = LoadOf(d.mem, a, w)
  BY DEF Load, LoadOf, LoadStep

(* It gives a word of its width.                                             *)
LEMMA LoadFact ==
  ASSUME NEW d, d.mem \in [Window -> Bytes], NEW w \in Width, NEW a \in Int, Accessible(a, w)
  PROVE  /\ Load(d, a, w) \in 0 .. Power(Bits(w)) - 1 /\ Load(d, a, w) \in Dwords /\ Load(d, a, w) \in Int
         /\ Trunc(Load(d, a, w), w) = Load(d, a, w)
<1> DEFINE step == [i \in 1 .. w |-> [v \in Nat |-> v + d.mem[a + i - 1] * Power((i - 1) * ByteBits)]]
<1>1. PICK b \in Nat : b = ByteBits /\ b >= 2 /\ Bits(4) = 4 * b /\ Bits(1) = b /\ Bits(w) = w * b
  BY BitsFact DEF Bits
<1>2. w \in 1 .. 4 /\ w \in Nat
  BY DEF Width
<1>3. ASSUME NEW i \in 1 .. w
      PROVE  /\ (i - 1) * b \in Nat /\ (i - 1) * b + b = i * b /\ i * b <= 4 * b + 1 /\ i * b \in Nat
             /\ (i - 1) * b \in 0 .. 4 * b + 1 /\ i * b \in 0 .. 4 * b + 1
  <2>1. i = 1 \/ i = 2 \/ i = 3 \/ i = 4
    BY <1>2
  <2> QED
    BY <1>1, <2>1
<1>4. PICK q \in Nat \ {0} : q = Power(b) /\ Bytes = 0 .. q - 1
  <2>1. b \in 0 .. 4 * b + 1
    BY <1>1
  <2> QED
    BY <1>1, <2>1, PowerFact DEF Bytes
<1>5. ASSUME NEW i \in 1 .. w
      PROVE  /\ d.mem[a + i - 1] \in 0 .. q - 1 /\ Power((i - 1) * ByteBits) \in Nat \ {0}
             /\ Power(i * ByteBits) = Power((i - 1) * ByteBits) * q
  <2>1. a + i - 1 \in Window
    BY <1>2, WindowAssumption DEF Accessible, Window
  <2>2. d.mem[a + i - 1] \in 0 .. q - 1
    BY <1>4, <2>1
  <2>3. Power((i - 1) * b) \in Nat \ {0}
    BY <1>1, <1>3, PowerFact
  <2>4. Power((i - 1) * b + b) = Power((i - 1) * b) * Power(b)
    BY <1>1, <1>3, PowerAdd
  <2> QED
    BY <1>1, <1>3, <1>4, <2>2, <2>3, <2>4
<1>6. Steps(step, Nat, w)
  <2>1. ASSUME NEW i \in 1 .. w, NEW v \in Nat PROVE v + d.mem[a + i - 1] * Power((i - 1) * ByteBits) \in Nat
    <3>1. PICK x \in Nat, p \in Nat : x = d.mem[a + i - 1] /\ p = Power((i - 1) * ByteBits)
      BY <1>5
    <3>2. v + x * p \in Nat
      OBVIOUS
    <3> QED
      BY <3>1, <3>2
  <2> QED
    BY <2>1 DEF Steps
<1>7. PICK f : f = WalkStep(f, 0, step, w) /\ \A i \in 0 .. w : f[i] \in Nat
  BY <1>2, <1>6, WalkExists
<1>8. f = LoadStep(f, d.mem, a, w)
  <2>1. ASSUME NEW i \in 0 .. w, i # 0
        PROVE  step[i][f[i - 1]] = f[i - 1] + d.mem[a + i - 1] * Power((i - 1) * ByteBits)
    <3>1. i \in 1 .. w /\ i - 1 \in 0 .. w
      BY <1>2, <2>1
    <3> QED
      BY <1>7, <3>1
  <2> HIDE DEF step
  <2>2. [i \in 0 .. w |-> IF i = 0 THEN 0 ELSE step[i][f[i - 1]]] = LoadStep(f, d.mem, a, w)
    BY <2>1 DEF LoadStep
  <2> QED
    BY <1>7, <2>2 DEF WalkStep
<1> HIDE DEF step
<1>9. ASSUME NEW g, g = LoadStep(g, d.mem, a, w) PROVE g[w] \in 0 .. Power(Bits(w)) - 1
  <2> DEFINE T == {i \in 0 .. w : g[i] \in Int /\ g[i] >= 0 /\ g[i] < Power(i * b)}
  <2>0. \A i \in 0 .. w : g[i] = IF i = 0 THEN 0 ELSE g[i - 1] + d.mem[a + i - 1] * Power((i - 1) * ByteBits)
    BY <1>9 DEF LoadStep
  <2>1. 0 \in T
    <3>1. g[0] = 0 /\ 0 * b = 0 /\ 0 \in 0 .. w
      BY <1>2, <2>0
    <3> QED
      BY <3>1, PowerFact
  <2>2. ASSUME NEW i \in 0 .. w - 1, i \in T PROVE i + 1 \in T
    <3>1. i + 1 \in 1 .. w /\ i + 1 \in 0 .. w /\ (i + 1) - 1 = i
      BY <1>2
    <3>2. PICK x \in 0 .. q - 1, p \in Nat \ {0} : x = d.mem[a + (i + 1) - 1] /\ p = Power(i * b) /\ Power((i + 1) * b) = p * q
      BY <1>1, <1>5, <3>1
    <3>3. g[i + 1] = g[i] + x * p
      BY <1>1, <2>0, <3>1, <3>2
    <3>4. g[i] \in 0 .. p - 1
      BY <2>2, <3>2
    <3>5. x * p <= p * (q - 1) /\ p * (q - 1) = p * q - p /\ x * p \in Nat /\ p * q \in Nat
      <4>1. PICK z \in Nat : q - 1 = x + z
        <5>1. (q - 1) - x \in Nat /\ q - 1 = x + ((q - 1) - x)
          BY <3>2
        <5> QED
          BY <5>1
      <4>2. p * (q - 1) = x * p + p * z /\ p * z \in Nat
        BY <4>1
      <4> QED
        BY <4>2
    <3>6. g[i + 1] \in Int /\ g[i + 1] >= 0 /\ g[i + 1] < p * q
      BY <3>3, <3>4, <3>5
    <3> QED
      BY <3>1, <3>2, <3>6
  <2>3. 0 .. w \subseteq T
    <3> HIDE DEF T
    <3> QED
      BY <1>2, <2>1, <2>2, InductionInterval
  <2>4. w \in T
    <3> HIDE DEF T
    <3> QED
      BY <1>2, <2>3
  <2>5. PICK p \in Nat : p = Power(Bits(w))
    BY WidthFact
  <2> QED
    BY <1>1, <2>4, <2>5
<1>10. Load(d, a, w) \in 0 .. Power(Bits(w)) - 1
  <2> DEFINE g == CHOOSE g : g = LoadStep(g, d.mem, a, w)
  <2>1. g = LoadStep(g, d.mem, a, w)
    BY <1>8
  <2>2. Load(d, a, w) = g[w]
    BY LoadIs DEF LoadOf
  <2> HIDE DEF g
  <2> QED
    BY <1>9, <2>1, <2>2
<1> QED
  BY <1>10, TruncFact, DwordsFact

\* What two states of the CPU have in common, but for the record of the flags, EIP and the status.
Even(d, e) ==
  /\ d \in Cpus /\ e \in Cpus
  /\ d.reg = e.reg /\ d.mem = e.mem /\ d.df = e.df /\ d.cs = e.cs /\ d.fs_base = e.fs_base
Twin(d, e) == Even(d, e) /\ SameRecord(d.flags, e.flags)
\* What an instruction of a block leaves alone while it works.
Stays(d, e) ==
  e.flags = d.flags /\ e.eip = d.eip /\ e.next = d.next /\ e.st = d.st /\ e.fs_base = d.fs_base /\ e.cs = d.cs
\* The two made the same step, and their records, EIP and status are where they were.
Moved(d, e, f, g) == Even(f, g) /\ Stays(d, f) /\ Stays(e, g)

(* The parts of a CPU state.                                                 *)
LEMMA CpusFact ==
  ASSUME NEW d \in Cpus
  PROVE  /\ d.reg \in [0 .. 7 -> Dwords] /\ d.mem \in [Window -> Bytes] /\ d.flags \in Records /\ d.df \in {0, 1}
         /\ d.cs \in Dwords /\ d.fs_base \in Dwords /\ d.eip \in Dwords /\ d.next \in Dwords /\ d.st \in Statuses
         /\ \A r \in 0 .. 7 : d.reg[r] \in Dwords /\ d.reg[r] \in Int /\ d.reg[r] \in Nat
<1>1. /\ d.reg \in [0 .. 7 -> Dwords] /\ d.mem \in [Window -> Bytes] /\ d.flags \in Records /\ d.df \in {0, 1}
      /\ d.cs \in Dwords /\ d.fs_base \in Dwords /\ d.eip \in Dwords /\ d.next \in Dwords /\ d.st \in Statuses
  BY DEF Cpus
<1> QED
  BY <1>1, DwordsFact

(* One field of the state.                                                  *)
LEMMA SetRegs ==
  ASSUME NEW d \in Cpus, NEW e \in Cpus, Even(d, e), NEW regs \in [0 .. 7 -> Dwords]
  PROVE  /\ Moved(d, e, [d EXCEPT !.reg = regs], [e EXCEPT !.reg = regs])
         /\ [d EXCEPT !.reg = regs].reg = regs /\ [d EXCEPT !.reg = regs].mem = d.mem
<1>1. /\ [d EXCEPT !.reg = regs] \in Cpus /\ [e EXCEPT !.reg = regs] \in Cpus
  BY DEF Cpus
<1> QED
  BY <1>1 DEF Moved, Even, Stays, Cpus

(* Both get the same memory.                                                 *)
LEMMA SetMem ==
  ASSUME NEW d \in Cpus, NEW e \in Cpus, Even(d, e), NEW mem \in [Window -> Bytes]
  PROVE  /\ Moved(d, e, [d EXCEPT !.mem = mem], [e EXCEPT !.mem = mem])
         /\ [d EXCEPT !.mem = mem].reg = d.reg /\ [d EXCEPT !.mem = mem].mem = mem
<1>1. /\ [d EXCEPT !.mem = mem] \in Cpus /\ [e EXCEPT !.mem = mem] \in Cpus
  BY DEF Cpus
<1> QED
  BY <1>1 DEF Moved, Even, Stays, Cpus

(* Both get the same direction flag.                                         *)
LEMMA SetDf ==
  ASSUME NEW d \in Cpus, NEW e \in Cpus, Even(d, e), NEW df \in {0, 1}
  PROVE  Moved(d, e, [d EXCEPT !.df = df], [e EXCEPT !.df = df])
<1>1. /\ [d EXCEPT !.df = df] \in Cpus /\ [e EXCEPT !.df = df] \in Cpus
  BY DEF Cpus
<1> QED
  BY <1>1 DEF Moved, Even, Stays, Cpus

(* Each gets a record.                                                       *)
LEMMA SetFlags ==
  ASSUME NEW d \in Cpus, NEW e \in Cpus, Even(d, e), NEW f \in Records, NEW g \in Records
  PROVE  /\ Even(WithFlags(d, f), WithFlags(e, g))
         /\ WithFlags(d, f).flags = f /\ WithFlags(e, g).flags = g
         /\ WithFlags(d, f).eip = d.eip /\ WithFlags(d, f).next = d.next /\ WithFlags(d, f).st = d.st
         /\ WithFlags(e, g).eip = e.eip /\ WithFlags(e, g).next = e.next /\ WithFlags(e, g).st = e.st
         /\ WithFlags(d, f).reg = d.reg /\ WithFlags(d, f).mem = d.mem
<1>1. /\ WithFlags(d, f) \in Cpus /\ WithFlags(e, g) \in Cpus
  BY DEF Cpus, WithFlags
<1> QED
  BY <1>1 DEF Even, Cpus, WithFlags

(* x86p_reg_write: a register and nothing else.                              *)
LEMMA WriteRegMoved ==
  ASSUME NEW d, NEW e, Even(d, e), NEW r \in 0 .. 7, NEW w \in Width, NEW v \in Int
  PROVE  /\ Moved(d, e, WriteReg(d, r, w, v), WriteReg(e, r, w, v)) /\ WriteReg(d, r, w, v).mem = d.mem
         /\ w = 4 => WriteReg(d, r, w, v) = [d EXCEPT !.reg[r] = Trunc(v, 4)]
         /\ \A q \in 0 .. 7 : q # (IF w = 1 THEN r % 4 ELSE r) => WriteReg(d, r, w, v).reg[q] = d.reg[q]
<1>1. d \in Cpus /\ e \in Cpus /\ d.reg = e.reg /\ d.reg \in [0 .. 7 -> Dwords]
  BY CpusFact DEF Even
<1>2. CASE w = 1
  <2> DEFINE regs == [d.reg EXCEPT ![r % 4] = WithField(d.reg[r % 4], r \div 4, 1, v)]
  <2>1. r % 4 \in 0 .. 7 /\ r \div 4 \in 0 .. 3 /\ (r \div 4) + 1 <= 4
    BY RegisterFact
  <2>2. WithField(d.reg[r % 4], r \div 4, 1, v) \in Dwords
    BY <1>1, <1>2, <2>1, FieldFact
  <2>3. regs \in [0 .. 7 -> Dwords]
    BY <1>1, <2>1, <2>2
  <2>4. WriteReg(d, r, w, v) = [d EXCEPT !.reg = regs] /\ WriteReg(e, r, w, v) = [e EXCEPT !.reg = regs]
    <3>1. WriteReg(d, r, w, v) = [d EXCEPT !.reg[r % 4] = WithField(@, r \div 4, 1, v)]
      BY <1>2 DEF WriteReg
    <3>2. WriteReg(e, r, w, v) = [e EXCEPT !.reg[r % 4] = WithField(@, r \div 4, 1, v)]
      BY <1>2 DEF WriteReg
    <3> QED
      BY <1>1, <3>1, <3>2
  <2>5. \A q \in 0 .. 7 : q # r % 4 => regs[q] = d.reg[q]
    BY <1>1, <2>1
  <2> HIDE DEF regs
  <2>6. /\ Moved(d, e, WriteReg(d, r, w, v), WriteReg(e, r, w, v)) /\ WriteReg(d, r, w, v).mem = d.mem
        /\ WriteReg(d, r, w, v).reg = regs
    BY <1>1, <2>3, <2>4, SetRegs
  <2> QED
    BY <1>2, <2>5, <2>6
<1>3. CASE w # 1
  <2> DEFINE regs == [d.reg EXCEPT ![r] = WithField(d.reg[r], 0, w, v)]
  <2>1. 0 \in 0 .. 3 /\ 0 + w <= 4
    BY DEF Width
  <2>2. WithField(d.reg[r], 0, w, v) \in Dwords /\ (w = 4 => WithField(d.reg[r], 0, w, v) = Trunc(v, 4))
    <3>1. d.reg[r] \in Dwords
      BY <1>1
    <3> QED
      BY <2>1, <3>1, FieldFact
  <2>3. regs \in [0 .. 7 -> Dwords]
    BY <1>1, <2>2
  <2>4. WriteReg(d, r, w, v) = [d EXCEPT !.reg = regs] /\ WriteReg(e, r, w, v) = [e EXCEPT !.reg = regs]
    <3>1. WriteReg(d, r, w, v) = [d EXCEPT !.reg[r] = WithField(@, 0, w, v)]
      BY <1>3 DEF WriteReg
    <3>2. WriteReg(e, r, w, v) = [e EXCEPT !.reg[r] = WithField(@, 0, w, v)]
      BY <1>3 DEF WriteReg
    <3> QED
      BY <1>1, <3>1, <3>2
  <2>5. w = 4 => [d EXCEPT !.reg = regs] = [d EXCEPT !.reg[r] = Trunc(v, 4)]
    BY <1>1, <2>2
  <2>6. \A q \in 0 .. 7 : q # r => regs[q] = d.reg[q]
    BY <1>1
  <2> HIDE DEF regs
  <2>7. /\ Moved(d, e, WriteReg(d, r, w, v), WriteReg(e, r, w, v)) /\ WriteReg(d, r, w, v).mem = d.mem
        /\ WriteReg(d, r, w, v).reg = regs
    BY <1>1, <2>3, <2>4, SetRegs
  <2> QED
    BY <1>3, <2>4, <2>5, <2>6, <2>7
<1> QED
  BY <1>2, <1>3

(* A register of 32 bits.                                                    *)
LEMMA SetRegMoved ==
  ASSUME NEW d, NEW e, Even(d, e), NEW r \in 0 .. 7, NEW v \in Dwords
  PROVE  /\ Moved(d, e, [d EXCEPT !.reg[r] = v], [e EXCEPT !.reg[r] = v])
         /\ [d EXCEPT !.reg[r] = v].mem = d.mem /\ [d EXCEPT !.reg[r] = v].reg = [d.reg EXCEPT ![r] = v]
<1> DEFINE regs == [d.reg EXCEPT ![r] = v]
<1>1. d \in Cpus /\ e \in Cpus /\ d.reg = e.reg /\ d.reg \in [0 .. 7 -> Dwords]
  BY CpusFact DEF Even
<1>2. regs \in [0 .. 7 -> Dwords]
  BY <1>1
<1>3. [d EXCEPT !.reg[r] = v] = [d EXCEPT !.reg = regs] /\ [e EXCEPT !.reg[r] = v] = [e EXCEPT !.reg = regs]
  BY <1>1
<1> HIDE DEF regs
<1>4. /\ Moved(d, e, [d EXCEPT !.reg = regs], [e EXCEPT !.reg = regs])
      /\ [d EXCEPT !.reg = regs].reg = regs /\ [d EXCEPT !.reg = regs].mem = d.mem
  BY <1>1, <1>2, SetRegs
<1> QED
  BY <1>3, <1>4 DEF regs

(* The stores: the window and nothing else.                                  *)
LEMMA StoreMoved ==
  ASSUME NEW d, NEW e, Even(d, e), NEW a \in Int, NEW w \in Width, NEW v \in Int
  PROVE  Moved(d, e, Store(d, a, w, v), Store(e, a, w, v)) /\ Store(d, a, w, v).reg = d.reg
<1> DEFINE mem == [x \in Window |-> IF x \in a .. a + w - 1 THEN ByteOf(v, x - a) ELSE d.mem[x]]
<1>1. d \in Cpus /\ e \in Cpus /\ d.mem = e.mem /\ d.mem \in [Window -> Bytes]
  BY CpusFact DEF Even
<1>2. mem \in [Window -> Bytes]
  <2>1. ASSUME NEW x \in Window, x \in a .. a + w - 1 PROVE ByteOf(v, x - a) \in Bytes
    <3>1. x - a \in 0 .. 3
      BY <2>1, WindowAssumption DEF Window, Width
    <3> QED
      BY <3>1, ByteFact
  <2> QED
    BY <1>1, <2>1
<1>3. Store(d, a, w, v) = [d EXCEPT !.mem = mem] /\ Store(e, a, w, v) = [e EXCEPT !.mem = mem]
  BY <1>1 DEF Store
<1> HIDE DEF mem
<1> QED
  BY <1>1, <1>2, <1>3, SetMem

(* The explicit record.                                                      *)
LEMMA ExplicitlyFact ==
  ASSUME NEW d, NEW e, Even(d, e), NEW f \in SUBSET ArithFlags
  PROVE  /\ Twin(Explicitly(d, f), Explicitly(e, f))
         /\ Explicitly(d, f).flags = SetExplicit(f) /\ Explicitly(e, f).flags = SetExplicit(f)
         /\ Explicitly(d, f).st = d.st /\ Explicitly(e, f).st = e.st
         /\ Explicitly(e, f).eip = e.eip /\ Explicitly(e, f).next = e.next
         /\ Explicitly(d, f).reg = d.reg /\ Explicitly(d, f).mem = d.mem
<1>1. SetExplicit(f) \in Records /\ d \in Cpus /\ e \in Cpus
  BY ExplicitFact DEF Even
<1>2. Explicitly(d, f) = WithFlags(d, SetExplicit(f)) /\ Explicitly(e, f) = WithFlags(e, SetExplicit(f))
  BY DEF Explicitly, WithFlags
<1> QED
  BY <1>1, <1>2, SetFlags, SameSelf DEF Twin

\* The widths of memory operands, CMPXCHG8B's with them.
Widths == Width \cup {8}

(* The bounds check the emitted code makes is x86p_mem_accessible's.         *)
LEMMA BoundsFact ==
  ASSUME NEW a \in Dwords, NEW w \in Widths
  PROVE  InBounds(a, w) <=> Accessible(a, w)
<1>1. PICK p \in Nat \ {0} : p = Power(Bits(4))
  BY DwordsFact
<1>2. Lo \in Nat /\ Size \in Nat /\ Lo + Size < p /\ a \in 0 .. p - 1 /\ w \in Nat /\ w > 0
  BY <1>1, WindowAssumption DEF Dwords, Widths, Width
<1>3. Trunc(a - Lo, 4) = IF a < Lo THEN a - Lo + p ELSE a - Lo
  BY <1>1, <1>2, DifferenceFact DEF Trunc
<1> QED
  BY <1>2, <1>3 DEF InBounds, Accessible

(* The address of a memory operand.                                          *)
LEMMA AddressFact ==
  ASSUME NEW d \in Cpus, NEW o \in MemoryOf(Widths)
  PROVE  /\ Address(d, o) \in Dwords /\ Address(d, o) \in Int
         /\ ~o.addr16 => WasmAddress(d, o) = Address(d, o)
         /\ ~o.addr16 /\ ~o.fs => WasmParts(d, o) = Address(d, o)
<1> DEFINE base == IF o.base < 0 THEN 0 ELSE d.reg[o.base]
           index == IF o.index < 0 THEN 0 ELSE d.reg[o.index] * o.scale
           fs == IF o.fs THEN d.fs_base ELSE 0
           offset == Trunc(base + index + o.disp, IF o.addr16 THEN 2 ELSE 4)
<1>1. /\ o.base \in -1 .. 7 /\ o.index \in -1 .. 7 /\ o.scale \in {1, 2, 4, 8} /\ o.disp \in Int
      /\ o.addr16 \in BOOLEAN /\ o.fs \in BOOLEAN
  BY DEF MemoryOf
<1>2. d.fs_base \in Int /\ \A r \in 0 .. 7 : d.reg[r] \in Int
  BY CpusFact, DwordsFact
<1>3. base \in Int /\ fs \in Int
  BY <1>1, <1>2
<1>4. index \in Int
  <2>1. CASE o.index < 0
    BY <2>1
  <2>2. CASE o.index >= 0
    <3>1. o.index \in 0 .. 7
      BY <1>1, <2>2
    <3>2. PICK v \in Int : v = d.reg[o.index]
      BY <1>2, <3>1
    <3>3. v * o.scale \in Int
      BY <1>1
    <3> QED
      BY <2>2, <3>1, <3>2, <3>3
  <2> QED
    BY <1>1, <2>1, <2>2
<1>5. Address(d, o) = Trunc(offset + fs, 4)
  BY DEF Address
<1>6. WasmParts(d, o) = Trunc(o.disp + base + index, 4) /\ WasmAddress(d, o) = Trunc(WasmParts(d, o) + fs, 4)
  BY DEF WasmParts, WasmAddress
<1> HIDE DEF base, index, fs
<1>7. 4 \in Width /\ 2 \in Width
  BY DEF Width
<1>8. base + index + o.disp \in Int /\ o.disp + base + index = base + index + o.disp
  BY <1>1, <1>3, <1>4
<1>9. offset \in Int /\ offset \in Dwords
  BY <1>1, <1>7, <1>8, TruncFact, DwordsFact
<1>10. ~o.addr16 => WasmParts(d, o) = offset
  BY <1>6, <1>8, Zenon
<1>11. Address(d, o) \in Dwords /\ Address(d, o) \in Int
  <2> HIDE DEF offset
  <2>1. offset + fs \in Int
    BY <1>3, <1>9
  <2> QED
    BY <1>5, <1>7, <2>1, TruncFact, DwordsFact
<1>12. ~o.addr16 => WasmAddress(d, o) = Address(d, o)
  BY <1>5, <1>6, <1>10, Zenon
<1>13. ~o.addr16 /\ ~o.fs => WasmParts(d, o) = Address(d, o)
  <2>1. ~o.fs => offset + fs = offset
    <3> HIDE DEF offset
    <3> QED
      BY <1>9 DEF fs
  <2>2. Trunc(offset, 4) = offset
    <3> HIDE DEF offset
    <3> QED
      BY <1>9, DwordsFact
  <2> QED
    BY <1>5, <1>10, <2>1, <2>2
<1> QED
  BY <1>11, <1>12, <1>13

(* It reads the registers and the FS base.                                   *)
LEMMA SameAddress ==
  ASSUME NEW d, NEW e, d.reg = e.reg, d.fs_base = e.fs_base, NEW o
  PROVE  /\ Address(d, o) = Address(e, o) /\ WasmAddress(d, o) = WasmAddress(e, o)
         /\ WasmOk(d, o) = WasmOk(e, o) /\ Readable(d, o) = Readable(e, o)
<1>1. Address(d, o) = Address(e, o)
  BY DEF Address
<1>2. WasmParts(d, o) = WasmParts(e, o)
  BY DEF WasmParts
<1>3. WasmAddress(d, o) = WasmAddress(e, o)
  BY <1>2 DEF WasmAddress
<1> QED
  BY <1>1, <1>3 DEF WasmOk, Readable

\* The operands the WebAssembly backend takes.
Plain(o) == IsMem(o) => ~o.addr16

(* What an operand has.                                                      *)
LEMMA PlacesFact ==
  ASSUME NEW o \in Places \cup Immediates
  PROVE  /\ o.w \in Width /\ o.w \in Widths
         /\ o.k = "Mem" => o \in MemoryOf(Widths)
         /\ o.k = "Reg" => o.r \in 0 .. 7
         /\ o.k = "Imm" => o.v \in Dwords /\ o \in Immediates
         /\ o.k \in {"Reg", "Mem", "Imm"} /\ (o \in Places => o.k # "Imm") /\ (o.k # "Imm" => o \in Places)
  BY DEF Places, Registers, Memories, MemoryOf, Immediates, Widths

(* The guard of an operand.                                                  *)
LEMMA GuardFact ==
  ASSUME NEW d \in Cpus, NEW e \in Cpus, Even(d, e), NEW o \in Places \cup Immediates, Plain(o)
  PROVE  /\ WasmOk(d, o) <=> Readable(e, o)
         /\ Readable(d, o) <=> Readable(e, o)
<1>1. d.reg = e.reg /\ d.fs_base = e.fs_base
  BY DEF Even
<1>2. CASE o.k = "Mem"
  <2>1. o \in MemoryOf(Widths) /\ o.w \in Widths /\ ~o.addr16
    BY <1>2, PlacesFact DEF Plain, IsMem
  <2>2. Address(e, o) \in Dwords /\ WasmAddress(d, o) = Address(e, o) /\ Address(d, o) = Address(e, o)
    BY <1>1, <2>1, AddressFact, SameAddress
  <2> QED
    BY <1>2, <2>1, <2>2, BoundsFact DEF WasmOk, Readable, IsMem
<1>3. CASE o.k # "Mem"
  BY <1>3 DEF WasmOk, Readable, IsMem
<1> QED
  BY <1>2, <1>3

(* The value of an operand.                                                  *)
LEMMA ValueFact ==
  ASSUME NEW d \in Cpus, NEW e \in Cpus, Even(d, e), NEW o \in Places \cup Immediates, Readable(e, o)
  PROVE  /\ Value(e, o) \in Dwords /\ Value(e, o) \in Int /\ Value(d, o) = Value(e, o)
         /\ o \in Places => Value(e, o) \in 0 .. Power(Bits(o.w)) - 1 /\ Trunc(Value(e, o), o.w) = Value(e, o)
<1>1. d.reg = e.reg /\ d.fs_base = e.fs_base /\ d.mem = e.mem
  BY DEF Even
<1>2. e.reg \in [0 .. 7 -> Dwords] /\ e.mem \in [Window -> Bytes]
  BY CpusFact
<1>3. o.w \in Width
  BY PlacesFact
<1>4. CASE o.k = "Reg"
  <2>1. o.r \in 0 .. 7
    BY <1>4, PlacesFact
  <2>2. Value(e, o) = ReadReg(e, o.r, o.w) /\ Value(d, o) = ReadReg(d, o.r, o.w)
    BY <1>4 DEF Value
  <2> QED
    BY <1>1, <1>2, <1>3, <2>1, <2>2, ReadRegFact
<1>5. CASE o.k = "Mem"
  <2>1. o \in MemoryOf(Widths)
    BY <1>5, PlacesFact
  <2>2. Address(e, o) \in Int /\ Address(d, o) = Address(e, o)
    BY <1>1, <2>1, AddressFact, SameAddress
  <2>3. Accessible(Address(e, o), o.w)
    BY <1>5 DEF Readable
  <2>4. Value(e, o) = Load(e, Address(e, o), o.w) /\ Value(d, o) = Load(d, Address(e, o), o.w)
    BY <1>5, <2>2 DEF Value
  <2>5. Load(d, Address(e, o), o.w) = Load(e, Address(e, o), o.w)
    BY <1>1, LoadIs
  <2> QED
    BY <1>2, <1>3, <2>2, <2>3, <2>4, <2>5, LoadFact
<1>6. CASE o.k = "Imm"
  <2>1. o.v \in Dwords /\ o \notin Places
    BY <1>6, PlacesFact
  <2>2. Value(e, o) = o.v /\ Value(d, o) = o.v
    BY <1>6 DEF Value
  <2> QED
    BY <2>1, <2>2, DwordsFact
<1> QED
  BY <1>4, <1>5, <1>6, PlacesFact

(* The value the WebAssembly backend pushes.                                 *)
LEMMA WasmValueFact ==
  ASSUME NEW d \in Cpus, NEW e \in Cpus, Even(d, e), NEW o \in Places \cup Immediates, Plain(o), Readable(e, o)
  PROVE  /\ o \in Places => WasmValue(d, o) = Value(e, o)
         /\ o.k = "Imm" => WasmValue(d, o) = Trunc(Value(e, o), o.w) /\ Value(e, o) = o.v
         /\ WasmValue(d, o) \in Dwords /\ WasmValue(d, o) \in Int
         /\ \A w \in Width : Means(o, w) => Trunc(WasmValue(d, o), w) = Trunc(Value(e, o), w)
<1>1. d.reg = e.reg /\ d.fs_base = e.fs_base /\ d.mem = e.mem
  BY DEF Even
<1>2. /\ Value(e, o) \in Dwords /\ Value(e, o) \in Int /\ Value(d, o) = Value(e, o)
      /\ o \in Places => Value(e, o) \in 0 .. Power(Bits(o.w)) - 1 /\ Trunc(Value(e, o), o.w) = Value(e, o)
  BY ValueFact
<1>3. o.w \in Width /\ o.k \in {"Reg", "Mem", "Imm"}
  BY PlacesFact
<1>4. CASE o.k = "Reg"
  <2>1. WasmValue(d, o) = Value(d, o)
    BY <1>4 DEF Value, WasmValue
  <2> QED
    BY <1>2, <1>4, <2>1
<1>5. CASE o.k = "Mem"
  <2>1. o \in MemoryOf(Widths) /\ ~o.addr16
    BY <1>5, PlacesFact DEF Plain, IsMem
  <2>2. WasmAddress(d, o) = Address(d, o)
    BY <2>1, AddressFact
  <2>3. WasmValue(d, o) = Value(d, o)
    BY <1>5, <2>2 DEF Value, WasmValue
  <2> QED
    BY <1>2, <1>5, <2>3
<1>6. CASE o.k = "Imm"
  <2>1. o.v \in Dwords /\ o \notin Places /\ o.v \in Int /\ o.v \in Nat
    BY <1>6, PlacesFact, DwordsFact
  <2>2. Value(e, o) = o.v /\ WasmValue(d, o) = Trunc(o.v, o.w)
    BY <1>6 DEF Value, WasmValue
  <2>3. Trunc(o.v, o.w) \in Dwords /\ Trunc(o.v, o.w) \in Int
    BY <1>3, <2>1, TruncFact
  <2>4. ASSUME NEW w \in Width, Means(o, w) PROVE Trunc(Trunc(o.v, o.w), w) = Trunc(o.v, w)
    <3>1. CASE w <= o.w
      BY <1>3, <2>1, <3>1, TruncTrunc
    <3>2. CASE o.v < Power(Bits(o.w))
      <4>1. o.v \in 0 .. Power(Bits(o.w)) - 1
        BY <1>3, <2>1, <3>2, WidthFact
      <4>2. Trunc(o.v, o.w) = o.v
        BY <1>3, <2>1, <4>1, TruncFact
      <4> QED
        BY <4>2
    <3> QED
      BY <1>6, <2>4, <3>1, <3>2 DEF Means
  <2> QED
    BY <1>6, <2>1, <2>2, <2>3, <2>4
<1> QED
  BY <1>3, <1>4, <1>5, <1>6

(* A write to a place.                                                       *)
LEMMA WriteMoved ==
  ASSUME NEW d, NEW e, Even(d, e), NEW o \in Places, Readable(e, o), NEW v \in Int
  PROVE  Moved(d, e, Write(d, o, v), Write(e, o, v))
<1>1. d \in Cpus /\ e \in Cpus /\ d.reg = e.reg /\ d.fs_base = e.fs_base
  BY DEF Even
<1>2. o.w \in Width /\ o.k \in {"Reg", "Mem"}
  BY PlacesFact
<1>3. CASE o.k = "Reg"
  <2>1. o.r \in 0 .. 7 /\ Write(d, o, v) = WriteReg(d, o.r, o.w, v) /\ Write(e, o, v) = WriteReg(e, o.r, o.w, v)
    BY <1>3, PlacesFact DEF Write
  <2> QED
    BY <1>2, <2>1, WriteRegMoved
<1>4. CASE o.k = "Mem"
  <2>1. o \in MemoryOf(Widths)
    BY <1>4, PlacesFact
  <2>2. Address(e, o) \in Int /\ Address(d, o) = Address(e, o) /\ Readable(d, o)
    BY <1>1, <2>1, AddressFact, SameAddress
  <2>3. Write(d, o, v) = Store(d, Address(e, o), o.w, v) /\ Write(e, o, v) = Store(e, Address(e, o), o.w, v)
    BY <1>4, <2>2 DEF Write
  <2> QED
    BY <1>2, <2>2, <2>3, StoreMoved
<1> QED
  BY <1>2, <1>3, <1>4

(* A guarded write of the backend is the interpreter's.                      *)
LEMMA WasmWriteIs ==
  ASSUME NEW m, m.c \in Cpus, NEW o \in Places, Plain(o), Readable(m.c, o), NEW v \in Int
  PROVE  WasmWrite(m, o, v) = [m EXCEPT !.c = Write(m.c, o, v)]
<1>1. CASE o.k = "Reg"
  BY <1>1 DEF WasmWrite, Write
<1>2. CASE o.k = "Mem"
  <2>1. o \in MemoryOf(Widths) /\ ~o.addr16
    BY <1>2, PlacesFact DEF Plain, IsMem
  <2>2. WasmAddress(m.c, o) = Address(m.c, o)
    BY <2>1, AddressFact
  <2>3. WasmWrite(m, o, v) = [m EXCEPT !.c = Store(m.c, Address(m.c, o), o.w, v)]
    BY <1>2, <2>2 DEF WasmWrite
  <2>4. Write(m.c, o, v) = Store(m.c, Address(m.c, o), o.w, v)
    BY <1>2 DEF Write
  <2> QED
    BY <2>3, <2>4
<1> QED
  BY <1>1, <1>2, PlacesFact

(* A write the guard refuses.                                                *)
LEMMA WriteFaults ==
  ASSUME NEW e, NEW o \in Places, ~Readable(e, o), NEW v
  PROVE  Write(e, o, v) = Fault(e)
  BY DEF Write, Readable

\* Which host registers may hold the words of the record.
Holds == [a : -1 .. 7, b : -1 .. 7, r : -1 .. 7]
\* A block of the WebAssembly or of the ARM64 backend; the fields of the x64 one are as it was entered.
Exits == Statuses \cup {"none", "BlockEnd", "UnsupportedAtEntry"}
Blocks ==
  [c : Cpus, n : Nat, in : BOOLEAN, exit : Exits, last : Kinds \cup {Unknown}, lw : Nat, slots : {<<>>}, live : {{}},
   host : [0 .. 7 -> Int], word : {<<Unknown, 0>>}, held : Holds, made : Holds]
\* In the middle of instruction i, the block on m and the interpreter on g.
Along(m, g, i) ==
  /\ m \in Blocks /\ m.n = i - 1 /\ m.in /\ i \in 1 .. Power(Bits(4)) - 1
  /\ Twin(m.c, g) /\ m.c.st = "Ok" /\ g.st = "Ok" /\ g.eip = i - 1 /\ g.next = i
\* What the block knows of the record is so.
Sure(m) == Known(m.last, m.lw, m.c.flags)
\* At the end of instruction i.
Done(m, g, i) ==
  /\ m \in Blocks /\ m.n = i - 1 /\ Twin(m.c, g) /\ g.eip = i - 1
  /\ m.in => g.st = "Ok" /\ m.c.st = "Ok" /\ g.next = i /\ Sure(m)
  /\ ~m.in => \/ g.st = "Ok" /\ m.exit = "BlockEnd" /\ m.c.eip = g.next
              \/ g.st # "Ok" /\ m.exit = g.st /\ m.c.eip = i - 1

(* What holds in the middle of an instruction.                               *)
LEMMA AlongFact ==
  ASSUME NEW m, NEW g, NEW i, Along(m, g, i)
  PROVE  /\ m.c \in Cpus /\ g \in Cpus /\ Even(m.c, g) /\ SameRecord(m.c.flags, g.flags)
         /\ m.c.flags \in Records /\ g.flags \in Records /\ m.c.reg = g.reg /\ m.c.mem = g.mem /\ m.c.fs_base = g.fs_base
         /\ m.c.df = g.df /\ m.c.cs = g.cs
         /\ i \in Dwords /\ i - 1 \in Dwords /\ Trunc(i, 4) = i /\ Trunc(i - 1, 4) = i - 1 /\ i \in Int
         /\ m.n = i - 1 /\ m.in /\ m \in Blocks /\ m.c.st = "Ok" /\ g.st = "Ok" /\ g.eip = i - 1 /\ g.next = i
<1>1. m.c \in Cpus /\ g \in Cpus /\ Even(m.c, g) /\ SameRecord(m.c.flags, g.flags) /\ m.in \in BOOLEAN
  BY DEF Along, Twin, Even, Blocks
<1>2. i \in Dwords /\ i - 1 \in Dwords /\ i \in Int
  BY DwordsFact DEF Along, Dwords
<1>3. m.c.flags \in Records /\ g.flags \in Records
  BY <1>1, CpusFact
<1> QED
  BY <1>1, <1>2, <1>3, DwordsFact DEF Along, Even

(* The block with another state.                                             *)
LEMMA PutFact ==
  ASSUME NEW m \in Blocks, NEW d \in Cpus
  PROVE  /\ [m EXCEPT !.c = d] \in Blocks /\ [m EXCEPT !.c = d].c = d /\ [m EXCEPT !.c = d].in = m.in
         /\ [m EXCEPT !.c = d].n = m.n /\ [m EXCEPT !.c = d].last = m.last /\ [m EXCEPT !.c = d].lw = m.lw
         /\ [m EXCEPT !.c = d].exit = m.exit
  BY DEF Blocks

(* The last state put into a block stays.                                    *)
LEMMA PutTwice ==
  ASSUME NEW m \in Blocks, NEW d, NEW e
  PROVE  [[m EXCEPT !.c = d] EXCEPT !.c = e] = [m EXCEPT !.c = e] /\ [m EXCEPT !.c = m.c] = m
  BY DEF Blocks

(* A step both made.                                                         *)
LEMMA PutAlong ==
  ASSUME NEW m, NEW g, NEW i, Along(m, g, i), NEW f, NEW h, Moved(m.c, g, f, h)
  PROVE  /\ Along([m EXCEPT !.c = f], h, i) /\ [m EXCEPT !.c = f].c = f
         /\ [m EXCEPT !.c = f].last = m.last /\ [m EXCEPT !.c = f].lw = m.lw
         /\ f.flags = m.c.flags /\ h.flags = g.flags
         /\ Sure(m) => Sure([m EXCEPT !.c = f])
<1>1. f \in Cpus /\ h \in Cpus /\ Even(f, h) /\ Stays(m.c, f) /\ Stays(g, h)
  BY DEF Moved, Even
<1>2. /\ [m EXCEPT !.c = f] \in Blocks /\ [m EXCEPT !.c = f].c = f /\ [m EXCEPT !.c = f].in = m.in
      /\ [m EXCEPT !.c = f].n = m.n /\ [m EXCEPT !.c = f].last = m.last /\ [m EXCEPT !.c = f].lw = m.lw
  BY <1>1, PutFact DEF Along
<1>3. f.flags = m.c.flags /\ h.flags = g.flags
  BY <1>1 DEF Stays
<1>4. Twin(f, h)
  BY <1>1, <1>3, AlongFact DEF Twin
<1> QED
  BY <1>1, <1>2, <1>3, <1>4 DEF Along, Stays, Sure

(* A write to a place.                                                       *)
LEMMA WriteAlong ==
  ASSUME NEW m, NEW g, NEW i, Along(m, g, i), NEW o \in Places, Plain(o), WasmOk(m.c, o), NEW v \in Int
  PROVE  /\ Along(WasmWrite(m, o, v), Write(g, o, v), i)
         /\ WasmWrite(m, o, v).last = m.last /\ WasmWrite(m, o, v).lw = m.lw
         /\ WasmWrite(m, o, v).c.flags = m.c.flags /\ Write(g, o, v).flags = g.flags
         /\ Sure(m) => Sure(WasmWrite(m, o, v))
<1>1. m.c \in Cpus /\ g \in Cpus /\ Even(m.c, g)
  BY AlongFact
<1>2. Readable(g, o) /\ Readable(m.c, o)
  BY <1>1, GuardFact
<1>3. Moved(m.c, g, Write(m.c, o, v), Write(g, o, v))
  BY <1>1, <1>2, WriteMoved
<1>4. WasmWrite(m, o, v) = [m EXCEPT !.c = Write(m.c, o, v)]
  BY <1>1, <1>2, WasmWriteIs
<1> QED
  BY <1>3, <1>4, PutAlong

(* A new record.                                                             *)
LEMMA RecordAlong ==
  ASSUME NEW m, NEW g, NEW i, Along(m, g, i), NEW f \in Records, NEW h \in Records, SameRecord(f, h)
  PROVE  /\ Along([m EXCEPT !.c.flags = f], WithFlags(g, h), i)
         /\ [m EXCEPT !.c.flags = f].c.flags = f /\ [m EXCEPT !.c.flags = f].last = m.last /\ [m EXCEPT !.c.flags = f].lw = m.lw
         /\ [m EXCEPT !.c.flags = f].c.reg = m.c.reg /\ [m EXCEPT !.c.flags = f].c.mem = m.c.mem
         /\ [m EXCEPT !.c.flags = f].c.fs_base = m.c.fs_base /\ WithFlags(g, h).flags = h
         /\ WithFlags(g, h).reg = g.reg /\ WithFlags(g, h).fs_base = g.fs_base
<1>1. m.c \in Cpus /\ g \in Cpus /\ Even(m.c, g) /\ m \in Blocks
  BY AlongFact
<1>2. [m EXCEPT !.c.flags = f] = [m EXCEPT !.c = WithFlags(m.c, f)]
  BY DEF WithFlags
<1>3. /\ Even(WithFlags(m.c, f), WithFlags(g, h))
      /\ WithFlags(m.c, f).flags = f /\ WithFlags(g, h).flags = h
      /\ WithFlags(m.c, f).st = m.c.st /\ WithFlags(g, h).st = g.st
      /\ WithFlags(g, h).eip = g.eip /\ WithFlags(g, h).next = g.next
      /\ WithFlags(m.c, f).reg = m.c.reg /\ WithFlags(m.c, f).mem = m.c.mem
  BY <1>1, SetFlags
<1>4. WithFlags(m.c, f).fs_base = m.c.fs_base /\ WithFlags(g, h).fs_base = g.fs_base /\ WithFlags(g, h).reg = g.reg
  BY <1>1 DEF WithFlags, Cpus
<1> DEFINE d == WithFlags(m.c, f)
           e == WithFlags(g, h)
<1>5. d \in Cpus
  BY <1>3 DEF Even
<1>6. /\ [m EXCEPT !.c = d] \in Blocks /\ [m EXCEPT !.c = d].c = d /\ [m EXCEPT !.c = d].in = m.in
      /\ [m EXCEPT !.c = d].n = m.n /\ [m EXCEPT !.c = d].last = m.last /\ [m EXCEPT !.c = d].lw = m.lw
  BY <1>1, <1>5, PutFact
<1>7. [m EXCEPT !.c.flags = f] = [m EXCEPT !.c = d]
  BY <1>2
<1>8. Twin(d, e) /\ d.flags = f /\ e.flags = h /\ d.st = m.c.st /\ e.st = g.st /\ e.eip = g.eip /\ e.next = g.next
  BY <1>3 DEF Twin
<1>9. d.reg = m.c.reg /\ d.mem = m.c.mem /\ d.fs_base = m.c.fs_base /\ e.fs_base = g.fs_base /\ e.reg = g.reg
  BY <1>3, <1>4
<1> HIDE DEF d
<1>10. Along([m EXCEPT !.c = d], e, i)
  BY <1>6, <1>8 DEF Along
<1> QED
  BY <1>6, <1>7, <1>8, <1>9, <1>10

(* What the block knows from now on.                                         *)
LEMMA LearnAlong ==
  ASSUME NEW m, NEW g, NEW i, Along(m, g, i), NEW kind \in Kinds \cup {Unknown}, NEW w \in Nat
  PROVE  /\ Along(Learned(m, kind, w), g, i) /\ Learned(m, kind, w).c = m.c
         /\ Learned(m, kind, w).last = kind /\ Learned(m, kind, w).lw = w
         /\ Learned(m, kind, w) \in Blocks
<1>1. /\ Learned(m, kind, w) \in Blocks /\ Learned(m, kind, w).c = m.c /\ Learned(m, kind, w).in = m.in
      /\ Learned(m, kind, w).n = m.n /\ Learned(m, kind, w).last = kind /\ Learned(m, kind, w).lw = w
  BY DEF Learned, Blocks, Along
<1> QED
  BY <1>1 DEF Along

(* An instruction that has done its work.                                    *)
LEMMA AlongDone ==
  ASSUME NEW m, NEW g, NEW i, Along(m, g, i), Sure(m)
  PROVE  Done(m, g, i)
<1>1. m.in
  BY AlongFact
<1> QED
  BY <1>1 DEF Along, Done

(* A kind the record has.                                                    *)
LEMMA WrittenDone ==
  ASSUME NEW m, NEW g, NEW i, Along(m, g, i), NEW kind \in Kinds \cup {Unknown}, NEW w \in Nat, Known(kind, w, m.c.flags)
  PROVE  Done(WasmWritten(m, kind, w), g, i) /\ Along(WasmWritten(m, kind, w), g, i) /\ Sure(WasmWritten(m, kind, w))
<1>1. CASE kind \in WasmInline
  <2>1. WasmWritten(m, kind, w) = Learned(m, kind, w)
    BY <1>1 DEF WasmWritten
  <2> QED
    BY <2>1, LearnAlong, AlongDone DEF Sure
<1>2. CASE kind \notin WasmInline
  <2>1. WasmWritten(m, kind, w) = Learned(m, kind, 0)
    BY <1>2 DEF WasmWritten
  <2>2. Known(kind, 0, m.c.flags)
    BY <1>2 DEF Known
  <2> QED
    BY <2>1, <2>2, LearnAlong, AlongDone DEF Sure
<1> QED
  BY <1>1, <1>2

(* The backend forgets what it knew of the record.                           *)
LEMMA UnknownDone ==
  ASSUME NEW m, NEW g, NEW i, Along(m, g, i)
  PROVE  Done(WasmWritten(m, Unknown, 0), g, i) /\ Done(Forgot(m), g, i)
<1>1. Unknown \in Kinds \cup {Unknown} /\ Known(Unknown, 0, m.c.flags) /\ Unknown \notin WasmInline
  BY DEF Unknown, Known, WasmInline
<1>2. WasmWritten(m, Unknown, 0) = Forgot(m)
  BY <1>1 DEF WasmWritten, Forgot
<1>3. Done(WasmWritten(m, Unknown, 0), g, i)
  BY <1>1, WrittenDone
<1> QED
  BY <1>2, <1>3

(* The record is an explicit one.                                            *)
LEMMA ExplicitDone ==
  ASSUME NEW m, NEW g, NEW i, Along(m, g, i), m.c.flags.kind = "Explicit"
  PROVE  Done(WasmWritten(m, "Explicit", 0), g, i)
<1>1. Known("Explicit", 0, m.c.flags) /\ "Explicit" \in Kinds \cup {Unknown}
  BY DEF Known, WasmInline, Kinds
<1> QED
  BY <1>1, WrittenDone

(* The block is left.                                                        *)
LEMMA ExitFact ==
  ASSUME NEW m \in Blocks, NEW a \in Dwords, NEW kind \in Exits
  PROVE  /\ Exit(m, a, kind) \in Blocks /\ ~Exit(m, a, kind).in /\ Exit(m, a, kind).exit = kind
         /\ Exit(m, a, kind).n = m.n /\ Exit(m, a, kind).c = [m.c EXCEPT !.eip = a]
<1>1. Trunc(a, 4) = a /\ m.c \in Cpus
  BY DwordsFact DEF Blocks
<1>2. [m.c EXCEPT !.eip = a] \in Cpus
  BY <1>1 DEF Cpus
<1>3. Exit(m, a, kind) = [m EXCEPT !.in = FALSE, !.exit = kind, !.c.eip = a]
  BY <1>1 DEF Exit
<1>4. Exit(m, a, kind) = [m EXCEPT !.in = FALSE, !.exit = kind, !.c = [m.c EXCEPT !.eip = a]]
  BY <1>3
<1> QED
  BY <1>2, <1>4 DEF Blocks

(* An exit's EIP is the block's alone.                                       *)
LEMMA EipTwin ==
  ASSUME NEW d, NEW e, Twin(d, e), NEW a \in Dwords
  PROVE  Twin([d EXCEPT !.eip = a], e) /\ [d EXCEPT !.eip = a].eip = a /\ [d EXCEPT !.eip = a] \in Cpus
<1>1. d \in Cpus
  BY DEF Twin, Even
<1>2. [d EXCEPT !.eip = a] \in Cpus
  BY <1>1 DEF Cpus
<1> QED
  BY <1>1, <1>2 DEF Twin, Even, Cpus

(* A status and a target are the interpreter's alone.                        *)
LEMMA StopTwin ==
  ASSUME NEW d, NEW e, Twin(d, e), NEW s \in Statuses, NEW a \in Dwords
  PROVE  /\ Twin(d, Stopped(e, s)) /\ Stopped(e, s).st = s /\ Stopped(e, s).eip = e.eip /\ Stopped(e, s).next = e.next
         /\ Twin(d, Goto(e, a)) /\ Goto(e, a).st = e.st /\ Goto(e, a).eip = e.eip /\ Goto(e, a).next = a
<1>1. e \in Cpus /\ d \in Cpus
  BY DEF Twin, Even
<1>2. Stopped(e, s) \in Cpus /\ Goto(e, a) \in Cpus
  BY <1>1 DEF Cpus, Stopped, Goto
<1>3. /\ Stopped(e, s).st = s /\ Stopped(e, s).eip = e.eip /\ Stopped(e, s).next = e.next /\ Stopped(e, s).flags = e.flags
      /\ Stopped(e, s).reg = e.reg /\ Stopped(e, s).mem = e.mem /\ Stopped(e, s).df = e.df /\ Stopped(e, s).cs = e.cs
      /\ Stopped(e, s).fs_base = e.fs_base
  BY <1>1 DEF Cpus, Stopped
<1>4. /\ Goto(e, a).st = e.st /\ Goto(e, a).eip = e.eip /\ Goto(e, a).next = a /\ Goto(e, a).flags = e.flags
      /\ Goto(e, a).reg = e.reg /\ Goto(e, a).mem = e.mem /\ Goto(e, a).df = e.df /\ Goto(e, a).cs = e.cs
      /\ Goto(e, a).fs_base = e.fs_base
  BY <1>1 DEF Cpus, Goto
<1> QED
  BY <1>1, <1>2, <1>3, <1>4 DEF Twin, Even

(* Both stop at the instruction.                                             *)
LEMMA StopDone ==
  ASSUME NEW m, NEW g, NEW i, Along(m, g, i), NEW s \in Statuses, s # "Ok"
  PROVE  Done(Exit(m, i - 1, s), Stopped(g, s), i) /\ ~Exit(m, i - 1, s).in
<1>1. m \in Blocks /\ Twin(m.c, g) /\ i - 1 \in Dwords /\ m.n = i - 1 /\ g.eip = i - 1
  BY AlongFact DEF Along
<1>2. Twin([m.c EXCEPT !.eip = i - 1], g) /\ [m.c EXCEPT !.eip = i - 1].eip = i - 1
  BY <1>1, EipTwin
<1>3. Twin([m.c EXCEPT !.eip = i - 1], Stopped(g, s)) /\ Stopped(g, s).st = s /\ Stopped(g, s).eip = g.eip
  BY <1>1, <1>2, StopTwin
<1>4. s \in Exits
  BY DEF Exits
<1> DEFINE e == Exit(m, i - 1, s)
<1>5. e \in Blocks /\ ~e.in /\ e.exit = s /\ e.n = m.n /\ e.c = [m.c EXCEPT !.eip = i - 1]
  BY <1>1, <1>4, ExitFact
<1> HIDE DEF e
<1>6. Done(e, Stopped(g, s), i)
  BY <1>1, <1>2, <1>3, <1>5 DEF Done
<1> QED
  BY <1>5, <1>6 DEF e

(* Both fault at it.                                                         *)
LEMMA FaultDone ==
  ASSUME NEW m, NEW g, NEW i, Along(m, g, i)
  PROVE  Done(MemoryFaultAt(m, i), Fault(g), i) /\ ~MemoryFaultAt(m, i).in
<1>1. "MemoryFault" \in Statuses /\ "MemoryFault" # "Ok"
  BY DEF Statuses
<1> QED
  BY <1>1, StopDone DEF MemoryFaultAt, Fault

(* Both go where it goes, or past it.                                        *)
LEMMA LeaveDone ==
  ASSUME NEW m, NEW g, NEW i, Along(m, g, i), NEW a \in Dwords
  PROVE  /\ Done(Exit(m, a, "BlockEnd"), Goto(g, a), i) /\ ~Exit(m, a, "BlockEnd").in
         /\ Done(Exit(m, i, "BlockEnd"), g, i)
<1>1. m \in Blocks /\ Twin(m.c, g) /\ i \in Dwords /\ m.n = i - 1 /\ g.eip = i - 1 /\ g.st = "Ok" /\ g.next = i
  BY AlongFact DEF Along
<1>2. /\ Twin([m.c EXCEPT !.eip = a], g) /\ [m.c EXCEPT !.eip = a].eip = a
      /\ Twin([m.c EXCEPT !.eip = i], g) /\ [m.c EXCEPT !.eip = i].eip = i
  BY <1>1, EipTwin
<1>3. "Ok" \in Statuses /\ "BlockEnd" \in Exits
  BY DEF Statuses, Exits
<1>4. Twin([m.c EXCEPT !.eip = a], Goto(g, a)) /\ Goto(g, a).st = g.st /\ Goto(g, a).eip = g.eip /\ Goto(g, a).next = a
  BY <1>2, <1>3, StopTwin
<1> DEFINE e == Exit(m, a, "BlockEnd")
           u == Exit(m, i, "BlockEnd")
<1>5. /\ e \in Blocks /\ ~e.in /\ e.exit = "BlockEnd" /\ e.n = m.n /\ e.c = [m.c EXCEPT !.eip = a]
      /\ u \in Blocks /\ ~u.in /\ u.exit = "BlockEnd" /\ u.n = m.n /\ u.c = [m.c EXCEPT !.eip = i]
  BY <1>1, <1>3, ExitFact
<1> HIDE DEF e, u
<1>6. Done(e, Goto(g, a), i)
  BY <1>1, <1>2, <1>4, <1>5 DEF Done
<1>7. Done(u, g, i)
  BY <1>1, <1>2, <1>5 DEF Done
<1> QED
  BY <1>5, <1>6, <1>7 DEF e, u

(* What is learned after leaving changes nothing.                            *)
LEMMA LeftLearned ==
  ASSUME NEW m, NEW g, NEW i, Done(m, g, i), ~m.in
  PROVE  Done(Forgot(m), g, i) /\ Done(WasmWritten(m, Unknown, 0), g, i) /\ Done(WasmWritten(m, "Explicit", 0), g, i)
<1>1. ASSUME NEW kind \in Kinds \cup {Unknown} PROVE Done(Learned(m, kind, 0), g, i)
  <2>1. m \in Blocks
    BY DEF Done
  <2>2. /\ Learned(m, kind, 0) \in Blocks /\ Learned(m, kind, 0).c = m.c /\ Learned(m, kind, 0).in = m.in
        /\ Learned(m, kind, 0).n = m.n /\ Learned(m, kind, 0).exit = m.exit
    BY <2>1 DEF Learned, Blocks
  <2> QED
    BY <2>2 DEF Done
<1>2. /\ Forgot(m) = Learned(m, Unknown, 0) /\ WasmWritten(m, Unknown, 0) = Learned(m, Unknown, 0)
      /\ WasmWritten(m, "Explicit", 0) = Learned(m, "Explicit", 0)
  BY DEF Forgot, WasmWritten, WasmInline, Unknown
<1>3. Unknown \in Kinds \cup {Unknown} /\ "Explicit" \in Kinds
  BY DEF Kinds
<1> QED
  BY <1>1, <1>2, <1>3

(* A helper's verdict.                                                       *)
LEMMA CalledFact ==
  ASSUME NEW m, NEW g, NEW i, Along(m, g, i), NEW f, NEW h, Twin(f, h), f.st = h.st, h.eip = i - 1, h.next = i
  PROVE  /\ h.st = "Ok" => /\ Along(Called(m, f, i), h, i) /\ Called(m, f, i).c = f
                           /\ Called(m, f, i).last = m.last /\ Called(m, f, i).lw = m.lw
         /\ h.st # "Ok" => Done(Called(m, f, i), h, i) /\ ~Called(m, f, i).in
<1>1. m \in Blocks /\ f \in Cpus /\ h \in Cpus /\ i - 1 \in Dwords /\ m.n = i - 1 /\ m.in /\ f.st \in Statuses
  <2>1. f \in Cpus /\ h \in Cpus
    BY DEF Twin, Even
  <2> QED
    BY <2>1, AlongFact, CpusFact
<1> DEFINE d == [f EXCEPT !.st = "Ok"]
<1>2. d \in Cpus /\ d.st = "Ok" /\ Twin(d, h)
  <2>1. "Ok" \in Statuses
    BY DEF Statuses
  <2>2. d \in Cpus
    BY <1>1, <2>1 DEF Cpus
  <2> QED
    BY <1>1, <2>2 DEF Twin, Even, Cpus
<1>3. f.st = "Ok" => d = f
  BY <1>1 DEF Cpus
<1>4. Called(m, f, i) = IF f.st = "Ok" THEN [m EXCEPT !.c = d] ELSE Exit([m EXCEPT !.c = d], i - 1, f.st)
  BY DEF Called
<1> HIDE DEF d
<1>5. /\ [m EXCEPT !.c = d] \in Blocks /\ [m EXCEPT !.c = d].c = d /\ [m EXCEPT !.c = d].in = m.in
      /\ [m EXCEPT !.c = d].n = m.n /\ [m EXCEPT !.c = d].last = m.last /\ [m EXCEPT !.c = d].lw = m.lw
  BY <1>1, <1>2, PutFact
<1>6. CASE h.st = "Ok"
  <2>1. Called(m, f, i) = [m EXCEPT !.c = d] /\ d = f
    BY <1>3, <1>4, <1>6
  <2> QED
    BY <1>2, <1>5, <1>6, <2>1 DEF Along
<1>7. CASE h.st # "Ok"
  <2> DEFINE e == [m EXCEPT !.c = d]
  <2>1. Called(m, f, i) = Exit(e, i - 1, h.st)
    BY <1>4, <1>7
  <2>2. e \in Blocks /\ e.c = d /\ e.n = i - 1
    BY <1>1, <1>5
  <2> HIDE DEF e
  <2>3. Twin([d EXCEPT !.eip = i - 1], h) /\ [d EXCEPT !.eip = i - 1].eip = i - 1
    BY <1>1, <1>2, EipTwin
  <2>4. /\ Exit(e, i - 1, h.st) \in Blocks /\ ~Exit(e, i - 1, h.st).in /\ Exit(e, i - 1, h.st).exit = h.st
        /\ Exit(e, i - 1, h.st).n = e.n /\ Exit(e, i - 1, h.st).c = [d EXCEPT !.eip = i - 1]
    BY <1>1, <2>2, ExitFact DEF Exits
  <2> QED
    BY <1>7, <2>1, <2>2, <2>3, <2>4 DEF Done
<1> QED
  BY <1>6, <1>7

(* A byte of a value is a byte of what is left of it.                        *)
LEMMA ByteTrunc ==
  ASSUME NEW w \in Width, NEW v \in Int, NEW j \in 0 .. w - 1
  PROVE  ByteOf(Trunc(v, w), j) = ByteOf(v, j)
<1>1. PICK b \in Nat : b = ByteBits /\ b >= 2 /\ Bits(4) = 4 * b /\ Bits(w) = w * b
  BY BitsFact DEF Bits
<1>2. PICK x \in Nat, z \in Nat : x = j * b /\ z = (w - j - 1) * b /\ w * b = x + (b + z) /\ x + (b + z) <= 4 * b
  <2>1. w \in {1, 2, 4} /\ j \in {0, 1, 2, 3} /\ j < w
    BY DEF Width
  <2> QED
    BY <1>1, <2>1
<1>3. x \in 0 .. Bits(4) + 1 /\ b \in 0 .. Bits(4) + 1 /\ z \in 0 .. Bits(4) + 1 /\ b + z \in Nat
  BY <1>1, <1>2
<1>4. PICK p \in Nat \ {0}, q \in Nat \ {0}, u \in Nat \ {0} : p = Power(x) /\ q = Power(b) /\ u = Power(z)
  BY <1>3, PowerFact
<1>5. Power(Bits(w)) = p * (q * u)
  <2>1. Power(x + (b + z)) = Power(x) * Power(b + z)
    BY <1>1, <1>2, <1>3, PowerAdd
  <2>2. Power(b + z) = Power(b) * Power(z)
    <3>1. b + z <= Bits(4) + 1
      BY <1>1, <1>2
    <3> QED
      BY <3>1, PowerAdd
  <2> QED
    BY <1>1, <1>2, <1>4, <2>1, <2>2
<1>6. PICK h \in Int, r \in Int : v = (p * (q * u)) * h + r /\ Trunc(v, w) = r
  <2>1. PICK m \in Nat \ {0} : m = p * (q * u)
    OBVIOUS
  <2>2. v \div m \in Int /\ v % m \in 0 .. m - 1 /\ v = m * (v \div m) + (v % m)
    BY DivMod
  <2>3. Trunc(v, w) = v % m
    BY <1>5, <2>1 DEF Trunc
  <2>4. v = m * (v \div m) + Trunc(v, w) /\ v \div m \in Int /\ Trunc(v, w) \in Int
    BY <2>2, <2>3
  <2> QED
    BY <2>1, <2>4
<1>7. PICK s \in Int, t \in 0 .. p - 1 : r = p * s + t /\ r \div p = s
  BY Split
<1>8. v = p * (q * (u * h) + s) + t /\ u * h \in Int
  <2>1. u * h \in Int
    OBVIOUS
  <2>2. PICK y \in Int : y = u * h
    BY <2>1
  <2>3. (p * (q * u)) * h = p * (q * y) /\ q * y \in Int
    BY <2>2
  <2>4. p * (q * y + s) = p * (q * y) + p * s /\ p * (q * y) \in Int /\ p * s \in Int
    BY <2>3
  <2> QED
    BY <1>6, <1>7, <2>2, <2>3, <2>4
<1>9. v \div p = q * (u * h) + s
  <2>1. q * (u * h) + s \in Int
    BY <1>8
  <2> QED
    BY <1>8, <2>1, DivUnique
<1>10. (q * (u * h) + s) % q = s % q
  BY <1>8, ModMultiple
<1>11. ByteOf(v, j) = (v \div p) % q /\ ByteOf(r, j) = (r \div p) % q
  BY <1>1, <1>2, <1>4 DEF ByteOf
<1> QED
  BY <1>6, <1>7, <1>9, <1>10, <1>11

(* A write stores what of the value is left at its width.                    *)
LEMMA WriteReads ==
  ASSUME NEW d \in Cpus, NEW o \in Places, NEW v \in Int, NEW u \in Int, Trunc(v, o.w) = Trunc(u, o.w)
  PROVE  Write(d, o, v) = Write(d, o, u)
<1>1. o.w \in Width
  BY PlacesFact
<1>2. \A r : WriteReg(d, r, o.w, v) = WriteReg(d, r, o.w, u)
  <2>1. CASE o.w = 1
    BY <2>1 DEF WriteReg, WithField
  <2>2. CASE o.w # 1
    BY <2>2 DEF WriteReg, WithField
  <2> QED
    BY <2>1, <2>2
<1>3. ASSUME NEW a \in Int PROVE Store(d, a, o.w, v) = Store(d, a, o.w, u)
  <2>1. ASSUME NEW x \in Window, x \in a .. a + o.w - 1 PROVE ByteOf(v, x - a) = ByteOf(u, x - a)
    <3>1. x - a \in 0 .. o.w - 1
      BY <1>1, <2>1, WindowAssumption DEF Window, Width
    <3>2. ByteOf(Trunc(v, o.w), x - a) = ByteOf(v, x - a) /\ ByteOf(Trunc(u, o.w), x - a) = ByteOf(u, x - a)
      BY <1>1, <3>1, ByteTrunc
    <3> QED
      BY <3>2
  <2> QED
    BY <2>1 DEF Store
<1>4. CASE o.k = "Reg"
  BY <1>2, <1>4 DEF Write
<1>5. CASE o.k = "Mem"
  <2>1. Address(d, o) \in Int
    BY <1>5, PlacesFact, AddressFact
  <2> QED
    BY <1>3, <1>5, <2>1 DEF Write
<1> QED
  BY <1>4, <1>5, PlacesFact

(* A MOV and a store of a value the two sides have alike.                    *)
LEMMA MoveDone ==
  ASSUME NEW m, NEW g, NEW i, Along(m, g, i), Sure(m), NEW o \in Places, Plain(o), NEW v \in Int, NEW u \in Int,
         Trunc(v, o.w) = Trunc(u, o.w)
  PROVE  Done(IF WasmOk(m.c, o) THEN WasmWrite(m, o, v) ELSE MemoryFaultAt(m, i), Write(g, o, u), i)
<1>1. m.c \in Cpus /\ g \in Cpus /\ Even(m.c, g)
  BY AlongFact
<1>2. CASE WasmOk(m.c, o)
  <2>1. Along(WasmWrite(m, o, v), Write(g, o, v), i) /\ Sure(WasmWrite(m, o, v))
    BY <1>2, WriteAlong
  <2>2. Write(g, o, v) = Write(g, o, u)
    BY <1>1, WriteReads
  <2> QED
    BY <1>2, <2>1, <2>2, AlongDone
<1>3. CASE ~WasmOk(m.c, o)
  <2>1. ~Readable(g, o)
    BY <1>1, <1>3, GuardFact
  <2> QED
    BY <1>3, <2>1, WriteFaults, FaultDone
<1> QED
  BY <1>2, <1>3

(* A register or an immediate needs no guard.                                *)
LEMMA RegisterOk ==
  ASSUME NEW d, NEW o, o.k # "Mem"
  PROVE  WasmOk(d, o) /\ Plain(o) /\ Readable(d, o)
  BY DEF WasmOk, IsMem, Plain, Readable

(* x86p_wasm_mov_lower.                                                      *)
LEMMA MovFact ==
  ASSUME NEW m, NEW g, NEW i, Along(m, g, i), Sure(m), NEW in, in.op = "Mov",
         in.o0 \in Places, in.o1 \in Sources(in.o0.w), Plain(in.o0), Plain(in.o1)
  PROVE  Done(WasmMov(m, in, i), ExecMove(g, in), i)
<1> DEFINE o == in.o0
           s == in.o1
<1>1. m.c \in Cpus /\ g \in Cpus /\ Even(m.c, g)
  BY AlongFact
<1>2. s \in Places \cup Immediates /\ o.w \in Width /\ Means(s, o.w)
  <2>1. ASSUME s \in Places PROVE Means(s, o.w)
    BY <2>1, PlacesFact DEF Means
  <2> QED
    BY <2>1, PlacesFact DEF Sources
<1>3. ExecMove(g, in) = IF Readable(g, s) THEN Write(g, o, Value(g, s)) ELSE Fault(g)
  BY DEF ExecMove
<1>4. CASE Readable(g, s)
  <2>1. WasmOk(m.c, s)
    BY <1>1, <1>2, <1>4, GuardFact
  <2>2. /\ WasmValue(m.c, s) \in Int /\ Trunc(WasmValue(m.c, s), o.w) = Trunc(Value(g, s), o.w) /\ Value(g, s) \in Int
    BY <1>1, <1>2, <1>4, WasmValueFact, ValueFact
  <2>3. Done(IF WasmOk(m.c, o) THEN WasmWrite(m, o, WasmValue(m.c, s)) ELSE MemoryFaultAt(m, i), Write(g, o, Value(g, s)), i)
    BY <2>2, MoveDone
  <2>4. WasmMov(m, in, i) = IF WasmOk(m.c, o) THEN WasmWrite(m, o, WasmValue(m.c, s)) ELSE MemoryFaultAt(m, i)
    BY <2>1 DEF WasmMov
  <2> QED
    BY <1>3, <1>4, <2>3, <2>4
<1>5. CASE ~Readable(g, s)
  <2>1. ~WasmOk(m.c, s)
    BY <1>1, <1>2, <1>5, GuardFact
  <2>2. WasmMov(m, in, i) = MemoryFaultAt(m, i)
    BY <2>1 DEF WasmMov
  <2> QED
    BY <1>3, <1>5, <2>2, FaultDone
<1> QED
  BY <1>4, <1>5

(* Sign extension gives a dword.                                             *)
LEMMA ExtendFact ==
  ASSUME NEW v \in Int, NEW w \in Width
  PROVE  SignExtend(v, w, 4) \in Dwords /\ SignExtend(v, w, 4) \in Int
<1>1. Signed(v, w) \in Int /\ 4 \in Width
  BY SignedTrunc DEF Width
<1> QED
  BY <1>1, TruncFact, DwordsFact DEF SignExtend

(* lower_movx.                                                               *)
LEMMA MovxFact ==
  ASSUME NEW m, NEW g, NEW i, Along(m, g, i), Sure(m), NEW in, in.op \in {"Movzx", "Movsx"},
         in.o0 \in Registers, in.o1 \in Places, Plain(in.o1)
  PROVE  Done(WasmMovx(m, in, i), ExecMove(g, in), i)
<1> DEFINE o == in.o0
           s == in.o1
           v == IF in.op = "Movsx" THEN SignExtend(Value(g, s), s.w, 4) ELSE Value(g, s)
<1>1. m.c \in Cpus /\ g \in Cpus /\ Even(m.c, g)
  BY AlongFact
<1>2. s \in Places \cup Immediates /\ o \in Places /\ o.k = "Reg" /\ s.w \in Width
  BY PlacesFact DEF Places, Registers
<1>3. ExecMove(g, in) = IF Readable(g, s) THEN Write(g, o, v) ELSE Fault(g)
  <2>1. CASE in.op = "Movzx"
    BY <2>1 DEF ExecMove
  <2>2. CASE in.op = "Movsx"
    BY <2>2 DEF ExecMove
  <2> QED
    BY <2>1, <2>2
<1>4. CASE Readable(g, s)
  <2>1. WasmOk(m.c, s) /\ WasmOk(m.c, o) /\ Plain(o)
    BY <1>1, <1>2, <1>4, GuardFact, RegisterOk
  <2>2. WasmValue(m.c, s) = Value(g, s) /\ Value(g, s) \in Int
    BY <1>1, <1>2, <1>4, WasmValueFact, ValueFact
  <2>3. v \in Int
    BY <1>2, <2>2, ExtendFact
  <2>4. WasmMovx(m, in, i) = WasmWrite(m, o, v)
    BY <2>1, <2>2 DEF WasmMovx
  <2> HIDE DEF v
  <2>5. Done(WasmWrite(m, o, v), Write(g, o, v), i)
    BY <1>2, <2>1, <2>3, WriteAlong, AlongDone
  <2> QED
    BY <1>3, <1>4, <2>4, <2>5
<1>5. CASE ~Readable(g, s)
  <2>1. ~WasmOk(m.c, s)
    BY <1>1, <1>2, <1>5, GuardFact
  <2>2. WasmMovx(m, in, i) = MemoryFaultAt(m, i)
    BY <2>1 DEF WasmMovx
  <2> QED
    BY <1>3, <1>5, <2>2, FaultDone
<1> QED
  BY <1>4, <1>5

(* x86p_wasm_lea_lower.                                                      *)
LEMMA LeaFact ==
  ASSUME NEW m, NEW g, NEW i, Along(m, g, i), Sure(m), NEW in, in.op = "Lea",
         in.o0 \in Registers, in.o1 \in Memories, Plain(in.o1), ~in.o1.fs
  PROVE  Done(WasmLea(m, in), ExecMove(g, in), i)
<1> DEFINE o == in.o0
           s == in.o1
<1>1. m.c \in Cpus /\ g \in Cpus /\ m.c.reg = g.reg /\ m.c.fs_base = g.fs_base
  BY AlongFact
<1>2. s \in MemoryOf(Widths) /\ o \in Places /\ o.k = "Reg" /\ ~s.addr16
  BY DEF Places, Registers, Memories, MemoryOf, Widths, Plain, IsMem
<1>3. ExecMove(g, in) = Write(g, o, Address(g, s))
  BY DEF ExecMove
<1>4. WasmParts(m.c, s) = Address(g, s) /\ Address(g, s) \in Int
  BY <1>1, <1>2, AddressFact, SameAddress
<1>5. WasmOk(m.c, o) /\ Plain(o)
  BY <1>2, RegisterOk
<1>6. Done(WasmWrite(m, o, Address(g, s)), Write(g, o, Address(g, s)), i)
  BY <1>2, <1>4, <1>5, WriteAlong, AlongDone
<1> QED
  BY <1>3, <1>4, <1>6 DEF WasmLea

(* The registers with a name, and the widths.                                *)
LEMMA NamesFact == Esp \in 0 .. 7 /\ Ebp \in 0 .. 7 /\ Eax \in 0 .. 7 /\ Edx \in 0 .. 7 /\ Ecx \in 0 .. 7 /\ Ebx \in 0 .. 7
                     /\ Esi \in 0 .. 7 /\ Edi \in 0 .. 7 /\ 4 \in Width /\ 2 \in Width /\ 1 \in Width /\ 4 \in Widths
  BY DEF Esp, Ebp, Eax, Edx, Ecx, Ebx, Esi, Edi, Width, Widths

(* An address a register write does not move.                                *)
LEMMA ApartFact ==
  ASSUME NEW d \in Cpus, NEW o \in Registers, NEW s \in Memories, Apart(s, o), NEW v \in Int
  PROVE  Address(WriteReg(d, o.r, o.w, v), s) = Address(d, s)
<1> DEFINE e == WriteReg(d, o.r, o.w, v)
           whole == IF o.w = 1 THEN o.r % 4 ELSE o.r
<1>1. Even(d, d) /\ o.r \in 0 .. 7 /\ o.w \in Width
  BY DEF Even, Registers
<1>2. /\ Moved(d, d, e, e) /\ \A q \in 0 .. 7 : q # whole => e.reg[q] = d.reg[q]
  BY <1>1, WriteRegMoved
<1>3. e.fs_base = d.fs_base
  BY <1>2 DEF Moved, Stays
<1>4. s.base # whole /\ s.index # whole /\ s.base \in -1 .. 7 /\ s.index \in -1 .. 7
  BY DEF Apart, Memories, MemoryOf
<1> HIDE DEF e, whole
<1>5. (s.base >= 0 => e.reg[s.base] = d.reg[s.base]) /\ (s.index >= 0 => e.reg[s.index] = d.reg[s.index])
  BY <1>2, <1>4
<1>6. Address(e, s) = Address(d, s)
  <2>1. (IF s.base < 0 THEN 0 ELSE e.reg[s.base]) = (IF s.base < 0 THEN 0 ELSE d.reg[s.base])
    BY <1>4, <1>5
  <2>2. (IF s.index < 0 THEN 0 ELSE e.reg[s.index] * s.scale) = (IF s.index < 0 THEN 0 ELSE d.reg[s.index] * s.scale)
    BY <1>4, <1>5
  <2> QED
    BY <1>3, <2>1, <2>2 DEF Address
<1> QED
  BY <1>6 DEF e

(* A store and a register's write can be exchanged.                          *)
LEMMA StoreWriteReg ==
  ASSUME NEW d \in Cpus, NEW r, NEW u, NEW v, NEW a, NEW w, NEW x
  PROVE  Store(WriteReg(d, r, u, v), a, w, x) = WriteReg(Store(d, a, w, x), r, u, v)
<1>1. CASE u = 1
  BY <1>1 DEF Cpus, Store, WriteReg
<1>2. CASE u # 1
  BY <1>2 DEF Cpus, Store, WriteReg
<1> QED
  BY <1>1, <1>2

(* x86p_wasm_xchg_lower.                                                     *)
LEMMA XchgFact ==
  ASSUME NEW m, NEW g, NEW i, Along(m, g, i), Sure(m), NEW in, in.op = "Xchg",
         \/ in.o0 \in Places /\ in.o1 \in Registers
         \/ in.o0 \in Registers /\ in.o1 \in Memories /\ Apart(in.o1, in.o0),
         Plain(in.o0), Plain(in.o1)
  PROVE  Done(WasmXchg(m, in, i), ExecMove(g, in), i)
<1> DEFINE o == in.o0
           s == in.o1
           v == Value(g, s)
           p == Value(g, o)
           h == Write(g, o, v)
<1>1. m.c \in Cpus /\ g \in Cpus /\ Even(m.c, g) /\ m \in Blocks /\ g.st = "Ok"
  BY AlongFact
<1>2. o \in Places /\ s \in Places /\ o \in Places \cup Immediates /\ s \in Places \cup Immediates
  BY DEF Places
<1>3. o.w \in Width /\ s.w \in Width
  BY <1>2, PlacesFact
<1>4. ExecMove(g, in) = IF ~Readable(g, o) \/ ~Readable(g, s) THEN Fault(g) ELSE IF h.st # "Ok" THEN h ELSE Write(h, s, p)
  BY DEF ExecMove
<1>5. (WasmOk(m.c, o) <=> Readable(g, o)) /\ (WasmOk(m.c, s) <=> Readable(g, s))
  BY <1>1, <1>2, GuardFact
<1>6. ~IsMem(o) => WasmOk(m.c, o)
  BY DEF WasmOk
<1>7. ~IsMem(s) => WasmOk(m.c, s)
  BY DEF WasmOk
<1>8. IsMem(s) => ~IsMem(o)
  BY <1>2 DEF IsMem, Registers, Memories, MemoryOf
<1> DEFINE at == IF IsMem(s) THEN s ELSE o
<1>9. WasmOk(m.c, at) <=> Readable(g, o) /\ Readable(g, s)
  BY <1>5, <1>6, <1>7, <1>8
<1>10. CASE ~WasmOk(m.c, at)
  <2>1. WasmXchg(m, in, i) = MemoryFaultAt(m, i)
    BY <1>10 DEF WasmXchg
  <2> QED
    BY <1>4, <1>9, <1>10, <2>1, FaultDone
<1>11. CASE WasmOk(m.c, at)
  <2>1. Readable(g, o) /\ Readable(g, s) /\ WasmOk(m.c, o) /\ WasmOk(m.c, s)
    BY <1>5, <1>9, <1>11
  <2>2. /\ WasmValue(m.c, o) = p /\ p \in Int /\ WasmValue(m.c, s) = v /\ v \in Int
        /\ Value(m.c, o) = p /\ Value(m.c, s) = v
    BY <1>1, <1>2, <2>1, WasmValueFact, ValueFact
  <2>3. Moved(m.c, g, Write(m.c, o, v), h)
    BY <1>1, <1>2, <2>1, <2>2, WriteMoved
  <2>4. h.st = "Ok" /\ h \in Cpus /\ Write(m.c, o, v) \in Cpus /\ Even(Write(m.c, o, v), h)
    BY <1>1, <2>3 DEF Moved, Stays, Even
  <2>5. ExecMove(g, in) = Write(h, s, p)
    BY <1>4, <2>1, <2>4
  <2>6. Readable(h, s)
    <3>1. CASE IsMem(s)
      <4>1. o \in Registers /\ s \in Memories /\ Apart(s, o)
        BY <3>1 DEF IsMem, Registers
      <4>2. h = WriteReg(g, o.r, o.w, v)
        BY <4>1 DEF Write, Registers
      <4>3. Address(h, s) = Address(g, s)
        BY <1>1, <2>2, <4>1, <4>2, ApartFact
      <4> HIDE DEF h
      <4> QED
        BY <2>1, <4>3 DEF Readable
    <3>2. CASE ~IsMem(s)
      BY <3>2 DEF IsMem, Readable
    <3> QED
      BY <3>1, <3>2
  <2> DEFINE f == Write(m.c, o, v)
             n == Write(f, s, p)
  <2>7. Moved(f, h, n, Write(h, s, p))
    <3> HIDE DEF f, h
    <3> QED
      BY <1>2, <2>2, <2>4, <2>6, WriteMoved DEF f
  <2>8. Moved(m.c, g, n, Write(h, s, p))
    <3> HIDE DEF n
    <3> QED
      BY <2>3, <2>7 DEF Moved, Stays
  <2>9. Readable(f, s)
    <3> HIDE DEF f, h
    <3> QED
      BY <1>2, <2>4, <2>6, GuardFact DEF f
  <2>10. WasmXchg(m, in, i) = [m EXCEPT !.c = n]
    <3>1. CASE ~IsMem(s) /\ ~IsMem(o)
      <4>1. WasmXchg(m, in, i) = WasmWrite(WasmWrite(m, o, WasmValue(m.c, s)), s, WasmValue(m.c, o))
        BY <1>11, <3>1 DEF WasmXchg
      <4>2. WasmWrite(m, o, v) = [m EXCEPT !.c = f]
        BY <1>1, <1>2, <2>1, <2>2, GuardFact, WasmWriteIs
      <4>3. [m EXCEPT !.c = f].c = f
        BY <1>1, <2>4, PutFact
      <4>4. WasmWrite([m EXCEPT !.c = f], s, p) = [[m EXCEPT !.c = f] EXCEPT !.c = n]
        <5>1. PICK y : y = [m EXCEPT !.c = f]
          OBVIOUS
        <5>2. y.c = f /\ f \in Cpus
          BY <2>4, <4>3, <5>1
        <5> HIDE DEF f
        <5>3. WasmWrite(y, s, p) = [y EXCEPT !.c = Write(y.c, s, p)]
          BY <1>2, <2>2, <2>9, <5>2, WasmWriteIs
        <5> QED
          BY <5>1, <5>2, <5>3
      <4>5. WasmXchg(m, in, i) = WasmWrite(WasmWrite(m, o, v), s, p)
        BY <2>2, <4>1
      <4> HIDE DEF f, n
      <4>6. WasmXchg(m, in, i) = [[m EXCEPT !.c = f] EXCEPT !.c = n]
        BY <4>2, <4>4, <4>5
      <4> QED
        BY <1>1, <4>6, PutTwice
    <3>2. CASE IsMem(s)
      <4>1. WasmXchg(m, in, i) = [m EXCEPT !.c = Store(WriteReg(m.c, o.r, o.w, WasmValue(m.c, s)), WasmAddress(m.c, s), s.w, WasmValue(m.c, o))]
        BY <1>11, <3>2 DEF WasmXchg
      <4>2. o \in Registers /\ s \in Memories /\ Apart(s, o) /\ s.k = "Mem" /\ o.k = "Reg" /\ s \in MemoryOf(Widths) /\ ~s.addr16
        BY <1>2, <3>2, PlacesFact DEF IsMem, Registers, Plain
      <4>3. f = WriteReg(m.c, o.r, o.w, v)
        BY <4>2 DEF Write
      <4>4. Address(f, s) = Address(m.c, s) /\ WasmAddress(m.c, s) = Address(m.c, s)
        BY <1>1, <2>2, <4>2, <4>3, ApartFact, AddressFact
      <4>5. n = Store(f, Address(f, s), s.w, p)
        <5> HIDE DEF f
        <5> QED
          BY <2>9, <4>2 DEF Write
      <4> HIDE DEF f, n
      <4> QED
        BY <2>2, <4>1, <4>3, <4>4, <4>5
    <3>3. CASE IsMem(o)
      <4>1. ~IsMem(s)
        BY <1>8, <3>3
      <4>2. WasmXchg(m, in, i) = [m EXCEPT !.c = Store(WriteReg(m.c, s.r, s.w, WasmValue(m.c, o)), WasmAddress(m.c, o), o.w, WasmValue(m.c, s))]
        BY <1>11, <3>3, <4>1 DEF WasmXchg
      <4>3. o.k = "Mem" /\ s.k = "Reg" /\ o \in MemoryOf(Widths) /\ ~o.addr16
        BY <1>2, <3>3, <4>1, PlacesFact DEF IsMem, Plain
      <4>4. WasmAddress(m.c, o) = Address(m.c, o)
        BY <1>1, <4>3, AddressFact
      <4>5. f = Store(m.c, Address(m.c, o), o.w, v)
        BY <1>1, <1>2, <2>1, <4>3, GuardFact DEF Write
      <4>6. n = WriteReg(f, s.r, s.w, p)
        BY <4>3 DEF Write
      <4> HIDE DEF f, n
      <4> QED
        BY <1>1, <2>2, <4>2, <4>4, <4>5, <4>6, StoreWriteReg
    <3> QED
      BY <3>1, <3>2, <3>3
  <2> HIDE DEF n, h
  <2> QED
    BY <2>5, <2>8, <2>10, PutAlong, AlongDone
<1> QED
  BY <1>10, <1>11

(* x86p_wasm_setcc_lower, x86p_wasm_cmov_lower.                              *)
LEMMA SetccFact ==
  ASSUME NEW m, NEW g, NEW i, Along(m, g, i), Sure(m), NEW in, in.op = "Setcc", in.cc \in Conds,
         in.o0 \in Places, Plain(in.o0)
  PROVE  Done(WasmSetcc(m, in, i), ExecCond(g, in), i)
<1>1. WasmCond(m, in.cc) <=> Cond(in.cc, g.flags)
  <2>1. WasmCond(m, in.cc) <=> Cond(in.cc, m.c.flags)
    BY AlongFact, WasmCondFact DEF Sure
  <2>2. Cond(in.cc, m.c.flags) = Cond(in.cc, g.flags)
    BY AlongFact, SameCond
  <2> QED
    BY <2>1, <2>2
<1> DEFINE v == IF WasmCond(m, in.cc) THEN 1 ELSE 0
<1>2. v \in Int /\ v = IF Cond(in.cc, g.flags) THEN 1 ELSE 0
  BY <1>1
<1>3. ExecCond(g, in) = Write(g, in.o0, v)
  BY <1>2 DEF ExecCond
<1>4. WasmSetcc(m, in, i) = IF WasmOk(m.c, in.o0) THEN WasmWrite(m, in.o0, v) ELSE MemoryFaultAt(m, i)
  BY DEF WasmSetcc
<1> HIDE DEF v
<1> QED
  BY <1>2, <1>3, <1>4, MoveDone

(* x86p_wasm_cmov_lower.                                                     *)
LEMMA CmovFact ==
  ASSUME NEW m, NEW g, NEW i, Along(m, g, i), Sure(m), NEW in, in.op = "Cmovcc", in.cc \in Conds,
         in.o0 \in Registers, in.o1 \in Places, Plain(in.o1)
  PROVE  Done(WasmCmov(m, in, i), ExecCond(g, in), i)
<1> DEFINE o == in.o0
           s == in.o1
<1>1. WasmCond(m, in.cc) <=> Cond(in.cc, g.flags)
  <2>1. WasmCond(m, in.cc) <=> Cond(in.cc, m.c.flags)
    BY AlongFact, WasmCondFact DEF Sure
  <2>2. Cond(in.cc, m.c.flags) = Cond(in.cc, g.flags)
    BY AlongFact, SameCond
  <2> QED
    BY <2>1, <2>2
<1>2. m.c \in Cpus /\ g \in Cpus /\ Even(m.c, g) /\ s \in Places \cup Immediates /\ o \in Places /\ o.k = "Reg"
  BY AlongFact DEF Places, Registers
<1>3. ExecCond(g, in) = IF ~Readable(g, s) THEN Fault(g) ELSE IF Cond(in.cc, g.flags) THEN Write(g, o, Value(g, s)) ELSE g
  BY DEF ExecCond
<1>4. WasmOk(m.c, s) <=> Readable(g, s)
  BY <1>2, GuardFact
<1>5. CASE ~WasmOk(m.c, s)
  BY <1>3, <1>4, <1>5, FaultDone DEF WasmCmov
<1>6. CASE WasmOk(m.c, s) /\ ~WasmCond(m, in.cc)
  <2>1. WasmCmov(m, in, i) = m /\ ExecCond(g, in) = g
    BY <1>1, <1>3, <1>4, <1>6 DEF WasmCmov
  <2> QED
    BY <2>1, AlongDone
<1>7. CASE WasmOk(m.c, s) /\ WasmCond(m, in.cc)
  <2>1. WasmValue(m.c, s) = Value(g, s) /\ Value(g, s) \in Int
    BY <1>2, <1>4, <1>7, WasmValueFact, ValueFact
  <2>2. WasmCmov(m, in, i) = WasmWrite(m, o, Value(g, s)) /\ ExecCond(g, in) = Write(g, o, Value(g, s))
    BY <1>1, <1>3, <1>4, <1>7, <2>1 DEF WasmCmov
  <2>3. WasmOk(m.c, o) /\ Plain(o)
    BY <1>2, RegisterOk
  <2>4. Done(WasmWrite(m, o, Value(g, s)), Write(g, o, Value(g, s)), i)
    BY <1>2, <2>1, <2>3, WriteAlong, AlongDone
  <2> QED
    BY <2>2, <2>4
<1> QED
  BY <1>5, <1>6, <1>7

\* The two made the same step, faults included; records, EIP and its successor are where they were.
Worked(d, e, f, h) ==
  Even(f, h) /\ f.st = h.st /\ f.flags = d.flags /\ h.flags = e.flags /\ h.eip = e.eip /\ h.next = e.next

(* A step that moved both.                                                   *)
LEMMA MovedWorked ==
  ASSUME NEW d, NEW e, d.st = e.st, NEW f, NEW h, Moved(d, e, f, h)
  PROVE  Worked(d, e, f, h)
  BY DEF Moved, Stays, Worked

(* A fault of both.                                                          *)
LEMMA FaultWorked ==
  ASSUME NEW d, NEW e, Even(d, e), d.st = e.st
  PROVE  Worked(d, e, Fault(d), Fault(e)) /\ Fault(e).st = "MemoryFault" /\ Worked(d, e, d, e)
<1>1. d \in Cpus /\ e \in Cpus /\ "MemoryFault" \in Statuses
  BY DEF Even, Statuses
<1>2. Fault(d) \in Cpus /\ Fault(e) \in Cpus
  BY <1>1 DEF Fault, Stopped, Cpus
<1> QED
  BY <1>1, <1>2 DEF Worked, Even, Fault, Stopped, Cpus

(* Two pieces of work.                                                       *)
LEMMA WorkedTwice ==
  ASSUME NEW d, NEW e, NEW f, NEW h, Worked(d, e, f, h), NEW p, NEW q, Worked(f, h, p, q)
  PROVE  Worked(d, e, p, q)
  BY DEF Worked

(* Two steps.                                                                *)
LEMMA MovedTwice ==
  ASSUME NEW d, NEW e, NEW f, NEW h, Moved(d, e, f, h), NEW p, NEW q, Moved(f, h, p, q)
  PROVE  Moved(d, e, p, q)
  BY DEF Moved, Stays

(* x86p_push32.                                                              *)
LEMMA PushFact ==
  ASSUME NEW d, NEW e, Even(d, e), NEW v \in Int
  PROVE  LET esp == Trunc(e.reg[Esp] - 4, 4)
         IN  /\ esp \in Dwords /\ esp = Trunc(d.reg[Esp] - 4, 4)
             /\ Accessible(esp, 4) => /\ Moved(d, e, Push32(d, v), Push32(e, v))
                                      /\ Push32(d, v) = [Store(d, esp, 4, v) EXCEPT !.reg[Esp] = esp]
             /\ ~Accessible(esp, 4) => Push32(d, v) = Fault(d) /\ Push32(e, v) = Fault(e)
<1> DEFINE esp == Trunc(e.reg[Esp] - 4, 4)
<1>1. d \in Cpus /\ e \in Cpus /\ d.reg = e.reg
  BY DEF Even
<1>2. esp \in Dwords /\ esp \in Int
  <2>1. e.reg[Esp] \in Int
    BY <1>1, CpusFact, NamesFact
  <2> QED
    BY <2>1, TruncFact, NamesFact, DwordsFact
<1>3. esp = Trunc(d.reg[Esp] - 4, 4)
  BY <1>1
<1>4. /\ Push32(d, v) = IF Accessible(esp, 4) THEN [Store(d, esp, 4, v) EXCEPT !.reg[Esp] = esp] ELSE Fault(d)
      /\ Push32(e, v) = IF Accessible(esp, 4) THEN [Store(e, esp, 4, v) EXCEPT !.reg[Esp] = esp] ELSE Fault(e)
  BY <1>3 DEF Push32
<1> HIDE DEF esp
<1>5. Moved(d, e, Store(d, esp, 4, v), Store(e, esp, 4, v))
  BY <1>2, StoreMoved, NamesFact
<1>6. Moved(Store(d, esp, 4, v), Store(e, esp, 4, v), [Store(d, esp, 4, v) EXCEPT !.reg[Esp] = esp], [Store(e, esp, 4, v) EXCEPT !.reg[Esp] = esp])
  BY <1>2, <1>5, SetRegMoved, NamesFact DEF Moved
<1>7. Moved(d, e, [Store(d, esp, 4, v) EXCEPT !.reg[Esp] = esp], [Store(e, esp, 4, v) EXCEPT !.reg[Esp] = esp])
  BY <1>5, <1>6, MovedTwice
<1>8. Accessible(esp, 4) => /\ Moved(d, e, Push32(d, v), Push32(e, v))
                            /\ Push32(d, v) = [Store(d, esp, 4, v) EXCEPT !.reg[Esp] = esp]
  BY <1>4, <1>7
<1>9. ~Accessible(esp, 4) => Push32(d, v) = Fault(d) /\ Push32(e, v) = Fault(e)
  BY <1>4
<1> QED
  BY <1>2, <1>3, <1>8, <1>9 DEF esp

(* x86p_push32 on both.                                                      *)
LEMMA PushWorked ==
  ASSUME NEW d, NEW e, Even(d, e), d.st = e.st, NEW v \in Int
  PROVE  Worked(d, e, Push32(d, v), Push32(e, v))
<1>1. CASE Accessible(Trunc(e.reg[Esp] - 4, 4), 4)
  BY <1>1, PushFact, MovedWorked
<1>2. CASE ~Accessible(Trunc(e.reg[Esp] - 4, 4), 4)
  BY <1>2, PushFact, FaultWorked
<1> QED
  BY <1>1, <1>2

(* x86p_pop32.                                                               *)
LEMMA LoadSame ==
  ASSUME NEW d, NEW e, Even(d, e), NEW a \in Dwords, Accessible(a, 4)
  PROVE  Load(d, a, 4) = Load(e, a, 4) /\ Load(e, a, 4) \in Dwords /\ Load(e, a, 4) \in Int
<1>1. d \in Cpus /\ e \in Cpus /\ d.mem = e.mem /\ e.mem \in [Window -> Bytes] /\ a \in Int
  BY CpusFact, DwordsFact DEF Even
<1> QED
  BY <1>1, LoadIs, LoadFact, NamesFact

(* x86p_pop32 on both.                                                       *)
LEMMA PopFact ==
  ASSUME NEW d, NEW e, Even(d, e)
  PROVE  /\ CanPop(d) <=> CanPop(e)
         /\ CanPop(e) <=> InBounds(e.reg[Esp], 4)
         /\ Moved(d, e, AfterPop(d), AfterPop(e)) /\ AfterPop(e).reg[Esp] = Trunc(e.reg[Esp] + 4, 4)
         /\ CanPop(e) => Popped(d) = Popped(e) /\ Popped(e) \in Dwords /\ Popped(e) \in Int
         /\ AfterPop(d) = [d EXCEPT !.reg[Esp] = Trunc(e.reg[Esp] + 4, 4)]
<1>1. d \in Cpus /\ e \in Cpus /\ d.reg = e.reg
  BY DEF Even
<1>2. e.reg[Esp] \in Dwords /\ e.reg[Esp] \in Int
  BY <1>1, CpusFact, NamesFact
<1>3. CanPop(d) = CanPop(e) /\ CanPop(e) = Accessible(e.reg[Esp], 4)
  BY <1>1 DEF CanPop
<1>4. CanPop(e) <=> InBounds(e.reg[Esp], 4)
  BY <1>2, <1>3, BoundsFact, NamesFact
<1> DEFINE up == Trunc(e.reg[Esp] + 4, 4)
<1>5. up \in Dwords
  BY <1>2, TruncFact, NamesFact, DwordsFact
<1>6. AfterPop(d) = [d EXCEPT !.reg[Esp] = up] /\ AfterPop(e) = [e EXCEPT !.reg[Esp] = up]
  BY <1>1 DEF AfterPop
<1>7. CanPop(e) => Popped(d) = Popped(e) /\ Popped(e) \in Dwords /\ Popped(e) \in Int
  BY <1>1, <1>2, <1>3, LoadSame DEF Popped
<1>8. Moved(d, e, AfterPop(d), AfterPop(e)) /\ AfterPop(e).reg[Esp] = up
  <2> HIDE DEF up
  <2>1. Moved(d, e, [d EXCEPT !.reg[Esp] = up], [e EXCEPT !.reg[Esp] = up])
    BY <1>5, SetRegMoved, NamesFact
  <2>2. [e EXCEPT !.reg[Esp] = up].reg[Esp] = up
    BY <1>1, NamesFact DEF Cpus
  <2> QED
    BY <1>6, <2>1, <2>2
<1> QED
  BY <1>3, <1>4, <1>6, <1>7, <1>8

(* x86p_wasm_push_local.                                                     *)
LEMMA WasmPushFact ==
  ASSUME NEW m, NEW g, NEW i, Along(m, g, i), NEW v \in Int
  PROVE  /\ WasmPush(m, v, i).in => /\ Along(WasmPush(m, v, i), Push32(g, v), i) /\ (Sure(m) => Sure(WasmPush(m, v, i)))
         /\ ~WasmPush(m, v, i).in => Done(WasmPush(m, v, i), Push32(g, v), i) /\ Push32(g, v) = Fault(g)
         /\ Sure(m) => Done(WasmPush(m, v, i), Push32(g, v), i)
<1>1. m.c \in Cpus /\ g \in Cpus /\ Even(m.c, g) /\ m.c.reg = g.reg
  BY AlongFact
<1> DEFINE esp == Trunc(g.reg[Esp] - 4, 4)
<1>2. /\ esp \in Dwords /\ esp = Trunc(m.c.reg[Esp] - 4, 4)
      /\ Accessible(esp, 4) => /\ Moved(m.c, g, Push32(m.c, v), Push32(g, v))
                               /\ Push32(m.c, v) = [Store(m.c, esp, 4, v) EXCEPT !.reg[Esp] = esp]
      /\ ~Accessible(esp, 4) => Push32(m.c, v) = Fault(m.c) /\ Push32(g, v) = Fault(g)
  BY <1>1, PushFact
<1>3. InBounds(esp, 4) <=> Accessible(esp, 4)
  BY <1>2, BoundsFact, NamesFact
<1>4. WasmPush(m, v, i) = IF InBounds(esp, 4) THEN [m EXCEPT !.c = [Store(m.c, esp, 4, v) EXCEPT !.reg[Esp] = esp]] ELSE MemoryFaultAt(m, i)
  BY <1>2 DEF WasmPush
<1> HIDE DEF esp
<1>5. CASE InBounds(esp, 4)
  <2>1. WasmPush(m, v, i) = [m EXCEPT !.c = Push32(m.c, v)] /\ Moved(m.c, g, Push32(m.c, v), Push32(g, v))
    BY <1>2, <1>3, <1>4, <1>5
  <2>2. Along([m EXCEPT !.c = Push32(m.c, v)], Push32(g, v), i) /\ (Sure(m) => Sure([m EXCEPT !.c = Push32(m.c, v)]))
    <3>1. PICK f, h : f = Push32(m.c, v) /\ h = Push32(g, v)
      OBVIOUS
    <3>2. Moved(m.c, g, f, h)
      BY <2>1, <3>1
    <3>3. Along([m EXCEPT !.c = f], h, i) /\ (Sure(m) => Sure([m EXCEPT !.c = f]))
      BY <3>2, PutAlong
    <3> QED
      BY <3>1, <3>3
  <2>3. WasmPush(m, v, i).in
    BY <2>1, <2>2, AlongFact
  <2> QED
    BY <2>1, <2>2, <2>3, AlongDone
<1>6. CASE ~InBounds(esp, 4)
  BY <1>2, <1>3, <1>4, <1>6, FaultDone
<1> QED
  BY <1>5, <1>6

(* The pops.                                                                 *)
LEMMA WasmPopFact ==
  ASSUME NEW m, NEW g, NEW i, Along(m, g, i), NEW release \in Int
  PROVE  LET p == WasmPopped(m, release, i)
             h == [AfterPop(g) EXCEPT !.reg[Esp] = Trunc(@ + release, 4)]
         IN  /\ CanPop(g) => Along(p, h, i) /\ (Sure(m) => Sure(p)) /\ WasmTop(m) = Popped(g) /\ Popped(g) \in Dwords /\ Popped(g) \in Int
             /\ ~CanPop(g) => Done(p, Fault(g), i) /\ ~p.in
             /\ p.in <=> CanPop(g)
             /\ release = 0 => h = AfterPop(g)
<1> DEFINE p == WasmPopped(m, release, i)
           h == [AfterPop(g) EXCEPT !.reg[Esp] = Trunc(@ + release, 4)]
           up == Trunc(g.reg[Esp] + 4, 4)
           to == Trunc(g.reg[Esp] + 4 + release, 4)
<1>1. m.c \in Cpus /\ g \in Cpus /\ Even(m.c, g) /\ m.c.reg = g.reg
  BY AlongFact
<1>2. g.reg[Esp] \in Int /\ g.reg[Esp] \in Dwords
  BY <1>1, CpusFact, NamesFact
<1>3. up \in Dwords /\ to \in Dwords /\ Trunc(up + release, 4) = to /\ (release = 0 => to = up)
  <2>1. g.reg[Esp] + 4 \in Int /\ g.reg[Esp] + 4 + release \in Int
    BY <1>2
  <2>2. Trunc(Trunc(g.reg[Esp] + 4, 4) + release, 4) = Trunc((g.reg[Esp] + 4) + release, 4)
    BY <2>1, TruncAdd, NamesFact
  <2>3. release = 0 => g.reg[Esp] + 4 + release = g.reg[Esp] + 4
    BY <2>1
  <2> QED
    BY <2>1, <2>2, <2>3, TruncFact, NamesFact, DwordsFact
<1>4. /\ CanPop(g) <=> InBounds(g.reg[Esp], 4)
      /\ CanPop(g) => Popped(m.c) = Popped(g) /\ Popped(g) \in Dwords /\ Popped(g) \in Int
      /\ AfterPop(g) = [g EXCEPT !.reg[Esp] = up]
  <2>1. Even(g, g)
    BY <1>1 DEF Even
  <2> QED
    BY <1>1, <2>1, PopFact
<1>5. h = [g EXCEPT !.reg[Esp] = to]
  <2> HIDE DEF up, to
  <2>1. [g EXCEPT !.reg[Esp] = up].reg[Esp] = up
    BY <1>1, NamesFact DEF Cpus
  <2>2. [[g EXCEPT !.reg[Esp] = up] EXCEPT !.reg[Esp] = Trunc(@ + release, 4)] = [g EXCEPT !.reg[Esp] = Trunc(up + release, 4)]
    BY <1>1, <2>1, NamesFact DEF Cpus
  <2> QED
    BY <1>3, <1>4, <2>2
<1>6. p = IF CanPop(g) THEN [m EXCEPT !.c.reg[Esp] = to] ELSE MemoryFaultAt(m, i)
  BY <1>1, <1>4 DEF WasmPopped
<1>7. [m EXCEPT !.c.reg[Esp] = to] = [m EXCEPT !.c = [m.c EXCEPT !.reg[Esp] = to]]
  OBVIOUS
<1>8. release = 0 => h = AfterPop(g)
  BY <1>3, <1>4, <1>5
<1> HIDE DEF p, h, up, to
<1>9. CASE CanPop(g)
  <2>1. Moved(m.c, g, [m.c EXCEPT !.reg[Esp] = to], h)
    BY <1>1, <1>3, <1>5, SetRegMoved, NamesFact
  <2>2. Along(p, h, i) /\ (Sure(m) => Sure(p))
    BY <1>6, <1>7, <1>9, <2>1, PutAlong
  <2>3. p.in
    BY <2>2, AlongFact
  <2>4. WasmTop(m) = Popped(m.c)
    BY DEF WasmTop, Popped
  <2> QED
    BY <1>4, <1>8, <1>9, <2>2, <2>3, <2>4 DEF p, h
<1>10. CASE ~CanPop(g)
  <2>1. Done(p, Fault(g), i) /\ ~p.in
    BY <1>6, <1>10, FaultDone
  <2> QED
    BY <1>8, <1>10, <2>1 DEF p, h
<1> QED
  BY <1>9, <1>10

(* A dword needs no extension.                                               *)
LEMMA ExtendWhole ==
  ASSUME NEW v \in Dwords
  PROVE  SignExtend(v, 4, 4) = v
<1>1. v \in Int /\ Trunc(v, 4) = v /\ v \in 0 .. Power(Bits(4)) - 1
  BY DwordsFact DEF Dwords
<1>2. Signed(v, 4) = v \/ Signed(v, 4) = v - Power(Bits(4))
  BY <1>1 DEF Signed
<1>3. PICK n \in Nat \ {0} : n = Power(Bits(4))
  BY DwordsFact
<1>4. (v - n) % n = v
  <2> DEFINE q == -1
  <2>0. q \in Int
    OBVIOUS
  <2>1. v - n = n * q + v
    BY <1>1
  <2> HIDE DEF q
  <2>2. (n * q + v) % n = v % n
    BY <1>1, <2>0, ModMultiple
  <2>3. v % n = v
    BY <1>1, <1>3 DEF Trunc
  <2> QED
    BY <2>1, <2>2, <2>3
<1>5. Trunc(v - Power(Bits(4)), 4) = v
  BY <1>3, <1>4 DEF Trunc
<1> QED
  BY <1>1, <1>2, <1>5 DEF SignExtend

(* x86p_wasm_push_lower.                                                     *)
LEMMA PushOperandFact ==
  ASSUME NEW m, NEW g, NEW i, Along(m, g, i), Sure(m), NEW in, in.op = "Push", in.o0 \in Places \cup Immediates, Plain(in.o0),
         in.o0.w = 4 \/ in.o0.k = "Imm"
  PROVE  Done(WasmPushOperand(m, in, i), ExecMove(g, in), i)
<1> DEFINE o == in.o0
           p == SignExtend(Value(g, o), o.w, 4)
<1>1. m.c \in Cpus /\ g \in Cpus /\ Even(m.c, g) /\ o.w \in Width
  BY AlongFact, PlacesFact
<1>2. ExecMove(g, in) = IF Readable(g, o) THEN Push32(g, p) ELSE Fault(g)
  BY DEF ExecMove
<1>3. WasmOk(m.c, o) <=> Readable(g, o)
  BY <1>1, GuardFact
<1>4. CASE Readable(g, o)
  <2>1. /\ Value(g, o) \in Dwords /\ Value(g, o) \in Int /\ (o.k # "Imm" => WasmValue(m.c, o) = Value(g, o))
        /\ o.k = "Imm" => Value(g, o) = o.v
    BY <1>1, <1>4, ValueFact, WasmValueFact, PlacesFact
  <2>2. p \in Int
    BY <1>1, <2>1, ExtendFact
  <2>3. WasmPushOperand(m, in, i) = WasmPush(m, p, i)
    <3>1. CASE o.k = "Imm"
      BY <1>3, <1>4, <2>1, <3>1 DEF WasmPushOperand
    <3>2. CASE o.k # "Imm"
      <4>1. p = Value(g, o)
        BY <2>1, <3>2, ExtendWhole
      <4> HIDE DEF p
      <4> QED
        BY <1>3, <1>4, <2>1, <3>2, <4>1 DEF WasmPushOperand
    <3> QED
      BY <3>1, <3>2
  <2> HIDE DEF p
  <2> QED
    BY <1>2, <1>4, <2>2, <2>3, WasmPushFact
<1>5. CASE ~Readable(g, o)
  <2>1. WasmPushOperand(m, in, i) = MemoryFaultAt(m, i)
    BY <1>3, <1>5 DEF WasmPushOperand
  <2> QED
    BY <1>2, <1>5, <2>1, FaultDone
<1> QED
  BY <1>4, <1>5

(* x86p_wasm_pop_lower.                                                      *)
LEMMA PopOperandFact ==
  ASSUME NEW m, NEW g, NEW i, Along(m, g, i), Sure(m), NEW in, in.op = "Pop", in.o0 \in Places, Plain(in.o0)
  PROVE  Done(WasmPopOperand(m, in, i), ExecMove(g, in), i)
<1> DEFINE p == WasmPopped(m, 0, i)
<1>1. ExecMove(g, in) = IF CanPop(g) THEN Write(AfterPop(g), in.o0, Popped(g)) ELSE Fault(g)
  BY DEF ExecMove
<1>2. /\ CanPop(g) => Along(p, AfterPop(g), i) /\ Sure(p) /\ WasmTop(m) = Popped(g) /\ Popped(g) \in Int
      /\ ~CanPop(g) => Done(p, Fault(g), i) /\ ~p.in
      /\ p.in <=> CanPop(g)
  <2>0. PICK release \in Int : release = 0
    OBVIOUS
  <2> DEFINE q == WasmPopped(m, release, i)
             h == [AfterPop(g) EXCEPT !.reg[Esp] = Trunc(@ + release, 4)]
  <2>1. /\ CanPop(g) => Along(q, h, i) /\ (Sure(m) => Sure(q)) /\ WasmTop(m) = Popped(g) /\ Popped(g) \in Int
        /\ ~CanPop(g) => Done(q, Fault(g), i) /\ ~q.in
        /\ q.in <=> CanPop(g)
        /\ release = 0 => h = AfterPop(g)
    BY WasmPopFact
  <2>2. p = q
    BY <2>0
  <2> HIDE DEF h, p, q
  <2> QED
    BY <2>0, <2>1, <2>2
<1>3. WasmPopOperand(m, in, i) = IF ~p.in THEN p ELSE IF WasmOk(p.c, in.o0) THEN WasmWrite(p, in.o0, WasmTop(m)) ELSE MemoryFaultAt(p, i)
  BY DEF WasmPopOperand
<1> HIDE DEF p
<1>4. CASE CanPop(g)
  <2>1. Done(IF WasmOk(p.c, in.o0) THEN WasmWrite(p, in.o0, Popped(g)) ELSE MemoryFaultAt(p, i), Write(AfterPop(g), in.o0, Popped(g)), i)
    BY <1>2, <1>4, MoveDone
  <2> QED
    BY <1>1, <1>2, <1>3, <1>4, <2>1
<1>5. CASE ~CanPop(g)
  BY <1>1, <1>2, <1>3, <1>5
<1> QED
  BY <1>4, <1>5

(* The target of a transfer.                                                 *)
LEMMA TargetFact ==
  ASSUME NEW d \in Cpus, NEW e \in Cpus, Even(d, e), NEW o \in Sources(4), Plain(o), Readable(e, o)
  PROVE  /\ Exit(d, WasmValue(d, o), "BlockEnd") = Exit(d, Value(e, o), "BlockEnd") /\ Value(e, o) \in Dwords
         /\ \A m : Exit(m, WasmValue(d, o), "BlockEnd") = Exit(m, Value(e, o), "BlockEnd")
<1>1. o \in Places \cup Immediates /\ Means(o, 4)
  BY DEF Sources, Means, Places, Registers, Memories, MemoryOf
<1>2. Trunc(WasmValue(d, o), 4) = Trunc(Value(e, o), 4) /\ Value(e, o) \in Dwords
  BY <1>1, WasmValueFact, ValueFact, NamesFact
<1> QED
  BY <1>2 DEF Exit

(* x86p_wasm_jmp_lower, _call_lower, _ret_lower.                             *)
LEMMA JumpFact ==
  ASSUME NEW m, NEW g, NEW i, Along(m, g, i), Sure(m), NEW in, in.op = "Jmp", in.o0 \in Sources(4), Plain(in.o0)
  PROVE  Done(WasmJump(m, in, i), ExecJump(g, in), i)
<1> DEFINE o == in.o0
<1>1. m.c \in Cpus /\ g \in Cpus /\ Even(m.c, g) /\ o \in Places \cup Immediates
  BY AlongFact DEF Sources
<1>2. ExecJump(g, in) = IF Readable(g, o) THEN Goto(g, Value(g, o)) ELSE Fault(g)
  BY DEF ExecJump
<1>3. WasmOk(m.c, o) <=> Readable(g, o)
  BY <1>1, GuardFact
<1>4. CASE Readable(g, o)
  <2>1. WasmJump(m, in, i) = Exit(m, WasmValue(m.c, o), "BlockEnd")
    BY <1>3, <1>4 DEF WasmJump
  <2>2. Exit(m, WasmValue(m.c, o), "BlockEnd") = Exit(m, Value(g, o), "BlockEnd") /\ Value(g, o) \in Dwords
    BY <1>1, <1>4, TargetFact
  <2> QED
    BY <1>2, <1>4, <2>1, <2>2, LeaveDone
<1>5. CASE ~Readable(g, o)
  <2>1. WasmJump(m, in, i) = MemoryFaultAt(m, i)
    BY <1>3, <1>5 DEF WasmJump
  <2> QED
    BY <1>2, <1>5, <2>1, FaultDone
<1> QED
  BY <1>4, <1>5

(* x86p_wasm_call_lower.                                                     *)
LEMMA CallFact ==
  ASSUME NEW m, NEW g, NEW i, Along(m, g, i), Sure(m), NEW in, in.op = "Call", in.o0 \in Sources(4), Plain(in.o0)
  PROVE  Done(WasmCall(m, in, i), ExecCall(g, in), i)
<1> DEFINE o == in.o0
           p == WasmPush(m, i, i)
           h == Push32(g, i)
<1>1. m.c \in Cpus /\ g \in Cpus /\ Even(m.c, g) /\ o \in Places \cup Immediates /\ i \in Int /\ g.next = i
  BY AlongFact DEF Sources
<1>2. ExecCall(g, in) = IF Readable(g, o) THEN Goto(h, Value(g, o)) ELSE Fault(g)
  BY <1>1 DEF ExecCall
<1>3. WasmOk(m.c, o) <=> Readable(g, o)
  BY <1>1, GuardFact
<1>4. CASE Readable(g, o)
  <2>1. Exit(p, WasmValue(m.c, o), "BlockEnd") = Exit(p, Value(g, o), "BlockEnd") /\ Value(g, o) \in Dwords
    BY <1>1, <1>4, TargetFact
  <2>2. p.in => Along(p, h, i)
    BY <1>1, WasmPushFact
  <2>3. ~p.in => Done(p, h, i) /\ h = Fault(g)
    BY <1>1, WasmPushFact
  <2>4. WasmCall(m, in, i) = IF p.in THEN Exit(p, WasmValue(m.c, o), "BlockEnd") ELSE p
    BY <1>3, <1>4 DEF WasmCall
  <2> HIDE DEF p, h
  <2>5. CASE p.in
    BY <1>2, <1>4, <2>1, <2>2, <2>4, <2>5, LeaveDone
  <2>6. CASE ~p.in
    <3>1. Done(p, h, i) /\ h.st # "Ok" /\ h.eip = i - 1
      BY <1>1, <2>3, <2>6, AlongFact DEF Fault, Stopped, Cpus
    <3>2. "Ok" \in Statuses /\ Twin(p.c, h)
      BY <3>1 DEF Statuses, Done
    <3>3. Twin(p.c, Goto(h, Value(g, o))) /\ Goto(h, Value(g, o)).st = h.st /\ Goto(h, Value(g, o)).eip = h.eip
      BY <2>1, <3>2, StopTwin
    <3>4. Done(p, Goto(h, Value(g, o)), i)
      BY <2>6, <3>1, <3>3 DEF Done
    <3> QED
      BY <1>2, <1>4, <2>4, <2>6, <3>4
  <2> QED
    BY <2>5, <2>6
<1>5. CASE ~Readable(g, o)
  <2>1. WasmCall(m, in, i) = MemoryFaultAt(m, i)
    BY <1>3, <1>5 DEF WasmCall
  <2> QED
    BY <1>2, <1>5, <2>1, FaultDone
<1> QED
  BY <1>4, <1>5

(* x86p_wasm_ret_lower.                                                      *)
LEMMA RetFact ==
  ASSUME NEW m, NEW g, NEW i, Along(m, g, i), Sure(m), NEW in, in.op = "Ret", in.n = 1 => in.o0 \in Immediates
  PROVE  Done(WasmRet(m, in, i), ExecCall(g, in), i)
<1> DEFINE release == IF in.n = 1 THEN in.o0.v ELSE 0
           p == WasmPopped(m, release, i)
           h == [AfterPop(g) EXCEPT !.reg[Esp] = Trunc(@ + release, 4)]
<1>1. release \in Int
  <2>1. in.n = 1 => in.o0.v \in Dwords
    BY DEF Immediates
  <2> QED
    BY <2>1, DwordsFact
<1>2. ExecCall(g, in) = IF CanPop(g) THEN Goto(h, Popped(g)) ELSE Fault(g)
  BY DEF ExecCall
<1>3. WasmRet(m, in, i) = IF p.in THEN Exit(p, WasmTop(m), "BlockEnd") ELSE p
  BY DEF WasmRet
<1> HIDE DEF release
<1>4. /\ CanPop(g) => Along(p, h, i) /\ WasmTop(m) = Popped(g) /\ Popped(g) \in Dwords
      /\ ~CanPop(g) => Done(p, Fault(g), i) /\ ~p.in
      /\ p.in <=> CanPop(g)
  BY <1>1, WasmPopFact
<1> HIDE DEF p, h
<1>5. CASE CanPop(g)
  BY <1>2, <1>3, <1>4, <1>5, LeaveDone
<1>6. CASE ~CanPop(g)
  BY <1>2, <1>3, <1>4, <1>6
<1> QED
  BY <1>5, <1>6

(* x86p_wasm_jcc_lower, _jecxz_lower.                                        *)
LEMMA JccFact ==
  ASSUME NEW m, NEW g, NEW i, Along(m, g, i), Sure(m), NEW in, in.op = "Jcc", in.cc \in Conds, in.o0 \in Immediates
  PROVE  Done(WasmSideExit(m, in), ExecJump(g, in), i)
<1>1. WasmCond(m, in.cc) <=> Cond(in.cc, g.flags)
  <2>1. WasmCond(m, in.cc) <=> Cond(in.cc, m.c.flags)
    BY AlongFact, WasmCondFact DEF Sure
  <2>2. Cond(in.cc, m.c.flags) = Cond(in.cc, g.flags)
    BY AlongFact, SameCond
  <2> QED
    BY <2>1, <2>2
<1>2. in.o0.v \in Dwords
  BY DEF Immediates
<1>3. ExecJump(g, in) = IF Cond(in.cc, g.flags) THEN Goto(g, in.o0.v) ELSE g
  BY DEF ExecJump
<1>4. WasmSideExit(m, in) = IF WasmCond(m, in.cc) THEN Exit(m, in.o0.v, "BlockEnd") ELSE m
  BY DEF WasmSideExit
<1> QED
  BY <1>1, <1>2, <1>3, <1>4, LeaveDone, AlongDone

(* The JECXZ side exit.                                                      *)
LEMMA JecxzFact ==
  ASSUME NEW m, NEW g, NEW i, Along(m, g, i), Sure(m), NEW in, in.op = "Jecxz", in.aw = 32, in.o0 \in Immediates
  PROVE  Done(WasmSideExit(m, in), ExecLoop(g, in), i)
<1>1. m.c \in Cpus /\ g \in Cpus /\ m.c.reg = g.reg
  BY AlongFact
<1>2. ReadReg(m.c, Ecx, 4) = g.reg[Ecx]
  <2>1. g.reg[Ecx] \in Dwords
    BY <1>1, CpusFact, NamesFact
  <2>2. ReadReg(m.c, Ecx, 4) = Trunc(g.reg[Ecx], 4)
    BY <1>1 DEF ReadReg
  <2> QED
    BY <2>1, <2>2, DwordsFact
<1>3. in.o0.v \in Dwords
  BY DEF Immediates
<1>4. ExecLoop(g, in) = IF g.reg[Ecx] = 0 THEN Goto(g, in.o0.v) ELSE g
  BY DEF ExecLoop
<1>5. WasmSideExit(m, in) = IF ReadReg(m.c, Ecx, in.aw \div 8) = 0 THEN Exit(m, in.o0.v, "BlockEnd") ELSE m
  BY DEF WasmSideExit
<1>6. in.aw \div 8 = 4
  OBVIOUS
<1>7. WasmSideExit(m, in) = IF g.reg[Ecx] = 0 THEN Exit(m, in.o0.v, "BlockEnd") ELSE m
  BY <1>2, <1>5, <1>6
<1> QED
  BY <1>3, <1>4, <1>7, LeaveDone, AlongDone

(* x86p_wasm_loop_lower.                                                     *)
LEMMA LoopFact ==
  ASSUME NEW m, NEW g, NEW i, Along(m, g, i), Sure(m), NEW in, in.op \in {"Loop", "Loope", "Loopne"}, in.aw \in {16, 32},
         in.o0 \in Immediates
  PROVE  Done(WasmLoop(m, in, i), ExecLoop(g, in), i)
<1> DEFINE w == in.aw \div 8
<1>1. w \in Width
  BY DEF Width
<1>2. m.c \in Cpus /\ g \in Cpus /\ Even(m.c, g) /\ m.c.reg = g.reg /\ g.reg \in [0 .. 7 -> Dwords] /\ SameRecord(m.c.flags, g.flags)
  BY AlongFact, CpusFact
<1> HIDE DEF w
<1>3. ReadReg(g, Ecx, w) \in Int /\ ReadReg(m.c, Ecx, w) = ReadReg(g, Ecx, w)
  BY <1>1, <1>2, ReadRegFact, NamesFact
<1> DEFINE f == WriteReg(m.c, Ecx, w, ReadReg(g, Ecx, w) - 1)
           h == WriteReg(g, Ecx, w, ReadReg(g, Ecx, w) - 1)
<1>4. LoopCounted(m.c, in.aw) = f /\ LoopCounted(g, in.aw) = h
  BY <1>3 DEF LoopCounted, w
<1>5. Moved(m.c, g, f, h)
  BY <1>1, <1>2, <1>3, WriteRegMoved, NamesFact
<1> HIDE DEF f, h
<1>6. LoopTaken(m.c, in.op, in.aw) <=> LoopTaken(g, in.op, in.aw)
  <2>1. f.reg = h.reg
    BY <1>5 DEF Moved, Even
  <2>2. ReadReg(f, Ecx, w) = ReadReg(h, Ecx, w)
    BY <2>1 DEF ReadReg
  <2>3. ZF(m.c.flags) = ZF(g.flags)
    BY <1>2, SameEflags
  <2> QED
    BY <1>4, <2>2, <2>3 DEF LoopTaken, w
<1>7. Along([m EXCEPT !.c = f], h, i)
  BY <1>5, PutAlong
<1>8. in.o0.v \in Dwords
  BY DEF Immediates
<1> DEFINE n == [m EXCEPT !.c = f]
<1>9. WasmLoop(m, in, i) = IF LoopTaken(m.c, in.op, in.aw) THEN Exit(n, in.o0.v, "BlockEnd") ELSE Exit(n, i, "BlockEnd")
  BY <1>4 DEF WasmLoop
<1>10. ExecLoop(g, in) = IF LoopTaken(g, in.op, in.aw) THEN Goto(h, in.o0.v) ELSE h
  BY <1>4 DEF ExecLoop
<1> HIDE DEF n
<1>11. Along(n, h, i)
  BY <1>7 DEF n
<1> QED
  BY <1>6, <1>8, <1>9, <1>10, <1>11, LeaveDone

(* x86p_wasm_trap_lower, x86p_wasm_privilege_lower.                          *)
LEMMA TrapFact ==
  ASSUME NEW m, NEW g, NEW i, Along(m, g, i), Sure(m), NEW in, in.op \in {"Int", "Into", "Hlt"}
  PROVE  Done(WasmTrap(m, in, i), ExecTrap(g, in), i)
<1>1. OF(m.c.flags) = OF(g.flags)
  BY AlongFact, SameEflags
<1>2. "Interrupt" \in Statuses /\ "ProtectionFault" \in Statuses /\ "Interrupt" # "Ok" /\ "ProtectionFault" # "Ok"
  BY DEF Statuses
<1>3. CASE in.op = "Hlt"
  <2>1. WasmTrap(m, in, i) = Exit(m, i - 1, "ProtectionFault") /\ ExecTrap(g, in) = Stopped(g, "ProtectionFault")
    BY <1>3 DEF WasmTrap, ExecTrap
  <2> QED
    BY <1>2, <2>1, StopDone
<1>4. CASE in.op = "Int" \/ (in.op = "Into" /\ OF(g.flags))
  <2>1. WasmTrap(m, in, i) = Exit(m, i - 1, "Interrupt") /\ ExecTrap(g, in) = Stopped(g, "Interrupt")
    BY <1>1, <1>4 DEF WasmTrap, ExecTrap
  <2> QED
    BY <1>2, <2>1, StopDone
<1>5. CASE in.op = "Into" /\ ~OF(g.flags)
  <2>1. WasmTrap(m, in, i) = Exit(m, i, "BlockEnd") /\ ExecTrap(g, in) = g
    BY <1>1, <1>5 DEF WasmTrap, ExecTrap
  <2>2. 0 \in Dwords
    BY DwordsFact
  <2> QED
    BY <2>1, <2>2, LeaveDone
<1> QED
  BY <1>3, <1>4, <1>5

(* One register.                                                             *)
LEMMA SetRegDone ==
  ASSUME NEW m, NEW g, NEW i, Along(m, g, i), Sure(m), NEW r \in 0 .. 7, NEW v \in Dwords
  PROVE  Done([m EXCEPT !.c.reg[r] = v], [g EXCEPT !.reg[r] = v], i)
<1>1. Even(m.c, g)
  BY AlongFact
<1> DEFINE f == [m.c EXCEPT !.reg[r] = v]
           h == [g EXCEPT !.reg[r] = v]
<1>2. Moved(m.c, g, f, h)
  BY <1>1, SetRegMoved
<1>3. [m EXCEPT !.c.reg[r] = v] = [m EXCEPT !.c = f]
  OBVIOUS
<1> HIDE DEF f, h
<1>4. Done([m EXCEPT !.c = f], h, i)
  BY <1>2, PutAlong, AlongDone
<1> QED
  BY <1>3, <1>4 DEF h

(* The bytes of a dword in reverse.                                          *)
LEMMA Appended ==
  ASSUME NEW p \in Nat \ {0}, NEW n \in Nat \ {0}, NEW a \in 0 .. p - 1, NEW b \in 0 .. n - 1
  PROVE  a + p * b \in 0 .. p * n - 1
<1>1. p * b <= p * (n - 1) /\ p * b \in Nat
  OBVIOUS
<1>2. p * (n - 1) = p * n - p /\ p * n \in Nat
  OBVIOUS
<1> QED
  BY <1>1, <1>2

(* BSWAP gives a dword.                                                      *)
LEMMA SwappedFact ==
  ASSUME NEW v \in Dwords
  PROVE  Swapped(v) \in Dwords
<1>0. PICK b \in Nat : b = ByteBits /\ b >= 2 /\ Bits(4) = 4 * b /\ Bits(1) = b
  BY BitsFact
<1>1. PICK p \in Nat \ {0} : p = Power(b)
  <2>1. b \in 0 .. Bits(4) + 1
    BY <1>0
  <2> QED
    BY <2>1, PowerFact
<1>2. PICK q \in Nat \ {0} : q = p * p
  OBVIOUS
<1>3. Power(Bits(4)) = p * (p * q)
  <2>1. Power(b + b) = p * p /\ Power((b + b) + (b + b)) = Power(b + b) * Power(b + b)
    BY <1>0, <1>1, PowerAdd
  <2>2. (b + b) + (b + b) = Bits(4) /\ q * q = p * (p * q)
    BY <1>0, <1>2
  <2> QED
    BY <1>2, <2>1, <2>2
<1>4. \A j \in 0 .. 3 : ByteOf(v, j) \in 0 .. p - 1
  BY <1>0, <1>1, ByteFact, DwordsFact DEF Bytes
<1>5. PICK a \in 0 .. p - 1, d \in 0 .. p - 1, e \in 0 .. p - 1, f \in 0 .. p - 1 :
        a = ByteOf(v, 3) /\ d = ByteOf(v, 2) /\ e = ByteOf(v, 1) /\ f = ByteOf(v, 0)
  BY <1>4
<1>6. e + p * f \in 0 .. q - 1
  BY <1>2, Appended
<1>7. d + p * (e + p * f) \in 0 .. p * q - 1 /\ p * q \in Nat \ {0}
  BY <1>6, Appended
<1>8. a + p * (d + p * (e + p * f)) \in 0 .. p * (p * q) - 1
  BY <1>7, Appended
<1> QED
  BY <1>0, <1>1, <1>3, <1>5, <1>8 DEF Swapped, Dwords

(* x86p_wasm_cdq_lower: the sign, taken by a shift.                           *)
LEMMA CdqFact ==
  ASSUME NEW v \in Dwords
  PROVE  /\ Trunc(Signed(v, 4) \div Power(Bits(4) - 1), 4) = (IF Msb(v, 4) = 1 THEN Power(Bits(4)) - 1 ELSE 0)
         /\ (IF Msb(v, 4) = 1 THEN Power(Bits(4)) - 1 ELSE 0) \in Dwords
<1>1. PICK h \in Nat \ {0} : h = Power(Bits(4) - 1) /\ Power(Bits(4)) = 2 * h
  BY WidthFact, NamesFact
<1>2. v \in 0 .. 2 * h - 1
  BY <1>1 DEF Dwords
<1>3. /\ Msb(v, 4) = (IF v >= h THEN 1 ELSE 0)
      /\ Signed(v, 4) = (IF v >= h THEN v - 2 * h ELSE v)
  BY <1>1, <1>2, SignFact, NamesFact
<1>4. CASE v < h
  <2>1. v \div h = 0
    BY <1>2, <1>4
  <2>2. Trunc(0, 4) = 0 /\ 0 \in Dwords
    BY DwordsFact
  <2> QED
    BY <1>1, <1>2, <1>3, <1>4, <2>1, <2>2
<1>5. CASE v >= h
  <2>1. PICK q \in Int : q = -1
    OBVIOUS
  <2>2. h * q = -h /\ (2 * h) * q = -(2 * h)
    BY <2>1
  <2>3. v - h \in 0 .. h - 1 /\ v - 2 * h = h * q + (v - h)
    BY <1>2, <1>5, <2>2
  <2>4. (h * q + (v - h)) \div h = q
    BY <2>3, DivUnique
  <2>5. (v - 2 * h) \div h = q
    BY <2>3, <2>4
  <2>6. Trunc(q, 4) = 2 * h - 1
    <3>1. PICK n \in Nat \ {0} : n = 2 * h
      OBVIOUS
    <3>2. n * q + (n - 1) = q /\ n - 1 \in 0 .. n - 1
      BY <2>1, <2>2, <3>1
    <3>3. (n * q + (n - 1)) % n = n - 1
      BY <3>2, DivUnique
    <3>4. q % n = n - 1
      BY <3>2, <3>3
    <3> QED
      BY <1>1, <3>1, <3>4 DEF Trunc
  <2>7. 2 * h - 1 \in Dwords
    BY <1>1 DEF Dwords
  <2>8. Signed(v, 4) = v - 2 * h /\ Msb(v, 4) = 1
    BY <1>3, <1>5
  <2> QED
    BY <1>1, <2>5, <2>6, <2>7, <2>8
<1> QED
  BY <1>2, <1>4, <1>5

(* x86p_wasm_cdq_lower, x86p_wasm_cwde_lower and x86p_wasm_bswap_lower.      *)
LEMMA ConvertFact ==
  ASSUME NEW m, NEW g, NEW i, Along(m, g, i), Sure(m), NEW in, in.op \in {"Cdq", "Cwde", "Bswap"},
         in.op = "Bswap" => in.o0 \in Registers
  PROVE  Done(WasmConvert(m, in), ExecFrame(g, in), i)
<1>1. m.c \in Cpus /\ g \in Cpus /\ m.c.reg = g.reg /\ \A r \in 0 .. 7 : g.reg[r] \in Dwords /\ g.reg[r] \in Int
  BY AlongFact, CpusFact
<1>2. CASE in.op = "Cdq"
  <2> DEFINE v == IF Msb(g.reg[Eax], 4) = 1 THEN Power(Bits(4)) - 1 ELSE 0
  <2>1. v \in Dwords /\ Trunc(Signed(m.c.reg[Eax], 4) \div Power(Bits(4) - 1), 4) = v
    BY <1>1, CdqFact, NamesFact
  <2>2. WasmConvert(m, in) = [m EXCEPT !.c.reg[Edx] = Trunc(Signed(m.c.reg[Eax], 4) \div Power(Bits(4) - 1), 4)]
    BY <1>2 DEF WasmConvert
  <2>3. ExecFrame(g, in) = [g EXCEPT !.reg[Edx] = v]
    BY <1>2 DEF ExecFrame
  <2> HIDE DEF v
  <2> QED
    BY <2>1, <2>2, <2>3, SetRegDone, NamesFact
<1>3. CASE in.op = "Cwde"
  <2> DEFINE v == SignExtend(g.reg[Eax], 2, 4)
  <2>1. v \in Dwords
    BY <1>1, ExtendFact, NamesFact
  <2>2. WasmConvert(m, in) = [m EXCEPT !.c.reg[Eax] = v]
    BY <1>1, <1>3 DEF WasmConvert
  <2>3. ExecFrame(g, in) = [g EXCEPT !.reg[Eax] = v]
    BY <1>3 DEF ExecFrame
  <2> HIDE DEF v
  <2> QED
    BY <2>1, <2>2, <2>3, SetRegDone, NamesFact
<1>4. CASE in.op = "Bswap"
  <2>0. in.o0.r \in 0 .. 7
    BY <1>4 DEF Registers
  <2> DEFINE v == Swapped(g.reg[in.o0.r])
  <2>1. v \in Dwords
    BY <1>1, <2>0, SwappedFact
  <2>2. WasmConvert(m, in) = [m EXCEPT !.c.reg[in.o0.r] = v]
    BY <1>1, <1>4 DEF WasmConvert
  <2>3. ExecFrame(g, in) = [g EXCEPT !.reg[in.o0.r] = v]
    BY <1>4 DEF ExecFrame
  <2> HIDE DEF v
  <2> QED
    BY <2>0, <2>1, <2>2, <2>3, SetRegDone
<1> QED
  BY <1>2, <1>3, <1>4

(* x86p_wasm_cld_lower and x86p_wasm_std_lower.                              *)
LEMMA DirectionFact ==
  ASSUME NEW m, NEW g, NEW i, Along(m, g, i), Sure(m), NEW in, in.op \in {"Cld", "Std"}
  PROVE  Done(WasmConvert(m, in), ExecDirection(g, in), i)
<1>1. m.c \in Cpus /\ g \in Cpus /\ Even(m.c, g)
  BY AlongFact
<1> DEFINE df == IF in.op = "Std" THEN 1 ELSE 0
<1>2. df \in {0, 1}
  OBVIOUS
<1>3. WasmConvert(m, in) = [m EXCEPT !.c.df = df]
  BY DEF WasmConvert
<1>4. ExecDirection(g, in) = [g EXCEPT !.df = df]
  BY DEF ExecDirection
<1> HIDE DEF df
<1>5. [m EXCEPT !.c.df = df] = [m EXCEPT !.c = [m.c EXCEPT !.df = df]]
  OBVIOUS
<1>6. Moved(m.c, g, [m.c EXCEPT !.df = df], [g EXCEPT !.df = df])
  BY <1>1, <1>2, SetDf
<1> QED
  BY <1>3, <1>4, <1>5, <1>6, PutAlong, AlongDone

(* x86p_wasm_leave_lower.                                                    *)
LEMMA LeaveFact ==
  ASSUME NEW m, NEW g, NEW i, Along(m, g, i), Sure(m), NEW in, in.op = "Leave"
  PROVE  Done(WasmLeave(m, i), ExecFrame(g, in), i)
<1> DEFINE ebp == g.reg[Ebp]
           d == [g EXCEPT !.reg[Esp] = ebp]
           e == [m.c EXCEPT !.reg[Esp] = ebp]
<1>1. m.c \in Cpus /\ g \in Cpus /\ Even(m.c, g) /\ m.c.reg = g.reg /\ m \in Blocks
  BY AlongFact
<1>2. ebp \in Dwords /\ ebp \in Int
  BY <1>1, CpusFact, NamesFact
<1>3. Moved(m.c, g, e, d) /\ e.mem = m.c.mem
  <2> HIDE DEF ebp
  <2> QED
    BY <1>1, <1>2, SetRegMoved, NamesFact
<1>4. d.reg[Esp] = ebp
  <2> HIDE DEF ebp
  <2> QED
    BY <1>1, NamesFact DEF Cpus
<1>5. ExecFrame(g, in) = IF CanPop(d) THEN [AfterPop(d) EXCEPT !.reg[Ebp] = Popped(d)] ELSE Fault(d)
  BY DEF ExecFrame
<1> DEFINE n == [m EXCEPT !.c.reg[Esp] = ebp]
<1>6. WasmLeave(m, i) = IF ~InBounds(ebp, 4) THEN MemoryFaultAt(n, i)
                        ELSE [n EXCEPT !.c.reg[Esp] = Trunc(ebp + 4, 4), !.c.reg[Ebp] = Load(m.c, ebp, 4)]
  BY <1>1 DEF WasmLeave
<1>7. n = [m EXCEPT !.c = e]
  OBVIOUS
<1> HIDE DEF e
<1>8. Along(n, d, i) /\ Sure(n) /\ n.c = e
  <2>1. PICK f, h : f = e /\ h = d
    OBVIOUS
  <2> HIDE DEF d, ebp, n
  <2>2. Moved(m.c, g, f, h) /\ n = [m EXCEPT !.c = f]
    BY <1>3, <1>7, <2>1
  <2>3. Along([m EXCEPT !.c = f], h, i) /\ (Sure(m) => Sure([m EXCEPT !.c = f]))
    BY <2>2, PutAlong
  <2>4. [m EXCEPT !.c = f].c = f
    BY <1>1 DEF Blocks
  <2> QED
    BY <2>1, <2>2, <2>3, <2>4
<1> HIDE DEF n, d, ebp
<1>9. Even(e, d) /\ e \in Cpus /\ d \in Cpus
  BY <1>3 DEF Moved, Even
<1>10. /\ CanPop(d) <=> InBounds(ebp, 4)
       /\ Moved(e, d, AfterPop(e), AfterPop(d))
       /\ CanPop(d) => Popped(e) = Popped(d) /\ Popped(d) \in Dwords
       /\ AfterPop(e) = [e EXCEPT !.reg[Esp] = Trunc(ebp + 4, 4)]
  BY <1>4, <1>9, PopFact
<1>11. CASE CanPop(d)
  <2> DEFINE v == Popped(d)
             f == [AfterPop(e) EXCEPT !.reg[Ebp] = v]
             h == [AfterPop(d) EXCEPT !.reg[Ebp] = v]
  <2>1. v \in Dwords /\ Load(m.c, ebp, 4) = v
    <3>1. e.reg[Esp] = ebp
      BY <1>4, <1>9 DEF Even
    <3>2. Load(m.c, ebp, 4) = Load(e, ebp, 4)
      BY <1>3, LoadIs
    <3> QED
      BY <1>10, <1>11, <3>1, <3>2 DEF Popped
  <2> HIDE DEF v
  <2>2. Moved(AfterPop(e), AfterPop(d), f, h)
    BY <1>10, <2>1, SetRegMoved, NamesFact DEF Moved
  <2>3. Moved(e, d, f, h)
    BY <1>10, <2>2, MovedTwice
  <2>4. [n EXCEPT !.c.reg[Esp] = Trunc(ebp + 4, 4), !.c.reg[Ebp] = v] = [n EXCEPT !.c = f]
    <3>1. [n EXCEPT !.c.reg[Esp] = Trunc(ebp + 4, 4), !.c.reg[Ebp] = v]
            = [n EXCEPT !.c = [[n.c EXCEPT !.reg[Esp] = Trunc(ebp + 4, 4)] EXCEPT !.reg[Ebp] = v]]
      <4>1. n.c \in Cpus /\ n \in Blocks
        BY <1>8, AlongFact
      <4>2. PICK t : t = Trunc(ebp + 4, 4)
        OBVIOUS
      <4>3. [n EXCEPT !.c.reg[Esp] = t, !.c.reg[Ebp] = v] = [n EXCEPT !.c = [[n.c EXCEPT !.reg[Esp] = t] EXCEPT !.reg[Ebp] = v]]
        BY <4>1, NamesFact DEF Blocks, Cpus
      <4> QED
        BY <4>2, <4>3
    <3> QED
      BY <1>8, <1>10, <3>1
  <2> HIDE DEF f, h
  <2>5. Done([n EXCEPT !.c = f], h, i)
    BY <1>8, <2>3, PutAlong, AlongDone
  <2>6. WasmLeave(m, i) = [n EXCEPT !.c = f] /\ ExecFrame(g, in) = h
    BY <1>5, <1>6, <1>10, <1>11, <2>1, <2>4 DEF v, h
  <2> QED
    BY <2>5, <2>6
<1>12. CASE ~CanPop(d)
  BY <1>5, <1>6, <1>8, <1>10, <1>12, FaultDone
<1> QED
  BY <1>11, <1>12

(* The block on one state and the interpreter on its twin.                   *)
LEMMA TwinAlong ==
  ASSUME NEW m, NEW g, NEW i, Along(m, g, i), NEW f, NEW h, Twin(f, h), f.st = "Ok", h.st = "Ok", h.eip = g.eip, h.next = g.next
  PROVE  /\ Along([m EXCEPT !.c = f], h, i) /\ [m EXCEPT !.c = f].c = f
         /\ [m EXCEPT !.c = f].last = m.last /\ [m EXCEPT !.c = f].lw = m.lw
<1>1. m \in Blocks /\ f \in Cpus
  BY AlongFact DEF Twin, Even
<1> QED
  BY <1>1, PutFact DEF Along

(* Both set their flags outright.                                            *)
LEMMA ExplicitAlong ==
  ASSUME NEW m, NEW g, NEW i, Along(m, g, i), NEW d, NEW e, Even(d, e), d.st = "Ok", e.st = "Ok", e.eip = g.eip, e.next = g.next,
         NEW f \in SUBSET ArithFlags
  PROVE  Done(WasmWritten([m EXCEPT !.c = Explicitly(d, f)], "Explicit", 0), Explicitly(e, f), i)
<1>1. PICK p, q : p = Explicitly(d, f) /\ q = Explicitly(e, f)
  OBVIOUS
<1>2. Twin(p, q) /\ p.flags = SetExplicit(f) /\ p.st = "Ok" /\ q.st = "Ok" /\ q.eip = g.eip /\ q.next = g.next
  <2>1. /\ Twin(Explicitly(d, f), Explicitly(e, f)) /\ Explicitly(d, f).flags = SetExplicit(f)
        /\ Explicitly(d, f).st = d.st /\ Explicitly(e, f).eip = e.eip /\ Explicitly(e, f).next = e.next /\ Explicitly(e, f).st = e.st
    BY ExplicitlyFact
  <2> QED
    BY <1>1, <2>1
<1>3. Along([m EXCEPT !.c = p], q, i) /\ [m EXCEPT !.c = p].c = p
  BY <1>2, TwinAlong
<1>4. p.flags.kind = "Explicit"
  BY <1>2, ExplicitFact
<1>5. PICK u : u = [m EXCEPT !.c = p]
  OBVIOUS
<1>6. Done(WasmWritten(u, "Explicit", 0), q, i)
  BY <1>3, <1>4, <1>5, ExplicitDone
<1> QED
  BY <1>1, <1>5, <1>6

(* x86p_wasm_flags_lower.                                                    *)
LEMMA FlagsFact ==
  ASSUME NEW m, NEW g, NEW i, Along(m, g, i), Sure(m), NEW in, in.op \in {"Sahf", "Lahf", "Salc", "Stc", "Clc", "Cmc"}
  PROVE  Done(WasmFlags(m, in), ExecFlags(g, in), i)
<1>1. /\ m.c \in Cpus /\ g \in Cpus /\ Even(m.c, g) /\ m.c.reg = g.reg /\ m.c.st = "Ok" /\ g.st = "Ok"
      /\ Eflags(m.c.flags) = Eflags(g.flags) /\ CF(m.c.flags) = CF(g.flags) /\ Eflags(g.flags) \in SUBSET ArithFlags
  BY AlongFact, SameEflags, EflagsFact
<1>2. CASE in.op = "Sahf"
  <2> DEFINE f == (Eflags(g.flags) \cap {"OF"}) \cup {x \in LowFlags : Bit(ReadReg(g, 4, 1), Position[x]) = 1}
  <2>1. ReadReg(m.c, 4, 1) = ReadReg(g, 4, 1)
    BY <1>1 DEF ReadReg
  <2>2. Sahf(m.c) = Explicitly(m.c, f) /\ Sahf(g) = Explicitly(g, f)
    BY <1>1, <2>1 DEF Sahf
  <2>3. f \in SUBSET ArithFlags
    BY <1>1 DEF LowFlags, ArithFlags
  <2>4. WasmFlags(m, in) = WasmWritten([m EXCEPT !.c = Sahf(m.c)], "Explicit", 0) /\ ExecFlags(g, in) = Sahf(g)
    BY <1>2 DEF WasmFlags, ExecFlags
  <2> HIDE DEF f
  <2> QED
    BY <1>1, <2>2, <2>3, <2>4, ExplicitAlong
<1>3. CASE in.op \in {"Stc", "Clc", "Cmc"}
  <2> DEFINE e == Eflags(g.flags)
             on == in.op = "Stc" \/ (in.op = "Cmc" /\ "CF" \notin e)
             f == IF on THEN e \cup {"CF"} ELSE e \ {"CF"}
  <2>1. CarrySet(m.c, in.op) = Explicitly(m.c, f) /\ CarrySet(g, in.op) = Explicitly(g, f)
    BY <1>1 DEF CarrySet
  <2>2. f \in SUBSET ArithFlags
    BY <1>1 DEF ArithFlags
  <2>3. /\ WasmFlags(m, in) = WasmWritten([m EXCEPT !.c = CarrySet(m.c, in.op)], "Explicit", 0)
        /\ ExecFlags(g, in) = CarrySet(g, in.op)
    BY <1>3 DEF WasmFlags, ExecFlags
  <2> HIDE DEF f
  <2> QED
    BY <1>1, <2>1, <2>2, <2>3, ExplicitAlong
<1>4. ASSUME NEW r \in 0 .. 7, NEW v \in Int, WasmFlags(m, in) = [m EXCEPT !.c = WriteReg(m.c, r, 1, v)], ExecFlags(g, in) = WriteReg(g, r, 1, v)
      PROVE  Done(WasmFlags(m, in), ExecFlags(g, in), i)
  <2>1. PICK f, h : f = WriteReg(m.c, r, 1, v) /\ h = WriteReg(g, r, 1, v)
    OBVIOUS
  <2>2. Moved(m.c, g, f, h)
    BY <1>1, <2>1, WriteRegMoved, NamesFact
  <2>3. Along([m EXCEPT !.c = f], h, i) /\ (Sure(m) => Sure([m EXCEPT !.c = f]))
    BY <2>2, PutAlong
  <2> QED
    BY <1>4, <2>1, <2>3, AlongDone
<1>5. CASE in.op = "Salc"
  <2> DEFINE v == IF CF(g.flags) THEN Power(ByteBits) - 1 ELSE 0
  <2>1. v \in Int
    <3>1. Power(ByteBits) \in Int
      BY WidthFact, BitsFact, NamesFact
    <3> QED
      BY <3>1
  <2>2. WasmFlags(m, in) = [m EXCEPT !.c = WriteReg(m.c, 0, 1, v)] /\ ExecFlags(g, in) = WriteReg(g, 0, 1, v)
    BY <1>1, <1>5 DEF WasmFlags, ExecFlags
  <2> HIDE DEF v
  <2>3. 0 \in 0 .. 7
    OBVIOUS
  <2> QED
    BY <1>4, <2>1, <2>2, <2>3
<1>6. CASE in.op = "Lahf"
  <2> DEFINE low == [x \in LowFlags |-> IF x \in Eflags(g.flags) THEN Power(Position[x]) ELSE 0]
             v == 2 + low["CF"] + low["PF"] + low["AF"] + low["ZF"] + low["SF"]
  <2>1. \A x \in LowFlags : low[x] \in Int
    <3>1. \A x \in LowFlags : Position[x] \in 0 .. 11
      BY DEF LowFlags, Position
    <3> QED
      BY <3>1, PositionFact
  <2>2. Lahf(m.c) = WriteReg(m.c, 4, 1, v) /\ Lahf(g) = WriteReg(g, 4, 1, v)
    BY <1>1 DEF Lahf
  <2>3. v \in Int
    <3> HIDE DEF low
    <3> QED
      BY <2>1 DEF LowFlags
  <2>4. WasmFlags(m, in) = [m EXCEPT !.c = Lahf(m.c)] /\ ExecFlags(g, in) = Lahf(g)
    BY <1>6 DEF WasmFlags, ExecFlags
  <2> HIDE DEF v
  <2>5. 4 \in 0 .. 7
    OBVIOUS
  <2> QED
    BY <1>4, <2>2, <2>3, <2>4, <2>5
<1> QED
  BY <1>2, <1>3, <1>5, <1>6

(* x86p_cpu_eflags.                                                          *)
FlagStep(sum) ==
  [s \in SUBSET DOMAIN Position |->
     IF s = {} THEN 0 ELSE Power(Position[CHOOSE x \in s : TRUE]) + sum[s \ {CHOOSE x \in s : TRUE}]]
FlagSum == CHOOSE sum : sum = FlagStep(sum)

(* A sum of flag bits is a number.                                           *)
LEMMA FlagSumFact ==
  ASSUME NEW s \in SUBSET DOMAIN Position
  PROVE  FlagSum[s] \in Nat
<1> DEFINE S == DOMAIN Position
           f == [x \in S |-> Power(Position[x])]
<1>1. IsFiniteSet(S)
  <2>1. S = {"CF"} \cup {"PF"} \cup {"AF"} \cup {"ZF"} \cup {"SF"} \cup {"DF"} \cup {"OF"}
    BY DEF Position
  <2>2. \A x : IsFiniteSet({x})
    BY FS_Singleton
  <2> HIDE DEF S
  <2> QED
    BY <2>1, <2>2, FS_Union
<1>2. \A x \in S : f[x] \in Nat /\ f[x] = Power(Position[x])
  <2>1. \A x \in S : Position[x] \in 0 .. 11
    BY DEF Position
  <2> QED
    BY <2>1, PositionFact
<1> HIDE DEF f, S
<1>3. PICK g : g = FoldStep(f, g, S)
  BY <1>1, <1>2, FoldExists
<1>4. \A u \in SUBSET S : u # {} => (CHOOSE x \in u : TRUE) \in S
  OBVIOUS
<1>5. g = FlagStep(g)
  BY <1>2, <1>3, <1>4 DEF FlagStep, FoldStep, S
<1>6. FlagSum = FlagStep(FlagSum)
  BY <1>5 DEF FlagSum
<1> DEFINE h == [u \in SUBSET s |-> FlagSum[u]]
<1>7. h = FoldStep(f, h, s)
  <2>1. s \in SUBSET S
    BY DEF S
  <2>2. ASSUME NEW u \in SUBSET s
        PROVE  FlagSum[u] = IF u = {} THEN 0 ELSE f[CHOOSE x \in u : TRUE] + h[u \ {CHOOSE x \in u : TRUE}]
    <3>1. u \in SUBSET DOMAIN Position /\ u \ {CHOOSE x \in u : TRUE} \in SUBSET s
      OBVIOUS
    <3>2. FlagSum[u] = IF u = {} THEN 0 ELSE Power(Position[CHOOSE x \in u : TRUE]) + FlagSum[u \ {CHOOSE x \in u : TRUE}]
      BY <1>6, <3>1 DEF FlagStep
    <3> QED
      BY <1>2, <1>4, <2>1, <3>1, <3>2
  <2> QED
    BY <2>2 DEF FoldStep
<1>8. IsFiniteSet(s) /\ \A x \in s : f[x] \in Nat
  BY <1>1, <1>2, FS_Subset DEF S
<1>9. h[s] = FlagSum[s]
  OBVIOUS
<1> HIDE DEF h
<1> QED
  BY <1>7, <1>8, <1>9, FoldTotal, TotalNat

(* PUSHFD's word is the same on both.                                        *)
LEMMA EflagsWordFact ==
  ASSUME NEW d, NEW e, Twin(d, e)
  PROVE  EflagsWord(d) = EflagsWord(e) /\ EflagsWord(e) \in Int
<1> DEFINE s == Eflags(e.flags) \cup (IF e.df = 1 THEN {"DF"} ELSE {})
<1>1. Eflags(d.flags) = Eflags(e.flags) /\ d.df = e.df
  BY SameEflags DEF Twin, Even
<1>2. EflagsWord(d) = FlagSum[s] /\ EflagsWord(e) = FlagSum[s]
  BY <1>1 DEF EflagsWord, FlagSum, FlagStep
<1>3. s \in SUBSET DOMAIN Position
  <2>1. Eflags(e.flags) \in SUBSET ArithFlags
    BY EflagsFact
  <2>2. ArithFlags \subseteq DOMAIN Position /\ "DF" \in DOMAIN Position
    BY DEF ArithFlags, Position
  <2> QED
    BY <2>1, <2>2
<1> HIDE DEF s
<1> QED
  BY <1>2, <1>3, FlagSumFact

(* x86p_wasm_pushfd_lower, x86p_wasm_popfd_lower.                             *)
LEMMA SetEflagsFact ==
  ASSUME NEW d, NEW e, Even(d, e), NEW v \in Int
  PROVE  /\ Twin(SetEflags(d, v), SetEflags(e, v))
         /\ SetEflags(d, v).flags.kind = "Explicit" /\ SetEflags(d, v).st = d.st /\ SetEflags(e, v).st = e.st
         /\ SetEflags(e, v).eip = e.eip /\ SetEflags(e, v).next = e.next
<1> DEFINE f == {x \in ArithFlags : Bit(v, Position[x]) = 1}
           df == Bit(v, Position["DF"])
<1>1. PICK p, q : p = Explicitly(d, f) /\ q = Explicitly(e, f)
  OBVIOUS
<1>2. SetEflags(d, v) = [p EXCEPT !.df = df] /\ SetEflags(e, v) = [q EXCEPT !.df = df]
  BY <1>1 DEF SetEflags
<1>3. df \in {0, 1}
  <2>1. PICK n \in Nat \ {0} : n = Power(Position["DF"])
    BY PositionFact DEF Position
  <2>2. v \div n \in Int
    BY <2>1, DivMod
  <2>3. (v \div n) % 2 \in {0, 1}
    BY <2>2
  <2> QED
    BY <2>1, <2>3 DEF Bit
<1>4. f \in SUBSET ArithFlags
  OBVIOUS
<1> HIDE DEF f, df
<1>5. /\ Twin(p, q) /\ p.flags = SetExplicit(f) /\ q.flags = SetExplicit(f)
      /\ p.st = d.st /\ q.st = e.st /\ q.eip = e.eip /\ q.next = e.next
  BY <1>1, <1>4, ExplicitlyFact
<1>6. Moved(p, q, [p EXCEPT !.df = df], [q EXCEPT !.df = df])
  BY <1>3, <1>5, SetDf DEF Twin, Even
<1>7. SetExplicit(f).kind = "Explicit"
  BY <1>4, ExplicitFact
<1> QED
  BY <1>2, <1>5, <1>6, <1>7 DEF Moved, Stays, Twin

(* x86p_wasm_pushfd_lower and x86p_wasm_popfd_lower.                         *)
LEMMA FlagWordFact ==
  ASSUME NEW m, NEW g, NEW i, Along(m, g, i), Sure(m), NEW in, in.op \in {"Pushfd", "Popfd"}
  PROVE  Done(WasmFlagWord(m, in, i), ExecFlagWord(g, in), i)
<1>1. m.c \in Cpus /\ g \in Cpus /\ Even(m.c, g) /\ Twin(m.c, g)
  BY AlongFact DEF Along
<1>2. CASE in.op = "Pushfd"
  <2>1. PICK v \in Int : v = EflagsWord(g) /\ v = EflagsWord(m.c)
    BY <1>1, EflagsWordFact
  <2>2. WasmFlagWord(m, in, i) = WasmPush(m, v, i) /\ ExecFlagWord(g, in) = Push32(g, v)
    BY <1>2, <2>1 DEF WasmFlagWord, ExecFlagWord
  <2> QED
    BY <2>2, WasmPushFact
<1>3. CASE in.op = "Popfd"
  <2> DEFINE p == WasmPopped(m, 0, i)
  <2>1. /\ CanPop(g) => Along(p, AfterPop(g), i) /\ WasmTop(m) = Popped(g) /\ Popped(g) \in Int
        /\ ~CanPop(g) => Done(p, Fault(g), i)
        /\ p.in <=> CanPop(g)
    <3>1. PICK release \in Int : release = 0
      OBVIOUS
    <3> DEFINE q == WasmPopped(m, release, i)
               h == [AfterPop(g) EXCEPT !.reg[Esp] = Trunc(@ + release, 4)]
    <3>2. /\ CanPop(g) => Along(q, h, i) /\ WasmTop(m) = Popped(g) /\ Popped(g) \in Int
          /\ ~CanPop(g) => Done(q, Fault(g), i) /\ ~q.in
          /\ q.in <=> CanPop(g)
          /\ release = 0 => h = AfterPop(g)
      BY WasmPopFact
    <3>3. p = q
      BY <3>1
    <3> HIDE DEF p, q, h
    <3> QED
      BY <3>1, <3>2, <3>3
  <2>2. WasmFlagWord(m, in, i) = IF p.in THEN WasmWritten([m EXCEPT !.c = SetEflags(p.c, WasmTop(m))], "Explicit", 0) ELSE p
    BY <1>3 DEF WasmFlagWord
  <2>3. ExecFlagWord(g, in) = IF CanPop(g) THEN SetEflags(AfterPop(g), Popped(g)) ELSE Fault(g)
    BY <1>3 DEF ExecFlagWord
  <2> HIDE DEF p
  <2>4. CASE CanPop(g)
    <3>1. PICK v \in Int : v = Popped(g) /\ v = WasmTop(m)
      BY <2>1, <2>4
    <3>2. PICK f, h, e : f = SetEflags(p.c, v) /\ h = SetEflags(e, v) /\ e = AfterPop(g)
      OBVIOUS
    <3>3. Even(p.c, e) /\ p.c.st = "Ok" /\ e.st = "Ok"
      BY <2>1, <2>4, <3>2, AlongFact
    <3>4. e.eip = g.eip /\ e.next = g.next
      BY <2>1, <2>4, <3>2 DEF Along
    <3>5. Twin(f, h) /\ f.flags.kind = "Explicit" /\ f.st = "Ok" /\ h.st = "Ok" /\ h.eip = g.eip /\ h.next = g.next
      BY <3>2, <3>3, <3>4, SetEflagsFact
    <3>6. Along([m EXCEPT !.c = f], h, i) /\ [m EXCEPT !.c = f].c = f
      BY <3>5, TwinAlong
    <3>7. PICK u : u = [m EXCEPT !.c = f]
      OBVIOUS
    <3>8. Done(WasmWritten(u, "Explicit", 0), h, i)
      BY <3>5, <3>6, <3>7, ExplicitDone
    <3> QED
      BY <2>1, <2>2, <2>3, <2>4, <3>1, <3>2, <3>7, <3>8
  <2>5. CASE ~CanPop(g)
    BY <2>1, <2>2, <2>3, <2>5
  <2> QED
    BY <2>4, <2>5
<1> QED
  BY <1>2, <1>3

(* A source means the same at the width it is used at.                       *)
LEMMA SourceFact ==
  ASSUME NEW w \in Width, NEW s \in Sources(w)
  PROVE  s \in Places \cup Immediates /\ Means(s, w)
<1>1. ASSUME s \in Places PROVE Means(s, w)
  BY <1>1, PlacesFact DEF Means
<1> QED
  BY <1>1, PlacesFact DEF Sources

(* The record an inline emitter makes, and the result it writes then.        *)
LEMMA RecordDone ==
  ASSUME NEW m, NEW g, NEW i, Along(m, g, i), NEW kind \in Kinds, NEW a \in Dwords, NEW b \in Dwords, NEW r \in Int,
         kind # "Logic" => r \in Dwords, NEW w \in Width, CarryInIsLive(kind) => m.c.flags.carry_in = CF(g.flags),
         kind \in WasmInline => Exact(Set(g.flags, kind, a, b, r, w))
  PROVE  LET n == WasmRecord(m, kind, a, b, r, w)
             h == WithFlags(g, Set(g.flags, kind, a, b, r, w))
         IN  /\ Along(n, h, i) /\ Sure(n) /\ Done(n, h, i)
             /\ \A o \in Places : \A v \in Int : Plain(o) /\ WasmOk(m.c, o) => Done(WasmWrite(n, o, v), Write(h, o, v), i)
<1>1. m.c \in Cpus /\ g \in Cpus /\ m.c.flags \in Records /\ g.flags \in Records /\ m.c.reg = g.reg /\ m.c.fs_base = g.fs_base
  BY AlongFact
<1> DEFINE s == Stored(m.c.flags, kind, a, b, r, w)
           e == Set(g.flags, kind, a, b, r, w)
           p == [m EXCEPT !.c.flags = s]
           h == WithFlags(g, e)
           n == WasmRecord(m, kind, a, b, r, w)
<1>2. s \in Records /\ e \in Records /\ SameRecord(s, e)
  BY <1>1, SetFact
<1>3. Along(p, h, i) /\ p.c.flags = s /\ p.c.reg = m.c.reg /\ p.c.fs_base = m.c.fs_base
  <2> HIDE DEF s, e
  <2> QED
    BY <1>2, RecordAlong
<1>4. Known(kind, w, s)
  <2>1. s.kind = kind /\ s.a = a /\ s.b = b /\ s.r = r /\ s.w = w
    BY <1>1 DEF Stored, Records
  <2>2. e.kind = kind /\ e.a = a /\ e.b = b /\ e.r = r /\ e.w = w
    BY DEF Set
  <2>3. Exact(e) => Exact(s)
    <3> HIDE DEF s, e
    <3> QED
      BY <2>1, <2>2 DEF Exact
  <2> HIDE DEF s
  <2> QED
    BY <2>1, <2>3 DEF Known
<1>5. n = WasmWritten(p, kind, w)
  BY DEF WasmRecord
<1> HIDE DEF s, e, h, p
<1>6. w \in Nat /\ kind \in Kinds \cup {Unknown}
  BY DEF Width
<1>7. Done(n, h, i) /\ Along(n, h, i) /\ Sure(n)
  <2> HIDE DEF n
  <2> QED
    BY <1>3, <1>4, <1>5, <1>6, WrittenDone
<1>8. n.c = p.c
  BY <1>3, <1>5, AlongFact DEF WasmWritten, Learned, Blocks
<1> HIDE DEF n
<1>9. ASSUME NEW o \in Places, NEW v \in Int, Plain(o), WasmOk(m.c, o)
      PROVE  Done(WasmWrite(n, o, v), Write(h, o, v), i)
  <2>1. WasmOk(n.c, o)
    BY <1>3, <1>8, <1>9, SameAddress
  <2>2. Along(WasmWrite(n, o, v), Write(h, o, v), i) /\ (Sure(n) => Sure(WasmWrite(n, o, v)))
    BY <1>7, <1>9, <2>1, WriteAlong
  <2> QED
    BY <1>7, <2>2, AlongDone
<1> QED
  BY <1>7, <1>9 DEF n, h, e

(* Guards and values of an operation's two operands.                         *)
LEMMA EvenOperands ==
  ASSUME NEW d \in Cpus, NEW g \in Cpus, Even(d, g), NEW o \in Places, NEW s \in Places \cup Immediates, Plain(o), Plain(s)
  PROVE  /\ WasmOk(d, o) <=> Readable(g, o)
         /\ WasmOk(d, s) <=> Readable(g, s)
         /\ Readable(g, o) => /\ WasmValue(d, o) = Value(g, o) /\ Value(g, o) \in Dwords /\ Value(g, o) \in Int
                              /\ Trunc(Value(g, o), o.w) = Value(g, o)
         /\ Readable(g, s) => /\ WasmValue(d, s) \in Int /\ Value(g, s) \in Int /\ WasmValue(d, s) \in Dwords
                              /\ \A w \in Width : Means(s, w) => Trunc(WasmValue(d, s), w) = Trunc(Value(g, s), w)
<1>1. (WasmOk(d, o) <=> Readable(g, o)) /\ (WasmOk(d, s) <=> Readable(g, s))
  BY GuardFact
<1>2. Readable(g, o) => /\ WasmValue(d, o) = Value(g, o) /\ Value(g, o) \in Dwords /\ Value(g, o) \in Int
                        /\ Trunc(Value(g, o), o.w) = Value(g, o)
  BY ValueFact, WasmValueFact
<1>3. Readable(g, s) => /\ WasmValue(d, s) \in Int /\ Value(g, s) \in Int /\ WasmValue(d, s) \in Dwords
                        /\ \A w \in Width : Means(s, w) => Trunc(WasmValue(d, s), w) = Trunc(Value(g, s), w)
  BY ValueFact, WasmValueFact
<1> QED
  BY <1>1, <1>2, <1>3

(* Those of a block in the middle of an instruction.                         *)
LEMMA OperandsFact ==
  ASSUME NEW m, NEW g, NEW i, Along(m, g, i), NEW o \in Places, NEW s \in Places \cup Immediates, Plain(o), Plain(s)
  PROVE  /\ WasmOk(m.c, o) <=> Readable(g, o)
         /\ WasmOk(m.c, s) <=> Readable(g, s)
         /\ Readable(g, o) => /\ WasmValue(m.c, o) = Value(g, o) /\ Value(g, o) \in Dwords /\ Value(g, o) \in Int
                              /\ Trunc(Value(g, o), o.w) = Value(g, o)
         /\ Readable(g, s) => /\ WasmValue(m.c, s) \in Int /\ Value(g, s) \in Int /\ WasmValue(m.c, s) \in Dwords
                              /\ \A w \in Width : Means(s, w) => Trunc(WasmValue(m.c, s), w) = Trunc(Value(g, s), w)
<1>1. m.c \in Cpus /\ g \in Cpus /\ Even(m.c, g)
  BY AlongFact
<1> QED
  BY <1>1, EvenOperands

(* x86p_wasm_alu_lower of the recorded operations.                           *)
LEMMA InlinedFact ==
  ASSUME NEW m, NEW g, NEW i, Along(m, g, i), NEW in, in.op = "Alu", in.x \in Inlined, in.o0 \in Places,
         in.o1 \in Sources(in.o0.w), Plain(in.o0), Plain(in.o1)
  PROVE  Done(WasmAlu(m, in, i), ExecAlu(g, in), i)
<1> DEFINE o == in.o0
           s == in.o1
           w == in.o0.w
           op == in.x
<1>1. w \in Width /\ s \in Places \cup Immediates /\ Means(s, w) /\ ~WasmShiftsInline(in)
  <2>1. w \in Width
    BY PlacesFact
  <2> QED
    BY <2>1, SourceFact DEF Inlined, WasmShiftsInline, ShiftOps
<1>2. /\ WasmOk(m.c, o) <=> Readable(g, o)
      /\ WasmOk(m.c, s) <=> Readable(g, s)
      /\ Readable(g, o) => WasmValue(m.c, o) = Value(g, o) /\ Value(g, o) \in Int /\ Trunc(Value(g, o), w) = Value(g, o)
      /\ Readable(g, s) => /\ WasmValue(m.c, s) \in Int /\ Value(g, s) \in Int
                           /\ Trunc(WasmValue(m.c, s), w) = Trunc(Value(g, s), w)
  BY <1>1, OperandsFact
<1>3. CASE Readable(g, o) /\ Readable(g, s)
  <2> DEFINE x == Value(g, o)
             y == Value(g, s)
             b == Trunc(y, w)
             r == AluResult(op, x, y, w)
             kind == InlineKind(op)
             e == Set(g.flags, kind, x, b, r, w)
             n == WasmRecord(m, kind, x, b, r, w)
             h == WithFlags(g, e)
  <2>1. x \in Int /\ y \in Int /\ Trunc(x, w) = x
    BY <1>2, <1>3
  <2>2. /\ x \in Dwords /\ b \in Dwords /\ r \in Int /\ (kind # "Logic" => r \in Dwords)
        /\ kind \in {"Add", "Sub", "Logic"} /\ kind \in Kinds
        /\ Alu(op, x, y, w, g.flags) = [r |-> r, f |-> e]
        /\ AluResult(op, x, b, w) = r
        /\ Exact(e)
    <3> HIDE DEF x, y
    <3> QED
      BY <1>1, <2>1, InlineFact
  <2>3. WasmAlu(m, in, i) = IF op \in Compares THEN n ELSE WasmWrite(n, o, r)
    <3>1. AluResult(op, WasmValue(m.c, o), Trunc(WasmValue(m.c, s), w), w) = r
      BY <1>2, <1>3, <2>2
    <3> QED
      BY <1>1, <1>2, <1>3, <3>1 DEF WasmAlu
  <2>4. ExecAlu(g, in) = IF op \in Compares THEN h ELSE Write(h, o, r)
    <3>1. PICK t : t = Alu(op, Value(g, o), Value(g, s), w, g.flags)
      OBVIOUS
    <3>2. ExecAlu(g, in) = IF op \in {"Cmp", "Test"} THEN WithFlags(g, t.f) ELSE Write(WithFlags(g, t.f), o, t.r)
      BY <1>3, <3>1 DEF ExecAlu
    <3>3. t.f = e /\ t.r = r
      <4> HIDE DEF e, r
      <4> QED
        BY <2>2, <3>1
    <3> QED
      BY <3>2, <3>3 DEF Compares
  <2> HIDE DEF kind, x, b, r
  <2>5. /\ Done(n, h, i)
        /\ \A v \in Int : Plain(o) /\ WasmOk(m.c, o) => Done(WasmWrite(n, o, v), Write(h, o, v), i)
    <3>1. ~CarryInIsLive(kind)
      BY <2>2 DEF CarryInIsLive
    <3> QED
      BY <1>1, <2>2, <3>1, RecordDone
  <2> QED
    BY <1>2, <1>3, <2>2, <2>3, <2>4, <2>5
<1>4. CASE ~(Readable(g, o) /\ Readable(g, s))
  <2>1. WasmAlu(m, in, i) = MemoryFaultAt(m, i)
    BY <1>2, <1>4 DEF WasmAlu
  <2>2. ExecAlu(g, in) = Fault(g)
    BY <1>4 DEF ExecAlu
  <2> QED
    BY <2>1, <2>2, FaultDone
<1> QED
  BY <1>3, <1>4

(* lower_shift, by an immediate that shifts by less than the width.          *)
LEMMA ShiftsFact ==
  ASSUME NEW m, NEW g, NEW i, Along(m, g, i), NEW in, in.op = "Alu", WasmShiftsInline(in), in.o0 \in Places,
         in.o1 \in ByteCounts, Plain(in.o0), Plain(in.o1)
  PROVE  Done(WasmAlu(m, in, i), ExecAlu(g, in), i)
<1> DEFINE o == in.o0
           s == in.o1
           w == in.o0.w
           op == in.x
           n == MaskedCount(s.v)
<1>1. w \in Width /\ op \in ShiftOps /\ s.k = "Imm" /\ n \in 1 .. Bits(w) - 1 /\ s \in CountBytes /\ s.v \in Bytes
      /\ s \in Places \cup Immediates
  <2>1. w \in Width
    BY PlacesFact
  <2> QED
    BY <2>1 DEF WasmShiftsInline, ByteCounts, CountBytes, Registers
<1>2. /\ WasmOk(m.c, o) <=> Readable(g, o)
      /\ WasmOk(m.c, s) /\ Readable(g, s)
      /\ Readable(g, o) => WasmValue(m.c, o) = Value(g, o) /\ Value(g, o) \in Int /\ Trunc(Value(g, o), w) = Value(g, o)
  BY <1>1, OperandsFact DEF WasmOk, Readable, IsMem
<1>3. Value(g, s) = s.v /\ s.v \in Int /\ Trunc(s.v, w) = s.v
  <2>1. s.v \in 0 .. Power(Bits(1)) - 1
    BY <1>1 DEF Bytes
  <2>2. s.v \in 0 .. Power(Bits(w)) - 1
    <3>1. PICK p, q \in Nat : p = Power(Bits(1)) /\ q = Power(Bits(w)) /\ p <= q
      BY <1>1, WidthFact, NamesFact
    <3> QED
      BY <2>1, <3>1
  <2> QED
    BY <1>1, <2>2, TruncFact DEF Value
<1>4. CASE Readable(g, o)
  <2> DEFINE x == Value(g, o)
             r == ShiftResult(op, x, n, w)
             e == Set(g.flags, op, x, n, r, w)
             u == WasmRecord(m, op, x, n, r, w)
             h == WithFlags(g, e)
  <2>1. x \in Int /\ Trunc(x, w) = x /\ x \in 0 .. Power(Bits(w)) - 1 /\ x \in Dwords
    BY <1>1, <1>2, <1>4, TruncFact
  <2>2. n \in 0 .. Bits(4) - 1 /\ n # 0 /\ n \in Dwords
    BY <1>1, <1>3, CountFact
  <2>3. r \in Dwords /\ r \in Int
    <3> HIDE DEF x, n
    <3> QED
      BY <1>1, <2>1, <2>2, ShiftResultFact
  <2>4. Alu(op, Value(g, o), Value(g, s), w, g.flags) = [r |-> r, f |-> e]
    <3>1. Alu(op, Value(g, o), Value(g, s), w, g.flags) = Shift(op, x, s.v, w, g.flags)
      BY <1>1, <1>3, <2>1 DEF Alu, ShiftOps
    <3>2. Shift(op, x, s.v, w, g.flags) = [r |-> r, f |-> e]
      BY <2>2 DEF Shift
    <3> QED
      BY <3>1, <3>2
  <2>5. op \notin Compares /\ op \in Kinds /\ op # "Logic" /\ op \notin WasmInline /\ ~CarryInIsLive(op)
    BY <1>1 DEF Compares, ShiftOps, Kinds, Shifts, WasmInline, CarryInIsLive
  <2>6. WasmAlu(m, in, i) = WasmWrite(u, o, r)
    BY <1>2, <1>4, <2>5 DEF WasmAlu
  <2>7. ExecAlu(g, in) = Write(h, o, r)
    <3>1. PICK t : t = Alu(op, Value(g, o), Value(g, s), w, g.flags)
      OBVIOUS
    <3>2. ExecAlu(g, in) = IF op \in {"Cmp", "Test"} THEN WithFlags(g, t.f) ELSE Write(WithFlags(g, t.f), o, t.r)
      BY <1>2, <1>4, <3>1 DEF ExecAlu
    <3>3. t.f = e /\ t.r = r
      <4> HIDE DEF e, r
      <4> QED
        BY <2>4, <3>1
    <3> QED
      BY <2>5, <3>2, <3>3 DEF Compares
  <2> HIDE DEF x, r, n
  <2>8. \A v \in Int : Plain(o) /\ WasmOk(m.c, o) => Done(WasmWrite(u, o, v), Write(h, o, v), i)
    BY <1>1, <2>1, <2>2, <2>3, <2>5, RecordDone
  <2> QED
    BY <1>2, <1>4, <2>3, <2>6, <2>7, <2>8
<1>5. CASE ~Readable(g, o)
  <2>1. WasmAlu(m, in, i) = MemoryFaultAt(m, i)
    BY <1>2, <1>5 DEF WasmAlu
  <2>2. ExecAlu(g, in) = Fault(g)
    BY <1>5 DEF ExecAlu
  <2> QED
    BY <2>1, <2>2, FaultDone
<1> QED
  BY <1>4, <1>5

(* A count means the same at every width.                                    *)
LEMMA CountsFact ==
  ASSUME NEW s \in ByteCounts
  PROVE  s \in Places \cup Immediates /\ \A w \in Width : Means(s, w)
<1>1. CASE s \in CountBytes
  <2>1. s \in Immediates /\ s.v \in Bytes /\ s.w \in Width /\ s.k = "Imm"
    BY <1>1 DEF CountBytes, Immediates
  <2>2. PICK p, q \in Nat : p = Power(Bits(1)) /\ q = Power(Bits(s.w)) /\ p <= q
    BY <2>1, WidthFact, NamesFact
  <2>3. s.v < q
    BY <2>1, <2>2 DEF Bytes
  <2> QED
    BY <2>1, <2>2, <2>3 DEF Means
<1>2. CASE s \in Registers
  BY <1>2 DEF Registers, Means, Places
<1> QED
  BY <1>1, <1>2 DEF ByteCounts

(* lower_via_helper.                                                         *)
LEMMA HelperFact ==
  ASSUME NEW m, NEW g, NEW i, Along(m, g, i), NEW in, in.op = "Alu", in.x \in AluOps, in.x \notin Inlined, in.o0 \in Places,
         in.o1 \in Places \cup Immediates, Means(in.o1, in.o0.w), Plain(in.o0), Plain(in.o1)
  PROVE  Done(WasmHelper(m, in, i), ExecAlu(g, in), i)
<1> DEFINE o == in.o0
           s == in.o1
           w == in.o0.w
           op == in.x
           kind == IF op \in ShiftOps \cup Rotates THEN Unknown ELSE "Explicit"
<1>1. w \in Width /\ m.c.flags \in Records /\ g.flags \in Records /\ SameRecord(m.c.flags, g.flags)
  BY PlacesFact, AlongFact
<1>2. /\ WasmOk(m.c, o) <=> Readable(g, o)
      /\ WasmOk(m.c, s) <=> Readable(g, s)
      /\ Readable(g, o) => WasmValue(m.c, o) = Value(g, o) /\ Value(g, o) \in Int
      /\ Readable(g, s) => /\ WasmValue(m.c, s) \in Int /\ Value(g, s) \in Int
                           /\ Trunc(WasmValue(m.c, s), w) = Trunc(Value(g, s), w)
  BY <1>1, OperandsFact
<1>3. CASE Readable(g, o) /\ Readable(g, s)
  <2>1. PICK x \in Int, y \in Int, z \in Int : /\ x = Value(g, o) /\ x = WasmValue(m.c, o) /\ y = Value(g, s) /\ z = WasmValue(m.c, s)
                                              /\ Trunc(z, w) = Trunc(y, w)
    BY <1>2, <1>3
  <2>2. PICK t, u : t = Alu(op, x, z, w, m.c.flags) /\ u = Alu(op, x, y, w, g.flags)
    OBVIOUS
  <2>3. t.r \in Int /\ t.f \in Records /\ u.f \in Records /\ u.r = t.r /\ SameRecord(t.f, u.f)
    <3>1. t = Alu(op, x, y, w, m.c.flags)
      BY <2>1, <2>2, AluReads
    <3>2. /\ t.r \in Int /\ t.f \in Records
          /\ \A e : SameRecord(m.c.flags, e) => t.r = Alu(op, x, y, w, e).r /\ SameRecord(t.f, Alu(op, x, y, w, e).f)
      BY <1>1, <3>1, AluFact
    <3>3. u.f \in Records
      BY <1>1, <2>2, AluFact
    <3> QED
      BY <1>1, <2>2, <3>2, <3>3
  <2> DEFINE p == [m EXCEPT !.c.flags = t.f]
             h == WithFlags(g, u.f)
             n == WasmWrite(p, o, t.r)
             e == Write(h, o, t.r)
  <2>4. WasmHelper(m, in, i) = WasmWritten(n, kind, 0)
    BY <1>2, <1>3, <2>1, <2>2 DEF WasmHelper
  <2>5. ExecAlu(g, in) = e
    <3>1. op \notin {"Cmp", "Test"}
      BY DEF Inlined
    <3> QED
      BY <1>3, <2>1, <2>2, <2>3, <3>1 DEF ExecAlu
  <2>6. /\ Along(p, h, i) /\ p.c.flags = t.f /\ p.c.reg = m.c.reg /\ p.c.fs_base = m.c.fs_base
    BY <2>3, RecordAlong
  <2> HIDE DEF p, h
  <2>7. WasmOk(p.c, o)
    BY <1>2, <1>3, <2>6, SameAddress
  <2>8. Along(n, e, i) /\ n.c.flags = t.f
    BY <2>3, <2>6, <2>7, WriteAlong
  <2> HIDE DEF n, e
  <2>9. CASE op \in ShiftOps \cup Rotates
    BY <2>4, <2>5, <2>8, <2>9, UnknownDone
  <2>10. CASE op \notin ShiftOps \cup Rotates
    <3>1. op \in {"Adc", "Sbb"}
      BY <2>10 DEF AluOps, Binary, Inlined
    <3>2. t.f.kind = "Explicit"
      BY <1>1, <2>2, <3>1, CarriedFact
    <3> QED
      BY <2>4, <2>5, <2>8, <2>10, <3>2, ExplicitDone
  <2> QED
    BY <2>9, <2>10
<1>4. CASE ~(Readable(g, o) /\ Readable(g, s))
  <2>1. WasmHelper(m, in, i) = MemoryFaultAt(m, i)
    BY <1>2, <1>4 DEF WasmHelper
  <2>2. ExecAlu(g, in) = Fault(g)
    BY <1>4 DEF ExecAlu
  <2> QED
    BY <2>1, <2>2, FaultDone
<1> QED
  BY <1>3, <1>4

(* Every ALU operation a block can hold.                                     *)
LEMMA AluDone ==
  ASSUME NEW m, NEW g, NEW i, Along(m, g, i), NEW in, in.op = "Alu", Decoded(in), Plain(in.o0), Plain(in.o1)
  PROVE  Done(IF in.x \in Inlined \/ WasmShiftsInline(in) THEN WasmAlu(m, in, i) ELSE WasmHelper(m, in, i), ExecAlu(g, in), i)
<1>1. in.o0 \in Places /\ in.o0.w \in Width /\ \/ in.x \in Binary /\ in.o1 \in Sources(in.o0.w)
                                               \/ in.x \in ShiftOps \cup Rotates /\ in.o1 \in ByteCounts
  BY PlacesFact DEF Decoded
<1>2. Inlined \subseteq Binary /\ Inlined \cap (ShiftOps \cup Rotates) = {} /\ Binary \cap ShiftOps = {}
      /\ AluOps = Binary \cup ShiftOps \cup Rotates /\ (WasmShiftsInline(in) => in.x \in ShiftOps)
  BY DEF Inlined, Binary, ShiftOps, Rotates, AluOps, WasmShiftsInline
<1>3. CASE in.x \in Inlined
  BY <1>1, <1>2, <1>3, InlinedFact
<1>4. CASE WasmShiftsInline(in)
  BY <1>1, <1>2, <1>4, ShiftsFact
<1>5. CASE in.x \notin Inlined /\ ~WasmShiftsInline(in)
  <2>1. in.x \in AluOps /\ in.o1 \in Places \cup Immediates /\ Means(in.o1, in.o0.w)
    BY <1>1, <1>2, SourceFact, CountsFact
  <2> QED
    BY <1>1, <1>5, <2>1, HelperFact
<1> QED
  BY <1>3, <1>4, <1>5

(* The carry as the block takes it, saved in the record it is about to replace. *)
LEMMA CarryAlong ==
  ASSUME NEW m, NEW g, NEW i, Along(m, g, i), Sure(m)
  PROVE  LET n == [m EXCEPT !.c.flags.carry_in = WasmCarry(m)]
         IN  Along(n, g, i) /\ n.c.flags.carry_in = CF(g.flags) /\ n.c.reg = m.c.reg /\ n.c.fs_base = m.c.fs_base
<1>1. /\ m.c \in Cpus /\ g \in Cpus /\ m.c.flags \in Records /\ g.flags \in Records /\ SameRecord(m.c.flags, g.flags)
      /\ CF(m.c.flags) = CF(g.flags)
  BY AlongFact, SameEflags
<1>2. WasmCarry(m) <=> CF(m.c.flags)
  BY <1>1, WasmCarryFact DEF Sure
<1>3. WasmCarry(m) \in BOOLEAN /\ CF(g.flags) \in BOOLEAN
  <2>1. m.c.flags.carry_in \in BOOLEAN /\ m.c.flags.kind \in Kinds
    BY <1>1 DEF Records
  <2>2. \A f : CF(f) \in BOOLEAN
    BY DEF CF
  <2>3. \A kind \in {"None", "Logic", "Add", "Sub", "Explicit", "Inc", "Dec"} : WasmKnownCarry(kind, m.c.flags) \in BOOLEAN
    <3>1. WasmKnownCarry("None", m.c.flags) = FALSE /\ WasmKnownCarry("Logic", m.c.flags) = FALSE
      BY DEF WasmKnownCarry
    <3>2. WasmKnownCarry("Add", m.c.flags) = (m.c.flags.r < m.c.flags.a) /\ WasmKnownCarry("Sub", m.c.flags) = (m.c.flags.a < m.c.flags.b)
      BY DEF WasmKnownCarry
    <3>3. WasmKnownCarry("Explicit", m.c.flags) = ("CF" \in m.c.flags.word)
      BY DEF WasmKnownCarry
    <3>4. WasmKnownCarry("Inc", m.c.flags) = m.c.flags.carry_in /\ WasmKnownCarry("Dec", m.c.flags) = m.c.flags.carry_in
      BY DEF WasmKnownCarry
    <3>5. ("CF" \in m.c.flags.word) \in BOOLEAN /\ (m.c.flags.r < m.c.flags.a) \in BOOLEAN /\ (m.c.flags.a < m.c.flags.b) \in BOOLEAN
      OBVIOUS
    <3> QED
      BY <2>1, <3>1, <3>2, <3>3, <3>4, <3>5
  <2>4. m.last \in WasmInline \cup {"None", "Explicit"} => m.last \in {"None", "Logic", "Add", "Sub", "Explicit", "Inc", "Dec"}
    BY DEF WasmInline
  <2>5. WasmCarryArm(m.c.flags.kind, m.c.flags.w) => m.c.flags.kind \in {"None", "Logic", "Add", "Sub", "Explicit", "Inc", "Dec"}
    BY DEF WasmCarryArm
  <2>6. CASE m.last \in WasmInline \cup {"None", "Explicit"}
    <3>1. WasmCarry(m) = WasmKnownCarry(m.last, m.c.flags)
      BY <2>6 DEF WasmCarry
    <3>2. PICK kind \in {"None", "Logic", "Add", "Sub", "Explicit", "Inc", "Dec"} : kind = m.last
      BY <2>4, <2>6
    <3>3. WasmKnownCarry(kind, m.c.flags) \in BOOLEAN
      BY <2>3
    <3> QED
      BY <2>2, <3>1, <3>2, <3>3
  <2>7. CASE m.last \notin WasmInline \cup {"None", "Explicit"} /\ WasmCarryArm(m.c.flags.kind, m.c.flags.w)
    <3>1. WasmCarry(m) = WasmKnownCarry(m.c.flags.kind, m.c.flags)
      BY <2>7 DEF WasmCarry
    <3>2. PICK kind \in {"None", "Logic", "Add", "Sub", "Explicit", "Inc", "Dec"} : kind = m.c.flags.kind
      BY <2>5, <2>7
    <3>3. WasmKnownCarry(kind, m.c.flags) \in BOOLEAN
      BY <2>3
    <3> QED
      BY <2>2, <3>1, <3>2, <3>3
  <2>8. CASE m.last \notin WasmInline \cup {"None", "Explicit"} /\ ~WasmCarryArm(m.c.flags.kind, m.c.flags.w)
    BY <2>2, <2>8 DEF WasmCarry
  <2> QED
    BY <2>2, <2>6, <2>7, <2>8
<1>4. PICK v \in BOOLEAN : v = WasmCarry(m) /\ v = CF(g.flags)
  BY <1>1, <1>2, <1>3
<1> DEFINE f == [m.c.flags EXCEPT !.carry_in = v]
<1>5. f \in Records /\ SameRecord(f, g.flags) /\ f.carry_in = v
  <2>1. f \in Records /\ f.carry_in = v
    BY <1>1 DEF Records
  <2>2. /\ f.kind = m.c.flags.kind /\ f.a = m.c.flags.a /\ f.b = m.c.flags.b /\ f.r = m.c.flags.r /\ f.w = m.c.flags.w
        /\ f.word = m.c.flags.word
    BY <1>1 DEF Records
  <2>3. CarryInIsLive(g.flags.kind) => v = g.flags.carry_in
    <3>1. CASE g.flags.kind \in {"Inc", "Dec"}
      <4>1. CF(g.flags) <=> g.flags.carry_in
        BY <3>1 DEF CF, Shifts
      <4>2. g.flags.carry_in \in BOOLEAN
        BY <1>1 DEF Records
      <4> QED
        BY <1>3, <1>4, <4>1, <4>2
    <3> QED
      BY <3>1 DEF CarryInIsLive
  <2> HIDE DEF f
  <2> QED
    BY <1>1, <2>1, <2>2, <2>3 DEF SameRecord
<1>6. [m EXCEPT !.c.flags.carry_in = v] = [m EXCEPT !.c.flags = f]
  OBVIOUS
<1>7. WithFlags(g, g.flags) = g
  BY <1>1 DEF WithFlags, Cpus
<1> HIDE DEF f
<1>8. PICK h \in Records : h = g.flags
  BY <1>1
<1>9. PICK e \in Records : e = f /\ SameRecord(e, h) /\ e.carry_in = v
  BY <1>5, <1>8
<1>10. /\ Along([m EXCEPT !.c.flags = e], WithFlags(g, h), i) /\ [m EXCEPT !.c.flags = e].c.flags = e
       /\ [m EXCEPT !.c.flags = e].c.reg = m.c.reg /\ [m EXCEPT !.c.flags = e].c.fs_base = m.c.fs_base
  BY <1>9, RecordAlong
<1> QED
  BY <1>4, <1>6, <1>7, <1>8, <1>9, <1>10

(* x86p_wasm_alu_unary_lower.                                                *)
LEMMA UnaryDone ==
  ASSUME NEW m, NEW g, NEW i, Along(m, g, i), Sure(m), NEW in, in.op = "Unary", in.x \in Unary, in.o0 \in Places, Plain(in.o0)
  PROVE  Done(WasmUnary(m, in, i), ExecUnary(g, in), i)
<1> DEFINE o == in.o0
           w == in.o0.w
           op == in.x
<1>1. w \in Width /\ m.c.flags \in Records /\ g.flags \in Records /\ o \in Places \cup Immediates
  BY PlacesFact, AlongFact
<1>2. /\ WasmOk(m.c, o) <=> Readable(g, o)
      /\ Readable(g, o) => /\ WasmValue(m.c, o) = Value(g, o) /\ Value(g, o) \in Int /\ Value(g, o) \in Dwords
                           /\ Trunc(Value(g, o), w) = Value(g, o)
  BY <1>1, OperandsFact
<1>3. CASE Readable(g, o)
  <2>1. PICK x \in Int : x = Value(g, o) /\ x = WasmValue(m.c, o) /\ Trunc(x, w) = x
    BY <1>2, <1>3
  <2>2. PICK t : t = AluUnary(op, x, w, g.flags)
    OBVIOUS
  <2>3. ExecUnary(g, in) = Write(WithFlags(g, t.f), o, t.r)
    BY <1>3, <2>1, <2>2 DEF ExecUnary
  <2> DEFINE r == UnaryResult(op, x, w)
  <2>4. CASE op = "Not"
    <3>1. t = [r |-> r, f |-> g.flags]
      BY <2>2, <2>4 DEF AluUnary, UnaryResult
    <3>2. r \in Int
      BY <1>1, <2>2, <2>4, <3>1, UnaryFact DEF Unary
    <3> HIDE DEF r
    <3>3. WithFlags(g, g.flags) = g
      BY AlongFact DEF WithFlags, Cpus
    <3>4. WasmUnary(m, in, i) = WasmWrite(m, o, r) /\ ExecUnary(g, in) = Write(g, o, r)
      BY <1>2, <1>3, <2>1, <2>3, <2>4, <3>1, <3>3 DEF WasmUnary, r
    <3>5. Along(WasmWrite(m, o, r), Write(g, o, r), i) /\ (Sure(m) => Sure(WasmWrite(m, o, r)))
      BY <1>2, <1>3, <3>2, WriteAlong
    <3> QED
      BY <3>4, <3>5, AlongDone
  <2>5. ASSUME op \in {"Neg", "Inc", "Dec"}
        PROVE  LET kind == IF op = "Neg" THEN "Sub" ELSE op
                   p == IF op = "Neg" THEN 0 ELSE x
                   q == IF op = "Neg" THEN x ELSE 1
                   e == Set(g.flags, kind, p, q, r, w)
               IN  /\ p \in Dwords /\ q \in Dwords /\ r \in Dwords /\ r \in Int /\ kind \in Kinds /\ kind # "Logic"
                   /\ Exact(e) /\ t.f = e /\ t.r = r
    <3> DEFINE kind == IF op = "Neg" THEN "Sub" ELSE op
               p == IF op = "Neg" THEN 0 ELSE x
               q == IF op = "Neg" THEN x ELSE 1
               e == Set(g.flags, kind, p, q, r, w)
    <3>1. /\ p \in Dwords /\ q \in Dwords /\ r \in Dwords /\ r \in Int /\ kind \in Kinds /\ kind # "Logic"
          /\ AluUnary(op, x, w, g.flags) = [r |-> r, f |-> e]
          /\ Exact(e)
      BY <1>1, <2>1, <2>5, UnaryRecord
    <3> QED
      BY <2>2, <3>1
  <2>6. CASE op = "Neg"
    <3> DEFINE e == Set(g.flags, "Sub", 0, x, r, w)
               n == WasmRecord(m, "Sub", 0, x, r, w)
               h == WithFlags(g, e)
    <3>1. 0 \in Dwords /\ x \in Dwords /\ r \in Dwords /\ r \in Int /\ "Sub" \in Kinds /\ Exact(e) /\ t.f = e /\ t.r = r
      BY <2>5, <2>6
    <3>2. WasmUnary(m, in, i) = WasmWrite(n, o, r)
      BY <1>2, <1>3, <2>1, <2>6 DEF WasmUnary
    <3>3. ExecUnary(g, in) = Write(h, o, r)
      BY <2>3, <3>1
    <3> HIDE DEF r
    <3>4. \A v \in Int : Plain(o) /\ WasmOk(m.c, o) => Done(WasmWrite(n, o, v), Write(h, o, v), i)
      <4>1. ~CarryInIsLive("Sub")
        BY DEF CarryInIsLive
      <4>2. PICK z \in Dwords : z = 0
        BY <3>1
      <4> QED
        BY <1>1, <3>1, <4>1, <4>2, RecordDone
    <3> QED
      BY <1>2, <1>3, <3>1, <3>2, <3>3, <3>4
  <2>7. CASE op \in {"Inc", "Dec"}
    <3> DEFINE e == Set(g.flags, op, x, 1, r, w)
               d == [m EXCEPT !.c.flags.carry_in = WasmCarry(m)]
               n == WasmRecord(d, op, x, 1, r, w)
               h == WithFlags(g, e)
    <3>1. 1 \in Dwords /\ x \in Dwords /\ r \in Dwords /\ r \in Int /\ op \in Kinds /\ op # "Logic" /\ Exact(e) /\ t.f = e /\ t.r = r
      BY <2>5, <2>7
    <3>2. WasmUnary(m, in, i) = WasmWrite(n, o, r)
      BY <1>2, <1>3, <2>1, <2>7 DEF WasmUnary
    <3>3. ExecUnary(g, in) = Write(h, o, r)
      BY <2>3, <3>1
    <3>4. Along(d, g, i) /\ d.c.flags.carry_in = CF(g.flags) /\ d.c.reg = m.c.reg /\ d.c.fs_base = m.c.fs_base
      BY CarryAlong
    <3> HIDE DEF r, d
    <3>5. \A v \in Int : Plain(o) /\ WasmOk(d.c, o) => Done(WasmWrite(n, o, v), Write(h, o, v), i)
      <4>1. PICK z \in Dwords : z = 1
        BY <3>1
      <4> QED
        BY <1>1, <3>1, <3>4, <4>1, RecordDone
    <3>6. WasmOk(d.c, o)
      BY <1>2, <1>3, <3>4, SameAddress
    <3> QED
      BY <3>1, <3>2, <3>3, <3>5, <3>6
  <2> QED
    BY <2>4, <2>6, <2>7 DEF Unary
<1>4. CASE ~Readable(g, o)
  <2>1. WasmUnary(m, in, i) = MemoryFaultAt(m, i) /\ ExecUnary(g, in) = Fault(g)
    BY <1>2, <1>4 DEF WasmUnary, ExecUnary
  <2> QED
    BY <2>1, FaultDone
<1> QED
  BY <1>3, <1>4

(* The two go on from states made alike.                                     *)
LEMMA MovedTwin ==
  ASSUME NEW d, NEW e, Twin(d, e), NEW f, NEW h, Moved(d, e, f, h)
  PROVE  Twin(f, h) /\ f.st = d.st /\ h.st = e.st /\ h.eip = e.eip /\ h.next = e.next
  BY DEF Twin, Moved, Stays

(* Both get records that are alike.                                          *)
LEMMA FlagsTwin ==
  ASSUME NEW d, NEW e, Even(d, e), NEW p \in Records, NEW q \in Records, SameRecord(p, q)
  PROVE  /\ Twin(WithFlags(d, p), WithFlags(e, q)) /\ WithFlags(d, p).st = d.st /\ WithFlags(e, q).st = e.st
         /\ WithFlags(e, q).eip = e.eip /\ WithFlags(e, q).next = e.next
<1>1. d \in Cpus /\ e \in Cpus
  BY DEF Even
<1> QED
  BY <1>1, SetFlags DEF Twin

(* The helper's work is the interpreter's, and the kind of the record is forgotten.*)
LEMMA ForgotDone ==
  ASSUME NEW m, NEW g, NEW i, Along(m, g, i), NEW f, NEW h, Twin(f, h), f.st = "Ok", h.st = "Ok", h.eip = g.eip, h.next = g.next
  PROVE  Done(Forgot([m EXCEPT !.c = f]), h, i)
<1>1. PICK u : u = [m EXCEPT !.c = f]
  OBVIOUS
<1>2. Along(u, h, i)
  BY <1>1, TwinAlong
<1> QED
  BY <1>1, <1>2, UnknownDone

(* The fault of an instruction that forgets.                                 *)
LEMMA ForgotFault ==
  ASSUME NEW m, NEW g, NEW i, Along(m, g, i)
  PROVE  Done(Forgot(MemoryFaultAt(m, i)), Fault(g), i)
  BY FaultDone, LeftLearned

(* mul_result_store.                                                         *)
LEMMA PairFact ==
  ASSUME NEW d, NEW e, Even(d, e), NEW w \in Width, NEW lo \in Int, NEW hi \in Int
  PROVE  Moved(d, e, PairStore(d, w, lo, hi), PairStore(e, w, lo, hi))
<1>1. ASSUME NEW r \in 0 .. 7, NEW q \in 0 .. 7
      PROVE  Moved(d, e, WriteReg(WriteReg(d, r, w, lo), q, w, hi), WriteReg(WriteReg(e, r, w, lo), q, w, hi))
  <2>1. PICK f, h : f = WriteReg(d, r, w, lo) /\ h = WriteReg(e, r, w, lo)
    OBVIOUS
  <2>2. Moved(d, e, f, h)
    BY <2>1, WriteRegMoved
  <2>3. PICK p, t : p = WriteReg(f, q, w, hi) /\ t = WriteReg(h, q, w, hi)
    OBVIOUS
  <2>4. Moved(f, h, p, t)
    BY <2>2, <2>3, WriteRegMoved DEF Moved
  <2> QED
    BY <2>1, <2>2, <2>3, <2>4, MovedTwice
<1>2. CASE w = 1
  <2>1. PICK r \in 0 .. 7, q \in 0 .. 7 : r = 0 /\ q = 4
    OBVIOUS
  <2> QED
    BY <1>1, <1>2, <2>1 DEF PairStore
<1>3. CASE w # 1
  BY <1>1, <1>3, NamesFact DEF PairStore
<1> QED
  BY <1>2, <1>3

(* x86p_multiply_accumulator, x86p_imul_to_register.                         *)
LEMMA AccumulatorFact ==
  ASSUME NEW d, NEW e, Twin(d, e), NEW op, NEW v \in Int, NEW w \in Width
  PROVE  LET t == IF op = "Mul" THEN Mul(ReadReg(e, Eax, w), v, w, e.flags) ELSE Imul(ReadReg(e, Eax, w), v, w, e.flags)
             f == MultiplyAccumulator(d, op, v, w)
             h == PairStore(WithFlags(e, t.f), w, t.lo, t.hi)
         IN  Twin(f, h) /\ f.st = d.st /\ h.st = e.st /\ h.eip = e.eip /\ h.next = e.next
<1>1. d \in Cpus /\ e \in Cpus /\ Even(d, e) /\ d.flags \in Records /\ e.flags \in Records /\ SameRecord(d.flags, e.flags)
  BY CpusFact DEF Twin, Even
<1>2. PICK x \in Int : x = ReadReg(e, Eax, w) /\ x = ReadReg(d, Eax, w)
  <2>1. d.reg = e.reg /\ e.reg \in [0 .. 7 -> Dwords]
    BY <1>1, CpusFact DEF Even
  <2> QED
    BY <2>1, NamesFact, ReadRegFact
<1> DEFINE t == IF op = "Mul" THEN Mul(x, v, w, e.flags) ELSE Imul(x, v, w, e.flags)
<1>3. /\ t = IF op = "Mul" THEN Mul(x, v, w, d.flags) ELSE Imul(x, v, w, d.flags)
      /\ t.lo \in Int /\ t.hi \in Int /\ t.f \in Records
  BY <1>1, ProductFact
<1>4. MultiplyAccumulator(d, op, v, w) = PairStore(WithFlags(d, t.f), w, t.lo, t.hi)
  BY <1>2, <1>3 DEF MultiplyAccumulator
<1> HIDE DEF t
<1>5. PICK p, q : p = WithFlags(d, t.f) /\ q = WithFlags(e, t.f)
  OBVIOUS
<1>6. Twin(p, q) /\ p.st = d.st /\ q.st = e.st /\ q.eip = e.eip /\ q.next = e.next
  BY <1>1, <1>3, <1>5, FlagsTwin, SameSelf
<1>7. PICK f, h : f = PairStore(p, w, t.lo, t.hi) /\ h = PairStore(q, w, t.lo, t.hi)
  OBVIOUS
<1>8. Moved(p, q, f, h)
  BY <1>3, <1>6, <1>7, PairFact DEF Twin
<1>9. Twin(f, h) /\ f.st = d.st /\ h.st = e.st /\ h.eip = e.eip /\ h.next = e.next
  BY <1>6, <1>8, MovedTwin
<1> QED
  BY <1>2, <1>4, <1>5, <1>7, <1>9 DEF t

(* x86p_imul_to_register.                                                    *)
LEMMA ToRegisterFact ==
  ASSUME NEW d, NEW e, Twin(d, e), NEW x \in Int, NEW y \in Int, NEW w \in Width, NEW r \in 0 .. 7,
         NEW f, f = ImulToRegister(d, x, y, r, w),
         NEW h, h = WriteReg(WithFlags(e, Imul(x, y, w, e.flags).f), r, w, Imul(x, y, w, e.flags).lo)
  PROVE  Twin(f, h) /\ f.st = d.st /\ h.st = e.st /\ h.eip = e.eip /\ h.next = e.next
<1>1. d \in Cpus /\ e \in Cpus /\ Even(d, e) /\ d.flags \in Records /\ e.flags \in Records /\ SameRecord(d.flags, e.flags)
  BY CpusFact DEF Twin, Even
<1>2. PICK t : t = Imul(x, y, w, e.flags)
  OBVIOUS
<1>3. t = Imul(x, y, w, d.flags) /\ t.lo \in Int /\ t.f \in Records
  <2>1. PICK a \in Records, b \in Records : a = d.flags /\ b = e.flags /\ SameRecord(a, b)
    BY <1>1
  <2>2. Imul(x, y, w, a) = Imul(x, y, w, b) /\ Imul(x, y, w, a).lo \in Int /\ Imul(x, y, w, a).f \in Records
    BY <2>1, ProductFact
  <2> QED
    BY <1>2, <2>1, <2>2
<1>4. PICK p, q : p = WithFlags(d, t.f) /\ q = WithFlags(e, t.f)
  OBVIOUS
<1>5. Twin(p, q) /\ p.st = d.st /\ q.st = e.st /\ q.eip = e.eip /\ q.next = e.next
  BY <1>1, <1>3, <1>4, FlagsTwin, SameSelf
<1>6. f = WriteReg(p, r, w, t.lo) /\ h = WriteReg(q, r, w, t.lo)
  BY <1>2, <1>3, <1>4 DEF ImulToRegister
<1>7. Moved(p, q, f, h)
  BY <1>3, <1>5, <1>6, WriteRegMoved DEF Twin
<1>8. Twin(f, h) /\ f.st = d.st /\ h.st = e.st /\ h.eip = e.eip /\ h.next = e.next
  BY <1>5, <1>7, MovedTwin
<1> QED
  BY <1>8

(* x86p_wasm_multiply.                                                       *)
LEMMA MultiplyDone ==
  ASSUME NEW m, NEW g, NEW i, Along(m, g, i), NEW in, in.op \in {"Mul", "Imul"}, Decoded(in), Plain(in.o0), Plain(in.o1)
  PROVE  Done(Forgot(WasmMultiply(m, in, i)), ExecMul(g, in), i)
<1>0. Twin(m.c, g) /\ m.c.st = "Ok" /\ g.st = "Ok" /\ m.c \in Cpus /\ g \in Cpus /\ Even(m.c, g)
  BY AlongFact DEF Along
<1>1. /\ in.n \in {1, 2, 3} /\ in.o0 \in Places
      /\ in.n # 1 => in.op = "Imul" /\ in.o0 \in Registers /\ in.o1 \in Places
      /\ in.n = 3 => in.o2 \in Immediates
  <2>1. CASE in.op = "Mul"
    BY <2>1 DEF Decoded
  <2>2. CASE in.op = "Imul"
    BY <2>2 DEF Decoded, Places
  <2> QED
    BY <2>1, <2>2
<1> DEFINE w == in.o0.w
<1>2. w \in Width
  BY <1>1, PlacesFact
<1>3. CASE in.n = 1
  <2>1. /\ WasmOk(m.c, in.o0) <=> Readable(g, in.o0)
        /\ Readable(g, in.o0) => WasmValue(m.c, in.o0) = Value(g, in.o0) /\ Value(g, in.o0) \in Int
    BY <1>1, OperandsFact
  <2>2. CASE Readable(g, in.o0)
    <3>1. PICK v \in Int : v = Value(g, in.o0) /\ v = WasmValue(m.c, in.o0)
      BY <2>1, <2>2
    <3>2. PICK op : op = in.op
      OBVIOUS
    <3> DEFINE t == IF op = "Mul" THEN Mul(ReadReg(g, Eax, w), v, w, g.flags) ELSE Imul(ReadReg(g, Eax, w), v, w, g.flags)
               f == MultiplyAccumulator(m.c, op, v, w)
               h == PairStore(WithFlags(g, t.f), w, t.lo, t.hi)
    <3>3. Twin(f, h) /\ f.st = m.c.st /\ h.st = g.st /\ h.eip = g.eip /\ h.next = g.next
      <4>1. PICK d, l : d = m.c /\ l = w
        OBVIOUS
      <4> DEFINE s == IF op = "Mul" THEN Mul(ReadReg(g, Eax, l), v, l, g.flags) ELSE Imul(ReadReg(g, Eax, l), v, l, g.flags)
                 p == MultiplyAccumulator(d, op, v, l)
                 q == PairStore(WithFlags(g, s.f), l, s.lo, s.hi)
      <4>2. Twin(d, g) /\ l \in Width
        BY <1>0, <1>2, <4>1
      <4>3. Twin(p, q) /\ p.st = d.st /\ q.st = g.st /\ q.eip = g.eip /\ q.next = g.next
        BY <4>2, AccumulatorFact
      <4>4. p = f /\ q = h
        BY <4>1
      <4> HIDE DEF p, q, f, h
      <4> QED
        BY <4>1, <4>3, <4>4
    <3>4. WasmMultiply(m, in, i) = [m EXCEPT !.c = f]
      BY <1>3, <2>1, <2>2, <3>1, <3>2 DEF WasmMultiply
    <3>5. ExecMul(g, in) = h
      BY <1>3, <2>2, <3>1, <3>2 DEF ExecMul
    <3> HIDE DEF f, h
    <3> QED
      BY <1>0, <3>3, <3>4, <3>5, ForgotDone
  <2>3. CASE ~Readable(g, in.o0)
    <3>1. WasmMultiply(m, in, i) = MemoryFaultAt(m, i) /\ ExecMul(g, in) = Fault(g)
      BY <1>3, <2>1, <2>3 DEF WasmMultiply, ExecMul
    <3> QED
      BY <3>1, ForgotFault
  <2> QED
    BY <2>2, <2>3
<1>4. CASE in.n # 1
  <2>0. in.o0.k = "Reg" /\ in.o0.r \in 0 .. 7 /\ Readable(g, in.o0) /\ WasmOk(m.c, in.o0) /\ in.o1 \in Places \cup Immediates
        /\ in.op # "Mul"
    BY <1>1, <1>4 DEF Registers, Readable, WasmOk, IsMem
  <2>1. /\ WasmOk(m.c, in.o1) <=> Readable(g, in.o1)
        /\ Readable(g, in.o1) => WasmValue(m.c, in.o1) = Value(g, in.o1) /\ Value(g, in.o1) \in Int
        /\ WasmValue(m.c, in.o0) = Value(g, in.o0) /\ Value(g, in.o0) \in Int
    BY <1>1, <1>4, <2>0, OperandsFact
  <2>2. CASE Readable(g, in.o1)
    <3>1. PICK v \in Int, u \in Int : v = Value(g, in.o1) /\ v = WasmValue(m.c, in.o1) /\ u = Value(g, in.o0) /\ u = WasmValue(m.c, in.o0)
      BY <2>1, <2>2
    <3>2. ASSUME NEW x \in Int, NEW y \in Int,
                 WasmMultiply(m, in, i) = [m EXCEPT !.c = ImulToRegister(m.c, x, y, in.o0.r, w)],
                 ExecMul(g, in) = Write(WithFlags(g, Imul(x, y, w, g.flags).f), in.o0, Imul(x, y, w, g.flags).lo)
          PROVE  Done(Forgot(WasmMultiply(m, in, i)), ExecMul(g, in), i)
      <4>1. PICK f, h : /\ f = ImulToRegister(m.c, x, y, in.o0.r, w)
                        /\ h = WriteReg(WithFlags(g, Imul(x, y, w, g.flags).f), in.o0.r, w, Imul(x, y, w, g.flags).lo)
        OBVIOUS
      <4>2. Twin(f, h) /\ f.st = m.c.st /\ h.st = g.st /\ h.eip = g.eip /\ h.next = g.next
        <5>0. PICK d : d = m.c
          OBVIOUS
        <5>l. PICK l \in Width : l = w
          BY <1>2
        <5>r. PICK r \in 0 .. 7 : r = in.o0.r
          BY <2>0
        <5>1. Twin(d, g)
          BY <1>0, <5>0
        <5>2. f = ImulToRegister(d, x, y, r, l) /\ h = WriteReg(WithFlags(g, Imul(x, y, l, g.flags).f), r, l, Imul(x, y, l, g.flags).lo)
          BY <4>1, <5>0, <5>l, <5>r
        <5>3. Twin(f, h) /\ f.st = d.st /\ h.st = g.st /\ h.eip = g.eip /\ h.next = g.next
          BY <5>1, <5>2, ToRegisterFact
        <5> QED
          BY <5>0, <5>3
      <4>3. ExecMul(g, in) = h
        BY <2>0, <3>2, <4>1 DEF Write
      <4>4. Done(Forgot([m EXCEPT !.c = f]), h, i)
        BY <1>0, <4>2, ForgotDone
      <4> QED
        BY <3>2, <4>1, <4>3, <4>4
    <3>3. CASE in.n = 2
      <4>1. WasmMultiply(m, in, i) = [m EXCEPT !.c = ImulToRegister(m.c, u, v, in.o0.r, w)]
        BY <2>1, <2>2, <3>1, <3>3 DEF WasmMultiply
      <4>2. ExecMul(g, in) = Write(WithFlags(g, Imul(u, v, w, g.flags).f), in.o0, Imul(u, v, w, g.flags).lo)
        BY <2>0, <2>2, <3>1, <3>3 DEF ExecMul
      <4> QED
        BY <3>2, <4>1, <4>2
    <3>4. CASE in.n = 3
      <4>1. PICK y \in Int : y = in.o2.v /\ y = Value(g, in.o2)
        BY <1>1, <3>4, DwordsFact DEF Immediates, Value
      <4>2. WasmMultiply(m, in, i) = [m EXCEPT !.c = ImulToRegister(m.c, v, Trunc(y, w), in.o0.r, w)]
        BY <2>1, <2>2, <3>1, <3>4, <4>1 DEF WasmMultiply
      <4>3. ImulToRegister(m.c, v, Trunc(y, w), in.o0.r, w) = ImulToRegister(m.c, v, y, in.o0.r, w)
        <5>1. Imul(v, Trunc(y, w), w, m.c.flags) = Imul(v, y, w, m.c.flags)
          BY <1>0, <1>2, CpusFact, ProductFact
        <5> QED
          BY <5>1 DEF ImulToRegister
      <4>4. ExecMul(g, in) = Write(WithFlags(g, Imul(v, y, w, g.flags).f), in.o0, Imul(v, y, w, g.flags).lo)
        BY <2>0, <2>2, <3>1, <3>4, <4>1 DEF ExecMul
      <4> QED
        BY <3>2, <4>2, <4>3, <4>4
    <3> QED
      BY <1>1, <1>4, <3>3, <3>4
  <2>3. CASE ~Readable(g, in.o1)
    <3>1. WasmMultiply(m, in, i) = MemoryFaultAt(m, i) /\ ExecMul(g, in) = Fault(g)
      BY <1>1, <1>4, <2>1, <2>3 DEF WasmMultiply, ExecMul
    <3> QED
      BY <3>1, ForgotFault
  <2> QED
    BY <2>2, <2>3
<1> QED
  BY <1>3, <1>4

(* x86p_wasm_divide.                                                         *)
LEMMA DivideDone ==
  ASSUME NEW m, NEW g, NEW i, Along(m, g, i), NEW in, in.op \in {"Div", "Idiv"}, in.o0 \in Places, Plain(in.o0)
  PROVE  Done(Forgot(WasmDivide(m, in, i)), ExecDiv(g, in), i)
<1> DEFINE w == in.o0.w
<1>1. /\ Twin(m.c, g) /\ m.c.st = "Ok" /\ g.st = "Ok" /\ Even(m.c, g) /\ w \in Width
      /\ m.c.reg = g.reg /\ g.reg \in [0 .. 7 -> Dwords]
  BY AlongFact, CpusFact, PlacesFact DEF Along
<1>2. /\ WasmOk(m.c, in.o0) <=> Readable(g, in.o0)
      /\ Readable(g, in.o0) => WasmValue(m.c, in.o0) = Value(g, in.o0) /\ Value(g, in.o0) \in Int
  BY OperandsFact
<1>3. CASE Readable(g, in.o0)
  <2>1. PICK v \in Int : v = Value(g, in.o0) /\ v = WasmValue(m.c, in.o0)
    BY <1>2, <1>3
  <2>2. PICK lo \in Int : lo = ReadReg(g, Eax, w) /\ lo = ReadReg(m.c, Eax, w)
    BY <1>1, NamesFact, ReadRegFact
  <2>3. PICK hi \in Int : /\ hi = IF w = 1 THEN ReadReg(g, 4, 1) ELSE ReadReg(g, Edx, w)
                          /\ hi = IF w = 1 THEN ReadReg(m.c, 4, 1) ELSE ReadReg(m.c, Edx, w)
    <3>1. PICK r \in 0 .. 7 : r = IF w = 1 THEN 4 ELSE Edx
      BY NamesFact
    <3>2. ReadReg(g, r, w) = ReadReg(m.c, r, w) /\ ReadReg(g, r, w) \in Int
      BY <1>1, ReadRegFact
    <3> QED
      BY <3>1, <3>2
  <2>4. PICK t : t = IF in.op = "Div" THEN Div(hi, lo, v, w) ELSE Idiv(hi, lo, v, w)
    OBVIOUS
  <2>5. t.q \in Int /\ t.r \in Int
    BY <1>1, <2>4, DivisionFact
  <2>6. WasmDivide(m, in, i) = IF ~t.ok THEN Exit(m, i - 1, "DivideError") ELSE [m EXCEPT !.c = PairStore(m.c, w, t.q, t.r)]
    <3>1. t = IF in.op = "Idiv" THEN Idiv(hi, lo, v, w) ELSE Div(hi, lo, v, w)
      BY <2>4
    <3> QED
      BY <1>2, <1>3, <2>1, <2>2, <2>3, <3>1 DEF WasmDivide
  <2>7. ExecDiv(g, in) = IF ~t.ok THEN Stopped(g, "DivideError") ELSE PairStore(g, w, t.q, t.r)
    BY <1>3, <2>1, <2>2, <2>3, <2>4 DEF ExecDiv
  <2>8. CASE t.ok
    <3>1. PICK f, h : f = PairStore(m.c, w, t.q, t.r) /\ h = PairStore(g, w, t.q, t.r)
      OBVIOUS
    <3>2. Moved(m.c, g, f, h)
      BY <1>1, <2>5, <3>1, PairFact
    <3>3. Twin(f, h) /\ f.st = "Ok" /\ h.st = "Ok" /\ h.eip = g.eip /\ h.next = g.next
      BY <1>1, <3>2, MovedTwin
    <3> QED
      BY <2>6, <2>7, <2>8, <3>1, <3>3, ForgotDone
  <2>9. CASE ~t.ok
    <3>1. "DivideError" \in Statuses /\ "DivideError" # "Ok"
      BY DEF Statuses
    <3>2. Done(Exit(m, i - 1, "DivideError"), Stopped(g, "DivideError"), i) /\ ~Exit(m, i - 1, "DivideError").in
      BY <3>1, StopDone
    <3> QED
      BY <2>6, <2>7, <2>9, <3>2, LeftLearned
  <2> QED
    BY <2>8, <2>9
<1>4. CASE ~Readable(g, in.o0)
  <2>1. WasmDivide(m, in, i) = MemoryFaultAt(m, i) /\ ExecDiv(g, in) = Fault(g)
    BY <1>2, <1>4 DEF WasmDivide, ExecDiv
  <2> QED
    BY <2>1, ForgotFault
<1> QED
  BY <1>3, <1>4

(* Recording flags and writing an operand do not disturb each other.         *)
LEMMA WriteWithFlags ==
  ASSUME NEW d \in Cpus, NEW o \in Places, Readable(d, o), NEW f \in Records, NEW v \in Int
  PROVE  Write(WithFlags(d, f), o, v) = WithFlags(Write(d, o, v), f)
<1>1. PICK e : e = WithFlags(d, f)
  OBVIOUS
<1>2. e.reg = d.reg /\ e.mem = d.mem /\ e.fs_base = d.fs_base
  BY <1>1 DEF Cpus, WithFlags
<1>3. Address(e, o) = Address(d, o) /\ Readable(e, o)
  BY <1>2, SameAddress
<1>4. CASE o.k = "Reg"
  <2>1. PICK r, w : r = o.r /\ w = o.w
    OBVIOUS
  <2>2. WriteReg(e, r, w, v) = WithFlags(WriteReg(d, r, w, v), f)
    <3>1. CASE w = 1
      <4>1. WriteReg(e, r, w, v) = [e EXCEPT !.reg = [d.reg EXCEPT ![r % 4] = WithField(d.reg[r % 4], r \div 4, 1, v)]]
        BY <1>2, <3>1 DEF WriteReg
      <4>2. WriteReg(d, r, w, v) = [d EXCEPT !.reg = [d.reg EXCEPT ![r % 4] = WithField(d.reg[r % 4], r \div 4, 1, v)]]
        BY <3>1 DEF WriteReg
      <4>3. PICK regs : regs = [d.reg EXCEPT ![r % 4] = WithField(d.reg[r % 4], r \div 4, 1, v)]
        OBVIOUS
      <4>4. [e EXCEPT !.reg = regs] = WithFlags([d EXCEPT !.reg = regs], f)
        BY <1>1 DEF WithFlags, Cpus
      <4> QED
        BY <4>1, <4>2, <4>3, <4>4
    <3>2. CASE w # 1
      <4>1. WriteReg(e, r, w, v) = [e EXCEPT !.reg = [d.reg EXCEPT ![r] = WithField(d.reg[r], 0, w, v)]]
        BY <1>2, <3>2 DEF WriteReg
      <4>2. WriteReg(d, r, w, v) = [d EXCEPT !.reg = [d.reg EXCEPT ![r] = WithField(d.reg[r], 0, w, v)]]
        BY <3>2 DEF WriteReg
      <4>3. PICK regs : regs = [d.reg EXCEPT ![r] = WithField(d.reg[r], 0, w, v)]
        OBVIOUS
      <4>4. [e EXCEPT !.reg = regs] = WithFlags([d EXCEPT !.reg = regs], f)
        BY <1>1 DEF WithFlags, Cpus
      <4> QED
        BY <4>1, <4>2, <4>3, <4>4
    <3> QED
      BY <3>1, <3>2
  <2> QED
    BY <1>1, <1>4, <2>1, <2>2 DEF Write
<1>5. CASE o.k = "Mem"
  <2>1. PICK a, w : a = Address(d, o) /\ w = o.w
    OBVIOUS
  <2>2. PICK mem : mem = [x \in Window |-> IF x \in a .. a + w - 1 THEN ByteOf(v, x - a) ELSE d.mem[x]]
    OBVIOUS
  <2>3. Store(e, a, w, v) = [e EXCEPT !.mem = mem] /\ Store(d, a, w, v) = [d EXCEPT !.mem = mem]
    BY <1>2, <2>2 DEF Store
  <2>4. [e EXCEPT !.mem = mem] = WithFlags([d EXCEPT !.mem = mem], f)
    BY <1>1 DEF WithFlags, Cpus
  <2>5. Write(e, o, v) = Store(e, a, w, v) /\ Write(d, o, v) = Store(d, a, w, v)
    BY <1>3, <1>5, <2>1 DEF Write
  <2> QED
    BY <1>1, <2>3, <2>4, <2>5
<1> QED
  BY <1>4, <1>5, PlacesFact

(* x86p_wasm_shift_lower.                                                    *)
LEMMA DoubleShiftDone ==
  ASSUME NEW m, NEW g, NEW i, Along(m, g, i), NEW in, in.op \in {"Shld", "Shrd"}, in.o0 \in Places, in.o1 \in Registers,
         in.o2 \in ByteCounts, Plain(in.o0)
  PROVE  Done(Forgot(WasmDoubleShift(m, in, i)), ExecDoubleShift(g, in), i)
<1>1. /\ m.c \in Cpus /\ g \in Cpus /\ Even(m.c, g) /\ Eflags(m.c.flags) = Eflags(g.flags) /\ m \in Blocks
  BY AlongFact, SameEflags
<1>2. PICK o \in Places, w \in Width : o = in.o0 /\ w = o.w /\ Plain(o)
  BY PlacesFact
<1>3. /\ in.o1 \in Places \cup Immediates /\ in.o1.k = "Reg" /\ in.o2 \in Places \cup Immediates /\ in.o2.k # "Mem"
  BY CountsFact DEF Places, Registers, ByteCounts, CountBytes, Immediates
<1>4. Plain(in.o1) /\ Plain(in.o2) /\ Readable(g, in.o1) /\ Readable(g, in.o2)
  BY <1>3, RegisterOk
<1>5. /\ WasmOk(m.c, o) <=> Readable(g, o)
      /\ Readable(g, o) => WasmValue(m.c, o) = Value(g, o) /\ Value(g, o) \in Int
  BY <1>2, <1>3, <1>4, OperandsFact
<1>6. WasmValue(m.c, in.o1) = Value(g, in.o1) /\ Value(g, in.o1) \in Int
  BY <1>1, <1>3, <1>4, WasmValueFact, ValueFact DEF Places
<1>7. WasmValue(m.c, in.o2) = Value(g, in.o2) /\ Value(g, in.o2) \in Int
  <2>1. CASE in.o2 \in Registers
    BY <1>1, <1>4, <2>1, WasmValueFact, ValueFact DEF Places
  <2>2. CASE in.o2 \in CountBytes
    <3>1. in.o2.k = "Imm" /\ in.o2.v \in Bytes /\ in.o2.v \in Int /\ in.o2.w \in Width
      BY <2>2, DwordsFact DEF CountBytes, Immediates
    <3>2. Trunc(in.o2.v, in.o2.w) = in.o2.v
      <4>1. PICK u \in Width, v \in Bytes : u = in.o2.w /\ v = in.o2.v
        BY <3>1
      <4>2. v \in 0 .. Power(Bits(u)) - 1 /\ v \in Int
        <5>1. PICK p \in Nat \ {0}, q \in Nat \ {0} : p = Power(Bits(1)) /\ q = Power(Bits(u)) /\ p <= q
          BY WidthFact, NamesFact
        <5> QED
          BY <5>1 DEF Bytes
      <4> QED
        BY <4>1, <4>2, TruncFact
    <3> QED
      BY <3>1, <3>2 DEF WasmValue, Value
  <2> QED
    BY <2>1, <2>2 DEF ByteCounts
<1>8. CASE ~Readable(g, o)
  <2>1. WasmDoubleShift(m, in, i) = MemoryFaultAt(m, i) /\ ExecDoubleShift(g, in) = Fault(g)
    BY <1>2, <1>5, <1>8 DEF WasmDoubleShift, ExecDoubleShift
  <2> QED
    BY <2>1, ForgotFault
<1>9. CASE Readable(g, o)
  <2>1. PICK x \in Int, y \in Int, count \in Int, left \in BOOLEAN, e \in SUBSET ArithFlags :
          /\ x = Value(g, o) /\ y = Value(g, in.o1) /\ count = Value(g, in.o2) /\ left = (in.op = "Shld") /\ e = Eflags(g.flags)
    BY <1>5, <1>6, <1>7, <1>9, EflagsFact
  <2>0. PICK n \in Nat : n = MaskedCount(count)
    BY CountFact
  <2>2. PICK t : n = MaskedCount(count) /\ t = DoubleShift(left, x, y, count, w, e)
    BY <2>0
  <2>3. /\ t.r \in Int /\ t.e \in SUBSET ArithFlags
        /\ t.wrote <=> n # 0 /\ n <= Bits(w)
        /\ ~t.wrote => (t.defined <=> n = 0)
        /\ DoubleShift(left, x, y, n, w, e) = t
    BY <2>2, DoubleShiftFact
  <2>4. WasmOk(m.c, o) /\ WasmValue(m.c, o) = x /\ WasmValue(m.c, in.o1) = y /\ WasmValue(m.c, in.o2) = count
    BY <1>5, <1>6, <1>7, <1>9, <2>1
  <2>5. WasmDoubleShift(m, in, i) =
          IF n = 0 THEN m
          ELSE IF n > Bits(w) THEN Exit(m, i - 1, "Unsupported")
          ELSE WasmWrite([m EXCEPT !.c = IF t.wrote THEN Explicitly(@, t.e) ELSE @], o, t.r)
    BY <1>1, <1>2, <2>1, <2>2, <2>3, <2>4 DEF WasmDoubleShift
  <2>6. ExecDoubleShift(g, in) =
          IF t.wrote THEN Explicitly(Write(g, o, t.r), t.e) ELSE IF t.defined THEN g ELSE Stopped(g, "Unsupported")
    BY <1>2, <1>9, <2>1, <2>2 DEF ExecDoubleShift
  <2>7. CASE n = 0
    <3>1. WasmDoubleShift(m, in, i) = m /\ ExecDoubleShift(g, in) = g
      BY <2>3, <2>5, <2>6, <2>7
    <3> QED
      BY <3>1, UnknownDone
  <2>8. CASE n # 0 /\ n > Bits(w)
    <3>1. ~t.wrote /\ ~t.defined
      BY <2>3, <2>8, BitsFact
    <3>2. WasmDoubleShift(m, in, i) = Exit(m, i - 1, "Unsupported") /\ ExecDoubleShift(g, in) = Stopped(g, "Unsupported")
      BY <2>5, <2>6, <2>8, <3>1
    <3>3. "Unsupported" \in Statuses
      BY DEF Statuses
    <3> QED
      BY <3>2, <3>3, StopDone, LeftLearned
  <2>9. CASE n # 0 /\ ~(n > Bits(w))
    <3>1. t.wrote
      BY <2>3, <2>9, BitsFact
    <3>2. PICK f \in Records, r \in Int : f = SetExplicit(t.e) /\ r = t.r
      BY <2>3, ExplicitFact
    <3>3. Explicitly(m.c, t.e) = [m.c EXCEPT !.flags = f]
      BY <3>2 DEF Explicitly
    <3>4. PICK p, h : p = [m EXCEPT !.c.flags = f] /\ h = WithFlags(g, f)
      OBVIOUS
    <3>5. [m EXCEPT !.c = Explicitly(m.c, t.e)] = p
      BY <1>1, <3>3, <3>4
    <3>6. Along(p, h, i) /\ p.c.reg = m.c.reg /\ p.c.fs_base = m.c.fs_base
      BY <3>2, <3>4, RecordAlong, SameSelf
    <3>7. WasmOk(p.c, o)
      BY <2>4, <3>6, SameAddress
    <3>8. Along(WasmWrite(p, o, r), Write(h, o, r), i)
      BY <1>2, <3>6, <3>7, WriteAlong
    <3>9. Write(h, o, r) = WithFlags(Write(g, o, r), f)
      BY <1>1, <1>9, <3>4, WriteWithFlags
    <3>10. WithFlags(Write(g, o, r), f) = Explicitly(Write(g, o, r), t.e)
      BY <3>2 DEF WithFlags, Explicitly
    <3>11. WasmDoubleShift(m, in, i) = WasmWrite(p, o, r) /\ ExecDoubleShift(g, in) = Write(h, o, r)
      BY <2>5, <2>6, <2>9, <3>1, <3>2, <3>5, <3>9, <3>10
    <3> QED
      BY <3>8, <3>11, UnknownDone
  <2> QED
    BY <2>7, <2>8, <2>9
<1> QED
  BY <1>8, <1>9

(* A displacement moves the address it is part of.                           *)
LEMMA MovedAddress ==
  ASSUME NEW d \in Cpus, NEW o \in Memories, Plain(o), NEW n \in Int
  PROVE  LET u == [o EXCEPT !.disp = @ + n]
         IN  /\ u \in Memories /\ u.w = o.w /\ u.k = "Mem" /\ Plain(u)
             /\ Address(d, u) = Trunc(WasmAddress(d, o) + n, 4)
<1>0. PICK u : u = [o EXCEPT !.disp = @ + n]
  OBVIOUS
<1>1. u \in Memories /\ u.w = o.w /\ u.k = "Mem" /\ Plain(u) /\ ~u.addr16 /\ ~o.addr16
  BY <1>0 DEF Memories, MemoryOf, Plain, IsMem
<1>2. o \in MemoryOf(Widths) /\ o.base \in -1 .. 7 /\ o.index \in -1 .. 7 /\ o.scale \in Int /\ o.disp \in Int /\ o.fs \in BOOLEAN
  BY DEF Memories, MemoryOf, Widths
<1>3. PICK b \in Int, x \in Int, s \in Int : /\ b = IF o.base < 0 THEN 0 ELSE d.reg[o.base]
                                             /\ x = IF o.index < 0 THEN 0 ELSE d.reg[o.index] * o.scale
                                             /\ s = IF o.fs THEN d.fs_base ELSE 0
  <2>1. (IF o.base < 0 THEN 0 ELSE d.reg[o.base]) \in Int
    BY <1>2, CpusFact
  <2>2. (IF o.index < 0 THEN 0 ELSE d.reg[o.index] * o.scale) \in Int
    <3>1. CASE o.index < 0
      BY <3>1
    <3>2. CASE ~(o.index < 0)
      <4>1. PICK v \in Int, e \in Int : v = d.reg[o.index] /\ e = o.scale
        BY <1>2, <3>2, CpusFact
      <4>2. v * e \in Int
        OBVIOUS
      <4> QED
        BY <3>2, <4>1, <4>2
    <3> QED
      BY <3>1, <3>2
  <2>3. (IF o.fs THEN d.fs_base ELSE 0) \in Int
    BY <1>2, CpusFact, DwordsFact
  <2> QED
    BY <2>1, <2>2, <2>3
<1>4. PICK disp \in Int : disp = o.disp
  BY <1>2
<1>5. u.base = o.base /\ u.index = o.index /\ u.scale = o.scale /\ u.disp = disp + n /\ u.fs = o.fs
  BY <1>0, <1>4 DEF Memories, MemoryOf
<1>6. Address(d, o) = Trunc(Trunc(b + x + disp, 4) + s, 4)
  BY <1>1, <1>3, <1>4 DEF Address
<1>7. Address(d, u) = Trunc(Trunc(b + x + (disp + n), 4) + s, 4)
  BY <1>1, <1>3, <1>5 DEF Address
<1>8. 4 \in Width /\ b + x + disp \in Int /\ (b + x + disp) + s \in Int /\ b + x + (disp + n) \in Int
  BY NamesFact
<1>9. Trunc(Trunc(b + x + disp, 4) + s, 4) = Trunc((b + x + disp) + s, 4)
  BY <1>8, TruncAdd
<1>10. Trunc(Trunc((b + x + disp) + s, 4) + n, 4) = Trunc(((b + x + disp) + s) + n, 4)
  BY <1>8, TruncAdd
<1>11. Trunc(Trunc(b + x + (disp + n), 4) + s, 4) = Trunc((b + x + (disp + n)) + s, 4)
  BY <1>8, TruncAdd
<1>12. (b + x + (disp + n)) + s = ((b + x + disp) + s) + n
  OBVIOUS
<1>13. WasmAddress(d, o) = Address(d, o)
  BY <1>1, <1>2, AddressFact
<1>14. Address(d, u) = Trunc(WasmAddress(d, o) + n, 4)
  BY <1>6, <1>7, <1>9, <1>10, <1>11, <1>12, <1>13, Zenon
<1> QED
  BY <1>0, <1>1, <1>14

\* Where a bit instruction finds its bit, for the block and for the interpreter.
BitAt(m, in, u, a) ==
  /\ u \in Places /\ u.w = in.o0.w /\ Plain(u)
  /\ IF IsMem(in.o0) THEN u.k = "Mem" /\ a \in Dwords /\ Address(m.c, u) = a ELSE u = in.o0 /\ u.k = "Reg"

(* The unit a register offset selects is the address the block moved.        *)
LEMMA BitUnitFact ==
  ASSUME NEW m, NEW g, NEW i, Along(m, g, i), NEW in, in.op = "Bit", in.o0 \in Places, in.o1 \in Registers \cup CountBytes,
         Plain(in.o0), in.o0.w = 4 \/ ~(IsMem(in.o0) /\ in.o1.k = "Reg"), NEW n \in Int, n = Value(g, in.o1), NEW a,
         a = IF IsMem(in.o0)
             THEN Trunc(WasmAddress(m.c, in.o0) + (IF in.o1.k = "Reg" THEN (Signed(n, 4) \div Bits(4)) * 4 ELSE 0), 4) ELSE 0
  PROVE  BitAt(m, in, BitUnit(g, in), a)
<1>1. m.c \in Cpus /\ g \in Cpus /\ Even(m.c, g)
  BY AlongFact
<1>2. PICK o \in Places : o = in.o0 /\ o.w \in Width
  BY PlacesFact
<1>3. CASE ~IsMem(o)
  BY <1>2, <1>3, PlacesFact DEF BitUnit, BitAt, IsMem
<1>4. CASE IsMem(o)
  <2>1. o \in Memories /\ ~o.addr16
    BY <1>2, <1>4 DEF Places, Registers, Plain, IsMem
  <2>2. CASE in.o1.k = "Reg"
    <3>1. o.w = 4
      BY <1>2, <1>4, <2>2
    <3>2. PICK off \in Int : off = (Signed(n, 4) \div Bits(4)) * 4
      <4>1. PICK s \in Int : s = Signed(n, 4)
        BY NamesFact, SignedTrunc
      <4>2. PICK b \in Nat \ {0} : b = Bits(4)
        BY BitsFact
      <4>3. s \div b \in Int
        BY DivMod
      <4>4. (s \div b) * 4 \in Int
        BY <4>3
      <4> QED
        BY <4>1, <4>2, <4>4
    <3>3. BitUnit(g, in) = [o EXCEPT !.disp = @ + off]
      BY <1>2, <1>4, <2>2, <3>1, <3>2 DEF BitUnit, IsMem
    <3>4. PICK u : u = [o EXCEPT !.disp = @ + off]
      OBVIOUS
    <3>5. /\ u \in Memories /\ u.w = o.w /\ u.k = "Mem" /\ Plain(u)
          /\ Address(m.c, u) = Trunc(WasmAddress(m.c, o) + off, 4)
      <4>1. PICK d \in Cpus : d = m.c
        BY <1>1
      <4>2. PICK p \in Memories : p = o /\ Plain(p)
        BY <1>2, <2>1
      <4>3. u = [p EXCEPT !.disp = @ + off]
        BY <3>4, <4>2
      <4>4. u \in Memories /\ u.w = p.w /\ u.k = "Mem" /\ Plain(u) /\ Address(d, u) = Trunc(WasmAddress(d, p) + off, 4)
        BY <4>2, <4>3, MovedAddress
      <4> QED
        BY <4>1, <4>2, <4>4
    <3>6. u \in MemoryOf(Widths) /\ u \in Places
      BY <3>5 DEF Memories, MemoryOf, Widths, Places
    <3>7. Address(m.c, u) \in Dwords
      BY <1>1, <3>6, AddressFact
    <3>8. a = Address(m.c, u)
      BY <1>2, <1>4, <2>2, <3>2, <3>5
    <3> QED
      BY <1>2, <1>4, <3>3, <3>4, <3>5, <3>6, <3>7, <3>8 DEF BitAt
  <2>3. CASE in.o1.k # "Reg"
    <3>1. BitUnit(g, in) = o
      BY <1>2, <1>4, <2>3 DEF BitUnit, IsMem
    <3>2. o \in MemoryOf(Widths)
      BY <2>1 DEF Memories, MemoryOf, Widths
    <3>3. PICK x \in Dwords : x = Address(m.c, o) /\ x = WasmAddress(m.c, o) /\ x \in Int
      BY <1>1, <2>1, <3>2, AddressFact
    <3>4. a = Trunc(x + 0, 4)
      BY <1>2, <1>4, <2>3, <3>3
    <3>5. x + 0 = x /\ Trunc(x, 4) = x
      BY <3>3, DwordsFact
    <3>6. a = x
      BY <3>4, <3>5
    <3> QED
      BY <1>2, <1>4, <3>1, <3>3, <3>6 DEF BitAt, IsMem
  <2> QED
    BY <2>2, <2>3
<1> QED
  BY <1>3, <1>4

(* x86p_wasm_bit_lower.                                                      *)
LEMMA BitDone ==
  ASSUME NEW m, NEW g, NEW i, Along(m, g, i), NEW in, in.op = "Bit", in.x \in BitOps, in.o0 \in Places,
         in.o1 \in Registers \cup CountBytes, Plain(in.o0), in.o0.w = 4 \/ ~(IsMem(in.o0) /\ in.o1.k = "Reg")
  PROVE  Done(WasmBit(m, in, i), ExecBit(g, in), i)
<1>1. /\ m.c \in Cpus /\ g \in Cpus /\ Even(m.c, g) /\ Eflags(m.c.flags) = Eflags(g.flags) /\ m \in Blocks
      /\ m.c.st = "Ok" /\ g.st = "Ok"
  BY AlongFact, SameEflags
<1>2. PICK o \in Places, w \in Width : o = in.o0 /\ w = o.w /\ Plain(o) /\ o.k \in {"Reg", "Mem"}
  BY PlacesFact
<1>3. WasmValue(m.c, in.o1) = Value(g, in.o1) /\ Value(g, in.o1) \in Int
  <2>1. CASE in.o1 \in Registers
    <3>1. in.o1.k # "Mem"
      BY <2>1 DEF Registers
    <3>2. Plain(in.o1) /\ Readable(g, in.o1)
      BY <3>1, RegisterOk
    <3> QED
      BY <1>1, <2>1, <3>2, WasmValueFact, ValueFact DEF Places
  <2>2. CASE in.o1 \in CountBytes
    <3>1. in.o1.k = "Imm" /\ in.o1.v \in Bytes /\ in.o1.v \in Int /\ in.o1.w \in Width
      BY <2>2, DwordsFact DEF CountBytes, Immediates
    <3>2. Trunc(in.o1.v, in.o1.w) = in.o1.v
      <4>1. PICK u \in Width, v \in Bytes : u = in.o1.w /\ v = in.o1.v
        BY <3>1
      <4>2. v \in 0 .. Power(Bits(u)) - 1 /\ v \in Int
        <5>1. PICK p \in Nat \ {0}, q \in Nat \ {0} : p = Power(Bits(1)) /\ q = Power(Bits(u)) /\ p <= q
          BY WidthFact, NamesFact
        <5> QED
          BY <5>1 DEF Bytes
      <4> QED
        BY <4>1, <4>2, TruncFact
    <3> QED
      BY <3>1, <3>2 DEF WasmValue, Value
  <2> QED
    BY <2>1, <2>2
<1>4. PICK n \in Int : n = WasmValue(m.c, in.o1) /\ n = Value(g, in.o1)
  BY <1>3
<1>5. PICK a : a = IF IsMem(in.o0)
                   THEN Trunc(WasmAddress(m.c, in.o0) + (IF in.o1.k = "Reg" THEN (Signed(n, 4) \div Bits(4)) * 4 ELSE 0), 4) ELSE 0
  OBVIOUS
<1>6. PICK u : u = BitUnit(g, in) /\ BitAt(m, in, u, a)
  BY <1>4, <1>5, BitUnitFact
<1>7. u \in Places /\ u.w = w /\ Plain(u) /\ Address(m.c, u) = Address(g, u)
  BY <1>1, <1>2, <1>6, SameAddress DEF BitAt, Even
<1>8. Readable(g, u) <=> ~(IsMem(o) /\ ~InBounds(a, w))
  <2>1. CASE IsMem(o)
    <3>1. u.k = "Mem" /\ a \in Dwords /\ Address(g, u) = a
      BY <1>2, <1>6, <1>7, <2>1 DEF BitAt
    <3>2. InBounds(a, w) <=> Accessible(a, w)
      BY <3>1, BoundsFact DEF Widths
    <3> QED
      BY <1>7, <2>1, <3>1, <3>2 DEF Readable
  <2>2. CASE ~IsMem(o)
    BY <1>2, <1>6, <2>2 DEF BitAt, Readable
  <2> QED
    BY <2>1, <2>2
<1>9. CASE ~Readable(g, u)
  <2>1. ExecBit(g, in) = Fault(g)
    BY <1>6, <1>9 DEF ExecBit
  <2>2. WasmBit(m, in, i) = MemoryFaultAt(m, i)
    BY <1>2, <1>4, <1>5, <1>8, <1>9 DEF WasmBit
  <2> QED
    BY <2>1, <2>2, FaultDone
<1>10. CASE Readable(g, u)
  <2>1. Readable(m.c, u)
    BY <1>1, <1>7, <1>10, GuardFact
  <2>2. PICK v \in Int : v = Value(g, u) /\ v = Value(m.c, u)
    BY <1>1, <1>7, <1>10, ValueFact
  <2>3. Slot(m.c, o, a, w) = v
    BY <1>2, <1>6, <1>7, <2>2 DEF Slot, Value, BitAt, IsMem
  <2>4. PICK j \in 0 .. Bits(4), e \in SUBSET ArithFlags : j = n % Bits(w) /\ e = Eflags(g.flags)
    <3>1. PICK b \in Nat \ {0}, l \in Nat : b = Bits(w) /\ l = Bits(4) /\ b <= l
      BY BitsFact
    <3>2. n % b \in 0 .. l
      BY <3>1
    <3> QED
      BY <3>1, <3>2, EflagsFact
  <2>5. PICK x, t : x \in BitOps /\ x = in.x /\ t = BitApply(in.x, v, j, e)
    OBVIOUS
  <2>6. t.r \in Int /\ t.e \in SUBSET ArithFlags
    BY <2>5, BitApplyFact
  <2>7. PICK r \in Int, s \in SUBSET ArithFlags : r = t.r /\ s = t.e
    BY <2>6
  <2>8. SlotStore(m.c, o, a, w, r) = Write(m.c, u, r)
    BY <1>2, <1>6, <1>7, <2>1 DEF SlotStore, Write, BitAt, IsMem
  <2>9. PICK d, h : d = (IF x = "Bt" THEN m.c ELSE Write(m.c, u, r)) /\ h = (IF x = "Bt" THEN g ELSE Write(g, u, r))
    OBVIOUS
  <2>10. Even(d, h) /\ d.st = "Ok" /\ h.st = "Ok" /\ h.eip = g.eip /\ h.next = g.next
    <3>1. Moved(m.c, g, Write(m.c, u, r), Write(g, u, r))
      BY <1>1, <1>7, <1>10, WriteMoved
    <3> QED
      BY <1>1, <2>9, <3>1 DEF Moved, Stays
  <2>11. ExecBit(g, in) = Explicitly(h, s)
    BY <1>4, <1>6, <1>7, <1>10, <2>2, <2>4, <2>5, <2>7, <2>9 DEF ExecBit
  <2>12. CpuBit(m.c, o, a, in.x, n, w) = Explicitly(d, s)
    BY <1>1, <2>3, <2>4, <2>5, <2>7, <2>8, <2>9 DEF CpuBit
  <2>13. WasmBit(m, in, i) = WasmWritten([m EXCEPT !.c = CpuBit(m.c, o, a, in.x, n, w)], "Explicit", 0)
    BY <1>2, <1>4, <1>5, <1>8, <1>10 DEF WasmBit
  <2> QED
    BY <2>7, <2>10, <2>11, <2>12, <2>13, ExplicitAlong
<1> QED
  BY <1>9, <1>10

\* One turn of PUSHAD, and the walk it is a turn of.
PushTurn(d, i, p) == IF p.st # "Ok" THEN p ELSE Push32(p, d.reg[i - 1])
PushWalk(f, d) == [i \in 0 .. 8 |-> IF i = 0 THEN d ELSE PushTurn(d, i, f[i - 1])]

(* A turn taken by two states alike.                                         *)
LEMMA PushTurnFact ==
  ASSUME NEW d \in Cpus, NEW e \in Cpus, d.reg = e.reg, NEW i \in 1 .. 8, NEW p, NEW q, Even(p, q), p.st = q.st
  PROVE  Worked(p, q, PushTurn(d, i, p), PushTurn(e, i, q))
<1>1. PICK v \in Int : v = d.reg[i - 1] /\ v = e.reg[i - 1]
  <2>1. i - 1 \in 0 .. 7
    OBVIOUS
  <2> QED
    BY <2>1, CpusFact
<1>2. CASE p.st # "Ok"
  BY <1>2, FaultWorked DEF PushTurn
<1>3. CASE p.st = "Ok"
  BY <1>1, <1>3, PushWorked DEF PushTurn
<1> QED
  BY <1>2, <1>3

(* The walk exists.                                                          *)
LEMMA PushWalkExists ==
  ASSUME NEW d \in Cpus
  PROVE  \E f : f = PushWalk(f, d)
<1> DEFINE step == [i \in 1 .. 8 |-> [p \in Cpus |-> PushTurn(d, i, p)]]
<1>1. Steps(step, Cpus, 8)
  <2>1. ASSUME NEW i \in 1 .. 8, NEW p \in Cpus PROVE PushTurn(d, i, p) \in Cpus
    <3>1. Even(p, p)
      BY DEF Even
    <3>2. Worked(p, p, PushTurn(d, i, p), PushTurn(d, i, p))
      BY <3>1, PushTurnFact
    <3> QED
      BY <3>2 DEF Worked, Even
  <2> QED
    BY <2>1 DEF Steps
<1>2. PICK f : f = WalkStep(f, d, step, 8) /\ \A i \in 0 .. 8 : f[i] \in Cpus
  <2>1. 8 \in Nat
    OBVIOUS
  <2> HIDE DEF step
  <2> QED
    BY <1>1, <2>1, WalkExists
<1>3. f = PushWalk(f, d)
  <2>1. ASSUME NEW i \in 0 .. 8, i # 0 PROVE step[i][f[i - 1]] = PushTurn(d, i, f[i - 1])
    <3>1. i \in 1 .. 8 /\ i - 1 \in 0 .. 8
      BY <2>1
    <3>2. f[i - 1] \in Cpus
      BY <1>2, <3>1
    <3> QED
      BY <3>1, <3>2
  <2> HIDE DEF step
  <2>2. [i \in 0 .. 8 |-> IF i = 0 THEN d ELSE step[i][f[i - 1]]] = PushWalk(f, d)
    BY <2>1 DEF PushWalk
  <2> QED
    BY <1>2, <2>2 DEF WalkStep
<1> QED
  BY <1>3

(* x86p_stack_pushad.                                                        *)
LEMMA PushAllWorked ==
  ASSUME NEW d, NEW e, Even(d, e), d.st = e.st
  PROVE  Worked(d, e, PushAll(d), PushAll(e))
<1>1. d \in Cpus /\ e \in Cpus /\ d.reg = e.reg
  BY DEF Even
<1>2. PICK f, h : f = (CHOOSE x : x = PushWalk(x, d)) /\ h = (CHOOSE x : x = PushWalk(x, e))
  OBVIOUS
<1>3. f = PushWalk(f, d) /\ h = PushWalk(h, e)
  BY <1>1, <1>2, PushWalkExists
<1>4. PushAll(d) = f[8] /\ PushAll(e) = h[8]
  BY <1>2 DEF PushAll, PushWalk, PushTurn
<1> DEFINE T == {j \in 0 .. 8 : Worked(d, e, f[j], h[j])}
<1>5. 0 \in T
  <2>1. f[0] = d /\ h[0] = e
    BY <1>3 DEF PushWalk
  <2> QED
    BY <2>1, FaultWorked
<1>6. ASSUME NEW j \in 0 .. 8 - 1, j \in T PROVE j + 1 \in T
  <2>1. j + 1 \in 1 .. 8 /\ j + 1 \in 0 .. 8 /\ (j + 1) - 1 = j
    OBVIOUS
  <2>2. f[j + 1] = PushTurn(d, j + 1, f[j]) /\ h[j + 1] = PushTurn(e, j + 1, h[j])
    BY <1>3, <2>1 DEF PushWalk
  <2>3. Worked(d, e, f[j], h[j]) /\ Even(f[j], h[j]) /\ f[j].st = h[j].st
    BY <1>6 DEF Worked
  <2>4. Worked(f[j], h[j], f[j + 1], h[j + 1])
    <3>1. PICK t, p, q : t \in 1 .. 8 /\ t = j + 1 /\ p = f[j] /\ q = h[j]
      BY <2>1
    <3> QED
      BY <1>1, <2>2, <2>3, <3>1, PushTurnFact
  <2> QED
    BY <2>1, <2>3, <2>4, WorkedTwice
<1>7. 0 .. 8 \subseteq T
  <2> HIDE DEF T
  <2> QED
    BY <1>5, <1>6, InductionInterval
<1> QED
  BY <1>4, <1>7

-----------------------------------------------------------------------------
\* One turn of POPAD.
PopTurn(i, p) ==
  IF p.st # "Ok" THEN p
  ELSE IF ~CanPop(p) THEN Fault(p)
  ELSE IF 8 - i = Esp THEN AfterPop(p)
  ELSE [AfterPop(p) EXCEPT !.reg[8 - i] = Popped(p)]
PopWalk(f, d) == [i \in 0 .. 8 |-> IF i = 0 THEN d ELSE PopTurn(i, f[i - 1])]

(* A turn taken by two states alike.                                         *)
LEMMA PopTurnFact ==
  ASSUME NEW i \in 1 .. 8, NEW p, NEW q, Even(p, q), p.st = q.st
  PROVE  Worked(p, q, PopTurn(i, p), PopTurn(i, q))
<1>1. CASE p.st # "Ok"
  BY <1>1, FaultWorked DEF PopTurn
<1>2. CASE p.st = "Ok" /\ ~CanPop(q)
  BY <1>2, FaultWorked, PopFact DEF PopTurn
<1>3. CASE p.st = "Ok" /\ CanPop(q)
  <2>1. CanPop(p) /\ Moved(p, q, AfterPop(p), AfterPop(q)) /\ Popped(p) = Popped(q) /\ Popped(q) \in Dwords
    BY <1>3, PopFact
  <2>2. CASE 8 - i = Esp
    <3>1. PopTurn(i, p) = AfterPop(p) /\ PopTurn(i, q) = AfterPop(q)
      BY <1>3, <2>1, <2>2 DEF PopTurn
    <3> QED
      BY <2>1, <3>1, MovedWorked
  <2>3. CASE 8 - i # Esp
    <3>1. PICK a, b, v, r : v \in Dwords /\ r \in 0 .. 7 /\ a = AfterPop(p) /\ b = AfterPop(q) /\ v = Popped(q) /\ r = 8 - i
      BY <2>1
    <3>2. PopTurn(i, p) = [a EXCEPT !.reg[r] = v] /\ PopTurn(i, q) = [b EXCEPT !.reg[r] = v]
      BY <1>3, <2>1, <2>3, <3>1 DEF PopTurn
    <3>3. Moved(a, b, [a EXCEPT !.reg[r] = v], [b EXCEPT !.reg[r] = v])
      BY <2>1, <3>1, SetRegMoved DEF Moved
    <3>4. Moved(p, q, [a EXCEPT !.reg[r] = v], [b EXCEPT !.reg[r] = v])
      BY <2>1, <3>1, <3>3, MovedTwice
    <3> QED
      BY <3>2, <3>4, MovedWorked
  <2> QED
    BY <2>2, <2>3
<1> QED
  BY <1>1, <1>2, <1>3

(* The walk exists.                                                          *)
LEMMA PopWalkExists ==
  ASSUME NEW d \in Cpus
  PROVE  \E f : f = PopWalk(f, d)
<1> DEFINE step == [i \in 1 .. 8 |-> [p \in Cpus |-> PopTurn(i, p)]]
<1>1. Steps(step, Cpus, 8)
  <2>1. ASSUME NEW i \in 1 .. 8, NEW p \in Cpus PROVE PopTurn(i, p) \in Cpus
    <3>1. Even(p, p)
      BY DEF Even
    <3>2. Worked(p, p, PopTurn(i, p), PopTurn(i, p))
      BY <3>1, PopTurnFact
    <3> QED
      BY <3>2 DEF Worked, Even
  <2> QED
    BY <2>1 DEF Steps
<1>2. PICK f : f = WalkStep(f, d, step, 8) /\ \A i \in 0 .. 8 : f[i] \in Cpus
  <2>1. 8 \in Nat
    OBVIOUS
  <2> HIDE DEF step
  <2> QED
    BY <1>1, <2>1, WalkExists
<1>3. f = PopWalk(f, d)
  <2>1. ASSUME NEW i \in 0 .. 8, i # 0 PROVE step[i][f[i - 1]] = PopTurn(i, f[i - 1])
    <3>1. i \in 1 .. 8 /\ i - 1 \in 0 .. 8
      BY <2>1
    <3>2. f[i - 1] \in Cpus
      BY <1>2, <3>1
    <3> QED
      BY <3>1, <3>2
  <2> HIDE DEF step
  <2>2. [i \in 0 .. 8 |-> IF i = 0 THEN d ELSE step[i][f[i - 1]]] = PopWalk(f, d)
    BY <2>1 DEF PopWalk
  <2> QED
    BY <1>2, <2>2 DEF WalkStep
<1> QED
  BY <1>3

(* x86p_stack_popad.                                                         *)
LEMMA PopAllWorked ==
  ASSUME NEW d, NEW e, Even(d, e), d.st = e.st
  PROVE  Worked(d, e, PopAll(d), PopAll(e))
<1>1. d \in Cpus /\ e \in Cpus
  BY DEF Even
<1>2. PICK f, h : f = (CHOOSE x : x = PopWalk(x, d)) /\ h = (CHOOSE x : x = PopWalk(x, e))
  OBVIOUS
<1>3. f = PopWalk(f, d) /\ h = PopWalk(h, e)
  BY <1>1, <1>2, PopWalkExists
<1>4. PopAll(d) = f[8] /\ PopAll(e) = h[8]
  BY <1>2 DEF PopAll, PopWalk, PopTurn
<1> DEFINE T == {j \in 0 .. 8 : Worked(d, e, f[j], h[j])}
<1>5. 0 \in T
  <2>1. f[0] = d /\ h[0] = e
    BY <1>3 DEF PopWalk
  <2> QED
    BY <2>1, FaultWorked
<1>6. ASSUME NEW j \in 0 .. 8 - 1, j \in T PROVE j + 1 \in T
  <2>1. j + 1 \in 1 .. 8 /\ j + 1 \in 0 .. 8 /\ (j + 1) - 1 = j
    OBVIOUS
  <2>2. f[j + 1] = PopTurn(j + 1, f[j]) /\ h[j + 1] = PopTurn(j + 1, h[j])
    BY <1>3, <2>1 DEF PopWalk
  <2>3. Worked(d, e, f[j], h[j]) /\ Even(f[j], h[j]) /\ f[j].st = h[j].st
    BY <1>6 DEF Worked
  <2>4. Worked(f[j], h[j], f[j + 1], h[j + 1])
    <3>1. PICK t, p, q : t \in 1 .. 8 /\ t = j + 1 /\ p = f[j] /\ q = h[j]
      BY <2>1
    <3> QED
      BY <2>2, <2>3, <3>1, PopTurnFact
  <2> QED
    BY <2>1, <2>3, <2>4, WorkedTwice
<1>7. 0 .. 8 \subseteq T
  <2> HIDE DEF T
  <2> QED
    BY <1>5, <1>6, InductionInterval
<1> QED
  BY <1>4, <1>7

\* One turn of ENTER's copy of the frame pointers.
EnterBack(p) == [p EXCEPT !.reg[Ebp] = Trunc(@ - 4, 4)]
EnterTurn(p) ==
  IF p.st # "Ok" THEN p
  ELSE IF ~Accessible(EnterBack(p).reg[Ebp], 4) THEN Fault(EnterBack(p))
  ELSE Push32(EnterBack(p), Load(EnterBack(p), EnterBack(p).reg[Ebp], 4))
EnterWalk(f, first, level) == [i \in 0 .. level |-> IF i <= 1 THEN first ELSE EnterTurn(f[i - 1])]
\* What ENTER does once the copies are made.
EnterLinked(last, frame, level) == IF level = 0 \/ last.st # "Ok" THEN last ELSE Push32(last, frame)
EnterDone(p, frame, allocation) ==
  IF p.st # "Ok" THEN p
  ELSE [p EXCEPT !.reg[Ebp] = frame, !.reg[Esp] = Trunc(@ - Trunc(allocation, 2), 4)]

(* A turn taken by two states alike.                                         *)
LEMMA EnterTurnFact ==
  ASSUME NEW p, NEW q, Even(p, q), p.st = q.st
  PROVE  Worked(p, q, EnterTurn(p), EnterTurn(q))
<1>1. p \in Cpus /\ q \in Cpus /\ p.reg = q.reg
  BY DEF Even
<1>2. CASE p.st # "Ok"
  BY <1>2, FaultWorked DEF EnterTurn
<1>3. CASE p.st = "Ok"
  <2>1. PICK a \in Dwords : a = Trunc(p.reg[Ebp] - 4, 4) /\ a = Trunc(q.reg[Ebp] - 4, 4)
    <3>1. PICK v \in Int : v = p.reg[Ebp] /\ v = q.reg[Ebp]
      BY <1>1, CpusFact, NamesFact
    <3>2. v - 4 \in Int
      BY <3>1
    <3> QED
      BY <3>1, <3>2, TruncFact, NamesFact
  <2>2. PICK f, h : f = [p EXCEPT !.reg[Ebp] = a] /\ h = [q EXCEPT !.reg[Ebp] = a]
    OBVIOUS
  <2>3. Moved(p, q, f, h) /\ f.reg[Ebp] = a /\ h.reg[Ebp] = a
    <3>1. PICK r \in 0 .. 7 : r = Ebp
      BY NamesFact
    <3>2. Moved(p, q, [p EXCEPT !.reg[r] = a], [q EXCEPT !.reg[r] = a]) /\ [p EXCEPT !.reg[r] = a].reg = [p.reg EXCEPT ![r] = a]
      BY SetRegMoved
    <3>3. p.reg \in [0 .. 7 -> Dwords]
      BY <1>1, CpusFact
    <3>4. [p.reg EXCEPT ![r] = a][r] = a
      BY <3>3
    <3>5. Moved(p, q, f, h) /\ f.reg[r] = a /\ f.reg = h.reg
      BY <2>2, <3>1, <3>2, <3>4 DEF Moved, Even
    <3> QED
      BY <3>1, <3>5
  <2>4. Even(f, h) /\ f.st = h.st /\ Worked(p, q, f, h)
    <3>1. Worked(p, q, f, h)
      BY <2>3, MovedWorked
    <3> QED
      BY <3>1 DEF Worked
  <2>5. /\ EnterTurn(p) = IF ~Accessible(a, 4) THEN Fault(f) ELSE Push32(f, Load(f, a, 4))
        /\ EnterTurn(q) = IF ~Accessible(a, 4) THEN Fault(h) ELSE Push32(h, Load(h, a, 4))
    <3>1. EnterBack(p) = f /\ EnterBack(q) = h
      BY <2>1, <2>2 DEF EnterBack
    <3>2. EnterTurn(p) = IF ~Accessible(a, 4) THEN Fault(f) ELSE Push32(f, Load(f, a, 4))
      BY <1>3, <2>3, <3>1 DEF EnterTurn
    <3>3. EnterTurn(q) = IF ~Accessible(a, 4) THEN Fault(h) ELSE Push32(h, Load(h, a, 4))
      BY <1>3, <2>3, <3>1 DEF EnterTurn
    <3> QED
      BY <3>2, <3>3
  <2>6. CASE ~Accessible(a, 4)
    <3>1. Worked(f, h, Fault(f), Fault(h))
      BY <2>4, FaultWorked
    <3> QED
      BY <2>4, <2>5, <2>6, <3>1, WorkedTwice
  <2>7. CASE Accessible(a, 4)
    <3>1. PICK v \in Int : v = Load(f, a, 4) /\ v = Load(h, a, 4)
      BY <2>4, <2>7, LoadSame
    <3>2. Worked(f, h, Push32(f, v), Push32(h, v))
      BY <2>4, PushWorked
    <3> QED
      BY <2>4, <2>5, <2>7, <3>1, <3>2, WorkedTwice
  <2> QED
    BY <2>6, <2>7
<1> QED
  BY <1>2, <1>3

(* The walk exists.                                                          *)
LEMMA EnterWalkExists ==
  ASSUME NEW first \in Cpus, NEW level \in Nat
  PROVE  \E f : f = EnterWalk(f, first, level)
<1> DEFINE step == [i \in 1 .. level |-> [p \in Cpus |-> IF i <= 1 THEN first ELSE EnterTurn(p)]]
<1>1. Steps(step, Cpus, level)
  <2>1. ASSUME NEW p \in Cpus PROVE EnterTurn(p) \in Cpus
    <3>1. Even(p, p)
      BY DEF Even
    <3>2. Worked(p, p, EnterTurn(p), EnterTurn(p))
      BY <3>1, EnterTurnFact
    <3> QED
      BY <3>2 DEF Worked, Even
  <2> QED
    BY <2>1 DEF Steps
<1>2. PICK f : f = WalkStep(f, first, step, level) /\ \A i \in 0 .. level : f[i] \in Cpus
  <2> HIDE DEF step
  <2> QED
    BY <1>1, WalkExists
<1>3. f = EnterWalk(f, first, level)
  <2>1. ASSUME NEW i \in 0 .. level, i # 0 PROVE step[i][f[i - 1]] = IF i <= 1 THEN first ELSE EnterTurn(f[i - 1])
    <3>1. i \in 1 .. level /\ i - 1 \in 0 .. level
      BY <2>1
    <3>2. f[i - 1] \in Cpus
      BY <1>2, <3>1
    <3> QED
      BY <3>1, <3>2
  <2>2. \A i \in 0 .. level : i = 0 => i <= 1
    OBVIOUS
  <2> HIDE DEF step
  <2>3. [i \in 0 .. level |-> IF i = 0 THEN first ELSE step[i][f[i - 1]]] = EnterWalk(f, first, level)
    BY <2>1, <2>2 DEF EnterWalk
  <2> QED
    BY <1>2, <2>3 DEF WalkStep
<1> QED
  BY <1>3

(* ENTER from its first push on.                                             *)
LEMMA EnterEnd ==
  ASSUME NEW d, NEW e, Even(d, e), d.st = e.st, NEW frame \in Dwords, NEW allocation \in Int
  PROVE  Worked(d, e, EnterDone(d, frame, allocation), EnterDone(e, frame, allocation))
<1>1. d \in Cpus /\ e \in Cpus /\ d.reg = e.reg /\ d.reg \in [0 .. 7 -> Dwords]
  BY CpusFact DEF Even
<1>2. CASE d.st # "Ok"
  BY <1>2, FaultWorked DEF EnterDone
<1>3. CASE d.st = "Ok"
  <2>1. PICK v \in Dwords : v = Trunc(d.reg[Esp] - Trunc(allocation, 2), 4) /\ v = Trunc(e.reg[Esp] - Trunc(allocation, 2), 4)
    <3>1. PICK x \in Int, y \in Int : x = d.reg[Esp] /\ x = e.reg[Esp] /\ y = Trunc(allocation, 2)
      BY <1>1, CpusFact, NamesFact, TruncFact
    <3>2. x - y \in Int
      BY <3>1
    <3> QED
      BY <3>1, <3>2, TruncFact, NamesFact
  <2>2. PICK regs \in [0 .. 7 -> Dwords] : regs = [[d.reg EXCEPT ![Ebp] = frame] EXCEPT ![Esp] = v]
    <3>1. PICK r \in 0 .. 7, s \in 0 .. 7 : r = Ebp /\ s = Esp
      BY NamesFact
    <3>2. [[d.reg EXCEPT ![r] = frame] EXCEPT ![s] = v] \in [0 .. 7 -> Dwords]
      BY <1>1, <3>1
    <3> QED
      BY <3>1, <3>2
  <2>3. EnterDone(d, frame, allocation) = [d EXCEPT !.reg = regs] /\ EnterDone(e, frame, allocation) = [e EXCEPT !.reg = regs]
    <3>1. Esp # Ebp /\ d.st = e.st
      BY DEF Esp, Ebp
    <3> QED
      BY <1>1, <1>3, <2>1, <2>2, <3>1 DEF EnterDone, Cpus
  <2>4. Moved(d, e, [d EXCEPT !.reg = regs], [e EXCEPT !.reg = regs])
    BY <1>1, SetRegs
  <2> QED
    BY <2>3, <2>4, MovedWorked
<1> QED
  BY <1>2, <1>3

(* ENTER in those parts.                                                     *)
LEMMA EnterIs ==
  ASSUME NEW d, NEW allocation, NEW depth
  PROVE  LET level == depth % 32
             first == Push32(d, d.reg[Ebp])
             f == CHOOSE x : x = EnterWalk(x, first, level)
             frame == first.reg[Esp]
         IN  Enter(d, allocation, depth) = EnterDone(EnterLinked(f[level], frame, level), frame, allocation)
  BY Zenon DEF Enter, EnterWalk, EnterTurn, EnterBack, EnterLinked, EnterDone

(* x86p_stack_enter.                                                         *)
LEMMA EnterWorked ==
  ASSUME NEW d, NEW e, Even(d, e), d.st = e.st, NEW allocation \in Int, NEW depth \in Int
  PROVE  Worked(d, e, Enter(d, allocation, depth), Enter(e, allocation, depth))
<1>1. d \in Cpus /\ e \in Cpus /\ d.reg = e.reg
  BY DEF Even
<1>2. PICK p, q : p = Push32(d, d.reg[Ebp]) /\ q = Push32(e, e.reg[Ebp])
  OBVIOUS
<1>3. Worked(d, e, p, q)
  <2>1. PICK v \in Int : v = d.reg[Ebp] /\ v = e.reg[Ebp]
    BY <1>1, CpusFact, NamesFact
  <2> QED
    BY <1>2, <2>1, PushWorked
<1>4. p \in Cpus /\ q \in Cpus /\ p.reg = q.reg /\ p.st = q.st /\ Even(p, q)
  BY <1>3 DEF Worked, Even
<1>5. PICK frame \in Dwords : frame = p.reg[Esp] /\ frame = q.reg[Esp]
  BY <1>4, CpusFact, NamesFact
<1>6. PICK level \in Nat : level = depth % 32
  OBVIOUS
<1>7. PICK f, h : f = (CHOOSE x : x = EnterWalk(x, p, level)) /\ h = (CHOOSE x : x = EnterWalk(x, q, level))
  OBVIOUS
<1>8. f = EnterWalk(f, p, level) /\ h = EnterWalk(h, q, level)
  BY <1>4, <1>7, EnterWalkExists
<1> DEFINE T == {j \in 0 .. level : Worked(p, q, f[j], h[j])}
<1>9. 0 \in T
  <2>1. f[0] = p /\ h[0] = q /\ 0 \in 0 .. level
    BY <1>8 DEF EnterWalk
  <2> QED
    BY <1>4, <2>1, FaultWorked
<1>10. ASSUME NEW j \in 0 .. level - 1, j \in T PROVE j + 1 \in T
  <2>1. j + 1 \in 0 .. level /\ (j + 1) - 1 = j
    OBVIOUS
  <2>2. /\ f[j + 1] = IF j + 1 <= 1 THEN p ELSE EnterTurn(f[j])
        /\ h[j + 1] = IF j + 1 <= 1 THEN q ELSE EnterTurn(h[j])
    BY <1>8, <2>1 DEF EnterWalk
  <2>3. Worked(p, q, f[j], h[j]) /\ Even(f[j], h[j]) /\ f[j].st = h[j].st
    BY <1>10 DEF Worked
  <2>4. Worked(p, q, f[j + 1], h[j + 1])
    <3>1. CASE j + 1 <= 1
      BY <1>4, <2>2, <3>1, FaultWorked
    <3>2. CASE ~(j + 1 <= 1)
      <4>1. Worked(f[j], h[j], EnterTurn(f[j]), EnterTurn(h[j]))
        BY <2>3, EnterTurnFact
      <4> QED
        BY <2>2, <2>3, <3>2, <4>1, WorkedTwice
    <3> QED
      BY <3>1, <3>2
  <2> QED
    BY <2>1, <2>4
<1>11. 0 .. level \subseteq T
  <2> HIDE DEF T
  <2> QED
    BY <1>9, <1>10, InductionInterval
<1>12. Worked(p, q, f[level], h[level])
  BY <1>11
<1>13. PICK a, b : a = f[level] /\ b = h[level]
  OBVIOUS
<1>14. Even(a, b) /\ a.st = b.st /\ Worked(p, q, a, b)
  BY <1>12, <1>13 DEF Worked
<1>15. PICK s, t : s = EnterLinked(a, frame, level) /\ t = EnterLinked(b, frame, level)
  OBVIOUS
<1>16. Worked(a, b, s, t)
  <2>1. CASE level = 0 \/ a.st # "Ok"
    BY <1>14, <1>15, <2>1, FaultWorked DEF EnterLinked
  <2>2. CASE ~(level = 0 \/ a.st # "Ok")
    <3>1. frame \in Int
      BY DwordsFact
    <3> QED
      BY <1>14, <1>15, <2>2, <3>1, PushWorked DEF EnterLinked
  <2> QED
    BY <2>1, <2>2
<1>17. Enter(d, allocation, depth) = EnterDone(s, frame, allocation) /\ Enter(e, allocation, depth) = EnterDone(t, frame, allocation)
  BY <1>2, <1>5, <1>6, <1>7, <1>13, <1>15, EnterIs
<1>18. Even(s, t) /\ s.st = t.st
  BY <1>16 DEF Worked
<1>19. Worked(s, t, EnterDone(s, frame, allocation), EnterDone(t, frame, allocation))
  BY <1>18, EnterEnd
<1> QED
  BY <1>3, <1>14, <1>16, <1>17, <1>19, WorkedTwice

(* x86p_wasm_stack_lower.                                                    *)
LEMMA StackDone ==
  ASSUME NEW m, NEW g, NEW i, Along(m, g, i), Sure(m), NEW in, in.op \in {"Pushad", "Popad", "Enter"},
         in.op = "Enter" => in.o0 \in Immediates /\ in.o1 \in Immediates
  PROVE  Done(WasmStackAll(m, in, i), Execute(g, in), i)
<1>1. /\ Even(m.c, g) /\ m.c.st = "Ok" /\ g.st = "Ok" /\ g.eip = i - 1 /\ g.next = i /\ SameRecord(m.c.flags, g.flags)
  BY AlongFact
<1>2. PICK f, h : WasmStackAll(m, in, i) = Called(m, f, i) /\ Execute(g, in) = h /\ Worked(m.c, g, f, h)
  <2>1. CASE in.op = "Pushad"
    BY <1>1, <2>1, PushAllWorked DEF WasmStackAll, Execute
  <2>2. CASE in.op = "Popad"
    BY <1>1, <2>2, PopAllWorked DEF WasmStackAll, Execute
  <2>3. CASE in.op = "Enter"
    <3>1. PICK a \in Int, b \in Int : a = in.o0.v /\ b = in.o1.v
      BY <2>3, DwordsFact DEF Immediates
    <3> QED
      BY <1>1, <2>3, <3>1, EnterWorked DEF WasmStackAll, Execute
  <2> QED
    BY <2>1, <2>2, <2>3
<1>3. Twin(f, h) /\ f.st = h.st /\ h.eip = i - 1 /\ h.next = i /\ f.flags = m.c.flags
  BY <1>1, <1>2 DEF Worked, Twin
<1>4. CASE h.st = "Ok"
  <2>1. /\ Along(Called(m, f, i), h, i) /\ Called(m, f, i).c = f
        /\ Called(m, f, i).last = m.last /\ Called(m, f, i).lw = m.lw
    BY <1>3, <1>4, CalledFact
  <2>2. Sure(Called(m, f, i))
    BY <1>3, <2>1 DEF Sure
  <2> QED
    BY <1>2, <2>1, <2>2, AlongDone
<1>5. CASE h.st # "Ok"
  BY <1>2, <1>3, <1>5, CalledFact
<1> QED
  BY <1>4, <1>5

\* The two made the same step, flags included.
Ran(d, e, f, h) == Twin(f, h) /\ f.st = h.st /\ h.eip = e.eip /\ h.next = e.next

(* They run on.                                                              *)
LEMMA RanTwice ==
  ASSUME NEW d, NEW e, NEW f, NEW h, Ran(d, e, f, h), NEW p, NEW q, Ran(f, h, p, q)
  PROVE  Ran(d, e, p, q)
  BY DEF Ran
(* A step that leaves the record alone, and a fault.                         *)
LEMMA MovedRan ==
  ASSUME NEW d, NEW e, Twin(d, e), d.st = e.st
  PROVE  /\ \A f, h : Moved(d, e, f, h) => Ran(d, e, f, h)
         /\ Ran(d, e, Fault(d), Fault(e)) /\ Fault(d).st # "Ok" /\ Fault(d).reg = d.reg
         /\ Ran(d, e, d, e)
<1>1. Even(d, e) /\ SameRecord(d.flags, e.flags)
  BY DEF Twin
<1>2. \A f, h : Moved(d, e, f, h) => Ran(d, e, f, h)
  BY MovedTwin DEF Ran
<1>3. Worked(d, e, Fault(d), Fault(e)) /\ Fault(e).st = "MemoryFault"
  BY <1>1, FaultWorked
<1>4. Ran(d, e, Fault(d), Fault(e)) /\ Fault(d).st # "Ok"
  BY <1>1, <1>3 DEF Worked, Ran, Twin
<1>5. Fault(d).reg = d.reg
  BY <1>1 DEF Fault, Stopped, Even, Cpus
<1> QED
  BY <1>2, <1>4, <1>5 DEF Ran

Reading == {"Movs", "Lods", "Cmps"}
\* The accesses of one element, its result, and where it leaves the index registers.
StringReady(p, op, w) ==
  (op \in Reading => Accessible(p.reg[Esi], w)) /\ (op # "Lods" => Accessible(p.reg[Edi], w))
StringDone(p, op, w) ==
  CASE op = "Movs" -> Store(p, p.reg[Edi], w, Load(p, p.reg[Esi], w))
    [] op = "Stos" -> Store(p, p.reg[Edi], w, ReadReg(p, Eax, w))
    [] op = "Lods" -> WriteReg(p, Eax, w, Load(p, p.reg[Esi], w))
    [] op = "Scas" -> WithFlags(p, Alu("Cmp", ReadReg(p, Eax, w), Load(p, p.reg[Edi], w), w, p.flags).f)
    [] op = "Cmps" -> WithFlags(p, Alu("Cmp", Load(p, p.reg[Esi], w), Load(p, p.reg[Edi], w), w, p.flags).f)
StringNext(d, op, delta) ==
  [d EXCEPT !.reg[Esi] = IF op \in Reading THEN Trunc(@ + delta, 4) ELSE @,
            !.reg[Edi] = IF op # "Lods" THEN Trunc(@ + delta, 4) ELSE @]

(* step_once in those parts.                                                 *)
LEMMA StringOnceIs ==
  ASSUME NEW p, NEW op, NEW w
  PROVE  StringOnce(p, op, w) =
           IF StringReady(p, op, w) THEN StringNext(StringDone(p, op, w), op, IF p.df = 1 THEN -w ELSE w) ELSE Fault(p)
<1>1. StringReady(p, op, w) <=> ~(\/ ~(IF op \in Reading THEN Accessible(p.reg[Esi], w) ELSE TRUE)
                                  \/ ~(IF op = "Lods" THEN TRUE ELSE Accessible(p.reg[Edi], w)))
  BY DEF StringReady
<1>2. StringOnce(p, op, w) =
        IF \/ ~(IF op \in Reading THEN Accessible(p.reg[Esi], w) ELSE TRUE)
           \/ ~(IF op = "Lods" THEN TRUE ELSE Accessible(p.reg[Edi], w))
        THEN Fault(p) ELSE StringNext(StringDone(p, op, w), op, IF p.df = 1 THEN -w ELSE w)
  BY Zenon DEF StringOnce, StringDone, StringNext, Reading, WithFlags
<1> QED
  BY <1>1, <1>2

(* What an element reads.                                                    *)
LEMMA StringReads ==
  ASSUME NEW p, NEW q, Even(p, q), NEW w \in Width, NEW r \in 0 .. 7, Accessible(p.reg[r], w)
  PROVE  Load(p, p.reg[r], w) = Load(q, q.reg[r], w) /\ Load(p, p.reg[r], w) \in Int
<1>1. p \in Cpus /\ p.reg = q.reg /\ p.mem = q.mem /\ p.mem \in [Window -> Bytes]
  BY CpusFact DEF Even
<1>2. PICK a \in Int : a = p.reg[r] /\ a = q.reg[r]
  BY <1>1, CpusFact
<1>3. Load(p, a, w) = Load(q, a, w)
  BY <1>1, LoadIs
<1>4. Load(p, a, w) \in Int
  BY <1>1, <1>2, LoadFact
<1> QED
  BY <1>2, <1>3, <1>4

(* A comparison's record.                                                    *)
LEMMA CompareRan ==
  ASSUME NEW p, NEW q, Twin(p, q), p.st = q.st, NEW x \in Int, NEW y \in Int, NEW w \in Width
  PROVE  /\ Ran(p, q, WithFlags(p, Alu("Cmp", x, y, w, p.flags).f), WithFlags(q, Alu("Cmp", x, y, w, q.flags).f))
         /\ WithFlags(p, Alu("Cmp", x, y, w, p.flags).f).reg = p.reg
<1>1. p \in Cpus /\ q \in Cpus /\ Even(p, q) /\ SameRecord(p.flags, q.flags) /\ p.flags \in Records /\ q.flags \in Records
  BY CpusFact DEF Twin, Even
<1>2. "Cmp" \in AluOps
  BY DEF AluOps, Binary
<1>3. PICK f \in Records, h \in Records : f = p.flags /\ h = q.flags /\ SameRecord(f, h)
  BY <1>1
<1>4. /\ Alu("Cmp", x, y, w, f).f \in Records /\ Alu("Cmp", x, y, w, h).f \in Records
      /\ SameRecord(Alu("Cmp", x, y, w, f).f, Alu("Cmp", x, y, w, h).f)
  BY <1>2, <1>3, AluFact
<1>5. PICK s \in Records, t \in Records : s = Alu("Cmp", x, y, w, f).f /\ t = Alu("Cmp", x, y, w, h).f /\ SameRecord(s, t)
  BY <1>4
<1>6. /\ Twin(WithFlags(p, s), WithFlags(q, t)) /\ WithFlags(p, s).st = p.st /\ WithFlags(q, t).st = q.st
      /\ WithFlags(q, t).eip = q.eip /\ WithFlags(q, t).next = q.next
  BY <1>1, <1>5, FlagsTwin
<1>7. WithFlags(p, s).reg = p.reg
  BY <1>1 DEF WithFlags, Cpus
<1> QED
  BY <1>3, <1>5, <1>6, <1>7 DEF Ran

(* One element's result; the count register is not part of it.               *)
LEMMA StringDoneFact ==
  ASSUME NEW p, NEW q, Twin(p, q), p.st = q.st, NEW op \in StringOps, NEW w \in Width, StringReady(p, op, w)
  PROVE  Ran(p, q, StringDone(p, op, w), StringDone(q, op, w)) /\ StringDone(p, op, w).reg[Ecx] = p.reg[Ecx]
<1>1. p \in Cpus /\ q \in Cpus /\ Even(p, q) /\ p.reg = q.reg /\ p.reg \in [0 .. 7 -> Dwords]
  BY CpusFact DEF Twin, Even
<1>2. PICK di \in Int : di = p.reg[Edi] /\ di = q.reg[Edi]
  BY <1>1, CpusFact, NamesFact
<1>3. PICK acc \in Int : acc = ReadReg(p, Eax, w) /\ acc = ReadReg(q, Eax, w)
  BY <1>1, ReadRegFact, NamesFact
<1>4. op \in Reading => Load(p, p.reg[Esi], w) = Load(q, q.reg[Esi], w) /\ Load(p, p.reg[Esi], w) \in Int
  BY <1>1, StringReads, NamesFact DEF StringReady
<1>5. op # "Lods" => Load(p, p.reg[Edi], w) = Load(q, q.reg[Edi], w) /\ Load(p, p.reg[Edi], w) \in Int
  BY <1>1, StringReads, NamesFact DEF StringReady
<1>6. CASE op = "Movs"
  <2>1. PICK v \in Int : v = Load(p, p.reg[Esi], w) /\ v = Load(q, q.reg[Esi], w)
    BY <1>4, <1>6 DEF Reading
  <2>2. Moved(p, q, Store(p, di, w, v), Store(q, di, w, v)) /\ Store(p, di, w, v).reg = p.reg
    BY <1>1, StoreMoved
  <2>3. StringDone(p, op, w) = Store(p, di, w, v) /\ StringDone(q, op, w) = Store(q, di, w, v)
    BY <1>2, <1>6, <2>1 DEF StringDone
  <2> QED
    BY <2>2, <2>3, MovedRan
<1>7. CASE op = "Stos"
  <2>2. Moved(p, q, Store(p, di, w, acc), Store(q, di, w, acc)) /\ Store(p, di, w, acc).reg = p.reg
    BY <1>1, StoreMoved
  <2>3. StringDone(p, op, w) = Store(p, di, w, acc) /\ StringDone(q, op, w) = Store(q, di, w, acc)
    BY <1>2, <1>3, <1>7 DEF StringDone
  <2> QED
    BY <2>2, <2>3, MovedRan
<1>8. CASE op = "Lods"
  <2>1. PICK v \in Int : v = Load(p, p.reg[Esi], w) /\ v = Load(q, q.reg[Esi], w)
    BY <1>4, <1>8 DEF Reading
  <2>2. Moved(p, q, WriteReg(p, Eax, w, v), WriteReg(q, Eax, w, v)) /\ WriteReg(p, Eax, w, v).reg[Ecx] = p.reg[Ecx]
    <3>1. PICK r \in 0 .. 7, s \in 0 .. 7 : r = Eax /\ s = Ecx /\ s # r /\ s # r % 4
      BY DEF Eax, Ecx
    <3>2. /\ Moved(p, q, WriteReg(p, r, w, v), WriteReg(q, r, w, v))
          /\ \A t \in 0 .. 7 : t # (IF w = 1 THEN r % 4 ELSE r) => WriteReg(p, r, w, v).reg[t] = p.reg[t]
      BY <1>1, WriteRegMoved
    <3> QED
      BY <3>1, <3>2
  <2>3. StringDone(p, op, w) = WriteReg(p, Eax, w, v) /\ StringDone(q, op, w) = WriteReg(q, Eax, w, v)
    BY <1>8, <2>1 DEF StringDone
  <2> QED
    BY <2>2, <2>3, MovedRan
<1>9. CASE op = "Scas"
  <2>1. PICK v \in Int : v = Load(p, p.reg[Edi], w) /\ v = Load(q, q.reg[Edi], w)
    BY <1>5, <1>9
  <2>2. /\ Ran(p, q, WithFlags(p, Alu("Cmp", acc, v, w, p.flags).f), WithFlags(q, Alu("Cmp", acc, v, w, q.flags).f))
        /\ WithFlags(p, Alu("Cmp", acc, v, w, p.flags).f).reg = p.reg
    BY CompareRan
  <2>3. /\ StringDone(p, op, w) = WithFlags(p, Alu("Cmp", acc, v, w, p.flags).f)
        /\ StringDone(q, op, w) = WithFlags(q, Alu("Cmp", acc, v, w, q.flags).f)
    BY <1>3, <1>9, <2>1 DEF StringDone
  <2> QED
    BY <2>2, <2>3
<1>10. CASE op = "Cmps"
  <2>1. PICK v \in Int, u \in Int : /\ v = Load(p, p.reg[Edi], w) /\ v = Load(q, q.reg[Edi], w)
                                    /\ u = Load(p, p.reg[Esi], w) /\ u = Load(q, q.reg[Esi], w)
    BY <1>4, <1>5, <1>10 DEF Reading
  <2>2. /\ Ran(p, q, WithFlags(p, Alu("Cmp", u, v, w, p.flags).f), WithFlags(q, Alu("Cmp", u, v, w, q.flags).f))
        /\ WithFlags(p, Alu("Cmp", u, v, w, p.flags).f).reg = p.reg
    BY CompareRan
  <2>3. /\ StringDone(p, op, w) = WithFlags(p, Alu("Cmp", u, v, w, p.flags).f)
        /\ StringDone(q, op, w) = WithFlags(q, Alu("Cmp", u, v, w, q.flags).f)
    BY <1>10, <2>1 DEF StringDone
  <2> QED
    BY <2>2, <2>3
<1> QED
  BY <1>6, <1>7, <1>8, <1>9, <1>10 DEF StringOps

(* The index registers move by the same step.                                *)
LEMMA StringNextFact ==
  ASSUME NEW p, NEW q, Twin(p, q), p.st = q.st, NEW op, NEW delta \in Int
  PROVE  Ran(p, q, StringNext(p, op, delta), StringNext(q, op, delta)) /\ StringNext(p, op, delta).reg[Ecx] = p.reg[Ecx]
<1>1. p \in Cpus /\ q \in Cpus /\ Even(p, q) /\ p.reg = q.reg /\ p.reg \in [0 .. 7 -> Dwords]
  BY CpusFact DEF Twin, Even
<1>2. PICK a \in Dwords, b \in Dwords : /\ a = IF op \in Reading THEN Trunc(p.reg[Esi] + delta, 4) ELSE p.reg[Esi]
                                        /\ b = IF op # "Lods" THEN Trunc(p.reg[Edi] + delta, 4) ELSE p.reg[Edi]
  <2>1. PICK x \in Dwords, y \in Dwords : x = p.reg[Esi] /\ y = p.reg[Edi]
    BY <1>1, NamesFact
  <2>2. x \in Int /\ y \in Int
    BY DwordsFact
  <2>3. x + delta \in Int /\ y + delta \in Int
    BY <2>2
  <2>4. Trunc(x + delta, 4) \in Dwords /\ Trunc(y + delta, 4) \in Dwords
    BY <2>3, TruncFact, NamesFact
  <2> QED
    BY <2>1, <2>4
<1>3. PICK regs \in [0 .. 7 -> Dwords] : regs = [[p.reg EXCEPT ![Esi] = a] EXCEPT ![Edi] = b] /\ regs[Ecx] = p.reg[Ecx]
  <2>1. PICK r, s, t : r \in 0 .. 7 /\ s \in 0 .. 7 /\ t \in 0 .. 7 /\ r = Esi /\ s = Edi /\ t = Ecx /\ t # r /\ t # s
    BY NamesFact DEF Esi, Edi, Ecx
  <2>2. /\ [[p.reg EXCEPT ![r] = a] EXCEPT ![s] = b] \in [0 .. 7 -> Dwords]
        /\ [[p.reg EXCEPT ![r] = a] EXCEPT ![s] = b][t] = p.reg[t]
    BY <1>1, <2>1
  <2> QED
    BY <2>1, <2>2
<1>4. StringNext(p, op, delta) = [p EXCEPT !.reg = regs] /\ StringNext(q, op, delta) = [q EXCEPT !.reg = regs]
  <2>1. Esi # Edi
    BY DEF Esi, Edi
  <2>2. StringNext(p, op, delta) = [p EXCEPT !.reg = regs]
    BY <1>1, <1>2, <1>3, <2>1 DEF StringNext, Cpus
  <2>3. StringNext(q, op, delta) = [q EXCEPT !.reg = regs]
    BY <1>1, <1>2, <1>3, <2>1 DEF StringNext, Cpus
  <2> QED
    BY <2>2, <2>3
<1>5. Moved(p, q, [p EXCEPT !.reg = regs], [q EXCEPT !.reg = regs]) /\ [p EXCEPT !.reg = regs].reg = regs
  BY <1>1, SetRegs
<1> QED
  BY <1>3, <1>4, <1>5, MovedRan

(* step_once.                                                                *)
LEMMA StringOnceFact ==
  ASSUME NEW p, NEW q, Twin(p, q), p.st = q.st, NEW op \in StringOps, NEW w \in Width
  PROVE  Ran(p, q, StringOnce(p, op, w), StringOnce(q, op, w)) /\ StringOnce(p, op, w).reg[Ecx] = p.reg[Ecx]
<1>1. p.reg = q.reg /\ p.df = q.df
  BY DEF Twin, Even
<1>2. StringReady(p, op, w) = StringReady(q, op, w)
  BY <1>1 DEF StringReady
<1>3. PICK delta \in Int : delta = (IF p.df = 1 THEN -w ELSE w) /\ delta = (IF q.df = 1 THEN -w ELSE w)
  BY <1>1 DEF Width
<1>4. CASE StringReady(p, op, w)
  <2>1. PICK f, h : f = StringDone(p, op, w) /\ h = StringDone(q, op, w)
    OBVIOUS
  <2>2. Ran(p, q, f, h) /\ f.reg[Ecx] = p.reg[Ecx]
    BY <1>4, <2>1, StringDoneFact
  <2>3. Ran(f, h, StringNext(f, op, delta), StringNext(h, op, delta)) /\ StringNext(f, op, delta).reg[Ecx] = f.reg[Ecx]
    BY <2>2, StringNextFact DEF Ran
  <2>4. StringOnce(p, op, w) = StringNext(f, op, delta) /\ StringOnce(q, op, w) = StringNext(h, op, delta)
    BY <1>2, <1>3, <1>4, <2>1, StringOnceIs
  <2> QED
    BY <2>2, <2>3, <2>4, RanTwice
<1>5. CASE ~StringReady(p, op, w)
  <2>1. StringOnce(p, op, w) = Fault(p) /\ StringOnce(q, op, w) = Fault(q)
    BY <1>2, <1>5, StringOnceIs
  <2> QED
    BY <2>1, MovedRan
<1> QED
  BY <1>4, <1>5

\* The bytes and the registers a whole REP MOVS or STOS leaves.
BulkMem(p, op, w) ==
  [x \in Window |->
     IF x \in p.reg[Edi] .. p.reg[Edi] + p.reg[Ecx] * w - 1
     THEN IF op = "Stos" THEN ByteOf(p.reg[Eax], (x - p.reg[Edi]) % w) ELSE p.mem[p.reg[Esi] + (x - p.reg[Edi])]
     ELSE p.mem[x]]
BulkRegs(p, op, w) ==
  [[[p.reg EXCEPT ![Esi] = IF op = "Movs" THEN Trunc(p.reg[Esi] + p.reg[Ecx] * w, 4) ELSE p.reg[Esi]]
      EXCEPT ![Edi] = Trunc(p.reg[Edi] + p.reg[Ecx] * w, 4)] EXCEPT ![Ecx] = 0]

(* The bulk step in those parts.                                             *)
LEMMA AfterBulkIs ==
  ASSUME NEW p \in Cpus, NEW op, NEW w
  PROVE  AfterBulk(p, op, w) = [[p EXCEPT !.mem = BulkMem(p, op, w)] EXCEPT !.reg = BulkRegs(p, op, w)]
<1> DEFINE a == IF op = "Movs" THEN Trunc(p.reg[Esi] + p.reg[Ecx] * w, 4) ELSE p.reg[Esi]
           b == Trunc(p.reg[Edi] + p.reg[Ecx] * w, 4)
           mem == BulkMem(p, op, w)
<1>1. AfterBulk(p, op, w) =
        [p EXCEPT !.mem = mem,
                  !.reg[Esi] = IF op = "Movs" THEN Trunc(@ + p.reg[Ecx] * w, 4) ELSE @,
                  !.reg[Edi] = Trunc(@ + p.reg[Ecx] * w, 4),
                  !.reg[Ecx] = 0]
  BY Zenon DEF AfterBulk, BulkMem
<1>2. Esi # Edi /\ Esi # Ecx /\ Edi # Ecx
  BY DEF Esi, Edi, Ecx
<1>3. p.reg \in [0 .. 7 -> Dwords] /\ Esi \in 0 .. 7 /\ Edi \in 0 .. 7 /\ Ecx \in 0 .. 7
  BY CpusFact, NamesFact
<1> HIDE DEF mem
<1>4. AfterBulk(p, op, w) = [p EXCEPT !.mem = mem, !.reg[Esi] = a, !.reg[Edi] = b, !.reg[Ecx] = 0]
  BY <1>1, <1>2, <1>3 DEF Cpus
<1> HIDE DEF a, b
<1>5. AfterBulk(p, op, w) = [[p EXCEPT !.mem = mem] EXCEPT !.reg = [[[p.reg EXCEPT ![Esi] = a] EXCEPT ![Edi] = b] EXCEPT ![Ecx] = 0]]
  BY <1>4, <1>3 DEF Cpus
<1> QED
  BY <1>5 DEF BulkRegs, a, b, mem

(* x86p_mem_copy_disjoint and x86p_mem_fill.                                 *)
LEMMA AfterBulkFact ==
  ASSUME NEW p, NEW q, Twin(p, q), p.st = q.st, NEW op \in {"Movs", "Stos"}, NEW w \in Width, Bulk(p, op, w)
  PROVE  Ran(p, q, AfterBulk(p, op, w), AfterBulk(q, op, w))
<1>1. p \in Cpus /\ q \in Cpus /\ Even(p, q) /\ p.reg = q.reg /\ p.mem = q.mem /\ p.reg \in [0 .. 7 -> Dwords] /\ p.mem \in [Window -> Bytes]
  BY CpusFact DEF Twin, Even
<1>2. PICK si \in Int, di \in Int, n \in Int, x \in Int :
        si = p.reg[Esi] /\ di = p.reg[Edi] /\ n = p.reg[Ecx] * w /\ x = p.reg[Eax] /\ x \in Dwords
  <2>1. PICK a \in Int, b \in Int : a = p.reg[Ecx] /\ b = w
    BY <1>1, CpusFact, NamesFact DEF Width
  <2>2. PICK n \in Int : n = a * b
    OBVIOUS
  <2>3. n = p.reg[Ecx] * w
    BY <2>1, <2>2
  <2>4. /\ p.reg[Esi] \in Int /\ p.reg[Edi] \in Int /\ p.reg[Eax] \in Int /\ p.reg[Eax] \in Dwords
    BY <1>1, CpusFact, NamesFact
  <2> QED
    BY <2>3, <2>4
<1>3. op = "Movs" => Accessible(si, n)
  BY <1>2 DEF Bulk
<1>4. PICK mem : mem = BulkMem(p, op, w)
  OBVIOUS
<1>5. mem \in [Window -> Bytes]
  <2>1. ASSUME NEW a \in Window, a \in di .. di + n - 1
        PROVE  (IF op = "Stos" THEN ByteOf(x, (a - di) % w) ELSE p.mem[si + (a - di)]) \in Bytes
    <3>1. a \in Int /\ a - di \in Int
      BY WindowAssumption DEF Window
    <3>2. CASE op = "Stos"
      <4>1. (a - di) % w \in 0 .. 3
        <5>1. PICK b \in Int : b = a - di
          BY <3>1
        <5>2. w = 1 \/ w = 2 \/ w = 4
          BY DEF Width
        <5>3. b % w \in 0 .. 3
          BY <5>2
        <5> QED
          BY <5>1, <5>3
      <4> QED
        BY <3>2, <4>1, ByteFact
    <3>3. CASE op = "Movs"
      <4>1. si + (a - di) \in Window
        BY <1>3, <2>1, <3>1, <3>3, WindowAssumption DEF Accessible, Window
      <4> QED
        BY <1>1, <3>3, <4>1
    <3> QED
      BY <3>2, <3>3
  <2> QED
    BY <1>1, <1>2, <1>4, <2>1 DEF BulkMem
<1>6. PICK regs : regs = BulkRegs(p, op, w)
  OBVIOUS
<1>7. regs \in [0 .. 7 -> Dwords]
  <2>1. PICK r \in 0 .. 7, s \in 0 .. 7, t \in 0 .. 7 : r = Esi /\ s = Edi /\ t = Ecx
    BY NamesFact
  <2>2. PICK a \in Dwords, b \in Dwords : /\ a = IF op = "Movs" THEN Trunc(si + n, 4) ELSE si
                                          /\ b = Trunc(di + n, 4)
    <3>1. si + n \in Int /\ di + n \in Int /\ si \in Dwords
      BY <1>1, <1>2, NamesFact
    <3>2. Trunc(si + n, 4) \in Dwords /\ Trunc(di + n, 4) \in Dwords
      BY <3>1, TruncFact, NamesFact
    <3> QED
      BY <3>1, <3>2
  <2>3. [[[p.reg EXCEPT ![r] = a] EXCEPT ![s] = b] EXCEPT ![t] = 0] \in [0 .. 7 -> Dwords]
    BY <1>1, <2>1, DwordsFact
  <2>4. regs = [[[p.reg EXCEPT ![r] = a] EXCEPT ![s] = b] EXCEPT ![t] = 0]
    BY <1>2, <1>6, <2>1, <2>2 DEF BulkRegs
  <2> QED
    BY <2>3, <2>4
<1>8. PICK f, h : f = [p EXCEPT !.mem = mem] /\ h = [q EXCEPT !.mem = mem]
  OBVIOUS
<1>9. Moved(p, q, f, h)
  BY <1>1, <1>5, <1>8, SetMem
<1>10. Moved(f, h, [f EXCEPT !.reg = regs], [h EXCEPT !.reg = regs])
  BY <1>7, <1>9, SetRegs DEF Moved, Even
<1>11. Moved(p, q, [f EXCEPT !.reg = regs], [h EXCEPT !.reg = regs])
  BY <1>9, <1>10, MovedTwice
<1>12. AfterBulk(p, op, w) = [f EXCEPT !.reg = regs]
  <2>1. AfterBulk(p, op, w) = [[p EXCEPT !.mem = mem] EXCEPT !.reg = regs]
    <3>1. PICK y : y = AfterBulk(p, op, w)
      OBVIOUS
    <3>2. y = [[p EXCEPT !.mem = BulkMem(p, op, w)] EXCEPT !.reg = BulkRegs(p, op, w)]
      BY <1>1, <3>1, AfterBulkIs
    <3> QED
      BY <1>4, <1>6, <3>1, <3>2, Zenon
  <2> QED
    BY <1>8, <2>1, Zenon
<1>13. AfterBulk(q, op, w) = [h EXCEPT !.reg = regs]
  <2>1. BulkMem(q, op, w) = mem /\ BulkRegs(q, op, w) = regs
    BY <1>1, <1>4, <1>6 DEF BulkMem, BulkRegs
  <2>2. AfterBulk(q, op, w) = [[q EXCEPT !.mem = mem] EXCEPT !.reg = regs]
    <3>1. PICK y : y = AfterBulk(q, op, w)
      OBVIOUS
    <3>2. y = [[q EXCEPT !.mem = BulkMem(q, op, w)] EXCEPT !.reg = BulkRegs(q, op, w)]
      BY <1>1, <3>1, AfterBulkIs
    <3> QED
      BY <2>1, <3>1, <3>2, Zenon
  <2> QED
    BY <1>8, <2>2, Zenon
<1> QED
  BY <1>11, <1>12, <1>13, MovedRan

-----------------------------------------------------------------------------
\* One turn of the repeated form, which began with n elements to do.
StringEnded(p, op, rep, n) ==
  \/ p.st # "Ok" \/ p.reg[Ecx] = 0
  \/ p.reg[Ecx] # n /\ op \in {"Scas", "Cmps"} /\ ZF(p.flags) # (rep = "Rep")
StringCounted(p) == IF p.st = "Ok" THEN [p EXCEPT !.reg[Ecx] = @ - 1] ELSE p
StringTurn(p, op, rep, w, n) == IF StringEnded(p, op, rep, n) THEN p ELSE StringCounted(StringOnce(p, op, w))
StringWalk(f, d, op, rep, w) ==
  [i \in 0 .. Size + 1 |-> IF i = 0 THEN d ELSE StringTurn(f[i - 1], op, rep, w, d.reg[Ecx])]

(* A turn taken by two states alike.                                         *)
LEMMA StringTurnFact ==
  ASSUME NEW p, NEW q, Twin(p, q), p.st = q.st, NEW op \in StringOps, NEW w \in Width, NEW rep, NEW n
  PROVE  Ran(p, q, StringTurn(p, op, rep, w, n), StringTurn(q, op, rep, w, n))
<1>1. p \in Cpus /\ q \in Cpus /\ p.reg = q.reg /\ ZF(p.flags) = ZF(q.flags)
  BY SameEflags DEF Twin, Even
<1>2. StringEnded(p, op, rep, n) <=> StringEnded(q, op, rep, n)
  BY <1>1 DEF StringEnded
<1>3. CASE StringEnded(p, op, rep, n)
  BY <1>2, <1>3, MovedRan DEF StringTurn
<1>4. CASE ~StringEnded(p, op, rep, n)
  <2>1. PICK f, h : f = StringOnce(p, op, w) /\ h = StringOnce(q, op, w)
    OBVIOUS
  <2>2. Ran(p, q, f, h) /\ f.reg[Ecx] = p.reg[Ecx] /\ Twin(f, h) /\ f.st = h.st /\ Even(f, h)
    BY <2>1, StringOnceFact DEF Ran, Twin
  <2>3. StringTurn(p, op, rep, w, n) = StringCounted(f) /\ StringTurn(q, op, rep, w, n) = StringCounted(h)
    BY <1>2, <1>4, <2>1 DEF StringTurn
  <2>4. Ran(f, h, StringCounted(f), StringCounted(h))
    <3>1. CASE f.st # "Ok"
      BY <2>2, <3>1, MovedRan DEF StringCounted
    <3>2. CASE f.st = "Ok"
      <4>1. PICK v \in Dwords : v = f.reg[Ecx] - 1 /\ v = h.reg[Ecx] - 1
        <5>1. f.reg = h.reg /\ f.reg[Ecx] \in Dwords /\ f.reg[Ecx] # 0
          BY <1>1, <1>4, <2>2, CpusFact, NamesFact DEF StringEnded, Even
        <5>2. f.reg[Ecx] - 1 \in Dwords
          <6>1. PICK u \in Nat \ {0} : u = Power(Bits(4))
            BY DwordsFact
          <6> QED
            BY <5>1, <6>1 DEF Dwords
        <5> QED
          BY <5>1, <5>2
      <4>2. PICK r \in 0 .. 7 : r = Ecx
        BY NamesFact
      <4>3. Moved(f, h, [f EXCEPT !.reg[r] = v], [h EXCEPT !.reg[r] = v])
        BY <2>2, SetRegMoved
      <4>4. StringCounted(f) = [f EXCEPT !.reg[r] = v] /\ StringCounted(h) = [h EXCEPT !.reg[r] = v]
        BY <2>2, <3>2, <4>1, <4>2 DEF StringCounted
      <4> QED
        BY <2>2, <4>3, <4>4, MovedRan
    <3> QED
      BY <3>1, <3>2
  <2> QED
    BY <2>2, <2>3, <2>4, RanTwice
<1> QED
  BY <1>3, <1>4

(* The walk exists.                                                          *)
LEMMA StringWalkExists ==
  ASSUME NEW d \in Cpus, NEW op \in StringOps, NEW w \in Width, NEW rep
  PROVE  \E f : f = StringWalk(f, d, op, rep, w)
<1>0. PICK n, e : n \in Nat /\ n = Size + 1 /\ e = d.reg[Ecx]
  BY WindowAssumption
<1> DEFINE step == [i \in 1 .. n |-> [p \in Cpus |-> StringTurn(p, op, rep, w, e)]]
<1>1. Steps(step, Cpus, n)
  <2>1. ASSUME NEW p \in Cpus PROVE StringTurn(p, op, rep, w, e) \in Cpus
    <3>1. Twin(p, p)
      BY SameSelf DEF Twin, Even
    <3>2. Ran(p, p, StringTurn(p, op, rep, w, e), StringTurn(p, op, rep, w, e))
      BY <3>1, StringTurnFact
    <3> QED
      BY <3>2 DEF Ran, Twin, Even
  <2> QED
    BY <2>1 DEF Steps
<1>2. PICK f : f = WalkStep(f, d, step, n) /\ \A i \in 0 .. n : f[i] \in Cpus
  <2> HIDE DEF step
  <2> QED
    BY <1>0, <1>1, WalkExists
<1>3. f = StringWalk(f, d, op, rep, w)
  <2>1. ASSUME NEW i \in 0 .. n, i # 0 PROVE step[i][f[i - 1]] = StringTurn(f[i - 1], op, rep, w, e)
    <3>1. i \in 1 .. n /\ i - 1 \in 0 .. n
      BY <1>0, <2>1
    <3>2. f[i - 1] \in Cpus
      BY <1>2, <3>1
    <3> QED
      BY <3>1, <3>2
  <2> HIDE DEF step
  <2>2. [i \in 0 .. n |-> IF i = 0 THEN d ELSE step[i][f[i - 1]]] = StringWalk(f, d, op, rep, w)
    BY <1>0, <2>1 DEF StringWalk
  <2> QED
    BY <1>2, <2>2 DEF WalkStep
<1> QED
  BY <1>3

(* The repeated form in those turns.                                         *)
LEMMA RepeatedIs ==
  ASSUME NEW d, NEW op, NEW rep, NEW w
  PROVE  Repeated(d, op, rep, w) = LET f == CHOOSE x : x = StringWalk(x, d, op, rep, w) IN f[Size + 1]
  BY Zenon DEF Repeated, StringWalk, StringTurn, StringEnded, StringCounted

(* The repeated form.                                                        *)
LEMMA RepeatedFact ==
  ASSUME NEW d, NEW e, Twin(d, e), d.st = e.st, NEW op \in StringOps, NEW w \in Width, NEW rep
  PROVE  Ran(d, e, Repeated(d, op, rep, w), Repeated(e, op, rep, w))
<1>1. d \in Cpus /\ e \in Cpus /\ d.reg[Ecx] = e.reg[Ecx]
  BY DEF Twin, Even
<1>2. PICK f, h : f = (CHOOSE x : x = StringWalk(x, d, op, rep, w)) /\ h = (CHOOSE x : x = StringWalk(x, e, op, rep, w))
  OBVIOUS
<1>3. f = StringWalk(f, d, op, rep, w) /\ h = StringWalk(h, e, op, rep, w)
  BY <1>1, <1>2, StringWalkExists
<1>4. Repeated(d, op, rep, w) = f[Size + 1] /\ Repeated(e, op, rep, w) = h[Size + 1]
  BY <1>2, RepeatedIs
<1>5. PICK n, m : n \in Nat /\ n = Size + 1 /\ m = d.reg[Ecx]
  BY WindowAssumption
<1> DEFINE T == {j \in 0 .. n : Ran(d, e, f[j], h[j])}
<1>6. 0 \in T
  <2>1. f[0] = d /\ h[0] = e /\ 0 \in 0 .. n
    BY <1>3, <1>5 DEF StringWalk
  <2> QED
    BY <2>1, MovedRan
<1>7. ASSUME NEW j \in 0 .. n - 1, j \in T PROVE j + 1 \in T
  <2>1. j + 1 \in 0 .. n /\ (j + 1) - 1 = j /\ j + 1 # 0
    BY <1>5
  <2>2. f[j + 1] = StringTurn(f[j], op, rep, w, m) /\ h[j + 1] = StringTurn(h[j], op, rep, w, m)
    BY <1>1, <1>3, <1>5, <2>1 DEF StringWalk
  <2>3. Ran(d, e, f[j], h[j]) /\ Twin(f[j], h[j]) /\ f[j].st = h[j].st
    BY <1>7 DEF Ran
  <2>4. Ran(f[j], h[j], f[j + 1], h[j + 1])
    BY <2>2, <2>3, StringTurnFact
  <2> QED
    BY <2>1, <2>3, <2>4, RanTwice
<1>8. 0 .. n \subseteq T
  <2> HIDE DEF T
  <2> QED
    BY <1>5, <1>6, <1>7, InductionInterval
<1> QED
  BY <1>4, <1>5, <1>8

(* x86p_string_execute.                                                      *)
LEMMA StringExecuteFact ==
  ASSUME NEW d, NEW e, Twin(d, e), d.st = e.st, NEW op \in StringOps, NEW w \in Width, NEW rep, RepDefined(op, rep)
  PROVE  Ran(d, e, StringExecute(d, op, rep, w), StringExecute(e, op, rep, w))
<1>1. Bulk(d, op, w) <=> Bulk(e, op, w)
  BY DEF Twin, Even, Bulk
<1>2. CASE rep = "None"
  BY <1>2, StringOnceFact DEF StringExecute
<1>3. CASE rep # "None" /\ op \in {"Movs", "Stos"} /\ Bulk(d, op, w)
  BY <1>1, <1>3, AfterBulkFact DEF StringExecute
<1>4. CASE rep # "None" /\ ~(op \in {"Movs", "Stos"} /\ Bulk(d, op, w))
  BY <1>1, <1>4, RepeatedFact DEF StringExecute
<1> QED
  BY <1>2, <1>3, <1>4

(* x86p_wasm_string_lower.                                                   *)
LEMMA StringLowered ==
  ASSUME NEW m, NEW g, NEW i, Along(m, g, i), NEW in, in.op = "String", in.x \in StringOps, in.o0.w \in Width,
         RepDefined(in.x, in.rep)
  PROVE  Done(WasmString(m, in, i), Execute(g, in), i)
<1>1. /\ Twin(m.c, g) /\ m.c.st = "Ok" /\ g.st = "Ok" /\ g.eip = i - 1 /\ g.next = i
  BY AlongFact DEF Along
<1>2. PICK f, h : f = StringExecute(m.c, in.x, in.rep, in.o0.w) /\ h = StringExecute(g, in.x, in.rep, in.o0.w)
  OBVIOUS
<1>3. Twin(f, h) /\ f.st = h.st /\ h.eip = i - 1 /\ h.next = i
  BY <1>1, <1>2, StringExecuteFact DEF Ran
<1>4. WasmString(m, in, i) = WasmWritten(Called(m, f, i), Unknown, 0) /\ Execute(g, in) = h
  BY <1>2 DEF WasmString, Execute
<1>5. CASE h.st = "Ok"
  BY <1>3, <1>4, <1>5, CalledFact, UnknownDone
<1>6. CASE h.st # "Ok"
  BY <1>3, <1>4, <1>6, CalledFact, LeftLearned
<1> QED
  BY <1>5, <1>6

(* A decoded instruction's operands are plain where the backend accepts it.  *)
LEMMA AcceptsPlain ==
  ASSUME NEW in, WasmAccepts(in)
  PROVE  Plain(in.o0) /\ Plain(in.o1) /\ Plain(in.o2)
<1>1. \A x \in {in.o0, in.o1, in.o2} : IsMem(x) => ~x.addr16
  BY DEF WasmAccepts
<1> QED
  BY <1>1 DEF Plain

(* The moves, the stack and the conditions.                                  *)
MoveOps == {"Mov", "Movzx", "Movsx", "Lea", "Xchg", "Push", "Pop", "Setcc", "Cmovcc", "Leave", "Cdq", "Cwde", "Bswap", "Cld", "Std"}

(* x86p_wasm_lower on those.                                                 *)
LEMMA MovesDone ==
  ASSUME NEW m, NEW g, NEW i, Along(m, g, i), Sure(m), NEW in, in.op \in MoveOps, Decoded(in), WasmAccepts(in)
  PROVE  Done(WasmLowered(m, in, i), Execute(g, in), i)
<1>0. Plain(in.o0) /\ Plain(in.o1)
  BY AcceptsPlain
<1>1. CASE in.op = "Mov"
  <2>1. WasmLowered(m, in, i) = WasmMov(m, in, i) /\ Execute(g, in) = ExecMove(g, in)
    BY <1>1 DEF WasmLowered, Execute
  <2> QED
    BY <1>0, <1>1, <2>1, MovFact DEF Decoded
<1>2. CASE in.op \in {"Movzx", "Movsx"}
  <2>1. WasmLowered(m, in, i) = WasmMovx(m, in, i) /\ Execute(g, in) = ExecMove(g, in)
    BY <1>2 DEF WasmLowered, Execute
  <2>2. in.o0 \in Registers /\ in.o1 \in Places
    BY <1>2 DEF Decoded
  <2> QED
    BY <1>0, <1>2, <2>1, <2>2, MovxFact
<1>3. CASE in.op = "Lea"
  <2>1. WasmLowered(m, in, i) = WasmLea(m, in) /\ Execute(g, in) = ExecMove(g, in)
    BY <1>3 DEF WasmLowered, Execute
  <2>2. in.o0 \in Registers /\ in.o1 \in Memories /\ ~in.o1.fs
    BY <1>3 DEF Decoded
  <2> QED
    BY <1>0, <1>3, <2>1, <2>2, LeaFact
<1>4. CASE in.op = "Xchg"
  <2>1. WasmLowered(m, in, i) = WasmXchg(m, in, i) /\ Execute(g, in) = ExecMove(g, in)
    BY <1>4 DEF WasmLowered, Execute
  <2>2. \/ in.o0 \in Places /\ in.o1 \in Registers
        \/ in.o0 \in Registers /\ in.o1 \in Memories /\ Apart(in.o1, in.o0)
    BY <1>4 DEF Decoded
  <2> QED
    BY <1>0, <1>4, <2>1, <2>2, XchgFact
<1>5. CASE in.op = "Push"
  <2>1. WasmLowered(m, in, i) = WasmPushOperand(m, in, i) /\ Execute(g, in) = ExecMove(g, in)
    BY <1>5 DEF WasmLowered, Execute
  <2>2. in.o0 \in Places \cup Immediates
    BY <1>5 DEF Decoded
  <2>3. in.o0.w = 4 \/ in.o0.k = "Imm"
    BY <1>5 DEF WasmAccepts
  <2> QED
    BY <1>0, <1>5, <2>1, <2>2, <2>3, PushOperandFact
<1>6. CASE in.op = "Pop"
  <2>1. WasmLowered(m, in, i) = WasmPopOperand(m, in, i) /\ Execute(g, in) = ExecMove(g, in)
    BY <1>6 DEF WasmLowered, Execute
  <2>2. in.o0 \in Places
    BY <1>6 DEF Decoded
  <2> QED
    BY <1>0, <1>6, <2>1, <2>2, PopOperandFact
<1>7. CASE in.op = "Setcc"
  <2>1. WasmLowered(m, in, i) = WasmSetcc(m, in, i) /\ Execute(g, in) = ExecCond(g, in)
    BY <1>7 DEF WasmLowered, Execute
  <2>2. in.cc \in Conds /\ in.o0 \in Places
    BY <1>7 DEF Decoded
  <2> QED
    BY <1>0, <1>7, <2>1, <2>2, SetccFact
<1>8. CASE in.op = "Cmovcc"
  <2>1. WasmLowered(m, in, i) = WasmCmov(m, in, i) /\ Execute(g, in) = ExecCond(g, in)
    BY <1>8 DEF WasmLowered, Execute
  <2>2. in.cc \in Conds /\ in.o0 \in Registers /\ in.o1 \in Places
    BY <1>8 DEF Decoded
  <2> QED
    BY <1>0, <1>8, <2>1, <2>2, CmovFact
<1>9. CASE in.op = "Leave"
  <2>1. WasmLowered(m, in, i) = WasmLeave(m, i) /\ Execute(g, in) = ExecFrame(g, in)
    BY <1>9 DEF WasmLowered, Execute
  <2> QED
    BY <1>9, <2>1, LeaveFact
<1>10. CASE in.op \in {"Cdq", "Cwde", "Bswap"}
  <2>1. WasmLowered(m, in, i) = WasmConvert(m, in) /\ Execute(g, in) = ExecFrame(g, in)
    BY <1>10 DEF WasmLowered, Execute
  <2>2. in.op = "Bswap" => in.o0 \in Registers
    BY <1>10 DEF Decoded
  <2> QED
    BY <1>10, <2>1, <2>2, ConvertFact
<1>11. CASE in.op \in {"Cld", "Std"}
  <2>1. WasmLowered(m, in, i) = WasmConvert(m, in) /\ Execute(g, in) = ExecDirection(g, in)
    BY <1>11 DEF WasmLowered, Execute
  <2> QED
    BY <1>11, <2>1, DirectionFact
<1> QED
  BY <1>1, <1>2, <1>3, <1>4, <1>5, <1>6, <1>7, <1>8, <1>9, <1>10, <1>11 DEF MoveOps

(* The arithmetic.                                                           *)
ArithmeticOps == {"Nop", "Alu", "Unary", "Mul", "Imul", "Div", "Idiv", "Shld", "Shrd", "Bit"}

(* x86p_wasm_lower on those.                                                 *)
LEMMA ArithmeticDone ==
  ASSUME NEW m, NEW g, NEW i, Along(m, g, i), Sure(m), NEW in, in.op \in ArithmeticOps, Decoded(in), WasmAccepts(in)
  PROVE  Done(WasmLowered(m, in, i), Execute(g, in), i)
<1>0. Plain(in.o0) /\ Plain(in.o1)
  BY AcceptsPlain
<1>1. CASE in.op = "Nop"
  <2>1. WasmLowered(m, in, i) = m /\ Execute(g, in) = g
    BY <1>1 DEF WasmLowered, Execute
  <2> QED
    BY <2>1, AlongDone
<1>2. CASE in.op = "Alu"
  <2>1. /\ WasmLowered(m, in, i) = IF in.x \in Inlined \/ WasmShiftsInline(in) THEN WasmAlu(m, in, i) ELSE WasmHelper(m, in, i)
        /\ Execute(g, in) = ExecAlu(g, in)
    BY <1>2 DEF WasmLowered, Execute
  <2> QED
    BY <1>0, <1>2, <2>1, AluDone
<1>3. CASE in.op = "Unary"
  <2>1. WasmLowered(m, in, i) = WasmUnary(m, in, i) /\ Execute(g, in) = ExecUnary(g, in)
    BY <1>3 DEF WasmLowered, Execute
  <2>2. in.x \in Unary /\ in.o0 \in Places
    BY <1>3 DEF Decoded
  <2> QED
    BY <1>0, <1>3, <2>1, <2>2, UnaryDone
<1>4. CASE in.op \in {"Mul", "Imul"}
  <2>1. WasmLowered(m, in, i) = Forgot(WasmMultiply(m, in, i)) /\ Execute(g, in) = ExecMul(g, in)
    BY <1>4 DEF WasmLowered, Execute
  <2> QED
    BY <1>0, <1>4, <2>1, MultiplyDone
<1>5. CASE in.op \in {"Div", "Idiv"}
  <2>1. WasmLowered(m, in, i) = Forgot(WasmDivide(m, in, i)) /\ Execute(g, in) = ExecDiv(g, in)
    BY <1>5 DEF WasmLowered, Execute
  <2>2. in.o0 \in Places
    BY <1>5 DEF Decoded
  <2> QED
    BY <1>0, <1>5, <2>1, <2>2, DivideDone
<1>6. CASE in.op \in {"Shld", "Shrd"}
  <2>1. WasmLowered(m, in, i) = Forgot(WasmDoubleShift(m, in, i)) /\ Execute(g, in) = ExecDoubleShift(g, in)
    BY <1>6 DEF WasmLowered, Execute
  <2>2. in.o0 \in Places /\ in.o1 \in Registers /\ in.o2 \in ByteCounts
    BY <1>6 DEF Decoded
  <2> QED
    BY <1>0, <1>6, <2>1, <2>2, DoubleShiftDone
<1>7. CASE in.op = "Bit"
  <2>1. WasmLowered(m, in, i) = WasmBit(m, in, i) /\ Execute(g, in) = ExecBit(g, in)
    BY <1>7 DEF WasmLowered, Execute
  <2>2. in.x \in BitOps /\ in.o0 \in Places /\ in.o1 \in Registers \cup CountBytes
    BY <1>7 DEF Decoded
  <2>3. in.o0.w = 4 \/ ~(IsMem(in.o0) /\ in.o1.k = "Reg")
    BY <1>7 DEF WasmAccepts
  <2> QED
    BY <1>0, <1>7, <2>1, <2>2, <2>3, BitDone
<1> QED
  BY <1>1, <1>2, <1>3, <1>4, <1>5, <1>6, <1>7 DEF ArithmeticOps

(* The calls of the helpers, and the flags.                                  *)
HelperOps == {"String", "Pushfd", "Popfd", "Sahf", "Lahf", "Salc", "Stc", "Clc", "Cmc", "Pushad", "Popad", "Enter"}

(* x86p_wasm_lower on those.                                                 *)
LEMMA HelpersDone ==
  ASSUME NEW m, NEW g, NEW i, Along(m, g, i), Sure(m), NEW in, in.op \in HelperOps, Decoded(in), WasmAccepts(in)
  PROVE  Done(WasmLowered(m, in, i), Execute(g, in), i)
<1>1. CASE in.op = "String"
  <2>1. WasmLowered(m, in, i) = WasmString(m, in, i)
    BY <1>1 DEF WasmLowered
  <2>2. in.x \in StringOps /\ in.o0.w \in Width
    BY <1>1 DEF Decoded
  <2>3. RepDefined(in.x, in.rep)
    BY <1>1 DEF WasmAccepts
  <2> QED
    BY <1>1, <2>1, <2>2, <2>3, StringLowered
<1>2. CASE in.op \in {"Pushfd", "Popfd"}
  <2>1. WasmLowered(m, in, i) = WasmFlagWord(m, in, i) /\ Execute(g, in) = ExecFlagWord(g, in)
    BY <1>2 DEF WasmLowered, Execute
  <2> QED
    BY <1>2, <2>1, FlagWordFact
<1>3. CASE in.op \in {"Sahf", "Lahf", "Salc", "Stc", "Clc", "Cmc"}
  <2>1. WasmLowered(m, in, i) = WasmFlags(m, in) /\ Execute(g, in) = ExecFlags(g, in)
    BY <1>3 DEF WasmLowered, Execute
  <2> QED
    BY <1>3, <2>1, FlagsFact
<1>4. CASE in.op \in {"Pushad", "Popad", "Enter"}
  <2>1. WasmLowered(m, in, i) = WasmStackAll(m, in, i)
    BY <1>4 DEF WasmLowered
  <2>2. in.op = "Enter" => in.o0 \in Immediates /\ in.o1 \in Immediates
    BY <1>4 DEF Decoded
  <2> QED
    BY <1>4, <2>1, <2>2, StackDone
<1> QED
  BY <1>1, <1>2, <1>3, <1>4 DEF HelperOps

(* What ends the block, or may.                                              *)
LEMMA BranchesDone ==
  ASSUME NEW m, NEW g, NEW i, Along(m, g, i), Sure(m), NEW in, in.op \in WasmBranches, Decoded(in), WasmAccepts(in)
  PROVE  Done(WasmLowered(m, in, i), Execute(g, in), i)
<1>0. Plain(in.o0)
  BY AcceptsPlain
<1>1. CASE in.op = "Jmp"
  <2>1. WasmLowered(m, in, i) = WasmJump(m, in, i) /\ Execute(g, in) = ExecJump(g, in)
    BY <1>1 DEF WasmLowered, Execute
  <2>2. in.o0 \in Sources(4)
    BY <1>1 DEF Decoded
  <2> QED
    BY <1>0, <1>1, <2>1, <2>2, JumpFact
<1>2. CASE in.op = "Jcc"
  <2>1. WasmLowered(m, in, i) = WasmSideExit(m, in) /\ Execute(g, in) = ExecJump(g, in)
    BY <1>2 DEF WasmLowered, Execute
  <2>2. in.cc \in Conds /\ in.o0 \in Immediates
    BY <1>2 DEF Decoded
  <2> QED
    BY <1>2, <2>1, <2>2, JccFact
<1>3. CASE in.op = "Jecxz"
  <2>1. WasmLowered(m, in, i) = WasmSideExit(m, in) /\ Execute(g, in) = ExecLoop(g, in)
    BY <1>3 DEF WasmLowered, Execute
  <2>2. in.aw = 32 /\ in.o0 \in Immediates
    BY <1>3 DEF Decoded
  <2> QED
    BY <1>3, <2>1, <2>2, JecxzFact
<1>4. CASE in.op = "Call"
  <2>1. WasmLowered(m, in, i) = WasmCall(m, in, i) /\ Execute(g, in) = ExecCall(g, in)
    BY <1>4 DEF WasmLowered, Execute
  <2>2. in.o0 \in Sources(4)
    BY <1>4 DEF Decoded
  <2> QED
    BY <1>0, <1>4, <2>1, <2>2, CallFact
<1>5. CASE in.op = "Ret"
  <2>1. WasmLowered(m, in, i) = WasmRet(m, in, i) /\ Execute(g, in) = ExecCall(g, in)
    BY <1>5 DEF WasmLowered, Execute
  <2>2. in.n = 1 => in.o0 \in Immediates
    BY <1>5 DEF Decoded
  <2> QED
    BY <1>5, <2>1, <2>2, RetFact
<1>6. CASE in.op \in {"Loop", "Loope", "Loopne"}
  <2>1. WasmLowered(m, in, i) = WasmLoop(m, in, i) /\ Execute(g, in) = ExecLoop(g, in)
    BY <1>6 DEF WasmLowered, Execute
  <2>2. in.o0 \in Immediates /\ in.aw \in {16, 32}
    BY <1>6 DEF Decoded
  <2> QED
    BY <1>6, <2>1, <2>2, LoopFact
<1>7. CASE in.op \in {"Int", "Into", "Hlt"}
  <2>1. WasmLowered(m, in, i) = WasmTrap(m, in, i) /\ Execute(g, in) = ExecTrap(g, in)
    BY <1>7 DEF WasmLowered, Execute
  <2> QED
    BY <1>7, <2>1, TrapFact
<1> QED
  BY <1>1, <1>2, <1>3, <1>4, <1>5, <1>6, <1>7 DEF WasmBranches

(* x86p_wasm_lower: whatever the backend lowers, it leaves as the interpreter does. *)
THEOREM LoweredDone ==
  ASSUME NEW m, NEW g, NEW i, Along(m, g, i), Sure(m), NEW in, Decoded(in), WasmAccepts(in)
  PROVE  Done(WasmLowered(m, in, i), Execute(g, in), i)
<1>1. in.op \in MoveOps \cup ArithmeticOps \cup HelperOps \cup WasmBranches
  BY DEF WasmAccepts, MoveOps, ArithmeticOps, HelperOps, WasmBranches
<1> QED
  BY <1>1, MovesDone, ArithmeticDone, HelpersDone, BranchesDone

\* The block goes on beside the interpreter, after n instructions.
Following(m, d, n, emits) ==
  /\ m \in Blocks /\ m.n = n /\ Twin(m.c, d) /\ m.c.st = "Ok" /\ d.st = "Ok" /\ d.eip = n
  /\ Sure(m) /\ n + 1 \in emits
\* It was left by the last of them.
Settled(m, d, n) ==
  /\ m \in Blocks /\ m.n = n /\ Twin(m.c, d) /\ m.c.eip = d.eip
  /\ m.exit = d.st \/ (m.exit \in {"BlockEnd", "Unsupported"} /\ d.st = "Ok")

(* x86p_wasm_lower_block and x86p_execute_decoded at the end of an instruction. *)
LEMMA ContinueDone ==
  ASSUME NEW m, NEW g, NEW i \in 1 .. Power(Bits(4)) - 1, Done(m, g, i), NEW code, NEW emits
  PROVE  LET e == Continue(m, code, emits)
         IN  e.in \in BOOLEAN /\ e.n = i /\ (e.in => Following(e, Completed(g), i, emits)) /\ (~e.in => Settled(e, Completed(g), i))
<1> DEFINE e == Continue(m, code, emits)
           b == [m EXCEPT !.n = i]
           d == Completed(g)
<1>0. m \in Blocks /\ m.n = i - 1 /\ Twin(m.c, g) /\ g.eip = i - 1 /\ g \in Cpus /\ m.in \in BOOLEAN /\ m.c \in Cpus
  BY DEF Done, Blocks, Twin, Even
<1>1. i \in Dwords /\ Trunc(i, 4) = i /\ i \in Nat /\ (i - 1) + 1 = i /\ (i - 1) + 2 = i + 1
  BY DwordsFact DEF Dwords
<1>2. /\ b \in Blocks /\ b.n = i /\ b.in = m.in /\ b.c = m.c /\ b.exit = m.exit /\ b.last = m.last /\ b.lw = m.lw
      /\ [m EXCEPT !.n = @ + 1] = b
  BY <1>0, <1>1 DEF Blocks
<1>3. Twin(m.c, d) /\ d.st = g.st /\ d \in Cpus /\ (g.st = "Ok" => d.eip = g.next) /\ (g.st # "Ok" => d.eip = i - 1)
  BY <1>0 DEF Completed, Twin, Even, Cpus
<1>4. CASE ~m.in
  <2>1. e = b
    BY <1>0, <1>2, <1>4 DEF Continue
  <2> HIDE DEF e, b, d
  <2>2. m.c.eip = d.eip /\ (m.exit = d.st \/ (m.exit = "BlockEnd" /\ d.st = "Ok"))
    <3>1. CASE g.st = "Ok" /\ m.exit = "BlockEnd" /\ m.c.eip = g.next
      BY <1>3, <3>1
    <3>2. CASE g.st # "Ok" /\ m.exit = g.st /\ m.c.eip = i - 1
      BY <1>3, <3>2
    <3> QED
      BY <1>4, <3>1, <3>2 DEF Done
  <2>3. Settled(e, d, i) /\ ~e.in /\ e.n = i /\ e.in \in BOOLEAN
    BY <1>0, <1>2, <1>3, <1>4, <2>1, <2>2 DEF Settled
  <2> QED
    BY <2>3 DEF e, d
<1>5. CASE m.in
  <2>1. g.st = "Ok" /\ m.c.st = "Ok" /\ g.next = i /\ Sure(m) /\ d.eip = i /\ d.st = "Ok"
    BY <1>3, <1>5 DEF Done
  <2>2. ASSUME NEW kind \in {"BlockEnd", "Unsupported"}, e = Exit(b, i, kind)
        PROVE  Settled(e, d, i) /\ ~e.in /\ e.n = i /\ e.in \in BOOLEAN
    <3> HIDE DEF e, b, d
    <3>1. kind \in Exits
      BY DEF Exits, Statuses
    <3>2. /\ e \in Blocks /\ ~e.in /\ e.exit = kind /\ e.n = b.n /\ e.c = [b.c EXCEPT !.eip = i]
      BY <1>1, <1>2, <2>2, <3>1, ExitFact
    <3>3. e.c = [m.c EXCEPT !.eip = i]
      BY <1>2, <3>2
    <3>4. Twin(e.c, d) /\ e.c.eip = i
      BY <1>0, <1>1, <1>3, <3>3 DEF Twin, Even, Cpus
    <3>5. e.in \in BOOLEAN /\ e.n = i
      BY <1>2, <3>2 DEF Blocks
    <3> QED
      BY <2>1, <3>2, <3>4, <3>5 DEF Settled
  <2>3. CASE b.n >= MaxInsns \/ Boundary(code, i + 1)
    <3>1. e = Exit(b, i, "BlockEnd")
      BY <1>0, <1>1, <1>2, <1>5, <2>3 DEF Continue
    <3> HIDE DEF e, b, d
    <3>2. Settled(e, d, i) /\ ~e.in /\ e.n = i /\ e.in \in BOOLEAN
      BY <2>2, <3>1
    <3> QED
      BY <3>2 DEF e, d
  <2>4. CASE ~(b.n >= MaxInsns \/ Boundary(code, i + 1)) /\ i + 1 \notin emits
    <3>1. e = Exit(b, i, "Unsupported")
      BY <1>0, <1>1, <1>2, <1>5, <2>4 DEF Continue
    <3> HIDE DEF e, b, d
    <3>2. Settled(e, d, i) /\ ~e.in /\ e.n = i /\ e.in \in BOOLEAN
      BY <2>2, <3>1
    <3> QED
      BY <3>2 DEF e, d
  <2>5. CASE ~(b.n >= MaxInsns \/ Boundary(code, i + 1)) /\ i + 1 \in emits
    <3>1. e = b
      BY <1>0, <1>1, <1>2, <1>5, <2>5 DEF Continue
    <3> HIDE DEF e, b, d
    <3>2. Following(e, d, i, emits) /\ e.in /\ e.n = i
      BY <1>2, <1>3, <1>5, <2>1, <2>5, <3>1 DEF Following, Sure
    <3>3. e.in \in BOOLEAN
      BY <1>0, <1>2, <3>1
    <3> QED
      BY <3>2, <3>3 DEF e, d
  <2> QED
    BY <2>3, <2>4, <2>5
<1> QED
  BY <1>0, <1>4, <1>5

(* One instruction of both.                                                  *)
LEMMA StepFollowing ==
  ASSUME NEW m, NEW d, NEW n \in Nat, n + 1 < Power(Bits(4)), NEW code, m.in, Following(m, d, n, WasmEmits(code)),
         Decoded(code[n + 1])
  PROVE  LET e == WasmStep(m, code)
             f == StepDecoded(d, code[n + 1])
         IN  e.in \in BOOLEAN /\ e.n = n + 1 /\ (e.in => Following(e, f, n + 1, WasmEmits(code))) /\ (~e.in => Settled(e, f, n + 1))
<1>1. PICK i, in, g, emits : i = n + 1 /\ in = code[n + 1] /\ g = [d EXCEPT !.next = Trunc(d.eip + 1, 4)] /\ emits = WasmEmits(code)
  OBVIOUS
<1>2. i \in 1 .. Power(Bits(4)) - 1 /\ i \in Dwords /\ Trunc(i, 4) = i /\ i - 1 = n
  BY <1>1, DwordsFact DEF Dwords
<1>3. d \in Cpus /\ d.eip = n /\ d.st = "Ok" /\ m.c.st = "Ok" /\ Twin(m.c, d) /\ m \in Blocks /\ m.n = n /\ Sure(m) /\ i \in emits
  BY <1>1 DEF Following, Twin, Even
<1>4. Twin(m.c, g) /\ g.st = "Ok" /\ g.eip = n /\ g.next = i
  BY <1>1, <1>2, <1>3 DEF Twin, Even, Cpus
<1>5. Along(m, g, i)
  BY <1>2, <1>3, <1>4 DEF Along
<1>6. WasmAccepts(in) /\ Decoded(in)
  BY <1>1, <1>3 DEF WasmEmits
<1>7. PICK p, h : p = WasmLowered(m, in, i) /\ h = Execute(g, in)
  OBVIOUS
<1>8. Done(p, h, i)
  BY <1>3, <1>5, <1>6, <1>7, LoweredDone
<1>9. WasmStep(m, code) = Continue(p, code, emits)
  BY <1>1, <1>3, <1>7 DEF WasmStep
<1>10. StepDecoded(d, code[n + 1]) = Completed(h)
  BY <1>1, <1>7 DEF StepDecoded
<1>11. PICK e, f : e = Continue(p, code, emits) /\ f = Completed(h)
  OBVIOUS
<1>12. e.in \in BOOLEAN /\ e.n = i /\ (e.in => Following(e, f, i, emits)) /\ (~e.in => Settled(e, f, i))
  BY <1>2, <1>8, <1>11, ContinueDone
<1> QED
  BY <1>1, <1>9, <1>10, <1>11, <1>12

-----------------------------------------------------------------------------
\* The inductive invariant: a block that runs follows the interpreter, instruction for instruction,
\* and what it knows of the flag record is so; one that was left settled with it when it was.
WasmInvariant ==
  /\ \E case \in Cases : prog = case[1]
  /\ k \in 0 .. Len(prog)
  /\ wasm.in \in BOOLEAN
  /\ wasm.n \in Nat /\ wasm.n <= k
  /\ wasm.in => Following(wasm, c, k, WasmEmits(prog))
  /\ ~wasm.in /\ wasm.n = k /\ k > 0 => Settled(wasm, c, k)

(* What the comparison of tools/jit_lockstep asks follows from it.           *)
LEMMA InvariantAgrees == WasmInvariant => WasmAgrees
<1> SUFFICES ASSUME WasmInvariant, wasm.n = k, k > 0
             PROVE  /\ \A field \in {"reg", "mem", "df", "cs"} : wasm.c[field] = c[field]
                    /\ wasm.in => c.st = "Ok" /\ c.eip = k
                    /\ ~wasm.in => SameGuest(wasm.c, c) /\ (wasm.exit = c.st \/ (wasm.exit \in {"BlockEnd", "Unsupported"} /\ c.st = "Ok"))
  BY DEF WasmAgrees, Agrees
<1>1. Twin(wasm.c, c)
  BY DEF WasmInvariant, Following, Settled
<1>2. wasm.c.reg = c.reg /\ wasm.c.mem = c.mem /\ wasm.c.df = c.df /\ wasm.c.cs = c.cs /\ SameRecord(wasm.c.flags, c.flags)
  BY <1>1 DEF Twin, Even
<1>3. wasm.in => c.st = "Ok" /\ c.eip = k
  BY DEF WasmInvariant, Following
<1>4. ASSUME ~wasm.in
      PROVE  SameGuest(wasm.c, c) /\ (wasm.exit = c.st \/ (wasm.exit \in {"BlockEnd", "Unsupported"} /\ c.st = "Ok"))
  <2>1. Settled(wasm, c, k)
    BY <1>4 DEF WasmInvariant
  <2>2. SameFlags(wasm.c.flags, c.flags)
    BY <1>2, SameEflags DEF SameFlags, SameRecord
  <2>3. SameGuest(wasm.c, c)
    BY <1>2, <2>1, <2>2 DEF SameGuest, Settled
  <2> QED
    BY <2>1, <2>3 DEF Settled
<1> QED
  BY <1>2, <1>3, <1>4

(* A block is entered with nothing known.                                    *)
LEMMA EnterInvariant == Init => WasmInvariant
<1> SUFFICES ASSUME Init PROVE WasmInvariant
  OBVIOUS
<1>1. PICK case \in Cases : prog = case[1] /\ c = case[2]
  BY DEF Init
<1>2. c \in Cpus /\ c.eip = 0 /\ c.st = "Ok" /\ Len(prog) \in Nat /\ k = 0 /\ wasm = WasmEnter(c, prog)
  BY <1>1, CasesAssumption DEF Init
<1>3. PICK emits : emits = WasmEmits(prog)
  OBVIOUS
<1>6. (\E p \in Cases : prog = p[1]) /\ k \in 0 .. Len(prog) /\ 0 \in Nat /\ 0 <= k /\ ~(k > 0)
  BY <1>1, <1>2
<1>4. CASE 1 \in emits
  <2>1. wasm = Entered(c)
    BY <1>2, <1>3, <1>4 DEF WasmEnter
  <2>2. wasm \in Blocks /\ wasm.c = c /\ wasm.n = 0 /\ wasm.in = TRUE /\ wasm.last = Unknown
    BY <1>2, <2>1 DEF Entered, Blocks, Exits, Holds, NothingHeld
  <2>3. Sure(wasm)
    BY <2>2 DEF Sure, Known, Unknown, WasmInline
  <2>4. Twin(wasm.c, c)
    BY <1>2, <2>2, SameSelf DEF Twin, Even
  <2>5. Following(wasm, c, k, emits)
    BY <1>2, <1>4, <2>2, <2>3, <2>4 DEF Following
  <2> QED
    BY <1>3, <1>6, <2>2, <2>5 DEF WasmInvariant
<1>5. CASE 1 \notin emits
  <2>1. wasm = [Entered(c) EXCEPT !.in = FALSE, !.exit = "UnsupportedAtEntry"]
    BY <1>2, <1>3, <1>5 DEF WasmEnter
  <2>2. wasm.n = 0 /\ wasm.in = FALSE
    BY <2>1 DEF Entered
  <2> QED
    BY <1>6, <2>2 DEF WasmInvariant
<1> QED
  BY <1>4, <1>5

(* Every step keeps it.                                                      *)
LEMMA StepInvariant == WasmInvariant /\ [Next]_vars => WasmInvariant'
<1> SUFFICES ASSUME WasmInvariant, [Next]_vars PROVE WasmInvariant'
  OBVIOUS
<1>1. CASE Step
  <2>1. PICK case \in Cases : prog = case[1]
    BY DEF WasmInvariant
  <2>2. /\ k \in Nat /\ k < Len(prog) /\ Len(prog) \in Nat /\ Len(prog) < Power(Bits(4)) /\ k' = k + 1 /\ prog' = prog
        /\ Decoded(prog[k + 1]) /\ Power(Bits(4)) \in Nat
    <3>1. Len(prog) \in Nat /\ Len(prog) < Power(Bits(4)) /\ DOMAIN prog = 1 .. Len(prog) /\ \A i \in DOMAIN prog : Decoded(prog[i])
      BY <2>1, CasesAssumption
    <3>2. k \in 0 .. Len(prog) /\ k < Len(prog) /\ k' = k + 1 /\ prog' = prog
      BY <1>1 DEF WasmInvariant, Step
    <3>3. k + 1 \in DOMAIN prog /\ k \in Nat
      BY <3>1, <3>2
    <3> QED
      BY <3>1, <3>2, <3>3, DwordsFact
  <2>3. wasm' = WasmStep(wasm, prog) /\ c' = StepDecoded(c, prog[k + 1])
    BY <1>1 DEF Step
  <2>4. k + 1 \in 0 .. Len(prog) /\ k + 1 < Power(Bits(4)) /\ k + 1 \in Nat /\ k + 1 > 0
    BY <2>2
  <2>5. CASE wasm.in
    <3>1. Following(wasm, c, k, WasmEmits(prog))
      BY <2>5 DEF WasmInvariant
    <3>2. PICK e, f : e = WasmStep(wasm, prog) /\ f = StepDecoded(c, prog[k + 1])
      OBVIOUS
    <3>3. e.in \in BOOLEAN /\ e.n = k + 1 /\ (e.in => Following(e, f, k + 1, WasmEmits(prog))) /\ (~e.in => Settled(e, f, k + 1))
      BY <2>2, <2>4, <2>5, <3>1, <3>2, StepFollowing
    <3>4. wasm' = e /\ c' = f
      BY <2>3, <3>2
    <3> QED
      BY <2>1, <2>2, <2>4, <3>3, <3>4 DEF WasmInvariant
  <2>6. CASE ~wasm.in
    <3>1. wasm' = wasm
      BY <2>3, <2>6 DEF WasmStep
    <3>2. wasm.n \in Nat /\ wasm.n < k + 1 /\ wasm.in \in BOOLEAN
      BY <2>2 DEF WasmInvariant
    <3> QED
      BY <2>1, <2>2, <2>4, <2>6, <3>1, <3>2 DEF WasmInvariant
  <2> QED
    BY <2>5, <2>6
<1>2. CASE UNCHANGED vars
  BY <1>2 DEF vars, WasmInvariant
<1> QED
  BY <1>1, <1>2 DEF Next

(* The WebAssembly backend does what the interpreter does (tests/test_jit_wasm.c). *)
THEOREM WasmSafe == Spec => []WasmAgrees
<1>1. Init => WasmInvariant
  BY EnterInvariant
<1>2. WasmInvariant /\ [Next]_vars => WasmInvariant'
  BY StepInvariant
<1>3. WasmInvariant => WasmAgrees
  BY InvariantAgrees
<1> QED
  BY <1>1, <1>2, <1>3, PTL DEF Spec
=============================================================================
