-------------------------------- MODULE Word --------------------------------
(***************************************************************************)
(* Machine words as naturals.  A width is in bytes, as everywhere in the   *)
(* code; a byte has ByteBits bits, 8 in the program, so that a small       *)
(* instance keeps the same bytes, halves and wrap-around.                  *)
(***************************************************************************)
EXTENDS Integers, FiniteSets

CONSTANT ByteBits

ASSUME ByteAssumption == ByteBits \in Nat /\ ByteBits >= 2 /\ ByteBits % 2 = 0

Bits(w) == w * ByteBits
Power(n) == 2 ^ n
\* x86p_width_mask, as the truncation it is used for.
Trunc(v, w) == v % Power(Bits(w))
Bit(v, i) == (v \div Power(i)) % 2
Msb(v, w) == Bit(v, Bits(w) - 1)
\* The value as a signed number of its width, and back (x86p_sign_extend).
Signed(v, w) == IF Msb(v, w) = 1 THEN Trunc(v, w) - Power(Bits(w)) ELSE Trunc(v, w)
SignExtend(v, from, to) == Trunc(Signed(v, from), to)

\* Bitwise conjunction, and the two operations it determines.
And(x, y) ==
  LET and[p \in (0 .. x) \X (0 .. y)] ==
        IF p[1] = 0 \/ p[2] = 0 THEN 0
        ELSE 2 * and[<<p[1] \div 2, p[2] \div 2>>] + (p[1] % 2) * (p[2] % 2)
  IN  and[<<x, y>>]
Or(x, y) == x + y - And(x, y)
Xor(x, y) == x + y - 2 * And(x, y)
Not(v, w) == Power(Bits(w)) - 1 - Trunc(v, w)

\* C division: the quotient is truncated towards zero.
Abs(n) == IF n < 0 THEN -n ELSE n
Quotient(n, d) == IF (n < 0) = (d < 0) THEN Abs(n) \div Abs(d) ELSE -(Abs(n) \div Abs(d))
Remainder(n, d) == n - d * Quotient(n, d)

\* The byte at position k of a word, and a word with one of its bytes or its low half replaced.
ByteOf(v, k) == (v \div Power(k * ByteBits)) % Power(ByteBits)
WithField(v, k, w, x) == v + (Trunc(x, w) - Trunc(v \div Power(k * ByteBits), w)) * Power(k * ByteBits)
EvenParity(v) == Cardinality({i \in 0 .. ByteBits - 1 : Bit(v, i) = 1}) % 2 = 0
=============================================================================
