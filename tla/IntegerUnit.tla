----------------------------- MODULE IntegerUnit -----------------------------
(***************************************************************************)
(* The integer unit run through sequences of operations: each leaves a     *)
(* flag record that a later one may read (a carry, the flags a rotate      *)
(* keeps), so what a record stands for is judged after any sequence.       *)
(* `last` is a history variable: the operation and what it was given.      *)
(***************************************************************************)
EXTENDS Decimal

CONSTANTS
  Start,      \* values of the accumulator, and
  Operands,   \* of the second operand, that are tried
  Counts,     \* shift and rotate counts
  Widths,     \* operand widths of the additive and logical operations
  MaxOps      \* bound on the length of a sequence

\* The decimal adjustments are of bytes of eight bits.
ASSUME OctetAssumption == ByteBits = 8

\* A power of two is twice the one before it, up to one bit more than the widths in use have.
ASSUME WidthsAssumption ==
  /\ Widths \subseteq Nat \ {0} /\ Counts \subseteq Nat
  /\ Power(0) = 1
  /\ \A w \in Widths \cup {1} : \A n \in 0 .. Bits(w) :
       Power(n) \in Nat \ {0} /\ Power(n + 1) = 2 * Power(n)

VARIABLES acc, high, flags, last, ops

vars == <<acc, high, flags, last, ops>>

Nothing == [op |-> "none", w |-> 1, a |-> 0, hi |-> 0, b |-> 0, f |-> NoFlags, before |-> "none", x |-> 0, y |-> 0, c |-> 0]
\* The flags as a loaded image leaves them, or as SAHF or POPFD may.
Init ==
  /\ acc \in Start
  /\ high = 0
  /\ flags \in {NoFlags, SetExplicit({"CF", "AF", "ZF"})}
  /\ last = Nothing
  /\ ops = 0

Fits(v, w) == v \in 0 .. Power(Bits(w)) - 1
Carry(f) == IF CF(f) THEN 1 ELSE 0
\* What was done, and for an adjustment (x, y, c) what the operation before it was given.
Did(op, w, b) ==
  /\ ops' = ops + 1
  /\ last' = [Nothing EXCEPT !.op = op, !.w = w, !.a = acc, !.hi = high, !.b = b, !.f = flags,
              !.before = IF op \in {"Daa", "Das"} /\ last.w = 1 THEN last.op ELSE "none",
              !.x = IF op \in {"Daa", "Das"} THEN last.a ELSE 0,
              !.y = IF op \in {"Daa", "Das"} THEN last.b ELSE 0,
              !.c = IF op \in {"Daa", "Das"} THEN Carry(last.f) ELSE 0]
Took(result, w) ==
  /\ acc' = result.r
  /\ flags' = result.f
  /\ UNCHANGED high

BinaryOp ==
  /\ ops < MaxOps
  /\ \E op \in Binary, w \in Widths, b \in Operands :
       /\ Fits(acc, w) /\ Fits(b, w)
       /\ Did(op, w, b)
       /\ Took(Alu(op, acc, b, w, flags), w)
ShiftOp ==
  /\ ops < MaxOps
  /\ \E op \in ShiftOps \cup Rotates, n \in Counts :
       /\ Fits(acc, 1)
       /\ Did(op, 1, n)
       /\ Took(Alu(op, acc, n, 1, flags), 1)
UnaryOp ==
  /\ ops < MaxOps
  /\ \E op \in Unary, w \in Widths :
       /\ Fits(acc, w)
       /\ Did(op, w, 0)
       /\ Took(AluUnary(op, acc, w, flags), w)
MulOp ==
  /\ ops < MaxOps
  /\ \E op \in {"Mul", "Imul"}, b \in Operands :
       LET p == IF op = "Mul" THEN Mul(acc, b, 1, flags) ELSE Imul(acc, b, 1, flags)
       IN  /\ Fits(acc, 1) /\ Fits(b, 1)
           /\ Did(op, 1, b)
           /\ acc' = p.lo /\ high' = p.hi /\ flags' = p.f
\* A refused division writes nothing (exec.c reports it).
DivOp ==
  /\ ops < MaxOps
  /\ \E op \in {"Div", "Idiv"}, b \in Operands :
       LET d == IF op = "Div" THEN Div(high, acc, b, 1) ELSE Idiv(high, acc, b, 1)
       IN  /\ Fits(acc, 1) /\ Fits(b, 1)
           /\ Did(op, 1, b)
           /\ acc' = IF d.ok THEN d.q ELSE acc
           /\ high' = IF d.ok THEN d.r ELSE high
           /\ UNCHANGED flags
DecimalOp ==
  /\ ops < MaxOps
  /\ \E op \in {"Daa", "Das", "Aaa", "Aas", "Aam", "Aad"}, imm \in {0, 10} :
       LET d == BcdApply(op, acc, high, Eflags(flags), imm)
       IN  /\ Fits(acc, 1)
           /\ op \notin {"Aam", "Aad"} => imm = 10
           /\ Did(op, 1, imm)
           /\ acc' = d.al /\ high' = d.ah
           /\ flags' = IF d.ok THEN SetExplicit(d.e) ELSE flags
BitOp ==
  /\ ops < MaxOps
  /\ \E op \in {"Bt", "Bts", "Btr", "Btc"}, i \in Counts :
       LET t == BitApply(op, acc, i % Bits(1), Eflags(flags))
       IN  /\ Fits(acc, 1)
           /\ Did(op, 1, i)
           /\ Took([r |-> t.r, f |-> SetExplicit(t.e)], 1)
ScanOp ==
  /\ ops < MaxOps
  /\ \E reverse \in BOOLEAN, b \in Operands :
       LET t == BitScan(reverse, b, 1, acc, Eflags(flags))
       IN  /\ Fits(acc, 1) /\ Fits(b, 1)
           /\ Did(IF reverse THEN "Bsr" ELSE "Bsf", 1, b)
           /\ Took([r |-> t.r, f |-> SetExplicit(t.e)], 1)
\* SHLD and SHRD: the accumulator shifted, the operand's bits filling it.
DoubleOp ==
  /\ ops < MaxOps
  /\ \E left \in BOOLEAN, b \in Operands, n \in Counts :
       LET t == DoubleShift(left, acc, b, n, 1, Eflags(flags))
       IN  /\ Fits(acc, 1) /\ Fits(b, 1) /\ t.defined
           /\ Did(IF left THEN "Shld" ELSE "Shrd", 1, n)
           /\ Took([r |-> t.r, f |-> IF t.wrote THEN SetExplicit(t.e) ELSE flags], 1)

Next == BinaryOp \/ ShiftOp \/ UnaryOp \/ MulOp \/ DivOp \/ DecimalOp \/ BitOp \/ ScanOp \/ DoubleOp
Spec == Init /\ [][Next]_vars

-----------------------------------------------------------------------------
(* What the architecture says, written without the record's formulas.      *)

\* The exact value of an additive operation, unsigned and signed.
Exact(l, left, right) ==
  LET c == IF l.op \in {"Adc", "Sbb"} THEN Carry(l.f) ELSE 0
  IN  CASE l.op \in {"Add", "Adc"} -> left + right + c
        [] l.op \in {"Sub", "Cmp", "Sbb"} -> left - right - c
        [] l.op = "Neg" -> -left
        [] l.op = "Inc" -> left + 1
        [] l.op = "Dec" -> left - 1
Additive == {"Add", "Adc", "Sub", "Cmp", "Sbb", "Neg", "Inc", "Dec"}
Half == Power(ByteBits \div 2)

\* After an addition or subtraction CF says the unsigned result did not fit and OF the signed one,
\* of the carry-in forms too, whatever the carry came from; INC and DEC leave CF as it was.
CarriesFit ==
  last.op \in Additive =>
    LET n == Power(Bits(last.w))
        u == Exact(last, last.a, last.b)
        s == Exact(last, Signed(last.a, last.w), Signed(last.b, last.w))
    IN  /\ CF(flags) <=> IF last.op \in {"Inc", "Dec"} THEN CF(last.f) ELSE u < 0 \/ u >= n
        /\ OF(flags) <=> s < -(n \div 2) \/ s >= n \div 2
        /\ ZF(flags) <=> u % n = 0
\* AF says the low half of the byte did not fit (the decimal adjustments read it).
HalfCarryFits ==
  last.op \in Additive =>
    LET h == Exact(last, last.a % Half, last.b % Half) IN AF(flags) <=> h < 0 \/ h >= Half
\* The flags of an addition or subtraction (flags.c, the record and the eager forms) are what its
\* exact result says they are.
CarriesExact == CarriesFit /\ HalfCarryFits

\* A compare followed by a condition orders its operands: unsigned for B and A, signed for L and
\* G, from the lazy record and from the materialised word alike (cond.c).
ConditionsOrder ==
  /\ \A cc \in Conds : Cond(cc, flags) <=> CondEflags(cc, Eflags(flags))
  /\ last.op \in {"Cmp", "Sub"} =>
       LET a == Signed(last.a, last.w)
           b == Signed(last.b, last.w)
       IN  /\ (Cond("B", flags) <=> last.a < last.b) /\ (Cond("A", flags) <=> last.a > last.b)
           /\ (Cond("L", flags) <=> a < b) /\ (Cond("G", flags) <=> a > b)
           /\ (Cond("LE", flags) <=> a <= b) /\ (Cond("BE", flags) <=> last.a <= last.b)

\* One bit moved at a time, the count times: the value and the carry it leaves.
OneBit(op, s, w) ==
  LET top == Msb(s[1], w)
      low == s[1] % 2
      up == Trunc(2 * s[1], w)
      down == s[1] \div 2
      at == Power(Bits(w) - 1)
  IN  CASE op = "Shl" -> <<up, top>> [] op = "Shr" -> <<down, low>>
        [] op = "Sar" -> <<down + top * at, low>>
        [] op = "Rol" -> <<up + top, top>> [] op = "Ror" -> <<down + low * at, low>>
        [] op = "Rcl" -> <<up + s[2], top>> [] op = "Rcr" -> <<down + s[2] * at, low>>
Moved(op, a, c, n, w) ==
  LET after[k \in 0 .. n] == IF k = 0 THEN <<a, c>> ELSE OneBit(op, after[k - 1], w)
  IN  after[n]

\* A shift or rotate by n is n moves by one bit, CF the last bit moved out, for counts up to and
\* past the width (alu.c's three separate rules, flags.c's derivation of CF).
ShiftsStepwise ==
  last.op \in ShiftOps \cup Rotates /\ MaskedCount(last.b) > 0 =>
    LET m == Moved(last.op, last.a, Carry(last.f), MaskedCount(last.b), last.w)
    IN  acc = m[1] /\ Carry(flags) = m[2]


\* A quotient that is accepted is the quotient: with the remainder it gives the dividend back, the
\* remainder is smaller than the divisor and has the dividend's sign; one that cannot be given
\* back is refused, and only then (alu.c, DIV and IDIV).
DivisionExact ==
  last.op \in {"Div", "Idiv"} =>
    LET s == last.op = "Idiv"
        n == Power(Bits(1))
        num == (IF s THEN Signed(last.hi, 1) ELSE last.hi) * n + last.a
        d == IF s THEN Signed(last.b, 1) ELSE last.b
        q == IF s THEN Signed(acc, 1) ELSE acc
        r == IF s THEN Signed(high, 1) ELSE high
        right(x, y) == num = x * d + y /\ Abs(y) < Abs(d) /\ (y # 0 => (y < 0) = (num < 0))
        fits == d # 0 /\ LET t == Quotient(num, d) IN IF s THEN t >= -(n \div 2) /\ t < n \div 2 ELSE t < n
    IN  IF fits THEN right(q, r) ELSE acc = last.a /\ high = last.hi

\* Two-digit decimals: adding or subtracting, with a carry or without, and then adjusting gives
\* the decimal sum or difference, and CF the decimal carry (bcd.c).
IsBcd(v) == v < 154 /\ v % 16 < 10
ToDecimal(v) == 10 * (v \div 16) + (v % 16)
DecimalExact ==
  LET c == IF last.before \in {"Adc", "Sbb"} THEN last.c ELSE 0
      sum == IF last.op = "Daa" THEN ToDecimal(last.x) + ToDecimal(last.y) + c ELSE ToDecimal(last.x) - ToDecimal(last.y) - c
  IN  /\ IsBcd(last.x) /\ IsBcd(last.y)
      /\ \/ last.op = "Daa" /\ last.before \in {"Add", "Adc"}
         \/ last.op = "Das" /\ last.before \in {"Sub", "Sbb"}
      => IsBcd(acc) /\ ToDecimal(acc) = sum % 100 /\ CF(flags) = (sum < 0 \/ sum > 99)

=============================================================================
