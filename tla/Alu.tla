--------------------------------- MODULE Alu ---------------------------------
(***************************************************************************)
(* The integer operations (alu.c, bit_ops.c, bcd.c): each yields its       *)
(* result r and the flag record f it leaves.                               *)
(***************************************************************************)
EXTENDS Flags

Binary == {"Add", "Or", "Adc", "Sbb", "And", "Sub", "Xor", "Cmp", "Test"}
ShiftOps == {"Shl", "Shr", "Sar"}
Rotates == {"Rol", "Ror", "Rcl", "Rcr"}
Unary == {"Not", "Neg", "Inc", "Dec"}

\* A count is masked to the bits that number the bits of a dword: five in the program.
MaskedCount(b) == b % Bits(4)

\* Only CF and OF change; the others are kept, in an explicit record.
SetCfOfOnly(f, cf, of) ==
  SetExplicit((Eflags(f) \ {"CF", "OF"}) \cup (IF cf THEN {"CF"} ELSE {}) \cup (IF of THEN {"OF"} ELSE {}))

ShiftResult(op, a, n, w) ==
  LET lost == n >= Bits(w)
  IN  CASE op = "Shl" -> IF lost THEN 0 ELSE Trunc(a * Power(n), w)
        [] op = "Shr" -> IF lost THEN 0 ELSE a \div Power(n)
        [] op = "Sar" -> IF lost THEN (IF Msb(a, w) = 1 THEN Power(Bits(w)) - 1 ELSE 0)
                         ELSE Trunc(Signed(a, w) \div Power(n), w)
\* A count of zero writes no flags at all.
Shift(op, a, b, w, f) ==
  LET n == MaskedCount(b)
      r == ShiftResult(op, a, n, w)
  IN  IF n = 0 THEN [r |-> a, f |-> f] ELSE [r |-> r, f |-> Set(f, op, a, n, r, w)]

RotateByWidthSkipped(op, a, b, w, f) ==
  LET n == MaskedCount(b) % Bits(w)
      left == IF op = "Rol" THEN n ELSE (Bits(w) - n) % Bits(w)
      r == Trunc(a * Power(left), w) + a \div Power(Bits(w) - left)
      cf == IF op = "Rol" THEN r % 2 = 1 ELSE Msb(r, w) = 1
      next == IF op = "Rol" THEN cf ELSE Bit(r, Bits(w) - 2) = 1
  IN  IF n = 0 THEN [r |-> a, f |-> f] ELSE [r |-> r, f |-> SetCfOfOnly(f, cf, (Msb(r, w) = 1) # next)]
\* A count that is a multiple of the width moves nothing and still writes CF and OF.
Rotate(op, a, b, w, f) ==
  LET n == MaskedCount(b) % Bits(w)
      left == IF op = "Rol" THEN n ELSE (Bits(w) - n) % Bits(w)
      r == Trunc(a * Power(left), w) + a \div Power(Bits(w) - left)
      cf == IF op = "Rol" THEN r % 2 = 1 ELSE Msb(r, w) = 1
      next == IF op = "Rol" THEN cf ELSE Bit(r, Bits(w) - 2) = 1
  IN  IF MaskedCount(b) = 0 THEN [r |-> a, f |-> f]
      ELSE [r |-> r, f |-> SetCfOfOnly(f, cf, (Msb(r, w) = 1) # next)]

\* Through the carry: a rotation of one bit more than the operand.
RotateThroughCarry(op, a, b, w, f) ==
  LET wide == Bits(w) + 1
      n == MaskedCount(b) % wide
      left == IF op = "Rcl" THEN n ELSE (wide - n) % wide
      x == a + (IF CF(f) THEN Power(Bits(w)) ELSE 0)
      y == ((x * Power(left)) % Power(wide)) + (x \div Power(wide - left))
      r == Trunc(y, w)
      cf == Bit(y, Bits(w)) = 1
      of == IF op = "Rcl" THEN (Msb(r, w) = 1) # cf ELSE Msb(r, w) # Bit(r, Bits(w) - 2)
  IN  IF MaskedCount(b) = 0 THEN [r |-> a, f |-> f] ELSE [r |-> r, f |-> SetCfOfOnly(f, cf, of)]

\* x86p_alu.
Alu(op, x, y, w, f) ==
  LET a == Trunc(x, w)
      b == Trunc(y, w)
      c == IF CF(f) THEN 1 ELSE 0
      recorded(kind, r) == [r |-> r, f |-> Set(f, kind, a, b, r, w)]
  IN  CASE op = "Add" -> recorded("Add", Trunc(a + b, w))
        [] op \in {"Sub", "Cmp"} -> recorded("Sub", Trunc(a - b, w))
        [] op = "Or" -> recorded("Logic", Or(a, b))
        [] op \in {"And", "Test"} -> recorded("Logic", And(a, b))
        [] op = "Xor" -> recorded("Logic", Xor(a, b))
        [] op = "Adc" -> LET r == Trunc(a + b + c, w) IN [r |-> r, f |-> SetExplicit(AdcFlags(a, b, c, r, w))]
        [] op = "Sbb" -> LET r == Trunc(a - b - c, w) IN [r |-> r, f |-> SetExplicit(SbbFlags(a, b, c, r, w))]
        [] op \in ShiftOps -> Shift(op, a, b, w, f)
        [] op \in {"Rol", "Ror"} -> Rotate(op, a, b, w, f)
        [] op \in {"Rcl", "Rcr"} -> RotateThroughCarry(op, a, b, w, f)

\* x86p_alu_unary: NOT writes no flags, NEG records the subtraction it is.
AluUnary(op, x, w, f) ==
  LET a == Trunc(x, w)
      recorded(kind, p, q, r) == [r |-> r, f |-> Set(f, kind, p, q, r, w)]
  IN  CASE op = "Not" -> [r |-> Not(a, w), f |-> f]
        [] op = "Neg" -> recorded("Sub", 0, a, Trunc(-a, w))
        [] op = "Inc" -> recorded("Inc", a, 1, Trunc(a + 1, w))
        [] op = "Dec" -> recorded("Dec", a, 1, Trunc(a - 1, w))

\* x86p_alu_mul, x86p_alu_imul: both halves; CF and OF say the product did not fit the low one.
Mul(x, y, w, f) ==
  LET full == Trunc(x, w) * Trunc(y, w)
      hi == full \div Power(Bits(w))
  IN  [lo |-> Trunc(full, w), hi |-> hi, f |-> SetCfOfOnly(f, hi # 0, hi # 0)]
Imul(x, y, w, f) ==
  LET full == Signed(x, w) * Signed(y, w)
      lo == Trunc(full, w)
      lost == Signed(lo, w) # full
  IN  [lo |-> lo, hi |-> Trunc(full \div Power(Bits(w)), w), f |-> SetCfOfOnly(f, lost, lost)]

\* x86p_alu_div, x86p_alu_idiv: refused, with nothing written, when the quotient does not fit.
Div(hi, lo, d, w) ==
  LET num == Trunc(hi, w) * Power(Bits(w)) + Trunc(lo, w)
      by == Trunc(d, w)
  IN  IF by = 0 \/ num \div by >= Power(Bits(w)) THEN [ok |-> FALSE, q |-> 0, r |-> 0]
      ELSE [ok |-> TRUE, q |-> num \div by, r |-> num % by]
IdivUnchecked(hi, lo, d, w) ==
  LET num == Signed(hi, w) * Power(Bits(w)) + Trunc(lo, w)
      by == Signed(d, w)
  IN  IF by = 0 THEN [ok |-> FALSE, q |-> 0, r |-> 0]
      ELSE [ok |-> TRUE, q |-> Trunc(Quotient(num, by), w), r |-> Trunc(Remainder(num, by), w)]
Idiv(hi, lo, d, w) ==
  LET num == Signed(hi, w) * Power(Bits(w)) + Trunc(lo, w)
      by == Signed(d, w)
      q == Quotient(num, by)
      half == Power(Bits(w) - 1)
  IN  IF by = 0 THEN [ok |-> FALSE, q |-> 0, r |-> 0]
      ELSE IF q < -half \/ q >= half THEN [ok |-> FALSE, q |-> 0, r |-> 0]
      ELSE [ok |-> TRUE, q |-> Trunc(q, w), r |-> Trunc(Remainder(num, by), w)]

\* x86p_bit_apply: CF is the old bit; e is a set of flags.
BitApply(op, v, i, e) ==
  LET on == Bit(v, i) = 1
  IN  [r |-> CASE op = "Bt" -> v
               [] op = "Bts" -> IF on THEN v ELSE v + Power(i)
               [] op = "Btr" -> IF on THEN v - Power(i) ELSE v
               [] op = "Btc" -> IF on THEN v - Power(i) ELSE v + Power(i),
       e |-> IF on THEN e \cup {"CF"} ELSE e \ {"CF"}]

\* x86p_bit_scan: a zero source sets ZF and keeps the destination.
BitScan(reverse, v, w, old, e) ==
  LET set == {i \in 0 .. Bits(w) - 1 : Bit(v, i) = 1}
  IN  [r |-> IF set = {} THEN old
             ELSE IF reverse THEN CHOOSE i \in set : \A j \in set : j <= i
             ELSE CHOOSE i \in set : \A j \in set : i <= j,
       e |-> IF set = {} THEN e \cup {"ZF"} ELSE e \ {"ZF"}]

\* x86p_double_shift: nothing written at a masked count of zero or past the width.
DoubleShift(left, x, y, count, w, e) ==
  LET n == MaskedCount(count)
      bits == Bits(w)
      dst == Trunc(x, w)
      src == Trunc(y, w)
      moved(k) == IF left THEN Trunc(dst * Power(k), w) + src \div Power(bits - k)
                  ELSE dst \div Power(k) + Trunc(src * Power(bits - k), w)
      r == moved(n)
      cf == IF left THEN Bit(dst, bits - n) ELSE Bit(dst, n - 1)
  IN  IF n = 0 \/ n > bits THEN [wrote |-> FALSE, defined |-> n = 0, r |-> x, e |-> e]
      ELSE [wrote |-> TRUE, defined |-> TRUE, r |-> r,
            e |-> {f \in {"CF", "SF", "ZF", "PF", "AF", "OF"} :
                     CASE f = "CF" -> cf = 1 [] f = "SF" -> Msb(r, w) = 1 [] f = "ZF" -> r = 0
                       [] f = "PF" -> EvenParity(r) [] f = "AF" -> TRUE
                       [] f = "OF" -> Msb(r, w) # Msb(moved(n - 1), w)}]
=============================================================================
