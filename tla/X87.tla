--------------------------------- MODULE X87 ---------------------------------
(***************************************************************************)
(* The x87 unit and its interpreter (x87_stack.h, x87.c, x87_register.c,   *)
(* x87_memory.c, x87_integer.c, x87_state.c, x87_fn_stack.c, x87_exec.c).  *)
(* A value is a sign and a magnitude in eighths: an extended register      *)
(* holds any magnitude up to TopMag, a double the multiples of 4, a single *)
(* the multiples of 8, with one class of infinities and one of NaNs.       *)
(* Memory is a set of operand-sized cells.                                 *)
(***************************************************************************)
EXTENDS Integers, Sequences, FiniteSets

CONSTANTS Regs         \* X86P_X87_REGS, a power of two
ASSUME RegsAssumption == Regs \in {2, 4, 8}

TopMag == 31
Inf == TopMag + 1
Nan == TopMag + 2
OneMag == 8
V(neg, m) == [s |-> neg, m |-> m]
IsZero(v) == v.m = 0
IsNan(v) == v.m = Nan
Finite(v) == v.m <= TopMag
\* The number a value stands for.  Every NaN answers the same: the callers ask IsNan first.
Num(v) == IF v.s THEN 0 - v.m ELSE v.m

C0123 == {"C0", "C1", "C2", "C3"}
Nearest == "Nearest"
InitControl == [rc |-> Nearest, pc |-> "Extended"]

-----------------------------------------------------------------------------
(* x87_stack.h: TOP, tags and the stack faults.  full is the set of        *)
(* physical registers whose tag is not Empty.                              *)

Phys(f, i) == (f.top + i) % Regs
Occupied(f, i) == Phys(f, i) \in f.full
Read(f, i) == f.reg[Phys(f, i)]
WriteSt(f, i, v) == [f EXCEPT !.reg[Phys(f, i)] = v, !.full = @ \cup {Phys(f, i)}]
PushValue(f, v) ==
  LET p == (f.top + Regs - 1) % Regs
  IN  IF p \in f.full THEN [f EXCEPT !.status = @ \cup {"IE", "SF", "C1"}]
      ELSE [f EXCEPT !.top = p, !.reg[p] = v, !.full = @ \cup {p}]
PopValue(f) ==
  IF Occupied(f, 0) THEN [f EXCEPT !.full = @ \ {f.top}, !.top = (@ + 1) % Regs]
  ELSE [f EXCEPT !.status = (@ \cup {"IE", "SF"}) \ {"C1"}]
\* do_pops, popped.
Pops(f, n) == CASE n = 0 -> f [] n = 1 -> PopValue(f) [] n = 2 -> PopValue(PopValue(f))

\* x86p_x87_reset clears the whole unit but double_arith: an armed census (census >= 0) is disarmed.
Reset(f) ==
  [f EXCEPT !.reg = [p \in 0 .. Regs - 1 |-> V(FALSE, 0)], !.full = {}, !.top = 0, !.status = {}, !.control = InitControl,
            !.census = -1]
StatusWord(f) == [bits |-> f.status, top |-> f.top]
ClearExceptions(f) == [f EXCEPT !.status = @ \ {"IE", "ZE", "PE", "SF"}]
\* x86p_x87_mmx_write: the exponent of all ones makes the register a NaN; TOP stays.
MmxWrite(f, p) == [f EXCEPT !.reg[p] = V(TRUE, Nan), !.full = 0 .. Regs - 1]
Emms(f) == [f EXCEPT !.full = {}]

-----------------------------------------------------------------------------
(* Rounding, conversions and arithmetic.                                   *)

StepOf(w) == CASE w = 4 -> 8 [] w = 8 -> 4 [] w = 10 -> 1
PrecisionStep(control) == CASE control.pc = "Single" -> StepOf(4) [] control.pc = "Double" -> StepOf(8) [] OTHER -> StepOf(10)
\* rounds_up, round_to_integer: whether num/den, cut to whole units, moves away from zero.
RoundsUp(rc, neg, num, den) ==
  LET below == num % den
  IN  /\ below # 0
      /\ CASE rc = "Down" -> neg
           [] rc = "Up" -> ~neg
           [] rc = "Truncate" -> FALSE
           [] OTHER -> 2 * below > den \/ (2 * below = den /\ (num \div den) % 2 = 1)
\* num/den eighths, rounded to a multiple of step: the value, and what an exact unit would report.
RoundedUp(neg, num, den, step, rc) == RoundsUp(rc, neg, num, den * step)
Inexact(num, den, step) == num % (den * step) # 0
Rounded(neg, num, den, step, rc) ==
  LET m == (num \div (den * step) + (IF RoundedUp(neg, num, den, step, rc) THEN 1 ELSE 0)) * step
  IN  V(neg, IF m > TopMag THEN Inf ELSE m)

\* The magnitude an operation rounds, as a fraction of eighths, for finite operands.
Exact(op, x, y) ==
  LET sum == IF op = "Add" THEN Num(x) + Num(y) ELSE Num(x) - Num(y)
      opposite == x.s # y.s
  IN  CASE op = "Mul" -> [neg |-> opposite, num |-> x.m * y.m, den |-> OneMag]
        [] op = "Div" -> [neg |-> opposite, num |-> x.m * OneMag, den |-> y.m]
        [] OTHER -> [neg |-> sum < 0, num |-> IF sum < 0 THEN 0 - sum ELSE sum, den |-> 1]
Indefinite == V(TRUE, Nan)
\* The sum of two values that cancel, or of two zeros.
ZeroSum(op, x, y, rc) == V(IF x.s = (y.s # (op = "Sub")) THEN x.s ELSE rc = "Down", 0)
Computes(op, x, y) == Finite(x) /\ Finite(y) /\ ~(op = "Div" /\ y.m = 0)
\* What the host's unit, and the software one, compute: x OP y to the precision of step.
Compute(op, x, y, step, rc) ==
  LET e == Exact(op, x, y)
      opposite == x.s # y.s
      minus == y.s # (op = "Sub")
  IN  CASE IsNan(x) -> x
        [] ~IsNan(x) /\ IsNan(y) -> y
        [] Computes(op, x, y) ->
             IF op \in {"Add", "Sub"} /\ e.num = 0 THEN ZeroSum(op, x, y, rc) ELSE Rounded(e.neg, e.num, e.den, step, rc)
        [] ~IsNan(x) /\ ~IsNan(y) /\ ~Computes(op, x, y) ->
             CASE op = "Mul" -> IF IsZero(x) \/ IsZero(y) THEN Indefinite ELSE V(opposite, Inf)
               [] op = "Div" -> IF (IsZero(x) /\ IsZero(y)) \/ (x.m = Inf /\ y.m = Inf) THEN Indefinite
                                ELSE V(opposite, IF y.m = Inf THEN 0 ELSE Inf)
               [] OTHER -> IF x.m = Inf /\ y.m = Inf /\ x.s # minus THEN Indefinite
                           ELSE V(IF x.m = Inf THEN x.s ELSE minus, Inf)
\* The flags the software unit adds (x86p_ext80_mul_ordinary, add_ordinary); the host build leaves
\* them where the guest does not see them.
Raised(f, op, x, y) ==
  LET e == Exact(op, x, y)
      step == PrecisionStep(f.control)
  IN  IF f.host \/ ~Computes(op, x, y) THEN {}
      ELSE (IF Inexact(e.num, e.den, step) THEN {"PE"} ELSE {})
             \cup (IF RoundedUp(e.neg, e.num, e.den, step, f.control.rc) THEN {"C1"} ELSE {})

\* x86p_ext80_narrow_nearest: zero, or a magnitude in range after rounding; Widened is exact.
Narrows(v, w) ==
  /\ Finite(v)
  /\ v.m = 0 \/ (v.m >= StepOf(w) /\ Finite(Rounded(v.s, v.m, 1, StepOf(w), Nearest)))
NarrowNearest(v, w) == Rounded(v.s, v.m, 1, StepOf(w), Nearest)
\* x86p_x87_double_control_applies, x86p_ext80_double_arith.
DoubleControl(control) == control.rc = Nearest /\ control.pc # "Single"
DoubleResult(op, x, y) == Compute(op, NarrowNearest(x, 8), NarrowNearest(y, 8), StepOf(8), Nearest)
DoubleArith(control, op, x, y) ==
  DoubleControl(control) /\ Narrows(x, 8) /\ Narrows(y, 8) /\ Finite(DoubleResult(op, x, y))
\* x86p_x87_reg_to_f32_bits, _f64_bits: rounded as the control word says.
NarrowRound(control, v, w) == IF Finite(v) THEN Rounded(v.s, v.m, 1, StepOf(w), control.rc) ELSE v

DividesByZero(op, x, y) == op = "Div" /\ IsZero(y) /\ ~IsZero(x) /\ ~IsNan(x)
\* x86p_x87_arith_raw: the operation census first, then ZE, then the result over the destination.
Arith(f, op, dst, src, reverse) ==
  LET a == Read(f, dst)
      x == IF reverse THEN src ELSE a
      y == IF reverse THEN a ELSE src
      noted == IF f.census < 0 THEN f ELSE [f EXCEPT !.census = @ + 1]
      zero == DividesByZero(op, x, y)
  IN  CASE ~Occupied(f, dst) -> [f EXCEPT !.status = @ \cup {"IE", "SF"}]
        [] Occupied(f, dst) /\ f.double /\ ~zero /\ DoubleArith(f.control, op, x, y) -> WriteSt(noted, dst, DoubleResult(op, x, y))
        [] OTHER ->
             LET g == [noted EXCEPT !.status = @ \cup (IF zero THEN {"ZE"} ELSE {}) \cup Raised(f, op, x, y)]
             IN  WriteSt(g, dst, Compute(op, x, y, PrecisionStep(f.control), f.control.rc))

\* x86p_x87_compare: against a value; the condition codes, and IE for a NaN.
Order(x, y) == CASE IsNan(x) \/ IsNan(y) -> C0123 \ {"C1"} [] Num(x) < Num(y) -> {"C0"} [] Num(x) = Num(y) -> {"C3"} [] OTHER -> {}
Compare(f, other) ==
  IF ~Occupied(f, 0) THEN [f EXCEPT !.status = @ \cup {"IE", "SF"}]
  ELSE LET unordered == IsNan(Read(f, 0)) \/ IsNan(other)
       IN  [f EXCEPT !.status = (@ \ C0123) \cup Order(Read(f, 0), other) \cup (IF unordered THEN {"IE"} ELSE {})]

-----------------------------------------------------------------------------
(* x87_register.c.                                                         *)

CompareRegister(f, i, pops) == IF Occupied(f, i) THEN Pops(Compare(f, Read(f, i)), pops) ELSE f
Exchange(f, i) ==
  IF Occupied(f, 0) /\ Occupied(f, i) THEN WriteSt(WriteSt(f, 0, Read(f, i)), i, Read(f, 0)) ELSE f
Signed(v, absolute) == V(IF absolute THEN FALSE ELSE ~v.s, v.m)
Sign(f, absolute) == IF Occupied(f, 0) THEN WriteSt(f, 0, Signed(Read(f, 0), absolute)) ELSE f
Test(f) == IF Occupied(f, 0) THEN [f EXCEPT !.status = (@ \ C0123) \cup Order(Read(f, 0), V(FALSE, 0))] ELSE f
ClassOf(v) == CASE IsNan(v) -> {"C0"} [] v.m = Inf -> {"C0", "C2"} [] IsZero(v) -> {"C3"} [] OTHER -> {"C2"}
Examine(f) ==
  [f EXCEPT !.status = (@ \ C0123) \cup
     (IF Occupied(f, 0) THEN ClassOf(Read(f, 0)) \cup (IF Read(f, 0).s THEN {"C1"} ELSE {}) ELSE {"C0", "C3"})]
FlagOrder(x, y) == CASE IsNan(x) \/ IsNan(y) -> {"ZF", "PF", "CF"} [] Num(x) < Num(y) -> {"CF"} [] Num(x) = Num(y) -> {"ZF"} [] OTHER -> {}
CompareFlagsPop(c, i, pops) ==
  IF ~Occupied(c.f, 0) \/ ~Occupied(c.f, i) THEN c
  ELSE [c EXCEPT !.flags = FlagOrder(Read(c.f, 0), Read(c.f, i)), !.f = Pops([@ EXCEPT !.status = @ \ {"C1"}], pops)]
Free(f, i) == [f EXCEPT !.full = @ \ {Phys(f, i)}]

ConstantMag(x) == CASE x = "ConstZero" -> 0 [] x = "ConstOne" -> OneMag [] OTHER -> 25
PushConstant(f, x) == PushValue(f, V(FALSE, ConstantMag(x)))

-----------------------------------------------------------------------------
(* Functions.  What a function computes is the host's mathematics: two     *)
(* stand-ins that round like the real ones.                                *)

Root(m) == CHOOSE r \in 0 .. m * OneMag : r * r <= m * OneMag /\ (r + 1) * (r + 1) > m * OneMag
SqrtFraction(v) ==     \* twice the root, so that an inexact one is halfway
  LET r == Root(v.m) IN IF r * r = v.m * OneMag THEN 2 * r ELSE 2 * r + 1
FnFraction(fn, a, b) == CASE fn = "Sqrt" -> SqrtFraction(a) [] fn = "Rndint" -> 2 * a.m [] OTHER -> a.m + b.m
FnStep(fn, step) == IF fn = "Rndint" THEN OneMag ELSE step
FnDefined(fn, a, b) == Finite(a) /\ Finite(b) /\ ~(fn = "Sqrt" /\ a.s /\ ~IsZero(a))
FnValue(fn, a, b, step, rc) ==
  IF FnDefined(fn, a, b) THEN Rounded(a.s, FnFraction(fn, a, b), 2, FnStep(fn, step), rc) ELSE Indefinite
FnFlags(fn, a, b, step, rc) ==
  IF FnDefined(fn, a, b) /\ RoundedUp(a.s, FnFraction(fn, a, b), 2, FnStep(fn, step), rc) THEN {"C1"} ELSE {}

TwoOperand(fn) == fn \in {"Patan", "Yl2x", "Scale", "Prem"}
Drops(fn) == fn \in {"Patan", "Yl2x"}
Pushes(fn) == fn \in {"SinCos", "Ptan"}
Written(fn) == IF fn = "Sqrt" THEN {"C1"} ELSE C0123
Second(f, fn) == IF TwoOperand(fn) THEN Read(f, 1) ELSE V(FALSE, 0)
\* x86p_x87_double_fn: only what narrows, and nothing that would overflow the stack.
DoubleOperand(f, i) == Occupied(f, i) /\ Narrows(Read(f, i), 8)
DoubleFnValue(f, fn) ==
  FnValue(fn, NarrowNearest(Read(f, 0), 8), IF fn = "Patan" THEN NarrowNearest(Read(f, 1), 8) ELSE V(FALSE, 0), StepOf(8), Nearest)
DoubleFn(f, fn) ==
  /\ f.double /\ DoubleControl(f.control) /\ DoubleOperand(f, 0)
  /\ fn \in {"Sqrt", "SinCos", "Ptan", "Patan"}
  /\ Pushes(fn) => Phys(f, Regs - 1) \notin f.full
  /\ fn = "Patan" => DoubleOperand(f, 1)
  /\ Finite(DoubleFnValue(f, fn))
\* The stack effect both ways share: results replace ST0, after a pop or before a push.
FnResult(f, fn, r0, r1) ==
  CASE Drops(fn) -> WriteSt(PopValue(f), 0, r0)
    [] Pushes(fn) -> PushValue(WriteSt(f, 0, r0), r1)
    [] OTHER -> WriteSt(f, 0, r0)
ApplyFn(f, fn) ==
  LET a == Read(f, 0)
      b == Second(f, fn)
      step == PrecisionStep(f.control)
      sw == FnFlags(fn, a, b, step, f.control.rc)
      invalid == ~f.host /\ ~FnDefined(fn, a, b)
      g == [f EXCEPT !.status = (@ \ Written(fn)) \cup sw \cup (IF invalid THEN {"IE"} ELSE {})]
  IN  CASE DoubleFn(f, fn) -> FnResult([f EXCEPT !.status = @ \ Written(fn)], fn, DoubleFnValue(f, fn), V(FALSE, OneMag))
        [] ~DoubleFn(f, fn) /\ (~Occupied(f, 0) \/ (TwoOperand(fn) /\ ~Occupied(f, 1))) -> f
        [] OTHER -> FnResult(g, fn, FnValue(fn, a, b, step, f.control.rc), V(FALSE, OneMag))

-----------------------------------------------------------------------------
(* x87_memory.c, x87_integer.c: memory operands.  A cell is named after    *)
(* what it holds; c.mapped are the cells an access reaches.                *)

St(i) == [k |-> "St", i |-> i]
Cell(a, w) == [k |-> "Mem", a |-> a, w |-> w]
Ax == [k |-> "Ax"]
NoOperand == [k |-> "None"]
IsCell(o) == o.k = "Mem"
CanAccess(c, o) == o.a \in c.mapped

IntMin(w) == IF w = 2 THEN -2 ELSE -4
IntMax(w) == -1 - IntMin(w)
FromInt(n) == V(n < 0, OneMag * (IF n < 0 THEN 0 - n ELSE n))
\* x86p_ext80_to_int, x86p_x87_reg_to_integer_bits: IE and the smallest integer out of range.
IntegerOf(control, v) ==
  LET n == v.m \div OneMag + (IF RoundsUp(control.rc, v.s, v.m, OneMag) THEN 1 ELSE 0)
  IN  IF v.s THEN 0 - n ELSE n
FitsInt(control, v, w) == Finite(v) /\ IntegerOf(control, v) \in IntMin(w) .. IntMax(w)
\* The value of an operand, the datum a store leaves and the status it leaves behind.
OperandValue(c, in) == IF in.int THEN FromInt(c.mem[in.o0.a]) ELSE c.mem[in.o0.a]
Datum(f, in, v) ==
  IF ~in.int THEN NarrowRound(f.control, v, in.o0.w)
  ELSE IF FitsInt(f.control, v, in.o0.w) THEN IntegerOf(f.control, v) ELSE IntMin(in.o0.w)
Converted(f, in, v) ==
  IF in.int /\ ~FitsInt(f.control, v, in.o0.w) THEN [f EXCEPT !.status = @ \cup {"IE"}] ELSE f

\* x87_state.c: the tags are derived from the values, and come back as Valid or Empty.
PackTags(f) ==
  [p \in 0 .. Regs - 1 |->
     CASE p \notin f.full -> "Empty"
       [] p \in f.full /\ IsZero(f.reg[p]) -> "Zero"
       [] p \in f.full /\ ~Finite(f.reg[p]) -> "Special"
       [] OTHER -> "Valid"]
UnpackTags(w) == {p \in DOMAIN w : w[p] # "Empty"}
SavedEnv(f) == [control |-> f.control, word |-> StatusWord(f), tags |-> PackTags(f), reg |-> f.reg]
SaveState(c, o) == [c EXCEPT !.mem[o.a] = SavedEnv(c.f), !.f = Reset(@)]
RestoreState(c, o) ==
  LET e == c.mem[o.a]
  IN  [c EXCEPT !.f = [@ EXCEPT !.control = e.control, !.status = e.word.bits, !.top = e.word.top,
                                !.full = UnpackTags(e.tags), !.reg = e.reg]]

-----------------------------------------------------------------------------
(* x87_exec.c.                                                             *)

Stopped(c, status) == [c EXCEPT !.st = status]
Fault(c) == Stopped(c, "MemoryFault")
Fpu(c, f) == [c EXCEPT !.f = f]

\* arith_operands.
ArithDst(in) == IF ~IsCell(in.o0) /\ in.o1.k = "St" THEN in.o0.i ELSE 0
ArithSrc(in) == IF in.o1.k = "St" THEN in.o1.i ELSE in.o0.i
IndexOf(in) == CASE in.o1.k = "St" -> in.o1.i [] in.o1.k # "St" /\ in.o0.k = "St" -> in.o0.i [] OTHER -> 1

ExecLoad(c, in) ==
  CASE IsCell(in.o0) -> IF CanAccess(c, in.o0) THEN Fpu(c, PushValue(c.f, OperandValue(c, in))) ELSE Fault(c)
    [] OTHER -> IF Occupied(c.f, in.o0.i) THEN Fpu(c, PushValue(c.f, Read(c.f, in.o0.i))) ELSE c
\* An empty ST0 stores nothing; the value is converted before the memory is reached.
ExecStore(c, in) ==
  LET v == Read(c.f, 0)
      d == Fpu(c, Converted(c.f, in, v))
  IN  CASE ~Occupied(c.f, 0) -> c
        [] Occupied(c.f, 0) /\ IsCell(in.o0) ->
             IF CanAccess(c, in.o0)
             THEN Fpu([d EXCEPT !.mem[in.o0.a] = Datum(c.f, in, v)], Pops(d.f, in.pops))
             ELSE Fault(d)
        [] OTHER -> Fpu(c, Pops(WriteSt(c.f, in.o0.i, v), in.pops))
ExecArith(c, in) ==
  CASE IsCell(in.o0) ->
         IF CanAccess(c, in.o0) THEN Fpu(c, Pops(Arith(c.f, in.op, 0, OperandValue(c, in), in.rev), in.pops)) ELSE Fault(c)
    [] OTHER -> IF ~Occupied(c.f, ArithSrc(in)) THEN c
                ELSE Fpu(c, Pops(Arith(c.f, in.op, ArithDst(in), Read(c.f, ArithSrc(in)), in.rev), in.pops))
ExecCompare(c, in) ==
  CASE IsCell(in.o0) ->
         IF CanAccess(c, in.o0) THEN Fpu(c, Pops(Compare(c.f, OperandValue(c, in)), in.pops)) ELSE Fault(c)
    [] OTHER -> Fpu(c, CompareRegister(c.f, IndexOf(in), in.pops))
StoreWord(c, in, word) == IF CanAccess(c, in.o0) THEN [c EXCEPT !.mem[in.o0.a] = word] ELSE Fault(c)
ExecControl(c, in) ==
  CASE in.x = "StoreStatus" -> IF IsCell(in.o0) THEN StoreWord(c, in, StatusWord(c.f)) ELSE [c EXCEPT !.ax = StatusWord(c.f)]
    [] in.x = "StoreControl" -> StoreWord(c, in, c.f.control)
    [] in.x = "LoadControl" -> IF CanAccess(c, in.o0) THEN Fpu(c, [c.f EXCEPT !.control = c.mem[in.o0.a]]) ELSE Fault(c)
CondHolds(c, in) == in.cond \in c.flags
ExecCmov(c, in) ==
  IF CondHolds(c, in) /\ Occupied(c.f, in.o1.i) THEN Fpu(c, WriteSt(c.f, 0, Read(c.f, in.o1.i))) ELSE c

Constants == {"ConstZero", "ConstOne", "ConstPi"}
\* execute: one x87 instruction.
ExecX87(c, in) ==
  CASE in.x = "Load" -> ExecLoad(c, in)
    [] in.x = "Store" -> ExecStore(c, in)
    [] in.x = "Arith" -> ExecArith(c, in)
    [] in.x = "Compare" -> ExecCompare(c, in)
    [] in.x = "Exchange" -> Fpu(c, Exchange(c.f, IndexOf(in)))
    [] in.x \in {"ChangeSign", "Abs"} -> Fpu(c, Sign(c.f, in.x = "Abs"))
    [] in.x \in Constants -> Fpu(c, PushConstant(c.f, in.x))
    [] in.x \in {"StoreStatus", "StoreControl", "LoadControl"} -> ExecControl(c, in)
    [] in.x = "Free" -> Fpu(c, Free(c.f, in.o0.i))
    [] in.x = "Init" -> Fpu(c, Reset(c.f))
    [] in.x = "Cmov" -> ExecCmov(c, in)
    [] in.x = "SaveState" -> IF CanAccess(c, in.o0) THEN SaveState(c, in.o0) ELSE Fault(c)
    [] in.x = "RestoreState" -> IF CanAccess(c, in.o0) THEN RestoreState(c, in.o0) ELSE Fault(c)
    [] in.x = "Wait" -> c
    [] in.x = "ClearExc" -> Fpu(c, ClearExceptions(c.f))
    [] in.x = "Examine" -> Fpu(c, Examine(c.f))
    [] in.x = "Test" -> Fpu(c, Test(c.f))
    [] in.x = "CompareInt" -> CompareFlagsPop(c, IndexOf(in), in.pops)
    [] in.x = "Fn" -> IF in.fn = "Xtract" THEN Stopped(c, "Unsupported") ELSE Fpu(c, ApplyFn(c.f, in.fn))

\* The instructions between x87 ones: integer work, integer memory access, a call out of the block
\* and the vector instructions that share the registers.
ExecOther(c, in) ==
  CASE in.x = "Touch" -> IF CanAccess(c, in.o0) THEN c ELSE Fault(c)
    [] in.x = "Mmx" -> Fpu(c, MmxWrite(c.f, in.o0.i))
    [] in.x = "Emms" -> Fpu(c, Emms(c.f))
    [] in.x \in {"Plain", "Helper"} -> c
IsX87(in) == in.x \notin {"Touch", "Mmx", "Emms", "Plain", "Helper"}
X87Step(c, in) == IF IsX87(in) THEN ExecX87(c, in) ELSE ExecOther(c, in)
=============================================================================
