------------------------------- MODULE X87Arm64 -------------------------------
(***************************************************************************)
(* The ARM64 backend's x87 code (jit_arm64_x87.c, jit_arm64_x87_inline.c). *)
(* The register file is in memory.  A fast path tests everything before it *)
(* writes anything: a refusal calls the helper from an untouched state.    *)
(***************************************************************************)
EXTENDS X87Block

\* emit_narrow: the range the fast conversion to a double takes, smaller than the format's.
ArmLowest == 2 * StepOf(8)
ArmHighest == TopMag - StepOf(8)
ArmNarrows(v) == IsZero(v) \/ v.m \in ArmLowest .. ArmHighest
\* require_exact, require_canonical, and the result emit_widen can put back.
FitsDouble(v) == v.m % StepOf(8) = 0
Canonical(v) == Finite(v)
ArmWidens(v) == Finite(v)
\* operand_to_d1: zero, or a normal number.
OperandOrdinary(v) == Finite(v)

RequireDoubleMode(f) == f.double /\ f.census < 0 /\ DoubleControl(f.control)
NarrowSt(f, i) == Occupied(f, i) /\ ArmNarrows(Read(f, i))
NarrowExact(f, i) == NarrowSt(f, i) /\ FitsDouble(Read(f, i))
FloatMemory(in) == IsCell(in.o0) /\ ~in.int
\* emit_x87_pops: no tag is asked, the callers have.
ArmPop(f) == [f EXCEPT !.full = @ \ {f.top}, !.top = (@ + 1) % Regs]
ArmPops(f, n) == CASE n = 0 -> f [] n = 1 -> ArmPop(f) [] n = 2 -> ArmPop(ArmPop(f))
Pushed(f, v) == LET p == Phys(f, Regs - 1) IN [f EXCEPT !.top = p, !.reg[p] = v, !.full = @ \cup {p}]
PushSlotEmpty(f) == ~Occupied(f, Regs - 1)
CompareStatus(f, x, y) == [f EXCEPT !.status = (@ \ C0123) \cup Order(x, y)]

\* emit_x87_inline_arith: doubles in, a double out; a result that is none is the helper's.
ArmArith(f, in, v) ==
  LET memory == IsCell(in.o0)
      src == IF memory THEN v ELSE Read(f, ArithSrc(in))
      a == Read(f, ArithDst(in))
      d == DoubleResult(in.op, IF in.rev THEN src ELSE a, IF in.rev THEN a ELSE src)
      ok == /\ memory => FloatMemory(in) /\ OperandOrdinary(v)
            /\ RequireDoubleMode(f)
            /\ ~memory => NarrowSt(f, ArithSrc(in))
            /\ NarrowSt(f, ArithDst(in))
  IN  CASE ok /\ ArmWidens(d) -> ArmPops([f EXCEPT !.reg[Phys(f, ArithDst(in))] = d], in.pops)
        [] OTHER -> IF memory THEN HelperArithMem(f, in, v) ELSE HelperArithReg(f, in)
ArmLoadMem(f, in, v) ==
  IF FloatMemory(in) /\ PushSlotEmpty(f) /\ ArmWidens(v) THEN Pushed(f, v) ELSE HelperLoadBits(f, v, 0)
ArmCompareMem(f, in, v) ==
  IF FloatMemory(in) /\ OperandOrdinary(v) /\ NarrowExact(f, 0)
  THEN ArmPops(CompareStatus(f, Read(f, 0), v), in.pops)
  ELSE HelperCompareMem(f, v, in.pops)
\* emit_x87_inline_copy: FLD ST(i), FST ST(i).
ArmCopy(f, in) ==
  LET i == in.o0.i
  IN  CASE in.x = "Load" -> IF Occupied(f, i) /\ PushSlotEmpty(f) THEN Pushed(f, Read(f, i)) ELSE HelperCopy(f, i, 0, TRUE, 0)
        [] in.x = "Store" -> IF Occupied(f, 0) THEN ArmPops(WriteSt(f, i, Read(f, 0)), in.pops)
                             ELSE HelperCopy(f, 0, i, FALSE, in.pops)
ArmRegister(f, in) ==
  LET i == IF in.o0.k = "St" THEN in.o0.i ELSE 1
      a == Read(f, 0)
      b == Read(f, i)
  IN  CASE in.x = "Compare" /\ NarrowExact(f, i) /\ NarrowExact(f, 0) -> ArmPops(CompareStatus(f, a, b), in.pops)
        [] in.x = "Exchange" /\ Occupied(f, i) /\ Canonical(b) /\ Occupied(f, 0) /\ Canonical(a) ->
             [f EXCEPT !.reg = [@ EXCEPT ![Phys(f, 0)] = b, ![Phys(f, i)] = a]]
        [] in.x \in {"ChangeSign", "Abs"} /\ Occupied(f, 0) /\ Canonical(a) -> [f EXCEPT !.reg[f.top] = Signed(a, in.x = "Abs")]
        [] OTHER -> HelperRegister(f, in)

\* emit_x87_inline_store: rounded twice for a single, so a double halfway between two is refused.
RoundsTwice(f, in) == FloatMemory(in) /\ f.control.rc = Nearest /\ NarrowSt(f, 0)
FastStore(f, in) ==
  LET d == NarrowNearest(Read(f, 0), 8)
      tie == d.m % StepOf(4) = StepOf(8)
  IN  FloatMemory(in) /\ f.control.rc = Nearest /\ NarrowSt(f, 0) /\ (in.o0.w = 4 => ~tie)
FastDatum(f, in) == NarrowNearest(NarrowNearest(Read(f, 0), 8), in.o0.w)
\* emit_x87_store_mem: converted, then the access that may fault, then the pops.
ArmStoreMem(c, in) ==
  LET fast == FastStore(c.f, in)
      v == Read(c.f, 0)
      d == IF fast THEN c ELSE Fpu(c, Converted(c.f, in, v))
      datum == IF fast THEN FastDatum(c.f, in) ELSE Datum(c.f, in, v)
  IN  CASE ~fast /\ ~Occupied(c.f, 0) -> c
        [] OTHER -> IF CanAccess(c, in.o0) THEN Fpu([d EXCEPT !.mem[in.o0.a] = datum], ArmPops(d.f, in.pops)) ELSE Fault(d)

\* The forms that read memory load the bits, or fault, first.
ArmRead(c, in) ==
  LET v == OperandValue(c, in)
  IN  CASE ~CanAccess(c, in.o0) -> Fault(c)
        [] CanAccess(c, in.o0) /\ in.x = "Load" -> Fpu(c, ArmLoadMem(c.f, in, v))
        [] CanAccess(c, in.o0) /\ in.x = "Arith" -> Fpu(c, ArmArith(c.f, in, v))
        [] CanAccess(c, in.o0) /\ in.x = "Compare" -> Fpu(c, ArmCompareMem(c.f, in, v))
ArmControl(c, in) == IF ControlEmittable(in) /\ ~CanAccess(c, in.o0) THEN Fault(c) ELSE ExecControl(c, in)
ArmX87(c, in) ==
  CASE IsCell(in.o0) /\ in.x \in {"Load", "Arith", "Compare"} -> ArmRead(c, in)
    [] ~IsCell(in.o0) /\ in.x = "Arith" -> Fpu(c, ArmArith(c.f, in, V(FALSE, 0)))
    [] ~IsCell(in.o0) /\ in.x \in {"Load", "Store"} -> Fpu(c, ArmCopy(c.f, in))
    [] RegisterEmittable(in) -> Fpu(c, ArmRegister(c.f, in))
    [] FnEmittable(in) -> Fpu(c, ApplyFn(c.f, in.fn))
    [] ControlEmittable(in) \/ StatusAxEmittable(in) -> ArmControl(c, in)
    [] StoreMemEmittable(in) -> ArmStoreMem(c, in)
    [] ConstantEmittable(in) -> Fpu(c, PushConstant(c.f, in.x))
    [] ClearEmittable(in) -> Fpu(c, ClearExceptions(c.f))
    [] in.x = "Wait" -> c

ArmEmits(in) == IsX87(in) => X87Emittable(in) /\ ~CompareFlagsEmittable(in)
ArmEnter(c) == [c |-> c, in |-> TRUE, n |-> 0, exit |-> "None"]
ArmStep(m, prog) ==
  LET in == prog[m.n + 1]
  IN  CASE ~m.in -> m
        [] m.in /\ ~ArmEmits(in) -> [Left(m, m.c, "Unsupported") EXCEPT !.n = m.n]
        [] OTHER -> Continued(m, IF IsX87(in) THEN ArmX87(m.c, in) ELSE ExecOther(m.c, in), prog)
=============================================================================
