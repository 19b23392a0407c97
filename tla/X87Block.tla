------------------------------- MODULE X87Block -------------------------------
(***************************************************************************)
(* What the three backends share for x87 instructions: the shapes they     *)
(* accept (jit_x87_predicates.c) and the helpers the ARM64 and WebAssembly *)
(* code calls when its own fast path refuses (jit_x87_helpers.c).          *)
(***************************************************************************)
EXTENDS X87

FloatCell(o) == IsCell(o) /\ o.w \in {4, 8}
IntCell(o) == IsCell(o) /\ o.w \in {2, 4}
MemorySource(in) == IF in.int THEN IntCell(in.o0) ELSE FloatCell(in.o0)
RegisterEmittable(in) ==
  \/ in.x \in {"Compare", "Exchange"} /\ ~IsCell(in.o0)
  \/ in.x \in {"ChangeSign", "Abs", "Test", "Examine"}
FnEmittable(in) == in.x = "Fn" /\ in.fn # "Xtract"
ControlEmittable(in) == in.x \in {"LoadControl", "StoreControl", "StoreStatus"} /\ IsCell(in.o0)
LoadEmittable(in) == in.x = "Load" /\ (in.o0.k = "St" \/ MemorySource(in))
ArithEmittable(in) == in.x = "Arith" /\ (in.o0.k = "St" \/ MemorySource(in))
CompareMemEmittable(in) == in.x = "Compare" /\ MemorySource(in)
StoreRegEmittable(in) == in.x = "Store" /\ in.o0.k = "St"
StoreMemEmittable(in) == in.x = "Store" /\ MemorySource(in)
ConstantEmittable(in) == in.x \in Constants
StatusAxEmittable(in) == in.x = "StoreStatus" /\ in.o0.k = "Ax"
ClearEmittable(in) == in.x = "ClearExc"
CompareFlagsEmittable(in) == in.x = "CompareInt"
X87Emittable(in) ==
  \/ RegisterEmittable(in) \/ FnEmittable(in) \/ ControlEmittable(in) \/ in.x = "Wait" \/ LoadEmittable(in)
  \/ ArithEmittable(in) \/ StoreRegEmittable(in) \/ StoreMemEmittable(in) \/ CompareMemEmittable(in)
  \/ ConstantEmittable(in) \/ StatusAxEmittable(in) \/ ClearEmittable(in) \/ CompareFlagsEmittable(in)

-----------------------------------------------------------------------------
(* jit_x87_helpers.c, over operands that were loaded before the call.      *)

HelperLoadBits(f, v, pops) == Pops(PushValue(f, v), pops)
HelperCopy(f, src, dst, push, pops) ==
  IF ~Occupied(f, src) THEN f
  ELSE Pops(IF push THEN PushValue(f, Read(f, src)) ELSE WriteSt(f, dst, Read(f, src)), pops)

\* x86p_x87_arith_ext80_fast: what the rules for ordinary operands answer before the general path,
\* and the census they note first, answered or not.
Ordinary(control, op, x, y) ==
  /\ control = InitControl
  /\ Finite(x) /\ Finite(y) /\ op # "Div"
  /\ Finite(Compute(op, x, y, 1, Nearest))
  /\ op \in {"Add", "Sub"} => IsZero(x) \/ IsZero(y) \/ Exact(op, x, y).num # 0
FastNoted(f) == IF f.census < 0 THEN f ELSE [f EXCEPT !.census = @ + 1]
FastAnswers(f, op, x, y) == (f.double /\ DoubleArith(f.control, op, x, y)) \/ Ordinary(f.control, op, x, y)
FastArith(f, op, dst, x, y) ==
  IF f.double /\ DoubleArith(f.control, op, x, y) THEN WriteSt(f, dst, DoubleResult(op, x, y))
  ELSE WriteSt([f EXCEPT !.status = @ \cup Raised(f, op, x, y)], dst, Compute(op, x, y, 1, Nearest))
\* x86p_jit_x87_arith_mem_bits, arith_reg: the fast rules where the operand has a wide form.
HelperArith(f, op, dst, src, rev, pops, wide) ==
  LET a == Read(f, dst)
      x == IF rev THEN src ELSE a
      y == IF rev THEN a ELSE src
      noted == FastNoted(f)
      asked == wide /\ Occupied(f, dst)
  IN  Pops(IF asked /\ FastAnswers(f, op, x, y) THEN FastArith(noted, op, dst, x, y)
           ELSE Arith(IF asked THEN noted ELSE f, op, dst, src, rev), pops)
HelperArithReg(f, in) ==
  IF ~Occupied(f, ArithSrc(in)) THEN f
  ELSE HelperArith(f, in.op, ArithDst(in), Read(f, ArithSrc(in)), in.rev, in.pops, TRUE)
HelperArithMem(f, in, v) == HelperArith(f, in.op, 0, v, in.rev, in.pops, ~in.int)
HelperCompareMem(f, v, pops) == Pops(Compare(f, v), pops)
\* The calls for the other register forms (emit_x87_register).
HelperRegister(f, in) ==
  CASE in.x = "Compare" -> CompareRegister(f, IndexOf(in), in.pops)
    [] in.x = "Exchange" -> Exchange(f, IndexOf(in))
    [] in.x = "Test" -> Test(f)
    [] in.x = "Examine" -> Examine(f)
    [] in.x \in {"ChangeSign", "Abs"} -> Sign(f, in.x = "Abs")

-----------------------------------------------------------------------------
\* A block runs on the guest state c until it is left; n instructions have retired.
Left(m, c, exit) == [m EXCEPT !.c = c, !.in = FALSE, !.exit = exit, !.n = @ + 1]
Retired(m) == [m EXCEPT !.n = @ + 1]
\* The state d an instruction left, in a block whose registers are all in memory.
Continued(m, d, prog) ==
  CASE d.st # "Ok" -> Left(m, d, "MemoryFault")
    [] d.st = "Ok" /\ m.n + 1 = Len(prog) -> Left(m, d, "BlockEnd")
    [] OTHER -> Retired([m EXCEPT !.c = d])
=============================================================================
