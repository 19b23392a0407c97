------------------------------- MODULE Interp -------------------------------
(***************************************************************************)
(* The test interpreter (exec.c): one decoded instruction on a CPU state.  *)
(* An instruction is a record: its operation, the sub-operation x (an ALU, *)
(* bit or string operation), a condition cc, its operands o0, o1, o2, how  *)
(* many it has (n), its repeat prefix and its address width.  Every        *)
(* instruction here is one byte long.                                      *)
(***************************************************************************)
EXTENDS Cpu

\* read_operand, write_operand.
Readable(c, o) == o.k = "Mem" => Accessible(Address(c, o), o.w)
Value(c, o) ==
  CASE o.k = "Reg" -> ReadReg(c, o.r, o.w)
    [] o.k = "Imm" -> o.v
    [] o.k = "Mem" -> Load(c, Address(c, o), o.w)
Write(c, o, v) ==
  CASE o.k = "Reg" -> WriteReg(c, o.r, o.w, v)
    [] o.k = "Mem" -> IF Readable(c, o) THEN Store(c, Address(c, o), o.w, v) ELSE Fault(c)
    [] OTHER -> Stopped(c, "Unsupported")

WithFlags(c, f) == [c EXCEPT !.flags = f]
Goto(c, target) == [c EXCEPT !.next = target]

\* The ALU forms: the flags are recorded, then the result is written.
ExecAlu(c, in) ==
  LET kept(t) == IF in.x \in {"Cmp", "Test"} THEN WithFlags(c, t.f) ELSE Write(WithFlags(c, t.f), in.o0, t.r)
  IN  IF ~Readable(c, in.o0) \/ ~Readable(c, in.o1) THEN Fault(c)
      ELSE kept(Alu(in.x, Value(c, in.o0), Value(c, in.o1), in.o0.w, c.flags))
ExecUnary(c, in) ==
  LET t == AluUnary(in.x, Value(c, in.o0), in.o0.w, c.flags)
  IN  IF ~Readable(c, in.o0) THEN Fault(c) ELSE Write(WithFlags(c, t.f), in.o0, t.r)

\* MOV, MOVZX, MOVSX, LEA, PUSH, POP and XCHG.  A POP to memory addresses it with the new ESP, and
\* keeps the new ESP when that store faults.
ExecMove(c, in) ==
  LET v == Value(c, in.o1)
      p == Value(c, in.o0)
  IN  CASE in.op \in {"Mov", "Movzx"} -> IF Readable(c, in.o1) THEN Write(c, in.o0, v) ELSE Fault(c)
        [] in.op = "Movsx" -> IF Readable(c, in.o1) THEN Write(c, in.o0, SignExtend(v, in.o1.w, 4)) ELSE Fault(c)
        [] in.op = "Lea" -> Write(c, in.o0, Address(c, in.o1))
        [] in.op = "Push" -> IF Readable(c, in.o0) THEN Push32(c, SignExtend(p, in.o0.w, 4)) ELSE Fault(c)
        [] in.op = "Pop" -> IF CanPop(c) THEN Write(AfterPop(c), in.o0, Popped(c)) ELSE Fault(c)
        [] in.op = "Xchg" -> LET d == Write(c, in.o0, v)
                             IN  IF ~Readable(c, in.o0) \/ ~Readable(c, in.o1) THEN Fault(c)
                                 ELSE IF d.st # "Ok" THEN d ELSE Write(d, in.o1, p)

\* XADD, CMPXCHG and CMPXCHG8B: the flags last, and only when nothing faulted; a register
\* destination is written after the source register it may be.
ExecExchange(c, in) ==
  LET w == in.o0.w
      old == Value(c, in.o0)
      added(sum) ==
        WithFlags(IF in.o0.k = "Mem" THEN Write(Write(c, in.o0, sum.r), in.o1, old)
                  ELSE Write(Write(c, in.o1, old), in.o0, sum.r), sum.f)
      acc == ReadReg(c, Eax, w)
      swapped == Write(c, in.o0, IF acc = old THEN Value(c, in.o1) ELSE old)
      a == Address(c, in.o0)
  IN  IF in.op = "Cmpxchg8b" THEN IF Accessible(a, 8) THEN Cmpxchg8b(c, a) ELSE Fault(c)
      ELSE IF ~Readable(c, in.o0) THEN Fault(c)
      ELSE IF in.op = "Xadd" THEN added(Alu("Add", old, Value(c, in.o1), w, c.flags))
      ELSE WithFlags(IF acc = old THEN swapped ELSE WriteReg(swapped, Eax, w, old), Alu("Cmp", acc, old, w, c.flags).f)

\* BSF, BSR.
ExecScan(c, in) ==
  IF Readable(c, in.o1) THEN ScanInto(c, in.o0.r, Value(c, in.o1), in.op = "Bsr", in.o0.w) ELSE Fault(c)

\* Near transfers.  A CALL reads its target before it pushes.
ExecJump(c, in) ==
  IF in.op = "Jmp" THEN IF Readable(c, in.o0) THEN Goto(c, Value(c, in.o0)) ELSE Fault(c)
  ELSE IF Cond(in.cc, c.flags) THEN Goto(c, in.o0.v) ELSE c
ExecCall(c, in) ==
  LET release == IF in.n = 1 THEN in.o0.v ELSE 0
  IN  IF in.op = "Call" THEN IF Readable(c, in.o0) THEN Goto(Push32(c, c.next), Value(c, in.o0)) ELSE Fault(c)
      ELSE IF CanPop(c) THEN Goto([AfterPop(c) EXCEPT !.reg[Esp] = Trunc(@ + release, 4)], Popped(c)) ELSE Fault(c)
ExecLoop(c, in) ==
  IF in.op = "Jecxz" THEN IF c.reg[Ecx] = 0 THEN Goto(c, in.o0.v) ELSE c
  ELSE LET d == LoopCounted(c, in.aw) IN IF LoopTaken(c, in.op, in.aw) THEN Goto(d, in.o0.v) ELSE d

\* SETcc and CMOVcc; a CMOV reads its source whether or not it moves.
ExecCond(c, in) ==
  LET yes == Cond(in.cc, c.flags)
  IN  IF in.op = "Setcc" THEN Write(c, in.o0, IF yes THEN 1 ELSE 0)
      ELSE IF ~Readable(c, in.o1) THEN Fault(c)
      ELSE IF yes THEN Write(c, in.o0, Value(c, in.o1)) ELSE c

\* Far transfers, and IRETD.  What was pushed or popped before a fault stays so.
FarReadable(c, o) == o.k = "Mem" => Accessible(Address(c, o), 4) /\ Accessible(Address(c, o) + 4, 2)
FarTarget(c, o) ==
  IF o.k = "Mem" THEN <<Load(c, Address(c, o), 4), Load(c, Address(c, o) + 4, 2)>> ELSE <<o.v, o.selector>>
PopTwice(c) == IF ~CanPop(c) THEN Fault(c) ELSE IF ~CanPop(AfterPop(c)) THEN Fault(AfterPop(c)) ELSE AfterPop(AfterPop(c))
ExecFar(c, in) ==
  LET t == FarTarget(c, in.o0)
      first == Push32(c, c.cs)
      both == IF first.st = "Ok" THEN Push32(first, c.next) ELSE first
      d == PopTwice(c)
      to == Popped(c)
      cs == Trunc(Popped(AfterPop(c)), 2)
  IN  CASE in.op \in {"Callfar", "Jmpfar"} ->
             IF ~FarReadable(c, in.o0) THEN Fault(c)
             ELSE IF in.op = "Jmpfar" THEN Goto([c EXCEPT !.cs = t[2]], t[1])
             ELSE IF both.st = "Ok" THEN Goto([both EXCEPT !.cs = t[2]], t[1]) ELSE both
        [] in.op = "Retf" ->
             IF d.st # "Ok" THEN d
             ELSE Goto([d EXCEPT !.cs = cs, !.reg[Esp] = Trunc(@ + (IF in.n = 1 THEN in.o0.v ELSE 0), 4)], to)
ExecIretd(c) ==
  LET d == PopTwice(c)
      cs == Trunc(Popped(AfterPop(c)), 2)
  IN  IF d.st # "Ok" THEN d
      ELSE IF CanPop(d) THEN Goto(SetEflags([AfterPop(d) EXCEPT !.cs = cs], Popped(d)), Popped(c)) ELSE Fault(d)

\* LEAVE moves ESP before it can fault; CDQ, CWDE, BSWAP.
Swapped(v) == ByteOf(v, 3) + Power(ByteBits) * (ByteOf(v, 2) + Power(ByteBits) * (ByteOf(v, 1) + Power(ByteBits) * ByteOf(v, 0)))
ExecFrame(c, in) ==
  LET d == [c EXCEPT !.reg[Esp] = c.reg[Ebp]]
  IN  CASE in.op = "Leave" -> IF CanPop(d) THEN [AfterPop(d) EXCEPT !.reg[Ebp] = Popped(d)] ELSE Fault(d)
        [] in.op = "Cdq" -> [c EXCEPT !.reg[Edx] = IF Msb(c.reg[Eax], 4) = 1 THEN Power(Bits(4)) - 1 ELSE 0]
        [] in.op = "Cwde" -> [c EXCEPT !.reg[Eax] = SignExtend(@, 2, 4)]
        [] in.op = "Bswap" -> [c EXCEPT !.reg[in.o0.r] = Swapped(@)]

\* mul_result_store, div_operands and div_result_store: a byte form uses AL and AH.
PairStore(c, w, lo, hi) ==
  IF w = 1 THEN WriteReg(WriteReg(c, 0, 1, lo), 4, 1, hi) ELSE WriteReg(WriteReg(c, Eax, w, lo), Edx, w, hi)
ExecMul(c, in) ==
  LET w == in.o0.w
      f == IF in.op = "Mul" THEN Mul(ReadReg(c, Eax, w), Value(c, in.o0), w, c.flags)
           ELSE Imul(ReadReg(c, Eax, w), Value(c, in.o0), w, c.flags)
      g == IF in.n = 3 THEN Imul(Value(c, in.o1), Value(c, in.o2), w, c.flags)
           ELSE Imul(Value(c, in.o0), Value(c, in.o1), w, c.flags)
  IN  IF ~Readable(c, in.o0) \/ (in.n > 1 /\ ~Readable(c, in.o1)) THEN Fault(c)
      ELSE IF in.n = 1 THEN PairStore(WithFlags(c, f.f), w, f.lo, f.hi)
      ELSE Write(WithFlags(c, g.f), in.o0, g.lo)
ExecDiv(c, in) ==
  LET w == in.o0.w
      hi == IF w = 1 THEN ReadReg(c, 4, 1) ELSE ReadReg(c, Edx, w)
      t == IF in.op = "Div" THEN Div(hi, ReadReg(c, Eax, w), Value(c, in.o0), w)
           ELSE Idiv(hi, ReadReg(c, Eax, w), Value(c, in.o0), w)
  IN  IF ~Readable(c, in.o0) THEN Fault(c)
      ELSE IF ~t.ok THEN Stopped(c, "DivideError") ELSE PairStore(c, w, t.q, t.r)

\* A bit-string operation: a register offset into memory is signed and selects the unit addressed;
\* otherwise it is taken modulo the width.
BitUnit(c, in) ==
  LET w == in.o0.w
      off == Signed(Value(c, in.o1), 4)
  IN  IF in.o0.k = "Mem" /\ in.o1.k = "Reg" THEN [in.o0 EXCEPT !.disp = @ + (off \div Bits(w)) * w] ELSE in.o0
ExecBit(c, in) ==
  LET o == BitUnit(c, in)
      t == BitApply(in.x, Value(c, o), Value(c, in.o1) % Bits(o.w), Eflags(c.flags))
  IN  IF ~Readable(c, o) THEN Fault(c)
      ELSE Explicitly(IF in.x = "Bt" THEN c ELSE Write(c, o, t.r), t.e)

\* SHLD, SHRD: an undefined count is refused, a zero one writes nothing.
ExecDoubleShift(c, in) ==
  LET t == DoubleShift(in.op = "Shld", Value(c, in.o0), Value(c, in.o1), Value(c, in.o2), in.o0.w, Eflags(c.flags))
  IN  IF ~Readable(c, in.o0) THEN Fault(c)
      ELSE IF t.wrote THEN Explicitly(Write(c, in.o0, t.r), t.e)
      ELSE IF t.defined THEN c ELSE Stopped(c, "Unsupported")

\* PUSHFD, POPFD; CLD, STD; SAHF, LAHF, STC, CLC, CMC, SALC.
ExecFlagWord(c, in) ==
  IF in.op = "Pushfd" THEN Push32(c, EflagsWord(c))
  ELSE IF CanPop(c) THEN SetEflags(AfterPop(c), Popped(c)) ELSE Fault(c)
ExecDirection(c, in) == [c EXCEPT !.df = IF in.op = "Std" THEN 1 ELSE 0]
ExecFlags(c, in) ==
  CASE in.op = "Sahf" -> Sahf(c)
    [] in.op = "Lahf" -> Lahf(c)
    [] in.op \in {"Stc", "Clc", "Cmc"} -> CarrySet(c, in.op)
    [] in.op = "Salc" -> WriteReg(c, 0, 1, IF CF(c.flags) THEN Power(ByteBits) - 1 ELSE 0)

\* INT, INTO, the privileged instructions and BOUND.
ExecTrap(c, in) ==
  LET second == [in.o1 EXCEPT !.disp = @ + in.o0.w]
      i == Signed(Value(c, in.o0), 4)
  IN  CASE in.op = "Int" -> Stopped(c, "Interrupt")
        [] in.op = "Into" -> IF OF(c.flags) THEN Stopped(c, "Interrupt") ELSE c
        [] in.op = "Hlt" -> Stopped(c, "ProtectionFault")
        [] in.op = "Bound" ->
             IF ~Readable(c, in.o1) \/ ~Readable(c, second) THEN Fault(c)
             ELSE IF i < Signed(Value(c, in.o1), in.o0.w) \/ i > Signed(Value(c, second), in.o0.w)
             THEN Stopped(c, "BoundRange") ELSE c

\* execute.
Execute(c, in) ==
  CASE in.op = "Nop" -> c
    [] in.op = "Alu" -> ExecAlu(c, in)
    [] in.op = "Unary" -> ExecUnary(c, in)
    [] in.op \in {"Mov", "Movzx", "Movsx", "Lea", "Push", "Pop", "Xchg"} -> ExecMove(c, in)
    [] in.op \in {"Xadd", "Cmpxchg", "Cmpxchg8b"} -> ExecExchange(c, in)
    [] in.op \in {"Bsf", "Bsr"} -> ExecScan(c, in)
    [] in.op \in {"Jmp", "Jcc"} -> ExecJump(c, in)
    [] in.op \in {"Call", "Ret"} -> ExecCall(c, in)
    [] in.op \in {"Loop", "Loope", "Loopne", "Jecxz"} -> ExecLoop(c, in)
    [] in.op \in {"Setcc", "Cmovcc"} -> ExecCond(c, in)
    [] in.op \in {"Callfar", "Jmpfar", "Retf"} -> ExecFar(c, in)
    [] in.op = "Iretd" -> ExecIretd(c)
    [] in.op \in {"Leave", "Cdq", "Cwde", "Bswap"} -> ExecFrame(c, in)
    [] in.op \in {"Mul", "Imul"} -> ExecMul(c, in)
    [] in.op \in {"Div", "Idiv"} -> ExecDiv(c, in)
    [] in.op = "Bit" -> ExecBit(c, in)
    [] in.op \in {"Shld", "Shrd"} -> ExecDoubleShift(c, in)
    [] in.op = "String" -> StringExecute(c, in.x, in.rep, in.o0.w)
    [] in.op = "Pushad" -> PushAll(c)
    [] in.op = "Popad" -> PopAll(c)
    [] in.op = "Enter" -> Enter(c, in.o0.v, in.o1.v)
    [] in.op \in {"Int", "Into", "Hlt", "Bound"} -> ExecTrap(c, in)
    [] in.op \in {"Pushfd", "Popfd"} -> ExecFlagWord(c, in)
    [] in.op \in {"Cld", "Std"} -> ExecDirection(c, in)
    [] OTHER -> ExecFlags(c, in)

\* x86p_execute_decoded: EIP moves only when the instruction completed.
Completed(d) == IF d.st = "Ok" THEN [d EXCEPT !.eip = d.next] ELSE d
StepDecoded(c, in) == Completed(Execute([c EXCEPT !.next = Trunc(c.eip + 1, 4)], in))
=============================================================================
