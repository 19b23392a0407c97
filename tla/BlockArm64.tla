----------------------------- MODULE BlockArm64 -----------------------------
(***************************************************************************)
(* The ARM64 backend (jit_arm64*.c): integer instructions of a block.  The *)
(* guest registers and the flag record are always in memory; the operands  *)
(* of the record just made are also in X0, X1 and X2, and the instruction  *)
(* after it may take them from there.                                      *)
(***************************************************************************)
EXTENDS Block

\* emit_address_parts, emit_effective_address.
ArmParts(c, o) ==
  Trunc((IF o.base < 0 THEN 0 ELSE c.reg[o.base]) + (IF o.index < 0 THEN 0 ELSE c.reg[o.index] * o.scale) + o.disp, 4)
ArmAddress(c, o) == Trunc(ArmParts(c, o) + (IF o.fs THEN c.fs_base ELSE 0), 4)
\* emit_mem_prepare_w: the check before the access, on a mapping without a guard region.
ArmOk(c, o) == IsMem(o) => InBounds(ArmAddress(c, o), o.w)
\* emit_load_w, emit_store_w.
ArmValue(c, o) ==
  CASE o.k = "Reg" -> ReadReg(c, o.r, o.w)
    [] o.k = "Imm" -> Trunc(o.v, o.w)
    [] OTHER -> Load(c, ArmAddress(c, o), o.w)
ArmWrite(m, o, v) ==
  [m EXCEPT !.c = IF o.k = "Reg" THEN WriteReg(@, o.r, o.w, v) ELSE Store(@, ArmAddress(@, o), o.w, v)]

-----------------------------------------------------------------------------
(* jit_arm64_cond.c.                                                       *)

\* The conditions each kind has a host comparison for; the others are asked of x86p_cond.
ArmLowering(cc, kind) ==
  IF cc \in {"P", "NP"} THEN IF kind \in ResultKinds \cup {"Sub", "Add", "Logic"} THEN "Parity" ELSE "Helper"
  ELSE CASE kind = "Sub" -> "Sub"
         [] kind = "Add" /\ cc \notin {"BE", "A"} -> "Add"
         [] kind = "Logic" -> IF cc \in {"O", "B"} THEN "False" ELSE IF cc \in {"NO", "NB"} THEN "True" ELSE "Result"
         [] kind \in ResultKinds /\ cc \in {"Z", "NZ", "S", "NS"} -> "Result"
         [] OTHER -> "Helper"
\* load_operands_aligned: a into X0 and b into X1, in the order that keeps what is not read yet; a
\* value not held is loaded from the record.
ArmHeld(reg, stored, host) == IF reg < 0 THEN stored ELSE host[reg]
ArmOperandsInOrder(m) ==
  LET f == m.c.flags
      x0 == ArmHeld(m.held.a, f.a, m.host)
  IN  <<x0, ArmHeld(m.held.b, f.b, [m.host EXCEPT ![0] = x0])>>
ArmOperands(m) ==
  LET f == m.c.flags
      a == IF m.held.a = 1 /\ m.held.b = 0 THEN -1 ELSE m.held.a
      x1 == ArmHeld(m.held.b, f.b, m.host)
      x0 == ArmHeld(a, f.a, m.host)
  IN  IF m.held.b = 0 THEN <<ArmHeld(a, f.a, [m.host EXCEPT ![1] = x1]), x1>>
      ELSE <<x0, ArmHeld(m.held.b, f.b, [m.host EXCEPT ![0] = x0])>>
\* x86p_a64_emit_condition_flags: by the block's knowledge alone, with no run-time check.
ArmCond(m, cc) ==
  LET f == m.c.flags
      how == IF m.last # Unknown /\ m.lw > 0 THEN ArmLowering(cc, m.last) ELSE "Helper"
      ab == ArmOperands(m)
  IN  IF how = "Helper" THEN Cond(cc, f)
      ELSE InlineCond(cc, how, ab[1], ab[2], ArmHeld(m.held.r, f.r, m.host), m.lw)

-----------------------------------------------------------------------------
(* jit_arm64_integer.c, jit_arm64_alu.c.                                   *)

\* emit_record_flags: held names the registers that hold the words.
ArmRecord(m, kind, a, b, r, w, held) ==
  [m EXCEPT !.c.flags = Stored(@, kind, a, b, r, w), !.made = held, !.last = kind, !.lw = w,
            !.host = [x \in DOMAIN @ |-> CASE x = held.a -> a [] x = held.b -> b [] x = held.r -> r [] OTHER -> @[x]]]
\* emit_compute_carry_in.
ArmCarry(m) ==
  LET f == m.c.flags
  IN  CASE m.last = "Logic" -> FALSE
        [] m.last = "Add" -> f.r < f.a
        [] m.last = "Sub" -> f.a < f.b
        [] m.last = "Explicit" -> "CF" \in f.word
        [] m.last \in {"Inc", "Dec"} -> f.carry_in
        [] OTHER -> CF(f)

\* emit_alu_inline: the address is proved before anything is recorded.
ArmAlu(m, in, dead, i) ==
  LET w == in.o0.w
      a == ArmValue(m.c, in.o0)
      b == Trunc(ArmValue(m.c, in.o1), w)
      recorded(r) == IF dead THEN m ELSE ArmRecord(m, InlineKind(in.x), a, b, r, w, [a |-> 0, b |-> 1, r |-> 2])
      kept(r) == IF in.x \in Compares THEN recorded(r) ELSE ArmWrite(recorded(r), in.o0, r)
  IN  IF ~ArmOk(m.c, in.o0) \/ ~ArmOk(m.c, in.o1) THEN MemoryFaultAt(m, i) ELSE kept(AluResult(in.x, a, b, w))
\* emit_alu_unary_inline: a NEG's operand is in X0 as the right word of its record.
ArmUnary(m, in, dead, i) ==
  LET o == in.o0
      a == ArmValue(m.c, o)
      r == UnaryResult(in.x, a, o.w)
      e == IF in.x = "Neg" THEN ArmRecord(m, "Sub", 0, a, r, o.w, [a |-> 2, b |-> 0, r |-> 1])
           ELSE ArmRecord([m EXCEPT !.c.flags.carry_in = ArmCarry(m)], in.x, a, 1, r, o.w, [a |-> 0, b |-> 2, r |-> 1])
  IN  IF ~ArmOk(m.c, o) THEN MemoryFaultAt(m, i)
      ELSE ArmWrite(IF in.x = "Not" \/ dead THEN m ELSE e, o, r)
\* emit_shift_inline.
ArmShift(m, in, dead, i) ==
  LET o == in.o0
      byCl == in.o1.k # "Imm"
      n == MaskedCount(ArmValue(m.c, in.o1))
      a == ArmValue(m.c, o)
      r == ShiftResult(in.x, a, n, o.w)
      e == ArmWrite(IF dead THEN m ELSE ArmRecord(m, in.x, a, n, r, o.w, [a |-> 0, b |-> 1, r |-> 2]), o, r)
  IN  IF ~ArmOk(m.c, o) THEN MemoryFaultAt(m, i)
      ELSE IF byCl THEN Forgot([(IF n = 0 THEN m ELSE e) EXCEPT !.made = NothingHeld])
      ELSE IF n = 0 THEN m ELSE e
\* emit_alu_helper.
ArmHelper(m, in, i) ==
  LET kept(t) == ArmWrite([m EXCEPT !.c.flags = t.f], in.o0, t.r)
  IN  IF ~ArmOk(m.c, in.o0) \/ ~ArmOk(m.c, in.o1) THEN MemoryFaultAt(m, i)
      ELSE Learned(kept(Alu(in.x, ArmValue(m.c, in.o0), ArmValue(m.c, in.o1), in.o0.w, m.c.flags)),
                   IF in.x \in Rotates THEN Unknown ELSE "Explicit", 0)
\* emit_mul32, emit_imul_to_register.
ArmMultiply(m, in, dead, i) ==
  LET o == in.o0
      y == ArmValue(m.c, o)
      left == IF in.n = 2 THEN y ELSE ArmValue(m.c, in.o1)
      right == IF in.n = 2 THEN ArmValue(m.c, in.o1) ELSE in.o2.v
  IN  IF ~ArmOk(m.c, o) \/ (in.n > 1 /\ ~ArmOk(m.c, in.o1)) THEN MemoryFaultAt(m, i)
      ELSE IF in.n = 1 THEN [m EXCEPT !.c = MultiplyAccumulator(@, in.op, y, o.w)]
      ELSE IF dead THEN ArmWrite(m, o, Signed(left, o.w) * Signed(right, o.w))
      ELSE [m EXCEPT !.c = ImulToRegister(@, left, right, o.r, o.w)]
\* emit_div32, jit_div32.
ArmDivide(m, in, i) ==
  LET c == m.c
      v == ArmValue(c, in.o0)
      t == IF in.op = "Div" THEN Div(c.reg[Edx], c.reg[Eax], v, 4) ELSE Idiv(c.reg[Edx], c.reg[Eax], v, 4)
  IN  IF ~ArmOk(c, in.o0) THEN MemoryFaultAt(m, i)
      ELSE IF ~t.ok THEN Exit(m, i - 1, "DivideError")
      ELSE [m EXCEPT !.c.reg[Eax] = t.q, !.c.reg[Edx] = t.r]
\* emit_double_shift.
ArmDoubleShift(m, in, i) ==
  LET o == in.o0
      a == ArmAddress(m.c, o)
      left == in.op = "Shld"
  IN  IF ~ArmOk(m.c, o) THEN MemoryFaultAt(m, i)
      ELSE [m EXCEPT !.c = CpuDoubleShift(@, o, a, left, ArmValue(@, in.o1), ArmValue(@, in.o2), 4)]

-----------------------------------------------------------------------------
(* jit_arm64.c.                                                            *)

\* emit_push_x0, emit_pop_x0.
ArmPush(m, v, i) ==
  LET esp == Trunc(m.c.reg[Esp] - 4, 4)
  IN  IF InBounds(esp, 4) THEN [m EXCEPT !.c = [Store(@, esp, 4, v) EXCEPT !.reg[Esp] = esp]] ELSE MemoryFaultAt(m, i)
ArmPopped(m, i) == IF InBounds(m.c.reg[Esp], 4) THEN [m EXCEPT !.c.reg[Esp] = Trunc(@ + 4, 4)] ELSE MemoryFaultAt(m, i)
ArmTop(m) == Load(m.c, m.c.reg[Esp], 4)

\* emit_mov, emit_movx, emit_lea.
ArmMov(m, in, i) ==
  IF ArmOk(m.c, in.o0) /\ ArmOk(m.c, in.o1) THEN ArmWrite(m, in.o0, ArmValue(m.c, in.o1)) ELSE MemoryFaultAt(m, i)
ArmMovx(m, in, i) ==
  LET v == ArmValue(m.c, in.o1)
  IN  IF ArmOk(m.c, in.o1) THEN ArmWrite(m, in.o0, IF in.op = "Movsx" THEN SignExtend(v, in.o1.w, 4) ELSE v) ELSE MemoryFaultAt(m, i)
ArmLea(m, in) == ArmWrite(m, in.o0, ArmParts(m.c, in.o1))
\* emit_xchg32.
ArmXchg(m, in, i) ==
  LET o == in.o0
      s == in.o1
  IN  IF ~ArmOk(m.c, o) \/ ~ArmOk(m.c, s) THEN MemoryFaultAt(m, i)
      ELSE IF IsMem(s) THEN ArmWrite(ArmWrite(m, s, ArmValue(m.c, o)), o, ArmValue(m.c, s))
      ELSE ArmWrite(ArmWrite(m, o, ArmValue(m.c, s)), s, ArmValue(m.c, o))
\* emit_push, emit_pop.
ArmPushOperand(m, in, i) ==
  LET o == in.o0
      v == IF o.k = "Imm" THEN SignExtend(o.v, o.w, 4) ELSE ArmValue(m.c, o)
  IN  IF ArmOk(m.c, o) THEN ArmPush(m, v, i) ELSE MemoryFaultAt(m, i)
ArmPopOperand(m, in, i) ==
  LET p == ArmPopped(m, i)
  IN  IF ~p.in THEN p ELSE IF ArmOk(p.c, in.o0) THEN ArmWrite(p, in.o0, ArmTop(m)) ELSE MemoryFaultAt(p, i)

\* emit_setcc: the condition first.
ArmSetcc(m, in, i) ==
  IF ArmOk(m.c, in.o0) THEN ArmWrite(m, in.o0, IF ArmCond(m, in.cc) THEN 1 ELSE 0) ELSE MemoryFaultAt(m, i)

\* emit_leave: ESP moves before the check.
ArmLeave(m, i) ==
  LET ebp == m.c.reg[Ebp]
      d == [m EXCEPT !.c.reg[Esp] = ebp]
  IN  IF ~InBounds(ebp, 4) THEN MemoryFaultAt(d, i)
      ELSE [d EXCEPT !.c.reg[Esp] = Trunc(ebp + 4, 4), !.c.reg[Ebp] = Load(m.c, ebp, 4)]
\* emit_cdq, emit_cwde, emit_bswap.
ArmConvert(m, in) ==
  CASE in.op = "Cdq" -> [m EXCEPT !.c.reg[Edx] = Trunc(Signed(m.c.reg[Eax], 4) \div Power(Bits(4) - 1), 4)]
    [] in.op = "Cwde" -> [m EXCEPT !.c.reg[Eax] = SignExtend(@, 2, 4)]
    [] in.op = "Bswap" -> [m EXCEPT !.c.reg[in.o0.r] = Swapped(@)]

\* emit_string: a fault in the middle keeps what was done.
ArmString(m, in, i) ==
  LET kept(d) == [m EXCEPT !.c = [d EXCEPT !.st = "Ok"]]
      left(d) == IF d.st = "Ok" THEN kept(d) ELSE MemoryFaultAt(kept(d), i)
      known(n) == IF in.x \in {"Scas", "Cmps"} THEN Forgot(n) ELSE n
  IN  known(left(StringExecute(m.c, in.x, in.rep, in.o0.w)))
\* emit_pushfd, emit_popfd.
ArmFlagWord(m, in, i) ==
  LET p == ArmPopped(m, i)
  IN  IF in.op = "Pushfd" THEN ArmPush(m, EflagsWord(m.c), i)
      ELSE IF p.in THEN Learned([p EXCEPT !.c = SetEflags(@, ArmTop(m))], "Explicit", 0) ELSE p
\* emit_cpu_transfer, and the direction flag.
ArmTransfer(m, in) ==
  CASE in.op \in {"Cld", "Std"} -> [m EXCEPT !.c.df = IF in.op = "Std" THEN 1 ELSE 0]
    [] in.op = "Sahf" -> Learned([m EXCEPT !.c = Sahf(@)], "Explicit", 0)
    [] in.op = "Lahf" -> [m EXCEPT !.c = Lahf(@)]

\* What ends a block; a CALL reads its target before it pushes.
ArmJump(m, in, i) ==
  IF ArmOk(m.c, in.o0) THEN Exit(m, ArmValue(m.c, in.o0), "BlockEnd") ELSE MemoryFaultAt(m, i)
ArmJcc(m, in, i) == Exit(m, IF ArmCond(m, in.cc) THEN in.o0.v ELSE i, "BlockEnd")
ArmLoop(m, in, i) ==
  Exit([m EXCEPT !.c = LoopCounted(@, in.aw)], IF LoopTaken(m.c, in.op, in.aw) THEN in.o0.v ELSE i, "BlockEnd")
ArmCall(m, in, i) ==
  LET pushed == ArmPush(m, i, i)
  IN  IF ~ArmOk(m.c, in.o0) THEN MemoryFaultAt(m, i)
      ELSE IF pushed.in THEN Exit(pushed, ArmValue(m.c, in.o0), "BlockEnd") ELSE pushed
ArmRet(m, in, i) ==
  LET p == ArmPopped(m, i)
      release == IF in.n = 1 THEN in.o0.v ELSE 0
  IN  IF p.in THEN Exit([p EXCEPT !.c.reg[Esp] = Trunc(@ + release, 4)], ArmTop(m), "BlockEnd") ELSE p

\* can_emit.
ArmBranches == {"Jmp", "Jcc", "Call", "Ret", "Loop", "Loope", "Loopne"}
ArmCanEmit(in) ==
  LET w == in.o0.w
  IN  /\ \A x \in {in.o0, in.o1, in.o2} : IsMem(x) => ~x.addr16
      /\ CASE in.op \in {"Shld", "Shrd", "Xchg", "Pop", "Div", "Idiv", "Lea"} -> w = 4
           [] in.op = "Push" -> w = 4 \/ in.o0.k = "Imm"
           [] in.op = "Imul" -> in.n = 1 \/ w \in {2, 4}
           [] in.op = "String" -> RepDefined(in.x, in.rep)
           [] OTHER -> in.op \in ArmBranches \cup {"Nop", "Mov", "Movzx", "Movsx", "Setcc", "Alu", "Unary", "Mul",
                "Cld", "Std", "Sahf", "Lahf", "Pushfd", "Popfd", "Leave", "Cdq", "Cwde", "Bswap"}

\* The terminators of x86p_jit_translate_bounded, and its other arms.
ArmEnded(m, in, i) ==
  CASE in.op = "Jmp" -> ArmJump(m, in, i)
    [] in.op = "Jcc" -> ArmJcc(m, in, i)
    [] in.op = "Call" -> ArmCall(m, in, i)
    [] in.op = "Ret" -> ArmRet(m, in, i)
    [] OTHER -> ArmLoop(m, in, i)
ArmEmitted(m, in, dead, i) ==
  CASE in.op = "Nop" -> m
    [] in.op = "Alu" -> IF in.x \in Inlined THEN ArmAlu(m, in, dead, i)
                        ELSE IF in.x \in ShiftOps THEN ArmShift(m, in, dead, i) ELSE ArmHelper(m, in, i)
    [] in.op = "Unary" -> ArmUnary(m, in, dead, i)
    [] in.op = "Mov" -> ArmMov(m, in, i)
    [] in.op \in {"Movzx", "Movsx"} -> ArmMovx(m, in, i)
    [] in.op = "Lea" -> ArmLea(m, in)
    [] in.op = "Xchg" -> ArmXchg(m, in, i)
    [] in.op = "Push" -> ArmPushOperand(m, in, i)
    [] in.op = "Pop" -> ArmPopOperand(m, in, i)
    [] in.op = "Setcc" -> ArmSetcc(m, in, i)
    [] in.op = "Leave" -> ArmLeave(m, i)
    [] in.op \in {"Cdq", "Cwde", "Bswap"} -> ArmConvert(m, in)
    [] in.op \in {"Mul", "Imul"} -> Forgot(ArmMultiply(m, in, dead, i))
    [] in.op \in {"Div", "Idiv"} -> ArmDivide(m, in, i)
    [] in.op \in {"Shld", "Shrd"} -> Forgot(ArmDoubleShift(m, in, i))
    [] in.op = "String" -> ArmString(m, in, i)
    [] in.op \in {"Pushfd", "Popfd"} -> ArmFlagWord(m, in, i)
    [] in.op \in {"Cld", "Std", "Sahf", "Lahf"} -> ArmTransfer(m, in)
    [] in.op \in ArmBranches -> ArmEnded(m, in, i)

ArmEmits(prog) == {j \in DOMAIN prog : ArmCanEmit(prog[j])}
\* One instruction; the registers it leaves the record in, the next one may read and no later one.
HeldNext(d) == [d EXCEPT !.held = d.made, !.made = NothingHeld]
ArmStep(m, prog) ==
  LET i == m.n + 1
      emits == ArmEmits(prog)
  IN  IF m.in THEN Continue(HeldNext(ArmEmitted(m, prog[i], WriteIsDead(prog, i, emits), i)), prog, emits) ELSE m
ArmEnter(c, prog) == IF 1 \in ArmEmits(prog) THEN Entered(c) ELSE [Entered(c) EXCEPT !.in = FALSE, !.exit = "UnsupportedAtEntry"]
=============================================================================
