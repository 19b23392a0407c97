------------------------------ MODULE BlockWasm ------------------------------
(***************************************************************************)
(* The WebAssembly backend (jit_wasm_*.c): integer instructions of a       *)
(* block. Everything is in the CPU structure at every instruction, and     *)
(* every flag record is made; what the backend decides while it lowers is  *)
(* which conditions and carries to compute from the record itself.  A      *)
(* conditional branch leaves the block when taken and stays in it          *)
(* otherwise.                                                              *)
(***************************************************************************)
EXTENDS Block

\* x86p_wasm_state_address_parts, x86p_wasm_state_address.
WasmParts(c, o) ==
  Trunc(o.disp + (IF o.base < 0 THEN 0 ELSE c.reg[o.base]) + (IF o.index < 0 THEN 0 ELSE c.reg[o.index] * o.scale), 4)
WasmAddress(c, o) == Trunc(WasmParts(c, o) + (IF o.fs THEN c.fs_base ELSE 0), 4)
\* x86p_wasm_state_guard.
WasmOk(c, o) == IsMem(o) => InBounds(WasmAddress(c, o), o.w)
\* x86p_wasm_push_operand, x86p_wasm_state_load_mem; the stores.
WasmValue(c, o) ==
  CASE o.k = "Reg" -> ReadReg(c, o.r, o.w)
    [] o.k = "Imm" -> Trunc(o.v, o.w)
    [] OTHER -> Load(c, WasmAddress(c, o), o.w)
WasmWrite(m, o, v) ==
  [m EXCEPT !.c = IF o.k = "Reg" THEN WriteReg(@, o.r, o.w, v) ELSE Store(@, WasmAddress(@, o), o.w, v)]

\* x86p_wasm_lower_flags_written: the width is known only with a kind conditions are inlined for.
WasmInline == {"Sub", "Logic", "Add", "Inc", "Dec"}
WasmWritten(m, kind, w) == Learned(m, kind, IF kind \in WasmInline THEN w ELSE 0)

-----------------------------------------------------------------------------
(* jit_wasm_cond.c: the record's words, shifted up to the top of a host    *)
(* word - so at the width the block knows - and one comparison.            *)

\* The condition each negated one negates.
WasmPositive(cc) ==
  CASE cc = "NO" -> "O" [] cc = "NB" -> "B" [] cc = "NZ" -> "Z" [] cc = "A" -> "BE" [] cc = "NS" -> "S"
    [] cc = "NP" -> "P" [] cc = "GE" -> "L" [] cc = "G" -> "LE" [] OTHER -> cc
\* emit_sub, and what emit_add and emit_incdec leave to it.
WasmSub(cc, a, b, r, w) ==
  CASE cc = "O" -> Msb(a, w) # Msb(b, w) /\ Msb(a, w) # Msb(r, w)
    [] cc = "B" -> a < b
    [] cc = "Z" -> r = 0
    [] cc = "BE" -> a <= b
    [] cc = "S" -> Signed(r, w) < 0
    [] cc = "P" -> EvenParity(r)
    [] cc = "L" -> Signed(a, w) < Signed(b, w)
    [] cc = "LE" -> Signed(a, w) <= Signed(b, w)
\* emit_logic.
WasmLogic(cc, r, w) ==
  CASE cc \in {"O", "B"} -> FALSE
    [] cc \in {"Z", "BE"} -> r = 0
    [] cc \in {"S", "L"} -> Signed(r, w) < 0
    [] cc = "P" -> EvenParity(r)
    [] cc = "LE" -> Signed(r, w) <= 0
\* emit_add: the carry is a result below its operand, and less is the sign with the overflow undone.
WasmAdd(cc, a, b, r, w) ==
  LET over == Msb(a, w) # Msb(r, w) /\ Msb(b, w) # Msb(r, w)
      less == (Msb(r, w) = 1) # over
  IN  CASE cc = "O" -> over
        [] cc = "B" -> r < a
        [] cc = "BE" -> r < a \/ r = 0
        [] cc = "L" -> less
        [] cc = "LE" -> less \/ r = 0
        [] OTHER -> WasmSub(cc, a, b, r, w)
\* emit_incdec: the carry is the one saved, and the order is read off the operand before the step.
WasmIncDec(cc, dec, a, b, r, w, carry) ==
  LET least == Power(Bits(w) - 1)
  IN  CASE cc = "O" -> (IF dec THEN a ELSE r) = least
        [] cc = "B" -> carry
        [] cc = "BE" -> carry \/ r = 0
        [] cc = "L" -> IF dec THEN Signed(a, w) <= 0 ELSE Signed(a, w) < -1
        [] cc = "LE" -> Signed(a, w) <= (IF dec THEN 1 ELSE -1)
        [] OTHER -> WasmSub(cc, a, b, r, w)
\* x86p_wasm_cond_value.
WasmCond(m, cc) ==
  LET f == m.c.flags
      w == m.lw
      yes == WasmPositive(cc)
      a == Trunc(f.a, w)
      b == Trunc(f.b, w)
      r == Trunc(f.r, w)
      holds == CASE m.last = "Sub" -> WasmSub(yes, a, b, r, w)
                 [] m.last = "Logic" -> WasmLogic(yes, r, w)
                 [] m.last = "Add" -> WasmAdd(yes, a, b, r, w)
                 [] OTHER -> WasmIncDec(yes, m.last = "Dec", a, b, r, w, f.carry_in)
  IN  IF m.last \in WasmInline THEN (yes = cc) = holds ELSE Cond(cc, f)

\* emit_known_cf: the carry of a record whose kind is known; a Sub's or an Add's words are compared
\* whole.
WasmKnownCarry(kind, f) ==
  CASE kind \in {"None", "Logic"} -> FALSE
    [] kind = "Add" -> f.r < f.a
    [] kind = "Sub" -> f.a < f.b
    [] kind = "Explicit" -> "CF" \in f.word
    [] kind \in {"Inc", "Dec"} -> f.carry_in
\* kCarryArms: the kinds the run-time dispatch computes in place.
WasmCarryArm(kind, w) == kind \in {"Logic", "Dec", "Inc", "Explicit", "None"} \/ (kind \in {"Sub", "Add"} /\ w = 4)
\* x86p_wasm_carry_in.
WasmCarry(m) ==
  LET f == m.c.flags
  IN  IF m.last \in WasmInline \cup {"None", "Explicit"} THEN WasmKnownCarry(m.last, f)
      ELSE IF WasmCarryArm(f.kind, f.w) THEN WasmKnownCarry(f.kind, f)
      ELSE CF(f)

-----------------------------------------------------------------------------
(* jit_wasm_alu.c.                                                         *)

\* x86p_wasm_state_store_flags and x86p_wasm_lower_flags_written.
WasmRecord(m, kind, a, b, r, w) == WasmWritten([m EXCEPT !.c.flags = Stored(@, kind, a, b, r, w)], kind, w)

\* inline_shift_count: an immediate that shifts by less than the width.
WasmShiftsInline(in) ==
  in.x \in ShiftOps /\ in.o1.k = "Imm" /\ MaskedCount(in.o1.v) \in 1 .. Bits(in.o0.w) - 1
WasmKindKept(m, in, i) ==
  LET kept(t) == WasmWrite([m EXCEPT !.c.flags = t.f], in.o0, t.r)
  IN  IF ~WasmOk(m.c, in.o0) \/ ~WasmOk(m.c, in.o1) THEN MemoryFaultAt(m, i)
      ELSE kept(Alu(in.x, WasmValue(m.c, in.o0), WasmValue(m.c, in.o1), in.o0.w, m.c.flags))
\* lower_via_helper: x86p_alu, whose result is stored even when a count of zero left it alone.
WasmHelper(m, in, i) ==
  LET kept(t) == WasmWrite([m EXCEPT !.c.flags = t.f], in.o0, t.r)
  IN  IF ~WasmOk(m.c, in.o0) \/ ~WasmOk(m.c, in.o1) THEN MemoryFaultAt(m, i)
      ELSE WasmWritten(kept(Alu(in.x, WasmValue(m.c, in.o0), WasmValue(m.c, in.o1), in.o0.w, m.c.flags)),
                       IF in.x \in ShiftOps \cup Rotates THEN Unknown ELSE "Explicit", 0)
\* x86p_wasm_alu_lower, lower_shift: the guard, the record, the result.
WasmAlu(m, in, i) ==
  LET w == in.o0.w
      shift == WasmShiftsInline(in)
      a == WasmValue(m.c, in.o0)
      b == IF shift THEN MaskedCount(in.o1.v) ELSE Trunc(WasmValue(m.c, in.o1), w)
      r == IF shift THEN ShiftResult(in.x, a, b, w) ELSE AluResult(in.x, a, b, w)
      e == WasmRecord(m, IF shift THEN in.x ELSE InlineKind(in.x), a, b, r, w)
  IN  IF ~WasmOk(m.c, in.o0) \/ ~WasmOk(m.c, in.o1) THEN MemoryFaultAt(m, i)
      ELSE IF in.x \in Compares THEN e ELSE WasmWrite(e, in.o0, r)
\* x86p_wasm_alu_unary_lower: the carry is taken from the old record before the new one is stored.
WasmUnary(m, in, i) ==
  LET o == in.o0
      a == WasmValue(m.c, o)
      r == UnaryResult(in.x, a, o.w)
      e == CASE in.x = "Not" -> m
             [] in.x = "Neg" -> WasmRecord(m, "Sub", 0, a, r, o.w)
             [] OTHER -> WasmRecord([m EXCEPT !.c.flags.carry_in = WasmCarry(m)], in.x, a, 1, r, o.w)
  IN  IF WasmOk(m.c, o) THEN WasmWrite(e, o, r) ELSE MemoryFaultAt(m, i)

-----------------------------------------------------------------------------
(* jit_wasm_integer.c, jit_wasm_bitops.c.                                  *)

WasmMultiply(m, in, i) ==
  LET w == in.o0.w
      source == IF in.n = 1 THEN in.o0 ELSE in.o1
      v == WasmValue(m.c, source)
      left == IF in.n = 2 THEN WasmValue(m.c, in.o0) ELSE v
      right == IF in.n = 2 THEN v ELSE Trunc(in.o2.v, w)
  IN  IF ~WasmOk(m.c, source) THEN MemoryFaultAt(m, i)
      ELSE [m EXCEPT !.c = IF in.n = 1 THEN MultiplyAccumulator(@, in.op, v, w) ELSE ImulToRegister(@, left, right, in.o0.r, w)]
\* x86p_wasm_divide.
WasmDivide(m, in, i) ==
  LET c == m.c
      w == in.o0.w
      hi == IF w = 1 THEN ReadReg(c, 4, 1) ELSE ReadReg(c, Edx, w)
      v == WasmValue(c, in.o0)
      t == IF in.op = "Idiv" THEN Idiv(hi, ReadReg(c, Eax, w), v, w) ELSE Div(hi, ReadReg(c, Eax, w), v, w)
  IN  IF ~WasmOk(c, in.o0) THEN MemoryFaultAt(m, i)
      ELSE IF ~t.ok THEN Exit(m, i - 1, "DivideError")
      ELSE [m EXCEPT !.c = PairStore(c, w, t.q, t.r)]
\* x86p_wasm_shift_lower: a count past the width leaves the block, after the read was proved.
WasmDoubleShift(m, in, i) ==
  LET o == in.o0
      n == MaskedCount(WasmValue(m.c, in.o2))
      t == DoubleShift(in.op = "Shld", WasmValue(m.c, o), WasmValue(m.c, in.o1), n, o.w, Eflags(m.c.flags))
  IN  IF ~WasmOk(m.c, o) THEN MemoryFaultAt(m, i)
      ELSE IF n = 0 THEN m
      ELSE IF n > Bits(o.w) THEN Exit(m, i - 1, "Unsupported")
      ELSE WasmWrite([m EXCEPT !.c = IF t.wrote THEN Explicitly(@, t.e) ELSE @], o, t.r)
\* x86p_wasm_bit_lower: a register index moves the address by whole dwords.
WasmBit(m, in, i) ==
  LET o == in.o0
      index == WasmValue(m.c, in.o1)
      moved == IF in.o1.k = "Reg" THEN (Signed(index, 4) \div Bits(4)) * 4 ELSE 0
      a == IF IsMem(o) THEN Trunc(WasmAddress(m.c, o) + moved, 4) ELSE 0
  IN  IF IsMem(o) /\ ~InBounds(a, o.w) THEN MemoryFaultAt(m, i)
      ELSE WasmWritten([m EXCEPT !.c = CpuBit(@, o, a, in.x, index, o.w)], "Explicit", 0)

-----------------------------------------------------------------------------
(* jit_wasm_stack.c, jit_wasm_move.c.                                      *)

\* x86p_wasm_push_local, and the pops, which move ESP once the load was proved.
WasmPush(m, v, i) ==
  LET esp == Trunc(m.c.reg[Esp] - 4, 4)
  IN  IF InBounds(esp, 4) THEN [m EXCEPT !.c = [Store(@, esp, 4, v) EXCEPT !.reg[Esp] = esp]] ELSE MemoryFaultAt(m, i)
WasmPopped(m, release, i) ==
  IF InBounds(m.c.reg[Esp], 4) THEN [m EXCEPT !.c.reg[Esp] = Trunc(@ + 4 + release, 4)] ELSE MemoryFaultAt(m, i)
WasmTop(m) == Load(m.c, m.c.reg[Esp], 4)

WasmMov(m, in, i) ==
  IF WasmOk(m.c, in.o0) /\ WasmOk(m.c, in.o1) THEN WasmWrite(m, in.o0, WasmValue(m.c, in.o1)) ELSE MemoryFaultAt(m, i)
\* lower_movx.
WasmMovx(m, in, i) ==
  LET v == WasmValue(m.c, in.o1)
  IN  IF WasmOk(m.c, in.o1) THEN WasmWrite(m, in.o0, IF in.op = "Movsx" THEN SignExtend(v, in.o1.w, 4) ELSE v) ELSE MemoryFaultAt(m, i)
WasmLea(m, in) == WasmWrite(m, in.o0, WasmParts(m.c, in.o1))
\* x86p_wasm_xchg_lower: the address was computed before the register it may use is written.
WasmXchg(m, in, i) ==
  LET c == m.c
      at == IF IsMem(in.o1) THEN in.o1 ELSE in.o0
      reg == IF IsMem(in.o1) THEN in.o0 ELSE in.o1
      swapped == Store(WriteReg(c, reg.r, reg.w, WasmValue(c, at)), WasmAddress(c, at), at.w, WasmValue(c, reg))
  IN  IF ~WasmOk(c, at) THEN MemoryFaultAt(m, i)
      ELSE IF IsMem(at) THEN [m EXCEPT !.c = swapped]
      ELSE WasmWrite(WasmWrite(m, in.o0, WasmValue(c, in.o1)), in.o1, WasmValue(c, in.o0))
\* x86p_wasm_push_lower, x86p_wasm_pop_lower.
WasmPushOperand(m, in, i) ==
  LET o == in.o0
      v == IF o.k = "Imm" THEN SignExtend(o.v, o.w, 4) ELSE WasmValue(m.c, o)
  IN  IF WasmOk(m.c, o) THEN WasmPush(m, v, i) ELSE MemoryFaultAt(m, i)
WasmPopOperand(m, in, i) ==
  LET p == WasmPopped(m, 0, i)
  IN  IF ~p.in THEN p ELSE IF WasmOk(p.c, in.o0) THEN WasmWrite(p, in.o0, WasmTop(m)) ELSE MemoryFaultAt(p, i)

\* x86p_wasm_setcc_lower, x86p_wasm_cmov_lower; a CMOV stores only when it moves.
WasmSetcc(m, in, i) ==
  IF WasmOk(m.c, in.o0) THEN WasmWrite(m, in.o0, IF WasmCond(m, in.cc) THEN 1 ELSE 0) ELSE MemoryFaultAt(m, i)
WasmCmov(m, in, i) ==
  IF ~WasmOk(m.c, in.o1) THEN MemoryFaultAt(m, i)
  ELSE IF WasmCond(m, in.cc) THEN WasmWrite(m, in.o0, WasmValue(m.c, in.o1)) ELSE m

\* x86p_wasm_leave_lower: ESP moves before the guard.
WasmLeave(m, i) ==
  LET ebp == m.c.reg[Ebp]
      d == [m EXCEPT !.c.reg[Esp] = ebp]
  IN  IF ~InBounds(ebp, 4) THEN MemoryFaultAt(d, i)
      ELSE [d EXCEPT !.c.reg[Esp] = Trunc(ebp + 4, 4), !.c.reg[Ebp] = Load(m.c, ebp, 4)]
\* x86p_wasm_cdq_lower, _cwde_lower, _bswap_lower, _cld_lower and _std_lower.
WasmConvert(m, in) ==
  CASE in.op = "Cdq" -> [m EXCEPT !.c.reg[Edx] = Trunc(Signed(m.c.reg[Eax], 4) \div Power(Bits(4) - 1), 4)]
    [] in.op = "Cwde" -> [m EXCEPT !.c.reg[Eax] = SignExtend(@, 2, 4)]
    [] in.op = "Bswap" -> [m EXCEPT !.c.reg[in.o0.r] = Swapped(@)]
    [] in.op \in {"Cld", "Std"} -> [m EXCEPT !.c.df = IF in.op = "Std" THEN 1 ELSE 0]

-----------------------------------------------------------------------------
(* jit_wasm_control.c, jit_wasm_branch.c.                                  *)

\* x86p_wasm_string_lower, x86p_wasm_pushfd_lower, x86p_wasm_popfd_lower.
WasmString(m, in, i) == WasmWritten(Called(m, StringExecute(m.c, in.x, in.rep, in.o0.w), i), Unknown, 0)
WasmFlagWord(m, in, i) ==
  LET p == WasmPopped(m, 0, i)
  IN  IF in.op = "Pushfd" THEN WasmPush(m, EflagsWord(m.c), i)
      ELSE IF p.in THEN WasmWritten([m EXCEPT !.c = SetEflags(p.c, WasmTop(m))], "Explicit", 0) ELSE p
\* x86p_wasm_flags_lower.
WasmFlags(m, in) ==
  CASE in.op = "Sahf" -> WasmWritten([m EXCEPT !.c = Sahf(@)], "Explicit", 0)
    [] in.op = "Lahf" -> [m EXCEPT !.c = Lahf(@)]
    [] in.op = "Salc" -> [m EXCEPT !.c = WriteReg(@, 0, 1, IF CF(@.flags) THEN Power(ByteBits) - 1 ELSE 0)]
    [] OTHER -> WasmWritten([m EXCEPT !.c = CarrySet(@, in.op)], "Explicit", 0)
\* x86p_wasm_stack_lower.
WasmStackAll(m, in, i) ==
  CASE in.op = "Pushad" -> Called(m, PushAll(m.c), i)
    [] in.op = "Popad" -> Called(m, PopAll(m.c), i)
    [] in.op = "Enter" -> Called(m, Enter(m.c, in.o0.v, in.o1.v), i)

\* JCC and JECXZ leave the block when they are taken and go on otherwise.
WasmJump(m, in, i) ==
  IF WasmOk(m.c, in.o0) THEN Exit(m, WasmValue(m.c, in.o0), "BlockEnd") ELSE MemoryFaultAt(m, i)
WasmSideExit(m, in) ==
  LET taken == IF in.op = "Jcc" THEN WasmCond(m, in.cc) ELSE ReadReg(m.c, Ecx, in.aw \div 8) = 0
  IN  IF taken THEN Exit(m, in.o0.v, "BlockEnd") ELSE m
WasmCall(m, in, i) ==
  LET pushed == WasmPush(m, i, i)
  IN  IF ~WasmOk(m.c, in.o0) THEN MemoryFaultAt(m, i)
      ELSE IF pushed.in THEN Exit(pushed, WasmValue(m.c, in.o0), "BlockEnd") ELSE pushed
WasmRet(m, in, i) ==
  LET p == WasmPopped(m, IF in.n = 1 THEN in.o0.v ELSE 0, i)
  IN  IF p.in THEN Exit(p, WasmTop(m), "BlockEnd") ELSE p
WasmLoop(m, in, i) ==
  Exit([m EXCEPT !.c = LoopCounted(@, in.aw)], IF LoopTaken(m.c, in.op, in.aw) THEN in.o0.v ELSE i, "BlockEnd")
\* x86p_wasm_trap_lower, x86p_wasm_privilege_lower.
WasmTrap(m, in, i) ==
  CASE in.op = "Hlt" -> Exit(m, i - 1, "ProtectionFault")
    [] in.op = "Into" /\ ~OF(m.c.flags) -> Exit(m, i, "BlockEnd")
    [] OTHER -> Exit(m, i - 1, "Interrupt")

-----------------------------------------------------------------------------
(* jit_wasm_lower.c.                                                       *)

\* x86p_wasm_can_lower over kTable.
WasmBranches == {"Jmp", "Jcc", "Jecxz", "Call", "Ret", "Loop", "Loope", "Loopne", "Int", "Into", "Hlt"}
WasmAccepts(in) ==
  LET w == in.o0.w
  IN  /\ \A x \in {in.o0, in.o1, in.o2} : IsMem(x) => ~x.addr16
      /\ CASE in.op \in {"Shld", "Shrd", "Cmovcc"} -> w \in {2, 4}
           [] in.op = "Bit" -> w = 4 \/ (w = 2 /\ ~(IsMem(in.o0) /\ in.o1.k = "Reg"))
           [] in.op \in {"Pop", "Lea"} -> w = 4
           [] in.op = "Push" -> w = 4 \/ (in.o0.k = "Imm" /\ w = 1)
           [] in.op = "Imul" -> in.n = 1 \/ w \in {2, 4}
           [] in.op = "String" -> RepDefined(in.x, in.rep) /\ in.aw = 32
           [] OTHER -> in.op \in WasmBranches \cup {"Nop", "Mov", "Movzx", "Movsx", "Xchg", "Setcc", "Alu", "Unary", "Mul",
                "Div", "Idiv", "Cld", "Std", "Sahf", "Lahf", "Stc", "Clc", "Cmc", "Salc", "Pushfd", "Popfd", "Pushad",
                "Popad", "Enter", "Leave", "Cdq", "Cwde", "Bswap"}

WasmLowered(m, in, i) ==
  CASE in.op = "Nop" -> m
    [] in.op = "Alu" -> IF in.x \in Inlined \/ WasmShiftsInline(in) THEN WasmAlu(m, in, i) ELSE WasmHelper(m, in, i)
    [] in.op = "Unary" -> WasmUnary(m, in, i)
    [] in.op = "Mov" -> WasmMov(m, in, i)
    [] in.op \in {"Movzx", "Movsx"} -> WasmMovx(m, in, i)
    [] in.op = "Lea" -> WasmLea(m, in)
    [] in.op = "Xchg" -> WasmXchg(m, in, i)
    [] in.op = "Push" -> WasmPushOperand(m, in, i)
    [] in.op = "Pop" -> WasmPopOperand(m, in, i)
    [] in.op = "Setcc" -> WasmSetcc(m, in, i)
    [] in.op = "Cmovcc" -> WasmCmov(m, in, i)
    [] in.op = "Leave" -> WasmLeave(m, i)
    [] in.op \in {"Cdq", "Cwde", "Bswap", "Cld", "Std"} -> WasmConvert(m, in)
    [] in.op \in {"Mul", "Imul"} -> Forgot(WasmMultiply(m, in, i))
    [] in.op \in {"Div", "Idiv"} -> Forgot(WasmDivide(m, in, i))
    [] in.op \in {"Shld", "Shrd"} -> Forgot(WasmDoubleShift(m, in, i))
    [] in.op = "Bit" -> WasmBit(m, in, i)
    [] in.op = "String" -> WasmString(m, in, i)
    [] in.op \in {"Pushfd", "Popfd"} -> WasmFlagWord(m, in, i)
    [] in.op \in {"Sahf", "Lahf", "Salc", "Stc", "Clc", "Cmc"} -> WasmFlags(m, in)
    [] in.op \in {"Pushad", "Popad", "Enter"} -> WasmStackAll(m, in, i)
    [] in.op = "Jmp" -> WasmJump(m, in, i)
    [] in.op \in {"Jcc", "Jecxz"} -> WasmSideExit(m, in)
    [] in.op = "Call" -> WasmCall(m, in, i)
    [] in.op = "Ret" -> WasmRet(m, in, i)
    [] in.op \in {"Int", "Into", "Hlt"} -> WasmTrap(m, in, i)
    [] OTHER -> WasmLoop(m, in, i)

\* x86p_wasm_lower_block, an instruction at a time.
WasmEmits(prog) == {j \in DOMAIN prog : WasmAccepts(prog[j])}
WasmStep(m, prog) ==
  IF m.in THEN Continue(WasmLowered(m, prog[m.n + 1], m.n + 1), prog, WasmEmits(prog)) ELSE m
WasmEnter(c, prog) ==
  IF 1 \in WasmEmits(prog) THEN Entered(c) ELSE [Entered(c) EXCEPT !.in = FALSE, !.exit = "UnsupportedAtEntry"]
=============================================================================
