------------------------------- MODULE BlockX64 -------------------------------
(***************************************************************************)
(* The x64 backend (jit_x64*.c): integer instructions of a block.  Guest   *)
(* registers are in memory, and up to three of them also in host registers *)
(* (the cache); a store writes both.  Flags are in memory, with the kind   *)
(* the translator last recorded known to it.                               *)
(***************************************************************************)
EXTENDS Block

-----------------------------------------------------------------------------
(* jit_x64_gpr.c: the register cache.                                      *)

CacheSlots == 3
Whole(r, w) == IF w = 1 THEN r % 4 ELSE r
Claimed(m, r) == \E k \in DOMAIN m.slots : m.slots[k] = r
Claim(m, r) == IF Claimed(m, r) \/ Len(m.slots) >= CacheSlots THEN m ELSE [m EXCEPT !.slots = Append(@, r)]
\* gpr_load: what a load yields, and what loading dwords leaves cached.
GprValue(m, r, w) ==
  LET v == IF Whole(r, w) \in m.live THEN m.host[Whole(r, w)] ELSE m.c.reg[Whole(r, w)]
  IN  IF w = 1 THEN ByteOf(v, r \div 4) ELSE Trunc(v, w)
GprLoaded(m, r) ==
  LET d == Claim(m, r)
  IN  IF ~Claimed(d, r) \/ r \in d.live THEN d ELSE [d EXCEPT !.live = @ \cup {r}, !.host[r] = d.c.reg[r]]
\* gpr_store, gpr_store_imm: through to memory; a narrow store drops the copy.
GprStore(m, r, w, v) ==
  LET d == IF w = 4 THEN Claim(m, r) ELSE m
      e == [d EXCEPT !.c = WriteReg(@, r, w, v)]
  IN  IF ~Claimed(d, Whole(r, w)) THEN e
      ELSE IF w = 4 THEN [e EXCEPT !.host[r] = Trunc(v, 4), !.live = @ \cup {r}]
      ELSE [e EXCEPT !.live = @ \ {Whole(r, w)}]
\* block_flow_epoch moved: a call was made or another path joined, so no copy and no flag word is
\* known any more.
FlowMoved(m) == [m EXCEPT !.live = {}, !.word = <<Unknown, 0>>]
\* The dwords that reading these operands loads.
OperandLoads(m, o) ==
  CASE IsMem(o) -> LET d == IF o.base < 0 THEN m ELSE GprLoaded(m, o.base)
                   IN  IF o.index < 0 THEN d ELSE GprLoaded(d, o.index)
    [] o.k = "Reg" /\ o.w = 4 -> GprLoaded(m, o.r)
    [] OTHER -> m

-----------------------------------------------------------------------------
(* jit_x64_mem.c: operands.                                                *)

\* emit_address_parts, emit_effective_address.
X64Parts(m, o) ==
  Trunc((IF o.base < 0 THEN 0 ELSE GprValue(m, o.base, 4))
          + (IF o.index < 0 THEN 0 ELSE GprValue(m, o.index, 4) * o.scale) + o.disp, 4)
X64Address(m, o) == Trunc(X64Parts(m, o) + (IF o.fs THEN m.c.fs_base ELSE 0), 4)
X64Ok(m, o) == IsMem(o) => InBounds(X64Address(m, o), o.w)
X64Value(m, o) ==
  CASE o.k = "Reg" -> GprValue(m, o.r, o.w)
    [] o.k = "Imm" -> Trunc(o.v, o.w)
    [] OTHER -> Load(m.c, X64Address(m, o), o.w)
X64Write(m, o, v) ==
  IF o.k = "Reg" THEN GprStore(m, o.r, o.w, v) ELSE [m EXCEPT !.c = Store(@, X64Address(m, o), o.w, v)]

-----------------------------------------------------------------------------
(* jit_x64_cond.c: conditions, from the record the block knows it made.    *)

\* lowering_for.
CondLowering(cc, kind) ==
  IF cc \in {"P", "NP"} THEN IF kind \in ResultKinds \cup {"Sub", "Add", "Logic"} THEN "Parity" ELSE "Helper"
  ELSE CASE kind = "Sub" -> "Sub"
         [] kind = "Add" -> "Add"
         [] kind = "Logic" -> IF cc \in {"O", "B"} THEN "False" ELSE IF cc \in {"NO", "NB"} THEN "True" ELSE "Result"
         [] kind \in ResultKinds /\ cc \in {"Z", "NZ", "S", "NS"} -> "Result"
         [] OTHER -> "Helper"
\* emit_condition_value: inline when the kind is known; unless the block has itself stored that kind
\* word since the last call or join, the record's word is compared with it first.
X64Lowering(m, cc) == IF m.last # Unknown /\ m.lw > 0 THEN CondLowering(cc, m.last) ELSE "Helper"
X64Proven(m) == m.word = <<m.last, m.lw>>
X64Cond(m, cc) ==
  LET how == X64Lowering(m, cc)
      f == m.c.flags
  IN  IF how = "Helper" THEN Cond(cc, f)
      ELSE IF X64Proven(m) \/ (f.kind = m.last /\ f.w = m.lw) THEN InlineCond(cc, how, f.a, f.b, f.r, m.lw)
      ELSE Cond(cc, f)
\* A helper call, or the join after the comparison, moves the flow.
X64Judged(m, cc) == IF X64Lowering(m, cc) # "Helper" /\ X64Proven(m) THEN m ELSE FlowMoved(m)

-----------------------------------------------------------------------------
(* jit_x64_alu.c.                                                          *)

\* store_flag_kind and the tuple before it.
X64Record(m, kind, a, b, r, w) ==
  [m EXCEPT !.c.flags = Stored(@, kind, a, b, r, w), !.word = <<kind, w>>]
\* emit_compute_carry_in: by the kind the block last recorded, else by the helper.
X64Carry(m) ==
  LET f == m.c.flags
  IN  CASE m.last = "Logic" -> FALSE
        [] m.last = "Add" -> f.r < f.a
        [] m.last = "Sub" -> f.a < f.b
        [] m.last = "Explicit" -> "CF" \in f.word
        [] m.last \in {"Inc", "Dec"} -> f.carry_in
        [] OTHER -> CF(f)
X64CarryAsked(m) == IF m.last \in {"Logic", "Add", "Sub", "Explicit", "Inc", "Dec"} THEN m ELSE FlowMoved(m)

\* emit_alu_inline: the operand is proved accessible, the tuple recorded unless dead, the result last.
X64Alu(m, in, dead, i) ==
  LET d == OperandLoads(OperandLoads(m, in.o1), in.o0)
      w == in.o0.w
      a == X64Value(m, in.o0)
      b == Trunc(X64Value(m, in.o1), w)
      kind == InlineKind(in.x)
      recorded(r) == IF dead THEN d ELSE Learned(X64Record(d, kind, a, b, r, w), kind, w)
      kept(r) == IF in.x \in Compares THEN recorded(r) ELSE X64Write(recorded(r), in.o0, r)
  IN  IF ~X64Ok(m, in.o0) \/ ~X64Ok(m, in.o1) THEN MemoryFaultAt(m, i) ELSE kept(AluResult(in.x, a, b, w))
\* emit_alu_unary_inline: NOT records nothing; INC and DEC read the carry before they record.
X64Unary(m, in, dead, i) ==
  LET o == in.o0
      a == X64Value(m, o)
      r == UnaryResult(in.x, a, o.w)
      counts == in.x \in {"Inc", "Dec"}
      d == OperandLoads(IF counts /\ ~dead THEN X64CarryAsked(m) ELSE m, o)
      kind == IF counts THEN in.x ELSE "Sub"
      e == IF counts THEN X64Record([d EXCEPT !.c.flags.carry_in = X64Carry(m)], kind, a, 1, r, o.w)
           ELSE X64Record(d, kind, 0, a, r, o.w)
  IN  IF ~X64Ok(m, o) THEN MemoryFaultAt(m, i)
      ELSE X64Write(IF in.x = "Not" \/ dead THEN d ELSE Learned(e, kind, o.w), o, r)
\* emit_shift_inline: a zero count by immediate emits only the access check; by CL it is skipped at
\* run time, after which nothing is known.
X64Shift(m, in, dead, i) ==
  LET o == in.o0
      w == o.w
      byCl == in.o1.k # "Imm"
      n == MaskedCount(X64Value(m, in.o1))
      a == X64Value(m, o)
      r == ShiftResult(in.x, a, n, w)
      d == OperandLoads(m, o)
      e == X64Write(IF dead THEN d ELSE X64Record(d, in.x, a, n, r, w), o, r)
  IN  IF ~X64Ok(m, o) THEN MemoryFaultAt(m, i)
      ELSE IF byCl THEN Forgot(FlowMoved(IF n = 0 THEN d ELSE e))
      ELSE IF n = 0 THEN m
      ELSE IF dead THEN e ELSE Learned(e, in.x, w)
\* emit_alu_helper: x86p_alu on the registers in memory, for ADC, SBB and the rotates.
X64Helper(m, in, i) ==
  LET d == OperandLoads(OperandLoads(m, IF IsMem(in.o1) THEN in.o1 ELSE None), IF IsMem(in.o0) THEN in.o0 ELSE None)
      value(o) == IF o.k = "Reg" THEN ReadReg(m.c, o.r, o.w) ELSE X64Value(m, o)
      recorded(t) == FlowMoved([d EXCEPT !.c.flags = t.f])
      kept(t) == IF IsMem(in.o0) THEN [recorded(t) EXCEPT !.c = Store(@, X64Address(m, in.o0), in.o0.w, t.r)]
                 ELSE GprStore(recorded(t), in.o0.r, in.o0.w, t.r)
  IN  IF ~X64Ok(m, in.o0) \/ ~X64Ok(m, in.o1) THEN MemoryFaultAt(m, i)
      ELSE Learned(kept(Alu(in.x, value(in.o0), value(in.o1), in.o0.w, m.c.flags)),
                   IF in.x \in Rotates THEN Unknown ELSE "Explicit", 0)

\* emit_mul32, emit_imul_to_register: a helper, or the host multiply when the flags are dead.
X64Multiply(m, in, dead, i) ==
  LET o == in.o0
      w == o.w
      y == X64Value(m, o)
      left == IF in.n = 2 THEN y ELSE X64Value(m, in.o1)
      right == IF in.n = 2 THEN X64Value(m, in.o1) ELSE in.o2.v
      d == OperandLoads(m, IF in.n = 1 THEN o ELSE in.o1)
      e == IF in.n = 2 THEN OperandLoads(d, o) ELSE d
  IN  IF ~X64Ok(m, o) \/ (in.n > 1 /\ ~X64Ok(m, in.o1)) THEN MemoryFaultAt(m, i)
      ELSE IF in.n = 1 THEN FlowMoved([d EXCEPT !.c = MultiplyAccumulator(@, in.op, y, w)])
      ELSE IF dead THEN GprStore(e, o.r, w, Signed(left, w) * Signed(right, w))
      ELSE FlowMoved([e EXCEPT !.c = ImulToRegister(@, left, right, o.r, w)])
\* emit_div32: jit_div32 takes the dividend from memory; a refusal is the divide-error exit.
X64Divide(m, in, i) ==
  LET d == OperandLoads(m, in.o0)
      c == m.c
      t == IF in.op = "Div" THEN Div(c.reg[Edx], c.reg[Eax], X64Value(m, in.o0), 4)
           ELSE Idiv(c.reg[Edx], c.reg[Eax], X64Value(m, in.o0), 4)
  IN  IF ~X64Ok(m, in.o0) THEN MemoryFaultAt(m, i)
      ELSE IF ~t.ok THEN Exit(d, i - 1, "DivideError")
      ELSE FlowMoved([d EXCEPT !.c = [c EXCEPT !.reg[Eax] = t.q, !.reg[Edx] = t.r]])

\* emit_bit, emit_bit_scan, emit_double_shift: helpers on the operand's host address, in memory or in
\* the register file.
X64BitAddress(m, in) ==
  X64Address(m, in.o0) + (IF in.o1.k = "Reg" THEN (Signed(X64Value(m, in.o1), 4) \div Bits(4)) * 4 ELSE 0)
X64Bit(m, in, i) ==
  LET o == in.o0
      a == Trunc(X64BitAddress(m, in), 4)
      d == OperandLoads(OperandLoads(m, IF IsMem(o) THEN o ELSE None), in.o1)
  IN  IF IsMem(o) /\ ~InBounds(a, o.w) THEN MemoryFaultAt(m, i)
      ELSE FlowMoved([d EXCEPT !.c = CpuBit(@, o, a, in.x, X64Value(m, in.o1), o.w)])
X64Scan(m, in, i) ==
  IF ~X64Ok(m, in.o1) THEN MemoryFaultAt(m, i)
  ELSE FlowMoved([OperandLoads(m, in.o1) EXCEPT !.c = ScanInto(@, in.o0.r, X64Value(m, in.o1), in.op = "Bsr", in.o0.w)])
X64DoubleShift(m, in, i) ==
  LET o == in.o0
      d == OperandLoads(OperandLoads(m, IF IsMem(o) THEN o ELSE None), in.o1)
      left == in.op = "Shld"
      a == X64Address(m, o)
  IN  IF ~X64Ok(m, o) THEN MemoryFaultAt(m, i)
      ELSE FlowMoved([d EXCEPT !.c = CpuDoubleShift(@, o, a, left, X64Value(m, in.o1), X64Value(m, in.o2), 4)])
\* emit_exchange_rmw, emit_cmpxchg8b; a register destination is a slot of the register file.
RegXadd(c, r, s, w) ==
  LET added(t) == WriteReg(WriteReg(WithFlags(c, t.f), r, w, t.r), s, w, ReadReg(c, r, w))
  IN  added(Alu("Add", ReadReg(c, r, w), ReadReg(c, s, w), w, c.flags))
RegCmpxchg(c, r, s, w) ==
  LET acc == ReadReg(c, Eax, w)
      old == ReadReg(c, r, w)
      d == WithFlags(c, Alu("Cmp", acc, old, w, c.flags).f)
  IN  IF acc = old THEN WriteReg(d, r, w, ReadReg(c, s, w)) ELSE WriteReg(d, Eax, w, old)
X64Exchange(m, in, i) ==
  LET o == in.o0
      a == X64Address(m, o)
      s == in.o1.r
      c == CASE in.op = "Cmpxchg8b" -> Cmpxchg8b(m.c, a)
             [] in.op = "Xadd" -> IF IsMem(o) THEN Xadd(m.c, a, s, o.w) ELSE RegXadd(m.c, o.r, s, o.w)
             [] in.op = "Cmpxchg" -> IF IsMem(o) THEN Cmpxchg(m.c, a, s, o.w) ELSE RegCmpxchg(m.c, o.r, s, o.w)
  IN  IF IsMem(o) /\ ~InBounds(a, IF in.op = "Cmpxchg8b" THEN 8 ELSE o.w) THEN MemoryFaultAt(m, i)
      ELSE FlowMoved([OperandLoads(m, IF IsMem(o) THEN o ELSE None) EXCEPT !.c = c])

-----------------------------------------------------------------------------
(* jit_x64.c.                                                              *)

\* emit_push_rsi, emit_pop_rsi: ESP last, and before what a POP writes.
X64Push(m, v, i) ==
  LET d == GprLoaded(m, Esp)
      esp == Trunc(GprValue(m, Esp, 4) - 4, 4)
  IN  IF InBounds(esp, 4) THEN GprStore([d EXCEPT !.c = Store(@, esp, 4, v)], Esp, 4, esp) ELSE MemoryFaultAt(d, i)
X64Popped(m, i) ==
  LET d == GprLoaded(m, Esp)
      esp == GprValue(m, Esp, 4)
  IN  IF InBounds(esp, 4) THEN GprStore(d, Esp, 4, esp + 4) ELSE MemoryFaultAt(d, i)
X64Top(m) == Load(m.c, GprValue(m, Esp, 4), 4)

\* emit_mov, emit_movx.
X64Mov(m, in, i) ==
  LET d == OperandLoads(OperandLoads(m, IF IsMem(in.o0) THEN in.o0 ELSE None), in.o1)
  IN  IF X64Ok(m, in.o0) /\ X64Ok(m, in.o1) THEN X64Write(d, in.o0, X64Value(m, in.o1)) ELSE MemoryFaultAt(m, i)
X64Movx(m, in, i) ==
  LET v == X64Value(m, in.o1)
      d == OperandLoads(m, in.o1)
  IN  IF X64Ok(m, in.o1) THEN X64Write(d, in.o0, IF in.op = "Movsx" THEN SignExtend(v, in.o1.w, 4) ELSE v) ELSE MemoryFaultAt(m, i)
\* emit_lea.
X64Lea(m, in) == GprStore(OperandLoads(m, in.o1), in.o0.r, 4, X64Parts(m, in.o1))
\* emit_xchg32: memory first, as its address may use the register.
X64Xchg(m, in, i) ==
  LET o == in.o0
      s == in.o1
      e == OperandLoads(OperandLoads(m, s), o)
  IN  IF ~X64Ok(m, o) \/ ~X64Ok(m, s) THEN MemoryFaultAt(m, i)
      ELSE IF IsMem(s) THEN X64Write(X64Write(e, s, X64Value(m, o)), o, X64Value(m, s))
      ELSE X64Write(X64Write(e, o, X64Value(m, s)), s, X64Value(m, o))
\* emit_push, emit_pop: a POP to memory addresses it with the new ESP.
X64PushOperand(m, in, i) ==
  IF X64Ok(m, in.o0) THEN X64Push(OperandLoads(m, in.o0), SignExtend(X64Value(m, in.o0), in.o0.w, 4), i) ELSE MemoryFaultAt(m, i)
X64PopOperand(m, in, i) ==
  LET p == X64Popped(m, i)
      o == in.o0
  IN  IF ~p.in THEN p
      ELSE IF ~X64Ok(p, o) THEN MemoryFaultAt(p, i)
      ELSE X64Write(OperandLoads(p, IF IsMem(o) THEN o ELSE None), o, X64Top(m))

\* x86p_x64_emit_setcc, x86p_x64_emit_cmovcc: the condition before the access; a CMOV always stores.
X64Setcc(m, in, i) ==
  LET d == X64Judged(m, in.cc)
  IN  IF X64Ok(d, in.o0) THEN X64Write(OperandLoads(d, in.o0), in.o0, IF X64Cond(m, in.cc) THEN 1 ELSE 0) ELSE MemoryFaultAt(d, i)
X64Cmov(m, in, i) ==
  LET d == X64Judged(m, in.cc)
      e == OperandLoads(OperandLoads(d, in.o1), in.o0)
  IN  IF ~X64Ok(d, in.o1) THEN MemoryFaultAt(d, i)
      ELSE X64Write(e, in.o0, IF X64Cond(m, in.cc) THEN X64Value(d, in.o1) ELSE X64Value(d, in.o0))

\* emit_leave (ESP moves before the check), emit_cdq, emit_cwde, emit_bswap.
X64Frame(m, in, i) ==
  LET ebp == GprValue(m, Ebp, 4)
      d == GprStore(GprLoaded(m, Ebp), Esp, 4, ebp)
      eax == GprValue(m, Eax, 4)
  IN  CASE in.op = "Leave" ->
             IF ~InBounds(ebp, 4) THEN MemoryFaultAt(d, i)
             ELSE GprStore(GprStore(d, Esp, 4, ebp + 4), Ebp, 4, Load(m.c, ebp, 4))
        [] in.op = "Cdq" -> GprStore(GprLoaded(m, Eax), Edx, 4, Signed(eax, 4) \div Power(Bits(4) - 1))
        [] in.op = "Cwde" -> GprStore(GprLoaded(m, Eax), Eax, 4, SignExtend(eax, 2, 4))
        [] in.op = "Bswap" -> GprStore(GprLoaded(m, in.o0.r), in.o0.r, 4, Swapped(GprValue(m, in.o0.r, 4)))

\* emit_string, jit_string: a fault in the middle keeps what was done.
X64String(m, in, i) ==
  LET known(d) == IF in.x \in {"Scas", "Cmps"} THEN Forgot(d) ELSE d
  IN  known(Called(FlowMoved(m), StringExecute(m.c, in.x, in.rep, in.o0.w), i))
\* emit_pushfd, emit_popfd, emit_stack_all: calls, which forget every cached register.
X64Stack(m, in, i) ==
  LET p == X64Popped(m, i)
  IN  CASE in.op = "Pushfd" -> X64Push(FlowMoved(m), EflagsWord(m.c), i)
        [] in.op = "Popfd" -> IF ~p.in THEN p
                              ELSE Learned(FlowMoved([p EXCEPT !.c = SetEflags(@, X64Top(m))]), "Explicit", 0)
        [] in.op = "Pushad" -> Called(FlowMoved(m), PushAll(m.c), i)
        [] in.op = "Popad" -> Called(FlowMoved(m), PopAll(m.c), i)
\* emit_cpu_transfer, and the direction flag.
X64Transfer(m, in) ==
  CASE in.op = "Cld" -> [m EXCEPT !.c.df = 0]
    [] in.op = "Std" -> [m EXCEPT !.c.df = 1]
    [] in.op = "Sahf" -> Learned(FlowMoved([m EXCEPT !.c = Sahf(@)]), "Explicit", 0)
    [] in.op = "Lahf" -> FlowMoved([m EXCEPT !.c = Lahf(@)])

\* jit_x64_branch.c: what ends a block.  A CALL reads its target before it pushes.
X64Jump(m, in, i) ==
  IF X64Ok(m, in.o0) THEN Exit(m, X64Value(m, in.o0), "BlockEnd") ELSE MemoryFaultAt(m, i)
X64Jcc(m, in, i) == Exit(m, IF X64Cond(m, in.cc) THEN in.o0.v ELSE i, "BlockEnd")
X64Loop(m, in, i) ==
  Exit([m EXCEPT !.c = LoopCounted(@, in.aw)], IF LoopTaken(m.c, in.op, in.aw) THEN in.o0.v ELSE i, "BlockEnd")
X64Call(m, in, i) ==
  LET o == in.o0
      pushed == X64Push(IF o.k = "Imm" THEN m ELSE OperandLoads(m, o), i, i)
  IN  IF ~X64Ok(m, o) THEN MemoryFaultAt(m, i)
      ELSE IF pushed.in THEN Exit(pushed, X64Value(m, o), "BlockEnd") ELSE pushed
X64Ret(m, in, i) ==
  LET p == X64Popped(m, i)
      release == IF in.n = 1 THEN in.o0.v ELSE 0
  IN  IF p.in THEN Exit(GprStore(p, Esp, 4, GprValue(p, Esp, 4) + release), X64Top(m), "BlockEnd") ELSE p

\* can_emit.
X64Branches == {"Jmp", "Jcc", "Call", "Ret", "Loop", "Loope", "Loopne"}
X64CanEmit(in) ==
  LET o == in.o0
      s == in.o1
      w == o.w
  IN  /\ \A x \in {in.o0, in.o1, in.o2} : IsMem(x) => ~x.addr16
      /\ CASE in.op \in {"Shld", "Shrd", "Xchg", "Push", "Pop", "Div", "Idiv"} -> w = 4 \/ (in.op = "Push" /\ o.k = "Imm")
           [] in.op = "Bit" -> w \in {2, 4} /\ (s.k = "Imm" \/ o.k = "Reg" \/ w = 4)
           [] in.op \in {"Bsf", "Bsr", "Cmovcc"} -> w \in {2, 4}
           [] in.op \in {"Xadd", "Cmpxchg"} -> IsMem(o) \/ (w # 1 /\ o.r # s.r)
           [] in.op = "Imul" -> in.n = 1 \/ w \in {2, 4}
           [] in.op = "Lea" -> w = 4
           [] in.op = "String" -> RepDefined(in.x, in.rep)
           [] OTHER -> in.op \in X64Branches \cup {"Nop", "Cmpxchg8b", "Mov", "Movzx", "Movsx", "Setcc", "Alu", "Unary", "Mul",
                "Cld", "Std", "Sahf", "Lahf", "Pushfd", "Popfd", "Leave", "Pushad", "Popad", "Cdq", "Cwde", "Bswap"}

\* The terminators of x86p_jit_translate_bounded.
X64Ended(m, in, i) ==
  CASE in.op = "Jmp" -> X64Jump(m, in, i)
    [] in.op = "Jcc" -> X64Jcc(m, in, i)
    [] in.op = "Call" -> X64Call(m, in, i)
    [] in.op = "Ret" -> X64Ret(m, in, i)
    [] OTHER -> X64Loop(m, in, i)
\* The arms of x86p_jit_translate_bounded, with what each leaves known of the flags.
X64Emitted(m, in, dead, i) ==
  CASE in.op = "Nop" -> m
    [] in.op = "Alu" -> IF in.x \in Inlined THEN X64Alu(m, in, dead, i)
                        ELSE IF in.x \in ShiftOps THEN X64Shift(m, in, dead, i) ELSE X64Helper(m, in, i)
    [] in.op = "Unary" -> X64Unary(m, in, dead, i)
    [] in.op = "Mov" -> X64Mov(m, in, i)
    [] in.op \in {"Movzx", "Movsx"} -> X64Movx(m, in, i)
    [] in.op = "Lea" -> X64Lea(m, in)
    [] in.op = "Xchg" -> X64Xchg(m, in, i)
    [] in.op = "Push" -> X64PushOperand(m, in, i)
    [] in.op = "Pop" -> X64PopOperand(m, in, i)
    [] in.op = "Setcc" -> X64Setcc(m, in, i)
    [] in.op = "Cmovcc" -> X64Cmov(m, in, i)
    [] in.op \in {"Leave", "Cdq", "Cwde", "Bswap"} -> X64Frame(m, in, i)
    [] in.op \in {"Mul", "Imul"} -> Forgot(X64Multiply(m, in, dead, i))
    [] in.op \in {"Div", "Idiv"} -> X64Divide(m, in, i)
    [] in.op = "Bit" -> Forgot(X64Bit(m, in, i))
    [] in.op \in {"Bsf", "Bsr"} -> Forgot(X64Scan(m, in, i))
    [] in.op \in {"Shld", "Shrd"} -> Forgot(X64DoubleShift(m, in, i))
    [] in.op \in {"Xadd", "Cmpxchg"} -> Learned(X64Exchange(m, in, i), IF in.op = "Xadd" THEN "Add" ELSE "Sub", in.o0.w)
    [] in.op = "Cmpxchg8b" -> Forgot(X64Exchange(m, in, i))
    [] in.op = "String" -> X64String(m, in, i)
    [] in.op \in {"Pushfd", "Popfd", "Pushad", "Popad"} -> X64Stack(m, in, i)
    [] in.op \in {"Cld", "Std", "Sahf", "Lahf"} -> X64Transfer(m, in)
    [] in.op \in X64Branches -> X64Ended(m, in, i)

X64Emits(prog) == {j \in DOMAIN prog : X64CanEmit(prog[j])}
\* One instruction of the block.
X64Step(m, prog) ==
  LET i == m.n + 1
      emits == X64Emits(prog)
  IN  IF m.in THEN Continue(X64Emitted(m, prog[i], WriteIsDead(prog, i, emits), i), prog, emits) ELSE m
\* A block whose first instruction it cannot emit is refused.
X64Enter(c, prog) == IF 1 \in X64Emits(prog) THEN Entered(c) ELSE [Entered(c) EXCEPT !.in = FALSE, !.exit = "UnsupportedAtEntry"]
=============================================================================
