--------------------------------- MODULE Cpu ---------------------------------
(***************************************************************************)
(* The guest CPU and its contiguous memory (cpu.c, memory.c, stack_ops.c,  *)
(* string_ops.c): the state every executor works on and the helpers they   *)
(* all call.  A state has the registers, the bytes of the mapped window,   *)
(* the flag record, DF, CS, EIP, the EIP that follows (next) and the       *)
(* status of the last instruction.                                         *)
(***************************************************************************)
EXTENDS Alu

CONSTANTS Lo, Size     \* the mapped window is [Lo, Lo + Size)

ASSUME WindowAssumption == Lo \in Nat /\ Size \in Nat /\ Lo + Size < Power(Bits(4))

Eax == 0
Ecx == 1
Edx == 2
Ebx == 3
Esp == 4
Ebp == 5
Esi == 6
Edi == 7

Window == Lo .. Lo + Size - 1

\* x86p_reg_read, x86p_reg_write: the byte registers 4 to 7 are the second bytes of 0 to 3, and a
\* narrow write keeps the rest of the register.
ReadReg(c, r, w) == IF w = 1 THEN ByteOf(c.reg[r % 4], r \div 4) ELSE Trunc(c.reg[r], w)
WriteReg(c, r, w, v) ==
  IF w = 1 THEN [c EXCEPT !.reg[r % 4] = WithField(@, r \div 4, 1, v)]
  ELSE [c EXCEPT !.reg[r] = WithField(@, 0, w, v)]

\* x86p_mem_accessible, without a permission table: all of the bytes are mapped, and the range
\* does not wrap.
Accessible(a, n) == n > 0 /\ a >= Lo /\ a + n <= Lo + Size
Load(c, a, w) ==
  LET value[i \in 0 .. w] == IF i = 0 THEN 0 ELSE value[i - 1] + c.mem[a + i - 1] * Power((i - 1) * ByteBits)
  IN  value[w]
Store(c, a, w, v) ==
  [c EXCEPT !.mem = [x \in Window |-> IF x \in a .. a + w - 1 THEN ByteOf(v, x - a) ELSE c.mem[x]]]

Stopped(c, status) == [c EXCEPT !.st = status]
Fault(c) == Stopped(c, "MemoryFault")

Reg(r, w) == [k |-> "Reg", r |-> r, w |-> w]
Imm(v, w) == [k |-> "Imm", v |-> v, w |-> w]
\* A memory operand; -1 is no register, fs a segment override that adds the FS base.
Mem(base, index, scale, disp, w) ==
  [k |-> "Mem", base |-> base, index |-> index, scale |-> scale, disp |-> disp, w |-> w, addr16 |-> FALSE, fs |-> FALSE]
None == [k |-> "None", w |-> 4]

\* effective_address: wrapped, then cut to 16 bits, then the segment base.
Address(c, o) ==
  LET base == IF o.base < 0 THEN 0 ELSE c.reg[o.base]
      index == IF o.index < 0 THEN 0 ELSE c.reg[o.index] * o.scale
      offset == Trunc(base + index + o.disp, IF o.addr16 THEN 2 ELSE 4)
  IN  Trunc(offset + (IF o.fs THEN c.fs_base ELSE 0), 4)

\* x86p_push32, x86p_pop32: ESP moves only once the access succeeded.
Push32(c, v) ==
  LET esp == Trunc(c.reg[Esp] - 4, 4)
  IN  IF Accessible(esp, 4) THEN [Store(c, esp, 4, v) EXCEPT !.reg[Esp] = esp] ELSE Fault(c)
CanPop(c) == Accessible(c.reg[Esp], 4)
Popped(c) == Load(c, c.reg[Esp], 4)
AfterPop(c) == [c EXCEPT !.reg[Esp] = Trunc(@ + 4, 4)]

\* x86p_stack_pushad, x86p_stack_popad: the pushes before a fault stay; POPAD drops ESP's slot.
PushAll(c) ==
  LET after[i \in 0 .. 8] ==
        IF i = 0 THEN c
        ELSE IF after[i - 1].st # "Ok" THEN after[i - 1]
        ELSE Push32(after[i - 1], c.reg[i - 1])
  IN  after[8]
PopAll(c) ==
  LET after[i \in 0 .. 8] ==
        IF i = 0 THEN c
        ELSE LET d == after[i - 1]
                 r == 8 - i
             IN  IF d.st # "Ok" THEN d
                 ELSE IF ~CanPop(d) THEN Fault(d)
                 ELSE IF r = Esp THEN AfterPop(d)
                 ELSE [AfterPop(d) EXCEPT !.reg[r] = Popped(d)]
  IN  after[8]

\* x86p_stack_enter: the old frame pointers are copied one by one, EBP moving with them.
Enter(c, allocation, depth) ==
  LET level == depth % 32
      first == Push32(c, c.reg[Ebp])
      frame == first.reg[Esp]
      copied[i \in 0 .. level] ==
        IF i <= 1 THEN first
        ELSE LET d == copied[i - 1]
                 e == [d EXCEPT !.reg[Ebp] = Trunc(@ - 4, 4)]
             IN  IF d.st # "Ok" THEN d
                 ELSE IF ~Accessible(e.reg[Ebp], 4) THEN Fault(e)
                 ELSE Push32(e, Load(e, e.reg[Ebp], 4))
      linked == IF level = 0 \/ copied[level].st # "Ok" THEN copied[level] ELSE Push32(copied[level], frame)
  IN  IF linked.st # "Ok" THEN linked
      ELSE [linked EXCEPT !.reg[Ebp] = frame, !.reg[Esp] = Trunc(@ - Trunc(allocation, 2), 4)]

-----------------------------------------------------------------------------
(* Flags.                                                                  *)

Position == [CF |-> 0, PF |-> 2, AF |-> 4, ZF |-> 6, SF |-> 7, DF |-> 10, OF |-> 11]
Explicitly(c, e) == [c EXCEPT !.flags = SetExplicit(e)]
\* x86p_cpu_eflags, x86p_cpu_set_eflags: the word PUSHFD stores and POPFD reads.
EflagsWord(c) ==
  LET e == Eflags(c.flags) \cup (IF c.df = 1 THEN {"DF"} ELSE {})
      sum[s \in SUBSET DOMAIN Position] ==
        IF s = {} THEN 0 ELSE LET x == CHOOSE x \in s : TRUE IN Power(Position[x]) + sum[s \ {x}]
  IN  sum[e]
SetEflags(c, v) ==
  [Explicitly(c, {x \in ArithFlags : Bit(v, Position[x]) = 1}) EXCEPT !.df = Bit(v, Position["DF"])]

\* x86p_cpu_sahf, x86p_cpu_lahf: AH and the low byte of the flags; SAHF keeps OF, and LAHF always
\* sets the reserved bit 1.
LowFlags == {"CF", "PF", "AF", "ZF", "SF"}
Sahf(c) ==
  LET ah == ReadReg(c, 4, 1)
  IN  Explicitly(c, (Eflags(c.flags) \cap {"OF"}) \cup {x \in LowFlags : Bit(ah, Position[x]) = 1})
Lahf(c) ==
  LET low == [x \in LowFlags |-> IF x \in Eflags(c.flags) THEN Power(Position[x]) ELSE 0]
  IN  WriteReg(c, 4, 1, 2 + low["CF"] + low["PF"] + low["AF"] + low["ZF"] + low["SF"])
\* STC, CLC and CMC.
CarrySet(c, op) ==
  LET e == Eflags(c.flags)
      on == op = "Stc" \/ (op = "Cmc" /\ "CF" \notin e)
  IN  Explicitly(c, IF on THEN e \cup {"CF"} ELSE e \ {"CF"})

\* x86p_cpu_bit_scan.
ScanInto(c, r, source, reverse, w) ==
  LET t == BitScan(reverse, source, w, ReadReg(c, r, w), Eflags(c.flags))
  IN  Explicitly(WriteReg(c, r, w, t.r), t.e)

\* x86p_cpu_xadd, x86p_cpu_cmpxchg, x86p_cpu_cmpxchg8b on memory: one host atomic, then the flags
\* and the registers.
Xadd(c, a, r, w) ==
  LET added(sum) == WriteReg([Store(c, a, w, sum.r) EXCEPT !.flags = sum.f], r, w, Load(c, a, w))
  IN  added(Alu("Add", Load(c, a, w), ReadReg(c, r, w), w, c.flags))
Cmpxchg(c, a, r, w) ==
  LET acc == ReadReg(c, Eax, w)
      old == Load(c, a, w)
      flags == Alu("Cmp", acc, old, w, c.flags).f
  IN  IF acc = old THEN [Store(c, a, w, ReadReg(c, r, w)) EXCEPT !.flags = flags]
      ELSE WriteReg([c EXCEPT !.flags = flags], Eax, w, old)
Cmpxchg8b(c, a) ==
  LET lo == Load(c, a, 4)
      hi == Load(c, a + 4, 4)
      e == Eflags(c.flags)
  IN  IF c.reg[Eax] = lo /\ c.reg[Edx] = hi
      THEN Explicitly(Store(Store(c, a, 4, c.reg[Ebx]), a + 4, 4, c.reg[Ecx]), e \cup {"ZF"})
      ELSE Explicitly([c EXCEPT !.reg[Eax] = lo, !.reg[Edx] = hi], e \ {"ZF"})

\* x86p_cpu_loop: the count register of the address width, then the test it decides.
LoopCounted(c, aw) == WriteReg(c, Ecx, aw \div 8, ReadReg(c, Ecx, aw \div 8) - 1)
LoopTaken(c, op, aw) ==
  /\ ReadReg(LoopCounted(c, aw), Ecx, aw \div 8) # 0
  /\ op = "Loope" => ZF(c.flags)
  /\ op = "Loopne" => ~ZF(c.flags)

-----------------------------------------------------------------------------
(* String instructions.                                                    *)

RepDefined(op, rep) == rep = "None" \/ op \in {"Scas", "Cmps"} \/ rep = "Rep"

\* step_once: both accesses succeed before a register moves.
StringOnce(c, op, w) ==
  LET si == c.reg[Esi]
      di == c.reg[Edi]
      delta == IF c.df = 1 THEN -w ELSE w
      reads == IF op \in {"Movs", "Lods", "Cmps"} THEN Accessible(si, w) ELSE TRUE
      touches == IF op = "Lods" THEN TRUE ELSE Accessible(di, w)
      done == CASE op = "Movs" -> Store(c, di, w, Load(c, si, w))
                [] op = "Stos" -> Store(c, di, w, ReadReg(c, Eax, w))
                [] op = "Lods" -> WriteReg(c, Eax, w, Load(c, si, w))
                [] op = "Scas" -> [c EXCEPT !.flags = Alu("Cmp", ReadReg(c, Eax, w), Load(c, di, w), w, c.flags).f]
                [] op = "Cmps" -> [c EXCEPT !.flags = Alu("Cmp", Load(c, si, w), Load(c, di, w), w, c.flags).f]
  IN  IF ~reads \/ ~touches THEN Fault(c)
      ELSE [done EXCEPT !.reg[Esi] = IF op \in {"Movs", "Lods", "Cmps"} THEN Trunc(@ + delta, 4) ELSE @,
                        !.reg[Edi] = IF op # "Lods" THEN Trunc(@ + delta, 4) ELSE @]

\* x86p_mem_copy_disjoint and x86p_mem_fill: the whole of a forward REP MOVS or STOS at once.
Bulk(c, op, w) ==
  LET n == c.reg[Ecx] * w
      si == c.reg[Esi]
      di == c.reg[Edi]
  IN  /\ c.df = 0 /\ n < Power(Bits(4)) /\ Accessible(di, n)
      /\ \/ op = "Stos"
         \/ op = "Movs" /\ Accessible(si, n) /\ ~(si < di + n /\ di < si + n)
AfterBulk(c, op, w) ==
  LET n == c.reg[Ecx] * w
      si == c.reg[Esi]
      di == c.reg[Edi]
      byte(x) == IF op = "Stos" THEN ByteOf(c.reg[Eax], (x - di) % w) ELSE c.mem[si + (x - di)]
  IN  [c EXCEPT !.mem = [x \in Window |-> IF x \in di .. di + n - 1 THEN byte(x) ELSE c.mem[x]],
                !.reg[Esi] = IF op = "Movs" THEN Trunc(@ + n, 4) ELSE @,
                !.reg[Edi] = Trunc(@ + n, 4),
                !.reg[Ecx] = 0]

\* The repeated form element by element: ECX counts the elements done, so that a fault in the
\* middle can be resumed.  A window of Size bytes is left after at most Size elements.
Repeated(c, op, rep, w) ==
  LET ended(d) == \/ d.st # "Ok" \/ d.reg[Ecx] = 0
                  \/ d.reg[Ecx] # c.reg[Ecx] /\ op \in {"Scas", "Cmps"} /\ ZF(d.flags) # (rep = "Rep")
      counted(d) == IF d.st = "Ok" THEN [d EXCEPT !.reg[Ecx] = @ - 1] ELSE d
      after[i \in 0 .. Size + 1] ==
        IF i = 0 THEN c ELSE IF ended(after[i - 1]) THEN after[i - 1]
        ELSE counted(StringOnce(after[i - 1], op, w))
  IN  after[Size + 1]

\* x86p_string_execute.
StringExecute(c, op, rep, w) ==
  IF ~RepDefined(op, rep) THEN Stopped(c, "Unsupported")
  ELSE IF rep = "None" THEN StringOnce(c, op, w)
  ELSE IF op \in {"Movs", "Stos"} /\ Bulk(c, op, w) THEN AfterBulk(c, op, w)
  ELSE Repeated(c, op, rep, w)
=============================================================================
