-------------------------------- MODULE Block --------------------------------
(***************************************************************************)
(* What the three backends share: a translated block in execution, and the *)
(* flag-liveness scan (jit_flag_liveness.c).  A block is straight-line, so *)
(* the translator's own state at an instruction (which flag kind the block *)
(* last recorded, what a host register holds) is kept beside the guest     *)
(* state the emitted code has reached; the two advance together.           *)
(***************************************************************************)
EXTENDS Interp, Sequences

CONSTANT MaxInsns      \* the longest block (MAX_INSNS)

ASSUME InsnsAssumption == MaxInsns \in Nat

Unknown == "?"

\* Which host registers hold the words of the flag record: none.
NothingHeld == [a |-> -1, b |-> -1, r |-> -1]
\* A block about to run on state c, its translator knowing nothing of the flags.  slots, live and
\* host are the x64 register cache and word its proven flag word; held are the ARM64 registers the
\* previous instruction left the record in, made the ones this instruction does.
Entered(c) ==
  [c |-> c, n |-> 0, in |-> TRUE, exit |-> "none", last |-> Unknown, lw |-> 0,
   slots |-> <<>>, live |-> {}, host |-> [r \in 0 .. 7 |-> 0], word |-> <<Unknown, 0>>, held |-> NothingHeld, made |-> NothingHeld]

\* Leaving the block: at EIP, with an exit the dispatcher reads.
Exit(m, eip, kind) == [m EXCEPT !.in = FALSE, !.exit = kind, !.c.eip = Trunc(eip, 4)]
\* The fault stub stores the faulting instruction's own EIP; instruction i is at EIP i - 1.
MemoryFaultAt(m, i) == Exit(m, i - 1, "MemoryFault")
\* A helper's verdict: its state is kept, and a status that is not Ok leaves the block.
Called(m, c, i) ==
  LET d == [m EXCEPT !.c = [c EXCEPT !.st = "Ok"]]
  IN  IF c.st = "Ok" THEN d ELSE Exit(d, i - 1, c.st)
Learned(m, kind, w) == [m EXCEPT !.last = kind, !.lw = w]
Forgot(m) == Learned(m, Unknown, 0)

\* The record an inline emitter stores: the carry-in byte is left alone.
Stored(f, kind, a, b, r, w) == [f EXCEPT !.kind = kind, !.a = a, !.b = b, !.r = r, !.w = w, !.word = {}]

\* The kinds of flags the inline ALU forms record, and their results.
InlineKind(op) ==
  CASE op = "Add" -> "Add" [] op \in {"Sub", "Cmp"} -> "Sub" [] op \in {"Or", "And", "Test", "Xor"} -> "Logic"
Inlined == {"Add", "Sub", "Cmp", "Or", "And", "Test", "Xor"}
AluResult(op, a, b, w) == Alu(op, a, b, w, NoFlags).r
UnaryResult(op, a, w) == AluUnary(op, a, w, NoFlags).r
Compares == {"Cmp", "Test"}

-----------------------------------------------------------------------------
(* Host flags after a comparison, an addition or a test of operands of     *)
(* width w, as a set.                                                      *)
HostSub(a, b, w) ==
  LET s == Signed(a, w) - Signed(b, w)
  IN  {x \in {"CF", "ZF", "SF", "OF"} :
         CASE x = "CF" -> a < b [] x = "ZF" -> a = b [] x = "SF" -> Msb((a - b) % Power(Bits(w)), w) = 1
           [] x = "OF" -> s # Signed(s % Power(Bits(w)), w)}
HostAdd(a, b, w) ==
  LET s == Signed(a, w) + Signed(b, w)
      r == Trunc(a + b, w)
  IN  {x \in {"CF", "ZF", "SF", "OF"} :
         CASE x = "CF" -> r # a + b [] x = "ZF" -> r = 0 [] x = "SF" -> Msb(r, w) = 1
           [] x = "OF" -> s # Signed(r, w)}
HostTest(r, w) == {x \in {"ZF", "SF"} : CASE x = "ZF" -> Trunc(r, w) = 0 [] x = "SF" -> Msb(r, w) = 1}

\* A condition lowered to host instructions on the record's words, at the width the block knows.
ResultKinds == {"Inc", "Dec", "Shl", "Shr", "Sar"}
InlineCond(cc, lowering, a, b, r, w) ==
  CASE lowering = "False" -> FALSE
    [] lowering = "True" -> TRUE
    [] lowering = "Parity" -> EvenParity(r) = (cc = "P")
    [] lowering = "Sub" -> CondEflags(cc, HostSub(Trunc(a, w), Trunc(b, w), w))
    [] lowering = "Add" -> CondEflags(cc, HostAdd(Trunc(a, w), Trunc(b, w), w))
    [] lowering = "Result" -> CondEflags(cc, HostTest(r, w))

-----------------------------------------------------------------------------
(* Helpers the emitted code calls, and its bounds check.                   *)

\* The offset into the mapping, wrapped, against the last one that fits.
InBounds(a, w) == Size >= w /\ Trunc(a - Lo, 4) <= Size - w
\* x86p_multiply_accumulator, x86p_imul_to_register.
MultiplyAccumulator(c, op, v, w) ==
  LET x == ReadReg(c, Eax, w)
      t == IF op = "Mul" THEN Mul(x, v, w, c.flags) ELSE Imul(x, v, w, c.flags)
  IN  PairStore(WithFlags(c, t.f), w, t.lo, t.hi)
ImulToRegister(c, left, right, r, w) ==
  LET p == Imul(left, right, w, c.flags) IN WriteReg(WithFlags(c, p.f), r, w, p.lo)
\* x86p_cpu_double_shift32 and x86p_cpu_bit, on the operand at address a or in register r.
Slot(c, o, a, w) == IF o.k = "Mem" THEN Load(c, a, w) ELSE ReadReg(c, o.r, w)
SlotStore(c, o, a, w, v) == IF o.k = "Mem" THEN Store(c, a, w, v) ELSE WriteReg(c, o.r, w, v)
CpuDoubleShift(c, o, a, left, source, count, w) ==
  LET t == DoubleShift(left, Slot(c, o, a, w), source, count, w, Eflags(c.flags))
  IN  IF t.wrote THEN Explicitly(SlotStore(c, o, a, w, t.r), t.e) ELSE c
CpuBit(c, o, a, op, index, w) ==
  LET t == BitApply(op, Slot(c, o, a, w), index % Bits(w), Eflags(c.flags))
  IN  Explicitly(IF op = "Bt" THEN c ELSE SlotStore(c, o, a, w, t.r), t.e)

-----------------------------------------------------------------------------
(* Which flag writes nobody can see.                                       *)

IsMem(o) == o.k = "Mem"
\* An instruction that rewrites every flag and cannot fault: a killer.
Kills(in) ==
  \/ /\ in.op = "Alu" /\ ~IsMem(in.o0) /\ ~IsMem(in.o1)
     /\ in.x \in Inlined \/ (in.x \in ShiftOps /\ in.o1.k = "Imm" /\ MaskedCount(in.o1.v) # 0)
  \/ in.op = "Unary" /\ in.x = "Neg" /\ ~IsMem(in.o0)
\* One that neither reads nor writes a flag, and cannot fault.
Transparent(in) ==
  \/ in.op = "Unary" /\ in.x = "Not" /\ ~IsMem(in.o0)
  \/ in.op \in {"Nop", "Lea"}
  \/ in.op = "Mov" /\ in.o0.k = "Reg" /\ ~IsMem(in.o1)

\* The guest code ends in an interception point, which ends the block too.
Boundary(prog, j) == j > Len(prog)
DeadAcrossBoundary(prog, i, emits) ==
  \/ i = Len(prog)
  \/ \E j \in i + 1 .. i + 8 :
       /\ \A k \in i + 1 .. j : ~Boundary(prog, k) /\ k \in emits
       /\ Kills(prog[j])
       /\ \A k \in i + 1 .. j - 1 : Transparent(prog[k])
\* x86p_jit_flag_write_is_dead, for the flags instruction i writes: the block goes on to a killer
\* through nothing but transparent instructions.  emits is the positions the backend can emit.
WriteIsDead(prog, i, emits) ==
  \E j \in i + 1 .. i + 8 :
    /\ \A k \in i + 1 .. j : k <= MaxInsns /\ ~Boundary(prog, k) /\ k \in emits
    /\ Kills(prog[j])
    /\ \A k \in i + 1 .. j - 1 : Transparent(prog[k])

\* After an instruction that did not end it the block goes on, or stops where the translator did:
\* at its longest, at an interception point, or before what it cannot emit.
Continue(m, prog, emits) ==
  LET next == m.n + 2
      d == [m EXCEPT !.n = @ + 1]
  IN  IF ~m.in THEN d
      ELSE IF d.n >= MaxInsns \/ Boundary(prog, next) THEN Exit(d, d.n, "BlockEnd")
      ELSE IF next \notin emits THEN Exit(d, d.n, "Unsupported")
      ELSE d
=============================================================================
