------------------------------- MODULE X87Wasm --------------------------------
(***************************************************************************)
(* The WebAssembly backend's x87 code (jit_wasm_x87.c and its _load,       *)
(* _store, _arith, _compare and _slot parts).  Loads, stores, arithmetic   *)
(* and comparisons with memory have inline forms that a refusal hands,     *)
(* from an untouched state, to the helpers; the rest calls them.           *)
(***************************************************************************)
EXTENDS X87Block

\* x86p_wasm_x87_accepts.
WasmAccepts(in) == X87Emittable(in) \/ in.x \in {"Init", "Free", "Cmov"}

\* slot_index, slot_pop, slot_retire: no tag is asked.
SlotPop(f) == [f EXCEPT !.full = @ \ {f.top}, !.top = (@ + 1) % Regs]
SlotPops(f, n) == CASE n = 0 -> f [] n = 1 -> SlotPop(f) [] n = 2 -> SlotPop(SlotPop(f))
\* operand_refusal, refuse_unordinary: an infinity, a NaN or a subnormal of the operand's format,
\* whose smallest magnitude stands for the subnormals.
Unordinary(v, w) == ~Finite(v) \/ v.m = StepOf(w)

\* x86p_wasm_x87_load_inline.
PushWidened(f, v) ==
  LET p == Phys(f, Regs - 1) IN [f EXCEPT !.reg[p] = v, !.top = p, !.full = @ \cup {p}]
WasmLoadMem(f, in, v) ==
  LET refused == Unordinary(v, in.o0.w) \/ Occupied(f, Regs - 1)
  IN  IF in.int \/ in.pops # 0 \/ refused THEN HelperLoadBits(f, v, in.pops) ELSE PushWidened(f, v)

\* x86p_jit_x87_store_at: empty, then the conversion, then the permission the caller found.
HelperStoreAt(c, in) ==
  LET v == Read(c.f, 0)
      d == Fpu(c, Converted(c.f, in, v))
  IN  CASE ~Occupied(c.f, 0) -> c
        [] Occupied(c.f, 0) /\ ~CanAccess(c, in.o0) -> Fault(d)
        [] OTHER -> Fpu([d EXCEPT !.mem[in.o0.a] = Datum(c.f, in, v)], Pops(d.f, in.pops))
\* classify, round_to_nearest: what the emitted rounding takes, a carry out of it included.
StoreClassified(f, v, w) == f.control.rc = Nearest /\ Finite(v) /\ v.m >= StepOf(w)
CarriesOut(v, w) == ~Finite(NarrowNearest(v, w))
\* locate_top, zero_and_permitted: an empty register joins the missing permission.
TopLocated(c, in) == CanAccess(c, in.o0) /\ Occupied(c.f, 0)
ZeroAndPermitted(c, in) == TopLocated(c, in) /\ IsZero(Read(c.f, 0))
\* x86p_wasm_x87_store_inline: a zero is stored whatever the rounding; the missing permission and the
\* empty register are both refusals, and the helper says which.
WasmStoreMem(c, in) ==
  LET v == Read(c.f, 0)
      emitted == ~in.int /\ in.pops <= 1
      stored(datum) == Fpu([c EXCEPT !.mem[in.o0.a] = datum], SlotPops(c.f, in.pops))
  IN  CASE emitted /\ ZeroAndPermitted(c, in) -> stored(v)
        [] /\ emitted /\ TopLocated(c, in) /\ ~ZeroAndPermitted(c, in)
           /\ StoreClassified(c.f, v, in.o0.w) /\ ~CarriesOut(v, in.o0.w) -> stored(NarrowNearest(v, in.o0.w))
        [] OTHER -> HelperStoreAt(c, in)

\* gate, narrow_register: the same range as the ARM64 code takes.
WasmGate(f) == f.double /\ f.census < 0 /\ DoubleControl(f.control)
WasmNarrows(f, i) == Occupied(f, i) /\ (IsZero(Read(f, i)) \/ Read(f, i).m \in 2 * StepOf(8) .. TopMag - StepOf(8))
\* x86p_wasm_x87_arith_begin, arith_end.
WasmArith(f, in, v) ==
  LET memory == IsCell(in.o0)
      src == IF memory THEN v ELSE Read(f, ArithSrc(in))
      a == Read(f, ArithDst(in))
      d == DoubleResult(in.op, IF in.rev THEN src ELSE a, IF in.rev THEN a ELSE src)
      takes == /\ WasmGate(f)
               /\ IF memory THEN ~in.int /\ ~Unordinary(v, in.o0.w) ELSE WasmNarrows(f, ArithSrc(in))
               /\ WasmNarrows(f, ArithDst(in))
  IN  CASE takes /\ ~Unordinary(d, 8) -> SlotPops([f EXCEPT !.reg[Phys(f, ArithDst(in))] = d], in.pops)
        [] OTHER -> IF memory THEN HelperArithMem(f, in, v) ELSE HelperArithReg(f, in)

\* compare_ordered: by the signs where they differ and one is no zero, by magnitudes otherwise.
SignsDiffer(x, y) == x.s # y.s
SignsDecide(x, y) == x.s # y.s /\ (x.m # 0 \/ y.m # 0)
OrderedStatus(x, y) ==
  LET below == x.m < y.m
      above == x.m > y.m
      less == IF SignsDecide(x, y) THEN x.s ELSE IF x.s THEN above ELSE below
      more == IF SignsDecide(x, y) THEN ~x.s ELSE IF x.s THEN below ELSE above
  IN  (IF less THEN {"C0"} ELSE {}) \cup (IF less \/ more THEN {} ELSE {"C3"})
TopRefused(f) == ~Occupied(f, 0) \/ ~Finite(Read(f, 0))
WasmCompareMem(f, in, v) ==
  LET top == Read(f, 0)
      refused == Unordinary(v, in.o0.w) \/ TopRefused(f)
  IN  IF in.int \/ in.pops > 1 \/ refused THEN HelperCompareMem(f, v, in.pops)
      ELSE SlotPops([f EXCEPT !.status = (@ \ C0123) \cup OrderedStatus(top, v)], in.pops)

\* x86p_wasm_x87_lower: a memory operand is guarded first, a store's is judged by its own code.
WasmMemory(c, in) ==
  LET v == OperandValue(c, in)
  IN  CASE in.x = "Store" -> WasmStoreMem(c, in)
        [] in.x # "Store" /\ ~CanAccess(c, in.o0) -> Fault(c)
        [] in.x # "Store" /\ CanAccess(c, in.o0) ->
             CASE in.x = "Load" -> Fpu(c, WasmLoadMem(c.f, in, v))
               [] in.x = "Arith" -> Fpu(c, WasmArith(c.f, in, v))
               [] in.x = "Compare" -> Fpu(c, WasmCompareMem(c.f, in, v))
               [] OTHER -> ExecControl(c, in)
WasmX87(c, in) ==
  LET f == c.f
  IN  CASE IsCell(in.o0) -> WasmMemory(c, in)
        [] ~IsCell(in.o0) ->
             CASE in.x = "Load" -> Fpu(c, HelperCopy(f, in.o0.i, 0, TRUE, 0))
               [] in.x = "Store" -> Fpu(c, HelperCopy(f, 0, in.o0.i, FALSE, in.pops))
               [] in.x = "Arith" -> Fpu(c, WasmArith(f, in, V(FALSE, 0)))
               [] RegisterEmittable(in) -> Fpu(c, HelperRegister(f, in))
               [] in.x = "CompareInt" -> CompareFlagsPop(c, IndexOf(in), in.pops)
               [] in.x = "Cmov" -> IF CondHolds(c, in) THEN Fpu(c, HelperCopy(f, in.o1.i, 0, FALSE, 0)) ELSE c
               [] StatusAxEmittable(in) -> ExecControl(c, in)
               [] in.x = "Free" -> Fpu(c, Free(f, in.o0.i))
               [] in.x = "ClearExc" -> Fpu(c, ClearExceptions(f))
               [] in.x = "Init" -> Fpu(c, Reset(f))
               [] in.x = "Wait" -> c
               [] in.x = "Fn" -> Fpu(c, ApplyFn(f, in.fn))
               [] ConstantEmittable(in) -> Fpu(c, PushConstant(f, in.x))

WasmEmits(in) == IsX87(in) => WasmAccepts(in)
WasmEnter(c) == [c |-> c, in |-> TRUE, n |-> 0, exit |-> "None"]
WasmStep(m, prog) ==
  LET in == prog[m.n + 1]
  IN  CASE ~m.in -> m
        [] m.in /\ ~WasmEmits(in) -> [Left(m, m.c, "Unsupported") EXCEPT !.n = m.n]
        [] OTHER -> Continued(m, IF IsX87(in) THEN WasmX87(m.c, in) ELSE ExecOther(m.c, in), prog)
=============================================================================
