-------------------------------- MODULE X87X64 --------------------------------
(***************************************************************************)
(* The x64 backend's x87 code (jit_x64_x87.c, jit_x64_x87_inline.c).  The  *)
(* top of the guest stack is mirrored on the host's: host is the host      *)
(* stack, dirty the entries that differ from their slot, depth how many    *)
(* there are.  TOP and the tags are also in two host registers.  depth,    *)
(* dirty and live are the translator's; host, topReg and fullReg are what  *)
(* the code holds when it runs.                                            *)
(***************************************************************************)
EXTENDS X87Block

MirrorMax == Regs - 1
HostControl == InitControl     \* x87_inline_host_control: what the host runs with

-----------------------------------------------------------------------------
(* The host stack.  A push onto a full one loses the value.                *)

HostPush(h, v) == IF Len(h) = Regs THEN <<Indefinite>> \o Tail(h) ELSE <<v>> \o h
\* emit_regs_sync, the loader: TOP, tags and the slots from memory.
RegsSync(m) ==
  [m EXCEPT !.topReg = m.c.f.top, !.fullReg = {i \in 0 .. Regs - 1 : Occupied(m.c.f, i)}, !.live = TRUE]
RegsEnsure(m) == IF m.live THEN m ELSE RegsSync(m)
Slot(m, i) == (m.topReg + i) % Regs
MirrorLoad(m, depth) ==
  [m EXCEPT !.depth = depth, !.dirty = {}, !.host = <<>> \o [k \in 1 .. depth |-> m.c.f.reg[Slot(m, k - 1)]]]
\* store_pop: host entry i to the slot of guest index j.
StoredTo(m, i, j) == [m EXCEPT !.c.f.reg[Slot(m, j)] = m.host[i + 1]]
StoreEntries(m, entries) ==
  [m EXCEPT !.c.f.reg = [p \in DOMAIN @ |->
     IF \E i \in entries : Slot(m, i) = p THEN m.host[(CHOOSE i \in entries : Slot(m, i) = p) + 1] ELSE @[p]]]
Emptied(m) == [m EXCEPT !.host = <<>>, !.depth = 0, !.dirty = {}]
\* x87_cache_flush, write_back: the dirty entries; the spill routine: all of them.
Flush(m) == Emptied(StoreEntries(m, m.dirty))
Spill(m) == Emptied(StoreEntries(m, 0 .. Len(m.host) - 1))
MirrorEnsure(m, depth) == IF m.depth >= depth THEN m ELSE MirrorLoad(Flush(m), depth)
MirrorDirty(m, i) == [m EXCEPT !.dirty = @ \cup {i}]

\* mirror_make_room: the deepest entry leaves; after the push moved TOP its slot is one further.
EvictInPlace(m) ==
  LET i == MirrorMax - 1
      n == IF i \in m.dirty THEN StoredTo(m, i, i) ELSE m
  IN  IF m.depth < MirrorMax THEN m
      ELSE [n EXCEPT !.host = SubSeq(@, 1, i), !.dirty = @ \ {i}, !.depth = @ - 1]
MakeRoom(m) ==
  LET i == MirrorMax - 1
      n == IF i \in m.dirty THEN StoredTo(m, i, i + 1) ELSE m
  IN  IF m.depth < MirrorMax THEN m
      ELSE [n EXCEPT !.host = SubSeq(@, 1, i), !.dirty = @ \ {i}, !.depth = @ - 1]
\* The inline push: TOP and the tag in memory and in the registers, then room, then the value.
RegsPushed(m) ==
  LET p == Slot(m, Regs - 1)
  IN  [m EXCEPT !.topReg = p, !.fullReg = {(i + 1) % Regs : i \in @} \cup {0}, !.c.f.top = p, !.c.f.full = @ \cup {p}]
MirrorPushed(m, v) ==
  [m EXCEPT !.host = HostPush(@, v), !.depth = @ + 1, !.dirty = {i + 1 : i \in @} \cup {0}]
\* emit_pop and mirror_pop.
RegsPopped(m) ==
  [m EXCEPT !.c.f.full = @ \ {m.topReg}, !.c.f.top = Slot(m, 1), !.topReg = Slot(m, 1),
            !.fullReg = {i - 1 : i \in @ \ {0}}]
MirrorPop(m) == [m EXCEPT !.host = Tail(@), !.depth = @ - 1, !.dirty = {i - 1 : i \in @ \ {0}}]
PopMirrored(m, pops) ==
  CASE pops = 0 -> m
    [] pops = 1 -> RegsPopped(MirrorPop(m))
    [] pops = 2 -> RegsPopped(MirrorPop(RegsPopped(MirrorPop(m))))

-----------------------------------------------------------------------------
(* The fast path and its way back.  early is the state the first guards    *)
(* see, late the one after the mirror was filled.                          *)

\* x87_inline_begin_slow: the guards' state when all saw the same one, everything otherwise.
SlowEntry(m, early, late) ==
  IF <<early.depth, early.dirty>> = <<late.depth, late.dirty>> THEN Flush(m) ELSE Spill(m)
\* The helper, on the state in memory.
Called(m, in) == [m EXCEPT !.c = X87Step(@, in)]
\* x87_inline_end: TOP and tags again, and the mirror the fast path leaves.
Rejoin(m, fast) ==
  IF m.c.st # "Ok" THEN m
  ELSE [MirrorLoad(RegsSync(m), fast.depth) EXCEPT !.dirty = fast.dirty]
Fast(m) == [m EXCEPT !.kept = TRUE]
\* One form: its guards before and after the mirror is filled, and what the fast path leaves.
Inline(in, early, okEarly, late, okLate, fast) ==
  Fast(IF okEarly /\ okLate THEN fast
       ELSE Rejoin(Called(SlowEntry(IF okEarly THEN late ELSE early, early, late), in), fast))
NotInline(m, in) == Called(Flush(m), in)
\* The shared fault stub stores what is on the host stack.
X64Fault(m) == LET s == Spill(m) IN [s EXCEPT !.c = Fault(@)]

GuardControl(m) == m.c.f.control = HostControl
GuardCensus(m) == m.c.f.census < 0
GuardOccupied(m, i) == i \in m.fullReg
GuardPushSlot(m) == Regs - 1 \notin m.fullReg
HostCompute(op, a, b, rev) == Compute(op, IF rev THEN b ELSE a, IF rev THEN a ELSE b, 1, HostControl.rc)

InlineLoad(m, in) ==
  LET e == RegsEnsure(m)
      fromSt == in.o0.k = "St"
      ok == (fromSt => GuardOccupied(e, in.o0.i)) /\ GuardPushSlot(e)
      room == MakeRoom(RegsPushed(e))
      v == IF ~fromSt THEN OperandValue(e.c, in)
           ELSE IF in.o0.i < room.depth THEN room.host[in.o0.i + 1] ELSE room.c.f.reg[Slot(e, in.o0.i)]
  IN  Inline(in, e, ok, e, TRUE, MirrorPushed(room, v))
\* The forms that read memory load the operand, or fault, before any code of the unit.
Reads(m, in) == IsCell(in.o0) => CanAccess(m.c, in.o0)
X64Load(m, in) == IF Reads(m, in) THEN InlineLoad(m, in) ELSE X64Fault(m)

\* The divisor is tested where it is: on the mirror, or in memory with its sign masked away.
NonzeroMirrored(m, i) == ~IsZero(m.host[i + 1])
RegisterInlines(in) ==
  /\ in.pops > 0 => ArithSrc(in) = 0 /\ ArithDst(in) # 0 /\ in.pops = 1
  /\ ArithSrc(in) < MirrorMax /\ ArithDst(in) < MirrorMax
InlineArithReg(m, in) ==
  LET src == ArithSrc(in)
      dst == ArithDst(in)
      deepest == IF src > dst THEN src ELSE dst
      e == RegsEnsure(m)
      ok == GuardControl(e) /\ GuardCensus(e) /\ GuardOccupied(e, src) /\ GuardOccupied(e, dst)
      l == MirrorEnsure(e, deepest + 1)
      okLate == in.op = "Div" => NonzeroMirrored(l, IF in.rev THEN dst ELSE src)
      r == HostCompute(in.op, l.host[dst + 1], l.host[src + 1], in.rev)
      done == MirrorDirty([l EXCEPT !.host[dst + 1] = r], dst)
      popped == RegsPopped([done EXCEPT !.host = Tail(@), !.depth = @ - 1,
                                        !.dirty = {i - 1 : i \in l.dirty \ {0}} \cup {dst - 1}])
  IN  Inline(in, e, ok, l, okLate, IF in.pops > 0 THEN popped ELSE done)
InlineArithMem(m, in) ==
  LET e == RegsEnsure(m)
      v == OperandValue(m.c, in)
      ok == /\ GuardControl(e) /\ GuardCensus(e) /\ GuardOccupied(e, 0)
            /\ in.op = "Div" /\ ~in.rev => ~IsZero(v)
      l == MirrorEnsure(e, 1)
      okLate == in.op = "Div" /\ in.rev => NonzeroMirrored(l, 0)
      r == HostCompute(in.op, l.host[1], v, in.rev)
  IN  Inline(in, e, ok, l, okLate, MirrorDirty([l EXCEPT !.host[1] = r], 0))
X64Arith(m, in) ==
  CASE ~Reads(m, in) -> X64Fault(m)
    [] Reads(m, in) /\ IsCell(in.o0) -> IF in.pops = 0 THEN InlineArithMem(m, in) ELSE NotInline(m, in)
    [] OTHER -> IF RegisterInlines(in) THEN InlineArithReg(m, in) ELSE NotInline(m, in)

\* To an entry of the mirror, or through to the slot below it.
InlineStoreReg(m, in) ==
  LET dst == in.o0.i
      e == RegsEnsure(m)
      l == MirrorEnsure(e, 1)
      copied == CASE dst = 0 -> l
                  [] dst # 0 /\ dst < l.depth -> MirrorDirty([l EXCEPT !.host[dst + 1] = l.host[1]], dst)
                  [] OTHER -> StoredTo(l, 0, dst)
      marked == [copied EXCEPT !.c.f.full = @ \cup {Slot(l, dst)}, !.fullReg = @ \cup {dst}]
  IN  Inline(in, e, GuardOccupied(e, 0), l, TRUE, PopMirrored(marked, in.pops))
X64StoreReg(m, in) == IF in.pops > 1 THEN NotInline(m, in) ELSE InlineStoreReg(m, in)
\* The permission is asked between the guards and the store.
InlineStoreMem(m, in) ==
  LET e == RegsEnsure(m)
      ok == GuardControl(e) /\ GuardOccupied(e, 0)
      l == MirrorEnsure(e, 1)
      stored == [l EXCEPT !.c.mem[in.o0.a] = NarrowRound(HostControl, l.host[1], in.o0.w)]
  IN  IF ok /\ ~CanAccess(m.c, in.o0) THEN X64Fault(l)
      ELSE Inline(in, e, ok, l, TRUE, PopMirrored(stored, in.pops))
X64StoreMem(m, in) == IF in.int \/ in.pops > 1 THEN NotInline(m, in) ELSE InlineStoreMem(m, in)

\* finish_compare: an unordered comparison is the helper's.
Ordered(x, y) == ~IsNan(x) /\ ~IsNan(y)
Judged(m, x, y) == [m EXCEPT !.c.f.status = (@ \ C0123) \cup Order(x, y)]
X64Register(m, in) ==
  LET i == IF in.o0.k = "St" THEN in.o0.i ELSE 1
      unary == in.x \in {"ChangeSign", "Abs"}
      e == RegsEnsure(m)
      l == MirrorEnsure(e, IF unary THEN 1 ELSE i + 1)
      ok == GuardOccupied(e, 0) /\ (unary \/ GuardOccupied(e, i))
      a == l.host[1]
      b == l.host[i + 1]
  IN  CASE in.x \in {"Test", "Examine"} \/ i >= MirrorMax \/ (in.pops = 2 /\ i # 1) -> NotInline(m, in)
        [] ~(i >= MirrorMax) /\ unary -> Inline(in, e, ok, l, TRUE, MirrorDirty([l EXCEPT !.host[1] = Signed(a, in.x = "Abs")], 0))
        [] ~(i >= MirrorMax) /\ in.x = "Exchange" ->
             Inline(in, e, ok, l, TRUE, MirrorDirty(MirrorDirty([l EXCEPT !.host[1] = b, !.host[i + 1] = a], 0), i))
        [] OTHER -> Inline(in, e, ok, l, Ordered(a, b), PopMirrored(Judged(l, a, b), in.pops))
InlineCompareMem(m, in) ==
  LET e == RegsEnsure(m)
      l == MirrorEnsure(e, 1)
      v == HostPush(l.host, OperandValue(m.c, in))[1]
  IN  Inline(in, e, GuardOccupied(e, 0), l, Ordered(l.host[1], v), PopMirrored(Judged(l, l.host[1], v), in.pops))
X64CompareMem(m, in) ==
  CASE ~Reads(m, in) -> X64Fault(m) [] Reads(m, in) /\ in.pops > 1 -> NotInline(m, in) [] OTHER -> InlineCompareMem(m, in)
X64Constant(m, in) ==
  LET e == RegsEnsure(m)
  IN  IF in.x = "ConstPi" THEN NotInline(m, in)
      ELSE Inline(in, e, GuardPushSlot(e), e, TRUE, MirrorPushed(MakeRoom(RegsPushed(e)), V(FALSE, ConstantMag(in.x))))
\* FSQRT: C1 is what the host reports.
X64Sqrt(m, in) ==
  LET e == RegsEnsure(m)
      l == MirrorEnsure(e, 1)
      a == l.host[1]
      zero == V(FALSE, 0)
      done == [l EXCEPT !.host[1] = FnValue("Sqrt", a, zero, 1, HostControl.rc),
                        !.c.f.status = (@ \ {"C1"}) \cup FnFlags("Sqrt", a, zero, 1, HostControl.rc)]
  IN  Inline(in, e, GuardControl(e) /\ GuardOccupied(e, 0), l, TRUE, MirrorDirty(done, 0))
\* emit_x87_control, x87_inline_status_ax: the fields are in memory, and the mirror stays.
X64Control(m, in) ==
  IF Reads(m, in) THEN Fast([m EXCEPT !.c = ExecControl(@, in)]) ELSE X64Fault(m)

\* emit_x87.
X64X87(m, in) ==
  CASE in.x = "Wait" -> Fast(m)
    [] in.x = "Arith" -> X64Arith(m, in)
    [] in.x = "Store" -> IF IsCell(in.o0) THEN X64StoreMem(m, in) ELSE X64StoreReg(m, in)
    [] in.x = "Load" -> X64Load(m, in)
    [] RegisterEmittable(in) -> X64Register(m, in)
    [] CompareMemEmittable(in) -> X64CompareMem(m, in)
    [] ConstantEmittable(in) -> X64Constant(m, in)
    [] StatusAxEmittable(in) \/ ControlEmittable(in) -> X64Control(m, in)
    [] in.x = "Fn" /\ in.fn = "Sqrt" -> X64Sqrt(m, in)
    [] OTHER -> NotInline(m, in)

\* keeps_x87_mirror, x87_cache_before.
KeepsMirror(in) == IsX87(in) \/ in.x \in {"Plain", "Touch"}
CacheBefore(m, in) ==
  LET n == [m EXCEPT !.live = @ /\ ~(m.open /\ ~m.kept), !.open = IsX87(in), !.kept = FALSE]
  IN  IF KeepsMirror(in) THEN n ELSE [Flush(n) EXCEPT !.live = FALSE]
X64Other(m, in) ==
  IF in.x = "Touch" /\ ~CanAccess(m.c, in.o0) THEN X64Fault(m) ELSE [m EXCEPT !.c = ExecOther(@, in)]

X64Enter(c) ==
  [c |-> c, host |-> <<>>, depth |-> 0, dirty |-> {}, live |-> FALSE, topReg |-> 0, fullReg |-> {},
   open |-> FALSE, kept |-> FALSE, in |-> TRUE, n |-> 0, exit |-> "None"]
\* One instruction of the block; a refusal, and the end of the program, leave it through a flush.
X64Continued(d, prog) ==
  CASE d.c.st # "Ok" -> Left(d, d.c, "MemoryFault")
    [] d.c.st = "Ok" /\ d.n + 1 = Len(prog) -> Left(d, Flush(d).c, "BlockEnd")
    [] OTHER -> Retired(d)
X64Step(m, prog) ==
  LET in == prog[m.n + 1]
      b == CacheBefore(m, in)
  IN  CASE ~m.in -> m
        [] m.in /\ IsX87(in) /\ ~X87Emittable(in) -> [Left(m, Flush(m).c, "Unsupported") EXCEPT !.n = m.n]
        [] OTHER -> X64Continued(IF IsX87(in) THEN X64X87(b, in) ELSE X64Other(b, in), prog)
=============================================================================
