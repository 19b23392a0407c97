-------------------------- MODULE LockstepArm64Proofs --------------------------
(***************************************************************************)
(* The ARM64 backend does what the interpreter does, for every program of  *)
(* decoded instructions, every memory window and every width of a byte.    *)
(* It leaves a flag record unwritten when no instruction before the next   *)
(* kill reads the flags, so between the two the records may differ; it     *)
(* also keeps the words of the record it made last in host registers.  The *)
(* invariant says that the records are alike, or that the rest of the      *)
(* block kills the flags before anything reads them, and that a word kept  *)
(* is a word of the record.  The lemmas of LockstepProofs about the        *)
(* interpreter and about states that are alike are used throughout.        *)
(***************************************************************************)
EXTENDS LockstepProofs

-----------------------------------------------------------------------------
(* The ARM64 backend.                                                       *)

(* emit_address_parts and emit_effective_address add the same parts up.      *)
LEMMA ArmAddressIs ==
  ASSUME NEW d \in Cpus, NEW o \in MemoryOf(Widths)
  PROVE  ArmParts(d, o) = WasmParts(d, o) /\ ArmAddress(d, o) = WasmAddress(d, o)
<1> DEFINE base == IF o.base < 0 THEN 0 ELSE d.reg[o.base]
           index == IF o.index < 0 THEN 0 ELSE d.reg[o.index] * o.scale
<1>1. o.base \in -1 .. 7 /\ o.index \in -1 .. 7 /\ o.scale \in {1, 2, 4, 8} /\ o.disp \in Int
  BY DEF MemoryOf
<1>2. \A r \in 0 .. 7 : d.reg[r] \in Int
  BY CpusFact, DwordsFact
<1>3. base \in Int
  BY <1>1, <1>2
<1>4. index \in Int
  <2>1. CASE o.index < 0
    BY <2>1
  <2>2. CASE o.index >= 0
    <3>1. o.index \in 0 .. 7
      BY <1>1, <2>2
    <3>2. PICK v \in Int : v = d.reg[o.index]
      BY <1>2, <3>1
    <3>3. v * o.scale \in Int
      BY <1>1
    <3> QED
      BY <2>2, <3>1, <3>2, <3>3
  <2> QED
    BY <1>1, <2>1, <2>2
<1>5. WasmParts(d, o) = Trunc(o.disp + base + index, 4) /\ ArmParts(d, o) = Trunc(base + index + o.disp, 4)
  BY DEF WasmParts, ArmParts
<1> HIDE DEF base, index
<1>6. o.disp + base + index = base + index + o.disp
  BY <1>1, <1>3, <1>4
<1>7. ArmParts(d, o) = WasmParts(d, o)
  BY <1>5, <1>6, Zenon
<1> QED
  BY <1>7, Zenon DEF ArmAddress, WasmAddress

(* emit_mem_prepare_w, emit_load_w and emit_store_w.                         *)
LEMMA ArmOperandIs ==
  ASSUME NEW d \in Cpus, NEW o \in Places \cup Immediates
  PROVE  /\ ArmOk(d, o) = WasmOk(d, o) /\ ArmValue(d, o) = WasmValue(d, o)
         /\ o.k = "Mem" => ArmParts(d, o) = WasmParts(d, o) /\ ArmAddress(d, o) = WasmAddress(d, o)
<1>1. o.k \in {"Reg", "Imm", "Mem"} /\ (o.k = "Mem" => o \in MemoryOf(Widths))
  BY PlacesFact
<1>2. o.k = "Mem" => ArmParts(d, o) = WasmParts(d, o) /\ ArmAddress(d, o) = WasmAddress(d, o)
  BY <1>1, ArmAddressIs
<1>3. ArmOk(d, o) = WasmOk(d, o)
  BY <1>2 DEF ArmOk, WasmOk, IsMem
<1>4. ArmValue(d, o) = WasmValue(d, o)
  BY <1>1, <1>2 DEF ArmValue, WasmValue
<1> QED
  BY <1>2, <1>3, <1>4

(* A write.                                                                  *)
LEMMA ArmWriteIs ==
  ASSUME NEW m, m.c \in Cpus, NEW o \in Places, NEW v
  PROVE  ArmWrite(m, o, v) = WasmWrite(m, o, v)
<1>1. o.k = "Mem" => ArmAddress(m.c, o) = WasmAddress(m.c, o)
  BY ArmOperandIs
<1>2. o.k \in {"Reg", "Mem"}
  BY PlacesFact
<1> QED
  BY <1>1, <1>2 DEF ArmWrite, WasmWrite

\* What an instruction leaves of the record and of what the block knows of it, memory apart.
Quiet(m, n) ==
  n.c.flags = m.c.flags /\ n.last = m.last /\ n.lw = m.lw /\ n.made = m.made /\ n.host = m.host /\ n.held = m.held

(* A state put in the block.                                                 *)
LEMMA PutQuiet ==
  ASSUME NEW m \in Blocks, NEW d, d.flags = m.c.flags
  PROVE  Quiet(m, [m EXCEPT !.c = d])
  BY DEF Quiet, Blocks

(* A write to a place.                                                       *)
LEMMA WriteQuiet ==
  ASSUME NEW m \in Blocks, NEW o, NEW v
  PROVE  Quiet(m, WasmWrite(m, o, v)) /\ WasmWrite(m, o, v).in = m.in
<1> DEFINE d == IF o.k = "Reg" THEN WriteReg(m.c, o.r, o.w, v) ELSE Store(m.c, WasmAddress(m.c, o), o.w, v)
<1>1. m.c \in Cpus
  BY DEF Blocks
<1>2. d.flags = m.c.flags
  BY <1>1 DEF WriteReg, Store, Cpus
<1>3. WasmWrite(m, o, v) = [m EXCEPT !.c = d]
  BY DEF WasmWrite
<1> HIDE DEF d
<1>4. [m EXCEPT !.c = d].in = m.in
  BY DEF Blocks
<1>5. Quiet(m, [m EXCEPT !.c = d])
  BY <1>2, PutQuiet
<1> QED
  BY <1>3, <1>4, <1>5

(* An exit.                                                                  *)
LEMMA ExitQuiet ==
  ASSUME NEW m \in Blocks, NEW a, NEW kind
  PROVE  Quiet(m, Exit(m, a, kind)) /\ ~Exit(m, a, kind).in
<1>1. m.c \in Cpus
  BY DEF Blocks
<1> QED
  BY <1>1 DEF Quiet, Exit, Blocks, Cpus

(* It adds up.                                                               *)
LEMMA QuietTwice ==
  ASSUME NEW m, NEW n, NEW p, Quiet(m, n), Quiet(n, p)
  PROVE  Quiet(m, p)
  BY DEF Quiet

-----------------------------------------------------------------------------
(* The conditions of the ARM64 backend.                                     *)

\* What a block of the ARM64 backend knows of the record it last made.
ArmKnown(last, lw, f) ==
  Known(last, lw, f) /\ last # "None" /\ (last \in Shifts => f.kind = last /\ f.w = lw)
\* The registers named hold the words of the record.
Words(hold, host, f) ==
  /\ hold.a >= 0 => host[hold.a] = f.a
  /\ hold.b >= 0 => host[hold.b] = f.b
  /\ hold.r >= 0 => host[hold.r] = f.r

(* load_operands_aligned brings the record's words, whatever registers they were left in. *)
LEMMA ArmOperandsAre ==
  ASSUME NEW m \in Blocks, NEW f, f = m.c.flags, Words(m.held, m.host, f)
  PROVE  ArmOperands(m) = <<f.a, f.b>> /\ ArmHeld(m.held.r, f.r, m.host) = f.r
<1>1. m.held.a \in -1 .. 7 /\ m.held.b \in -1 .. 7 /\ m.held.r \in -1 .. 7 /\ DOMAIN m.host = 0 .. 7
  BY DEF Blocks, Holds
<1>2. ArmHeld(m.held.r, f.r, m.host) = f.r
  BY <1>1 DEF ArmHeld, Words
<1>3. CASE m.held.b = 0
  <2>1. PICK a : a = IF m.held.a = 1 THEN -1 ELSE m.held.a
    OBVIOUS
  <2>2. ArmOperands(m) = <<ArmHeld(a, f.a, [m.host EXCEPT ![1] = ArmHeld(m.held.b, f.b, m.host)]), ArmHeld(m.held.b, f.b, m.host)>>
    BY <1>3, <2>1 DEF ArmOperands
  <2>3. ArmHeld(m.held.b, f.b, m.host) = f.b
    BY <1>1 DEF ArmHeld, Words
  <2>4. ArmHeld(a, f.a, [m.host EXCEPT ![1] = f.b]) = f.a
    BY <1>1, <2>1 DEF ArmHeld, Words
  <2> QED
    BY <1>2, <2>2, <2>3, <2>4
<1>4. CASE m.held.b # 0
  <2>1. ArmOperands(m) = <<ArmHeld(m.held.a, f.a, m.host), ArmHeld(m.held.b, f.b, [m.host EXCEPT ![0] = ArmHeld(m.held.a, f.a, m.host)])>>
    BY <1>4 DEF ArmOperands
  <2>2. ArmHeld(m.held.a, f.a, m.host) = f.a
    BY <1>1 DEF ArmHeld, Words
  <2>3. ArmHeld(m.held.b, f.b, [m.host EXCEPT ![0] = f.a]) = f.b
    BY <1>1, <1>4 DEF ArmHeld, Words
  <2> QED
    BY <1>2, <2>1, <2>2, <2>3
<1> QED
  BY <1>3, <1>4

(* The host's flags after a comparison of a record's operands.               *)
LEMMA HostSubFact ==
  ASSUME NEW f, Exact(f), f.kind = "Sub", NEW s, s = HostSub(Trunc(f.a, f.w), Trunc(f.b, f.w), f.w)
  PROVE  ("CF" \in s <=> CF(f)) /\ ("ZF" \in s <=> ZF(f)) /\ ("SF" \in s <=> SF(f)) /\ ("OF" \in s <=> OF(f))
<1>1. f.kind \in WasmInline /\ f.kind \in {"Sub", "Logic", "Add", "Inc", "Dec"}
  BY DEF WasmInline
<1>2. PICK h, r : h = Power(Bits(f.w) - 1) /\ r = Trunc(f.r, f.w)
  OBVIOUS
<1>3. /\ h \in Nat \ {0} /\ f.a \in 0 .. 2 * h - 1 /\ f.b \in 0 .. 2 * h - 1 /\ r \in 0 .. 2 * h - 1
      /\ Power(Bits(f.w)) = 2 * h /\ f.r = r /\ Trunc(f.a, f.w) = f.a /\ Trunc(f.b, f.w) = f.b
      /\ Signed(f.a, f.w) = (IF f.a >= h THEN f.a - 2 * h ELSE f.a) /\ Signed(f.b, f.w) = (IF f.b >= h THEN f.b - 2 * h ELSE f.b)
      /\ Msb(r, f.w) = (IF r >= h THEN 1 ELSE 0) /\ Signed(r, f.w) = (IF r >= h THEN r - 2 * h ELSE r)
      /\ r = (IF f.a < f.b THEN f.a - f.b + 2 * h ELSE f.a - f.b)
  BY <1>1, <1>2, ExactFact
<1>4. /\ (ZF(f) <=> r = 0) /\ (SF(f) <=> r >= h) /\ (CF(f) <=> f.a < f.b)
      /\ (OF(f) <=> ((f.a >= h) # (f.b >= h) /\ (r >= h) # (f.a >= h)))
  BY <1>1, <1>2, NumbersFact
<1>5. PICK d : d = Signed(f.a, f.w) - Signed(f.b, f.w)
  OBVIOUS
<1>6. (f.a - f.b) % Power(Bits(f.w)) = r
  BY <1>3 DEF Exact, Trunc
<1>7. d % Power(Bits(f.w)) = r
  <2>1. d \in Int /\ d >= -(2 * h) /\ d < 2 * h
    BY <1>3, <1>5
  <2>2. PICK n \in Nat \ {0} : n = 2 * h
    BY <1>3
  <2>3. d \in -n .. 2 * n - 1
    BY <1>3, <2>1, <2>2
  <2>4. d % n = IF d < 0 THEN d + n ELSE IF d < n THEN d ELSE d - n
    BY <2>3, Wraps
  <2> QED
    BY <1>3, <1>5, <2>1, <2>2, <2>4
<1>8. s = {x \in {"CF", "ZF", "SF", "OF"} :
             CASE x = "CF" -> f.a < f.b [] x = "ZF" -> f.a = f.b [] x = "SF" -> Msb(r, f.w) = 1 [] x = "OF" -> d # Signed(r, f.w)}
  BY <1>3, <1>5, <1>6, <1>7 DEF HostSub
<1>9. ("CF" \in s <=> f.a < f.b) /\ ("ZF" \in s <=> f.a = f.b) /\ ("SF" \in s <=> Msb(r, f.w) = 1) /\ ("OF" \in s <=> d # Signed(r, f.w))
  BY <1>8
<1> QED
  BY <1>3, <1>4, <1>5, <1>9

(* And after an addition of them.                                            *)
LEMMA HostAddFact ==
  ASSUME NEW f, Exact(f), f.kind = "Add", NEW s, s = HostAdd(Trunc(f.a, f.w), Trunc(f.b, f.w), f.w)
  PROVE  ("CF" \in s <=> CF(f)) /\ ("ZF" \in s <=> ZF(f)) /\ ("SF" \in s <=> SF(f)) /\ ("OF" \in s <=> OF(f))
<1>1. f.kind \in WasmInline /\ f.kind \in {"Sub", "Logic", "Add", "Inc", "Dec"}
  BY DEF WasmInline
<1>2. PICK h, r : h = Power(Bits(f.w) - 1) /\ r = Trunc(f.r, f.w)
  OBVIOUS
<1>3. /\ h \in Nat \ {0} /\ f.a \in 0 .. 2 * h - 1 /\ f.b \in 0 .. 2 * h - 1 /\ r \in 0 .. 2 * h - 1
      /\ f.r = r /\ Trunc(f.a, f.w) = f.a /\ Trunc(f.b, f.w) = f.b
      /\ Signed(f.a, f.w) = (IF f.a >= h THEN f.a - 2 * h ELSE f.a) /\ Signed(f.b, f.w) = (IF f.b >= h THEN f.b - 2 * h ELSE f.b)
      /\ Msb(r, f.w) = (IF r >= h THEN 1 ELSE 0) /\ Signed(r, f.w) = (IF r >= h THEN r - 2 * h ELSE r)
      /\ r = (IF f.a + f.b >= 2 * h THEN f.a + f.b - 2 * h ELSE f.a + f.b)
  BY <1>1, <1>2, ExactFact
<1>4. /\ (ZF(f) <=> r = 0) /\ (SF(f) <=> r >= h) /\ (CF(f) <=> r < f.a)
      /\ (OF(f) <=> ((f.a >= h) = (f.b >= h) /\ (r >= h) # (f.a >= h)))
  BY <1>1, <1>2, NumbersFact
<1>5. PICK d : d = Signed(f.a, f.w) + Signed(f.b, f.w)
  OBVIOUS
<1>6. Trunc(f.a + f.b, f.w) = r
  BY <1>3 DEF Exact
<1>7. s = {x \in {"CF", "ZF", "SF", "OF"} :
             CASE x = "CF" -> r # f.a + f.b [] x = "ZF" -> r = 0 [] x = "SF" -> Msb(r, f.w) = 1 [] x = "OF" -> d # Signed(r, f.w)}
  BY <1>3, <1>5, <1>6 DEF HostAdd
<1>8. ("CF" \in s <=> r # f.a + f.b) /\ ("ZF" \in s <=> r = 0) /\ ("SF" \in s <=> Msb(r, f.w) = 1) /\ ("OF" \in s <=> d # Signed(r, f.w))
  BY <1>7
<1> QED
  BY <1>3, <1>4, <1>5, <1>8

(* A condition of a set of flags is that of the record they are the flags of. *)
LEMMA CondByFlags ==
  ASSUME NEW f, f.kind \notin {"None", "Explicit"}, NEW s, NEW cc \in Conds \ {"P", "NP"},
         "CF" \in s <=> CF(f), "ZF" \in s <=> ZF(f), "SF" \in s <=> SF(f), "OF" \in s <=> OF(f)
  PROVE  CondEflags(cc, s) <=> Cond(cc, f)
<1>1. ({"CF", "ZF"} \cap s # {}) <=> ("CF" \in s \/ "ZF" \in s)
  OBVIOUS
<1>2. CASE cc \in {"O", "NO", "B", "NB", "Z", "NZ", "S", "NS"}
  BY <1>2 DEF CondEflags, Cond
<1>3. CASE cc \in {"BE", "A"}
  BY <1>1, <1>3 DEF CondEflags, Cond
<1>4. CASE cc \in {"L", "GE", "LE", "G"}
  BY <1>4 DEF CondEflags, Cond
<1> QED
  BY <1>2, <1>3, <1>4 DEF Conds

(* Which records the backend lowers a condition of, and how.                 *)
LEMMA LoweringFact ==
  ASSUME NEW cc \in Conds, NEW kind, NEW how, how = ArmLowering(cc, kind), how # "Helper"
  PROVE  /\ kind \in ResultKinds \cup {"Sub", "Add", "Logic"}
         /\ \/ how = "Parity" /\ cc \in {"P", "NP"}
            \/ how \in {"Sub", "Add"} /\ kind = how /\ cc \notin {"P", "NP"}
            \/ how = "False" /\ kind = "Logic" /\ cc \in {"O", "B"}
            \/ how = "True" /\ kind = "Logic" /\ cc \in {"NO", "NB"}
            \/ how = "Result" /\ kind = "Logic" /\ cc \in {"Z", "NZ", "BE", "A", "S", "NS", "L", "GE", "LE", "G"}
            \/ how = "Result" /\ kind \in ResultKinds /\ cc \in {"Z", "NZ", "S", "NS"}
<1>1. CASE cc \in {"P", "NP"}
  <2>1. how = IF kind \in ResultKinds \cup {"Sub", "Add", "Logic"} THEN "Parity" ELSE "Helper"
    BY <1>1 DEF ArmLowering
  <2>2. kind \in ResultKinds \cup {"Sub", "Add", "Logic"} /\ how = "Parity"
    BY <2>1
  <2> QED
    BY <1>1, <2>2
<1>2. CASE cc \notin {"P", "NP"} /\ kind = "Sub"
  BY <1>2 DEF ArmLowering
<1>3. CASE cc \notin {"P", "NP"} /\ kind = "Add"
  BY <1>3 DEF ArmLowering, ResultKinds
<1>4. CASE cc \notin {"P", "NP"} /\ kind = "Logic"
  <2>1. how = IF cc \in {"O", "B"} THEN "False" ELSE IF cc \in {"NO", "NB"} THEN "True" ELSE "Result"
    BY <1>4 DEF ArmLowering
  <2> QED
    BY <1>4, <2>1 DEF Conds
<1>5. CASE cc \notin {"P", "NP"} /\ kind \notin {"Sub", "Add", "Logic"}
  <2>1. how = IF kind \in ResultKinds /\ cc \in {"Z", "NZ", "S", "NS"} THEN "Result" ELSE "Helper"
    BY <1>5 DEF ArmLowering
  <2> QED
    BY <2>1
<1> QED
  BY <1>1, <1>2, <1>3, <1>4, <1>5

(* x86p_a64_emit_condition_flags: the condition is the record's, from the words the host still holds. *)
THEOREM ArmCondFact ==
  ASSUME NEW m \in Blocks, NEW f, f = m.c.flags, f \in Records, ArmKnown(m.last, m.lw, f), Words(m.held, m.host, f), NEW cc \in Conds
  PROVE  ArmCond(m, cc) <=> Cond(cc, f)
<1>1. PICK how : how = IF m.last # Unknown /\ m.lw > 0 THEN ArmLowering(cc, m.last) ELSE "Helper"
  OBVIOUS
<1>2. ArmOperands(m) = <<f.a, f.b>> /\ ArmHeld(m.held.r, f.r, m.host) = f.r
  BY ArmOperandsAre
<1>3. ArmCond(m, cc) = IF how = "Helper" THEN Cond(cc, f) ELSE InlineCond(cc, how, f.a, f.b, f.r, m.lw)
  BY <1>1, <1>2 DEF ArmCond
<1>4. CASE how = "Helper"
  BY <1>3, <1>4
<1>5. CASE how # "Helper"
  <2>1. m.last \in ResultKinds \cup {"Sub", "Add", "Logic"} /\ m.lw > 0 /\ how = ArmLowering(cc, m.last)
    BY <1>1, <1>5, LoweringFact
  <2>2. f.kind = m.last /\ f.w = m.lw /\ (f.kind \in WasmInline => Exact(f))
    BY <2>1 DEF ArmKnown, Known, WasmInline, ResultKinds, Shifts
  <2>3. f.kind \in ResultKinds \cup {"Sub", "Add", "Logic"} /\ how = ArmLowering(cc, f.kind) /\ f.kind \notin {"None", "Explicit"}
    BY <2>1, <2>2 DEF ResultKinds
  <2>4. ArmCond(m, cc) = InlineCond(cc, how, f.a, f.b, f.r, f.w)
    BY <1>3, <1>5, <2>2
  <2>5. CASE how = "Parity" /\ cc \in {"P", "NP"}
    <3>1. ArmCond(m, cc) = (EvenParity(f.r) = (cc = "P"))
      BY <2>4, <2>5 DEF InlineCond
    <3>2. PF(f) <=> EvenParity(f.r)
      BY <2>3 DEF PF
    <3>3. Cond(cc, f) <=> IF cc = "P" THEN PF(f) ELSE ~PF(f)
      BY <2>3, <2>5 DEF Cond
    <3>4. EvenParity(f.r) \in BOOLEAN
      BY DEF EvenParity
    <3> QED
      BY <3>1, <3>2, <3>3, <3>4
  <2>6. CASE how = "Sub" /\ f.kind = "Sub" /\ cc \notin {"P", "NP"}
    <3>1. PICK s : s = HostSub(Trunc(f.a, f.w), Trunc(f.b, f.w), f.w)
      OBVIOUS
    <3>2. ArmCond(m, cc) = CondEflags(cc, s)
      BY <2>4, <2>6, <3>1 DEF InlineCond
    <3>3. Exact(f)
      BY <2>2, <2>6 DEF WasmInline
    <3>4. ("CF" \in s <=> CF(f)) /\ ("ZF" \in s <=> ZF(f)) /\ ("SF" \in s <=> SF(f)) /\ ("OF" \in s <=> OF(f))
      BY <2>6, <3>1, <3>3, HostSubFact
    <3> QED
      BY <2>3, <2>6, <3>2, <3>4, CondByFlags
  <2>7. CASE how = "Add" /\ f.kind = "Add" /\ cc \notin {"P", "NP"}
    <3>1. PICK s : s = HostAdd(Trunc(f.a, f.w), Trunc(f.b, f.w), f.w)
      OBVIOUS
    <3>2. ArmCond(m, cc) = CondEflags(cc, s)
      BY <2>4, <2>7, <3>1 DEF InlineCond
    <3>3. Exact(f)
      BY <2>2, <2>7 DEF WasmInline
    <3>4. ("CF" \in s <=> CF(f)) /\ ("ZF" \in s <=> ZF(f)) /\ ("SF" \in s <=> SF(f)) /\ ("OF" \in s <=> OF(f))
      BY <2>7, <3>1, <3>3, HostAddFact
    <3> QED
      BY <2>3, <2>7, <3>2, <3>4, CondByFlags
  <2>8. f.kind = "Logic" => ~CF(f) /\ ~OF(f)
    BY DEF CF, OF, Shifts
  <2>9. CASE how \in {"False", "True"} /\ f.kind = "Logic" /\ cc \in (IF how = "False" THEN {"O", "B"} ELSE {"NO", "NB"})
    <3>1. ArmCond(m, cc) <=> how = "True"
      BY <2>4, <2>9 DEF InlineCond
    <3>2. Cond(cc, f) <=> how = "True"
      BY <2>8, <2>9 DEF Cond
    <3> QED
      BY <3>1, <3>2
  <2>10. CASE how = "Result"
    <3>1. PICK s : s = HostTest(f.r, f.w)
      OBVIOUS
    <3>2. ArmCond(m, cc) = CondEflags(cc, s)
      BY <2>4, <2>10, <3>1 DEF InlineCond
    <3>3. ("ZF" \in s <=> ZF(f)) /\ ("SF" \in s <=> SF(f)) /\ "CF" \notin s /\ "OF" \notin s
      BY <2>3, <3>1 DEF HostTest, ZF, SF
    <3>4. CASE f.kind = "Logic" /\ cc \notin {"P", "NP"}
      BY <2>3, <2>8, <3>2, <3>3, <3>4, CondByFlags
    <3>5. CASE cc \in {"Z", "NZ", "S", "NS"}
      <4>1. CondEflags(cc, s) <=> Cond(cc, f)
        BY <2>3, <3>3, <3>5 DEF CondEflags, Cond
      <4> QED
        BY <3>2, <4>1
    <3>6. (f.kind = "Logic" /\ cc \notin {"P", "NP"}) \/ cc \in {"Z", "NZ", "S", "NS"}
      <4>1. \/ how = "Parity" \/ how \in {"Sub", "Add"} \/ how = "False" \/ how = "True"
            \/ f.kind = "Logic" /\ cc \in {"Z", "NZ", "BE", "A", "S", "NS", "L", "GE", "LE", "G"}
            \/ cc \in {"Z", "NZ", "S", "NS"}
        BY <1>5, <2>3, LoweringFact
      <4> QED
        BY <2>10, <4>1
    <3> QED
      BY <3>4, <3>5, <3>6
  <2> QED
    BY <1>5, <2>3, <2>5, <2>6, <2>7, <2>9, <2>10, LoweringFact
<1> QED
  BY <1>4, <1>5

(* emit_compute_carry_in: the carry as the WebAssembly backend takes it.     *)
THEOREM ArmCarryFact ==
  ASSUME NEW m, NEW f, f = m.c.flags, f \in Records, ArmKnown(m.last, m.lw, f)
  PROVE  ArmCarry(m) <=> CF(f)
<1>1. Known(m.last, m.lw, m.c.flags) /\ m.last # "None"
  BY DEF ArmKnown
<1>2. WasmCarry(m) <=> CF(f)
  BY <1>1, WasmCarryFact
<1>3. CASE m.last \in WasmInline \cup {"Explicit"}
  <2>1. WasmCarry(m) = WasmKnownCarry(m.last, f)
    BY <1>3 DEF WasmCarry
  <2>2. ArmCarry(m) = WasmKnownCarry(m.last, f)
    BY <1>3 DEF ArmCarry, WasmKnownCarry, WasmInline
  <2> QED
    BY <1>2, <2>1, <2>2
<1>4. CASE m.last \notin WasmInline \cup {"Explicit"}
  BY <1>4 DEF ArmCarry, WasmInline
<1> QED
  BY <1>3, <1>4

-----------------------------------------------------------------------------
\* In the middle of instruction i, the two alike but for their flag records.
Loose(m, g, i) ==
  /\ m \in Blocks /\ m.n = i - 1 /\ m.in /\ i \in 1 .. Power(Bits(4)) - 1
  /\ Even(m.c, g) /\ m.c.st = "Ok" /\ g.st = "Ok" /\ g.eip = i - 1 /\ g.next = i
\* What the ARM64 block knows of the record is so, and its words are where the next instruction reads them.
Fresh(m) == ArmKnown(m.last, m.lw, m.c.flags) /\ Words(m.made, m.host, m.c.flags)
\* At the end of instruction i: the two are alike, or a record nobody can see was not made.
ArmDone(m, g, i, dead) == (Done(m, g, i) /\ (m.in => Fresh(m))) \/ (dead /\ Loose(m, g, i))

(* What holds in the middle of an instruction, whatever the records.         *)
LEMMA LooseFact ==
  ASSUME NEW m, NEW g, NEW i, Loose(m, g, i)
  PROVE  /\ m \in Blocks /\ m.c \in Cpus /\ g \in Cpus /\ Even(m.c, g) /\ m.c.flags \in Records /\ g.flags \in Records
         /\ m.c.reg = g.reg /\ m.c.fs_base = g.fs_base /\ m.n = i - 1 /\ m.in /\ i \in Int
         /\ SameRecord(m.c.flags, g.flags) => Along(m, g, i)
<1>1. m \in Blocks /\ m.c \in Cpus /\ g \in Cpus /\ Even(m.c, g) /\ m.c.reg = g.reg /\ m.c.fs_base = g.fs_base /\ m.n = i - 1 /\ m.in
  BY DEF Loose, Even
<1>2. m.c.flags \in Records /\ g.flags \in Records
  BY <1>1, CpusFact
<1>3. i \in Int
  BY WidthFact, NamesFact DEF Loose
<1> QED
  BY <1>1, <1>2, <1>3 DEF Loose, Along, Twin

(* It holds too where the records are alike.                                 *)
LEMMA AlongLoose ==
  ASSUME NEW m, NEW g, NEW i, Along(m, g, i)
  PROVE  Loose(m, g, i)
  BY DEF Along, Twin, Loose

(* A step both made.                                                         *)
LEMMA PutLoose ==
  ASSUME NEW m, NEW g, NEW i, Loose(m, g, i), NEW f, NEW h, Moved(m.c, g, f, h)
  PROVE  Loose([m EXCEPT !.c = f], h, i)
<1>1. f \in Cpus /\ h \in Cpus /\ Even(f, h) /\ Stays(m.c, f) /\ Stays(g, h) /\ m \in Blocks
  BY LooseFact DEF Moved, Even
<1>2. /\ [m EXCEPT !.c = f] \in Blocks /\ [m EXCEPT !.c = f].c = f /\ [m EXCEPT !.c = f].in = m.in
      /\ [m EXCEPT !.c = f].n = m.n
  BY <1>1, PutFact
<1> QED
  BY <1>1, <1>2 DEF Loose, Stays

(* A write to a place of values alike at its width.                          *)
LEMMA WriteLoose ==
  ASSUME NEW m, NEW g, NEW i, Loose(m, g, i), NEW o \in Places, Plain(o), WasmOk(m.c, o), NEW v \in Int, NEW u \in Int,
         Trunc(v, o.w) = Trunc(u, o.w)
  PROVE  Loose(WasmWrite(m, o, v), Write(g, o, u), i)
<1>1. m.c \in Cpus /\ g \in Cpus /\ Even(m.c, g)
  BY LooseFact
<1>2. Readable(g, o) /\ Readable(m.c, o)
  BY <1>1, GuardFact
<1>3. Moved(m.c, g, Write(m.c, o, v), Write(g, o, v))
  BY <1>1, <1>2, WriteMoved
<1>4. WasmWrite(m, o, v) = [m EXCEPT !.c = Write(m.c, o, v)]
  BY <1>1, <1>2, WasmWriteIs
<1>5. Write(g, o, v) = Write(g, o, u)
  BY <1>1, WriteReads
<1> QED
  BY <1>3, <1>4, <1>5, PutLoose

(* The interpreter's record is its own.                                      *)
LEMMA RecordLoose ==
  ASSUME NEW m, NEW g, NEW i, Loose(m, g, i), NEW h \in Records
  PROVE  Loose(m, WithFlags(g, h), i)
<1>1. m.c \in Cpus /\ g \in Cpus /\ Even(m.c, g) /\ m.c.flags \in Records
  BY LooseFact
<1>2. WithFlags(m.c, m.c.flags) = m.c
  BY <1>1 DEF WithFlags, Cpus
<1>3. /\ Even(WithFlags(m.c, m.c.flags), WithFlags(g, h))
      /\ WithFlags(g, h).eip = g.eip /\ WithFlags(g, h).next = g.next /\ WithFlags(g, h).st = g.st
  BY <1>1, SetFlags
<1> QED
  BY <1>2, <1>3 DEF Loose

(* A new record makes the two alike again.                                   *)
LEMMA RecordBoth ==
  ASSUME NEW m, NEW g, NEW i, Loose(m, g, i), NEW f \in Records, NEW h \in Records, SameRecord(f, h)
  PROVE  /\ Along([m EXCEPT !.c.flags = f], WithFlags(g, h), i)
         /\ [m EXCEPT !.c.flags = f].c = WithFlags(m.c, f) /\ [m EXCEPT !.c.flags = f].c.flags = f
<1>1. m.c \in Cpus /\ g \in Cpus /\ Even(m.c, g) /\ m.c.flags \in Records /\ m \in Blocks
  BY LooseFact
<1> DEFINE d == WithFlags(m.c, f)
           e == WithFlags(g, h)
<1>2. /\ Even(d, e) /\ d.flags = f /\ e.flags = h /\ d.st = m.c.st /\ e.st = g.st /\ e.eip = g.eip /\ e.next = g.next
  BY <1>1, SetFlags
<1>7. PICK n : n = [m EXCEPT !.c.flags = f]
  OBVIOUS
<1>3. n = [m EXCEPT !.c = d]
  BY <1>7 DEF WithFlags
<1> HIDE DEF d, e
<1>4. d \in Cpus /\ Twin(d, e)
  BY <1>2 DEF Even, Twin
<1>5. n \in Blocks /\ n.c = d /\ n.in = m.in /\ n.n = m.n
  <2>1. d \in Cpus /\ m \in Blocks
    BY <1>1, <1>4
  <2>2. /\ [m EXCEPT !.c = d] \in Blocks /\ [m EXCEPT !.c = d].c = d /\ [m EXCEPT !.c = d].in = m.in
        /\ [m EXCEPT !.c = d].n = m.n
    BY <2>1, PutFact
  <2> QED
    BY <1>3, <2>2
<1>6. Along(n, e, i)
  BY <1>2, <1>4, <1>5 DEF Along, Loose
<1>8. Along(n, e, i) /\ n.c = d /\ n.c.flags = f
  BY <1>2, <1>5, <1>6
<1> QED
  BY <1>7, <1>8 DEF d, e

(* What an instruction changed neither the record nor what is known of it keeps what is known. *)
LEMMA QuietFresh ==
  ASSUME NEW m, NEW n, Quiet(m, n), m.made = NothingHeld, ArmKnown(m.last, m.lw, m.c.flags)
  PROVE  Fresh(n)
  BY DEF Quiet, Fresh, Words, NothingHeld

(* So does one that forgot it, or made an explicit record.                   *)
LEMMA PlainFresh ==
  ASSUME NEW n, n.made = NothingHeld, Sure(n), n.last \in {Unknown, "Explicit"}
  PROVE  Fresh(n)
  BY DEF Sure, Fresh, ArmKnown, Words, NothingHeld, Shifts, Unknown

\* The registers an emitter leaves the words of its record in.
RecordHolds == {[a |-> 0, b |-> 1, r |-> 2], [a |-> 2, b |-> 0, r |-> 1], [a |-> 0, b |-> 2, r |-> 1]}

(* emit_record_flags: the block and what it holds in registers.              *)
LEMMA ArmRecorded ==
  ASSUME NEW m \in Blocks, NEW kind \in Kinds, NEW a \in Int, NEW b \in Int, NEW r \in Int, NEW w \in Width, NEW held \in RecordHolds,
         NEW f, f = Stored(m.c.flags, kind, a, b, r, w), f \in Records
  PROVE  LET n == ArmRecord(m, kind, a, b, r, w, held)
         IN  /\ n \in Blocks /\ n.c = WithFlags(m.c, f) /\ n.last = kind /\ n.lw = w /\ n.in = m.in /\ n.n = m.n
             /\ Words(n.made, n.host, f)
<1>1. held \in Holds /\ held.a \in 0 .. 7 /\ held.b \in 0 .. 7 /\ held.r \in 0 .. 7
      /\ held.a # held.b /\ held.a # held.r /\ held.b # held.r
  BY DEF RecordHolds, Holds
<1>2. m.c \in Cpus /\ m.c.flags \in Records /\ m.host \in [0 .. 7 -> Int]
  BY CpusFact DEF Blocks
<1>3. f.a = a /\ f.b = b /\ f.r = r
  BY <1>2 DEF Stored, Records
<1>4. PICK host : host = [x \in DOMAIN m.host |-> CASE x = held.a -> a [] x = held.b -> b [] x = held.r -> r [] OTHER -> m.host[x]]
  OBVIOUS
<1>5. host \in [0 .. 7 -> Int] /\ host[held.a] = a /\ host[held.b] = b /\ host[held.r] = r
  <2>1. DOMAIN m.host = 0 .. 7 /\ \A x \in 0 .. 7 : m.host[x] \in Int
    BY <1>2
  <2>2. host = [x \in 0 .. 7 |-> CASE x = held.a -> a [] x = held.b -> b [] x = held.r -> r [] OTHER -> m.host[x]]
    BY <1>4, <2>1
  <2>3. ASSUME NEW x \in 0 .. 7 PROVE host[x] \in Int
    <3>1. host[x] = CASE x = held.a -> a [] x = held.b -> b [] x = held.r -> r [] OTHER -> m.host[x]
      BY <2>2
    <3>2. CASE x = held.a
      BY <1>1, <3>1, <3>2
    <3>3. CASE x = held.b
      BY <1>1, <3>1, <3>3
    <3>4. CASE x = held.r
      BY <1>1, <3>1, <3>4
    <3>5. CASE x # held.a /\ x # held.b /\ x # held.r
      BY <2>1, <3>1, <3>5
    <3> QED
      BY <3>2, <3>3, <3>4, <3>5
  <2>4. host[held.a] = a /\ host[held.b] = b /\ host[held.r] = r
    BY <1>1, <2>2
  <2> QED
    BY <2>2, <2>3, <2>4
<1> DEFINE n == ArmRecord(m, kind, a, b, r, w, held)
           d == WithFlags(m.c, f)
<1>6. n = [m EXCEPT !.c = d, !.made = held, !.last = kind, !.lw = w, !.host = host]
  BY <1>4 DEF ArmRecord, WithFlags
<1>7. d \in Cpus
  BY <1>2 DEF WithFlags, Cpus
<1>8. w \in Nat
  BY DEF Width
<1> HIDE DEF n, d
<1>9. n \in Blocks /\ n.c = d /\ n.last = kind /\ n.lw = w /\ n.in = m.in /\ n.n = m.n /\ n.made = held /\ n.host = host
  BY <1>1, <1>5, <1>6, <1>7, <1>8 DEF Blocks
<1>10. Words(n.made, n.host, f)
  BY <1>3, <1>5, <1>9 DEF Words
<1> QED
  BY <1>9, <1>10 DEF n, d

(* The record the emitter makes is the interpreter's, whatever the block's was before. *)
LEMMA ArmRecordFact ==
  ASSUME NEW m, NEW g, NEW i, Loose(m, g, i), NEW kind \in Kinds \ {"None", "Explicit"}, NEW a \in Dwords, NEW b \in Dwords,
         NEW r \in Int, kind # "Logic" => r \in Dwords, NEW w \in Width, CarryInIsLive(kind) => m.c.flags.carry_in = CF(g.flags),
         kind \in WasmInline => Exact(Set(g.flags, kind, a, b, r, w)), NEW held \in RecordHolds,
         NEW n, n = ArmRecord(m, kind, a, b, r, w, held), NEW h, h = WithFlags(g, Set(g.flags, kind, a, b, r, w))
  PROVE  /\ Along(n, h, i) /\ Sure(n) /\ Fresh(n) /\ n.c.reg = m.c.reg /\ n.c.fs_base = m.c.fs_base
         /\ Done(n, h, i)
         /\ \A o \in Places : \A v \in Int : Plain(o) /\ WasmOk(m.c, o) =>
              Done(WasmWrite(n, o, v), Write(h, o, v), i) /\ Fresh(WasmWrite(n, o, v))
<1> DEFINE s == Stored(m.c.flags, kind, a, b, r, w)
           e == Set(g.flags, kind, a, b, r, w)
<1>1. m \in Blocks /\ m.c \in Cpus /\ g \in Cpus /\ m.c.flags \in Records /\ g.flags \in Records /\ Even(m.c, g) /\ a \in Int /\ b \in Int
  BY LooseFact, DwordsFact
<1>2. s \in Records /\ e \in Records /\ SameRecord(s, e)
  BY <1>1, SetFact
<1>3. s.kind = kind /\ s.a = a /\ s.b = b /\ s.r = r /\ s.w = w
  BY <1>1 DEF Stored, Records
<1>4. ArmKnown(kind, w, s)
  <2>1. e.kind = kind /\ e.a = a /\ e.b = b /\ e.r = r /\ e.w = w
    BY DEF Set
  <2>2. kind \in WasmInline => Exact(e)
    OBVIOUS
  <2> HIDE DEF s, e
  <2>3. Exact(e) => Exact(s)
    BY <1>3, <2>1 DEF Exact
  <2> QED
    BY <1>3, <2>2, <2>3 DEF Known, ArmKnown
<1>5. /\ n \in Blocks /\ n.c = WithFlags(m.c, s) /\ n.last = kind /\ n.lw = w /\ n.in = m.in /\ n.n = m.n
      /\ Words(n.made, n.host, s)
  BY <1>1, <1>2, ArmRecorded
<1>13. h = WithFlags(g, e)
  OBVIOUS
<1> HIDE DEF s, e
<1>6. n.c.flags = s /\ n.c.reg = m.c.reg /\ n.c.fs_base = m.c.fs_base
  BY <1>1, <1>5 DEF WithFlags, Cpus
<1>7. PICK p : p = [m EXCEPT !.c.flags = s]
  OBVIOUS
<1>8. Along(p, h, i) /\ p.c = WithFlags(m.c, s)
  <2>1. PICK x \in Records, y \in Records : x = s /\ y = e /\ SameRecord(x, y)
    BY <1>2
  <2>2. /\ Along([m EXCEPT !.c.flags = x], WithFlags(g, y), i)
        /\ [m EXCEPT !.c.flags = x].c = WithFlags(m.c, x)
    BY <2>1, RecordBoth
  <2> QED
    BY <1>7, <1>13, <2>1, <2>2
<1>9. Along(n, h, i)
  BY <1>5, <1>8 DEF Along, Loose
<1>10. Sure(n) /\ Fresh(n)
  BY <1>4, <1>5, <1>6 DEF Sure, Fresh, ArmKnown
<1>11. ASSUME NEW o \in Places, NEW v \in Int, Plain(o), WasmOk(m.c, o)
       PROVE  Done(WasmWrite(n, o, v), Write(h, o, v), i) /\ Fresh(WasmWrite(n, o, v))
  <2>1. WasmOk(n.c, o)
    BY <1>6, <1>11, SameAddress
  <2>2. Along(WasmWrite(n, o, v), Write(h, o, v), i) /\ Sure(WasmWrite(n, o, v))
    BY <1>9, <1>10, <1>11, <2>1, WriteAlong
  <2>3. Quiet(n, WasmWrite(n, o, v))
    BY <1>5, WriteQuiet
  <2>4. Fresh(WasmWrite(n, o, v))
    BY <1>10, <2>3 DEF Quiet, Fresh
  <2> QED
    BY <2>2, <2>4, AlongDone
<1>12. Done(n, h, i)
  BY <1>9, <1>10, AlongDone
<1> QED
  BY <1>6, <1>9, <1>10, <1>11, <1>12

\* A memory operand is only met with the records alike.
Reaches(m, g, i, o) == IsMem(o) => Along(m, g, i)

(* Two operands of an instruction of the ARM64 backend.                      *)
LEMMA ArmOperands2 ==
  ASSUME NEW m, NEW g, NEW i, Loose(m, g, i), NEW o \in Places, NEW s \in Places \cup Immediates, Plain(o), Plain(s)
  PROVE  /\ ArmOk(m.c, o) <=> Readable(g, o)
         /\ ArmOk(m.c, s) <=> Readable(g, s)
         /\ WasmOk(m.c, o) <=> Readable(g, o)
         /\ Readable(g, o) => /\ ArmValue(m.c, o) = Value(g, o) /\ Value(g, o) \in Dwords /\ Value(g, o) \in Int
                              /\ Trunc(Value(g, o), o.w) = Value(g, o)
         /\ Readable(g, s) => /\ ArmValue(m.c, s) \in Int /\ Value(g, s) \in Int /\ ArmValue(m.c, s) \in Dwords
                              /\ \A w \in Width : Means(s, w) => Trunc(ArmValue(m.c, s), w) = Trunc(Value(g, s), w)
         /\ o \in Places \cup Immediates
<1>1. m.c \in Cpus /\ g \in Cpus /\ Even(m.c, g) /\ o \in Places \cup Immediates
  BY LooseFact
<1>2. ArmOk(m.c, o) = WasmOk(m.c, o) /\ ArmOk(m.c, s) = WasmOk(m.c, s) /\ ArmValue(m.c, o) = WasmValue(m.c, o)
      /\ ArmValue(m.c, s) = WasmValue(m.c, s)
  BY <1>1, ArmOperandIs
<1> QED
  BY <1>1, <1>2, EvenOperands

(* The fault of an operand.                                                  *)
LEMMA ArmFault ==
  ASSUME NEW m, NEW g, NEW i, NEW o, Reaches(m, g, i, o), ~Readable(g, o), NEW dead
  PROVE  ArmDone(MemoryFaultAt(m, i), Fault(g), i, dead) /\ ~MemoryFaultAt(m, i).in
<1>1. Along(m, g, i)
  BY DEF Reaches, Readable, IsMem
<1> QED
  BY <1>1, FaultDone DEF ArmDone

(* The end of an instruction that made a record, or did not when nobody can see it. *)
LEMMA ArmWritten ==
  ASSUME NEW m, NEW g, NEW i, Loose(m, g, i), NEW kind \in Kinds \ {"None", "Explicit"}, NEW a \in Dwords, NEW b \in Dwords,
         NEW r \in Int, kind # "Logic" => r \in Dwords, NEW w \in Width, CarryInIsLive(kind) => m.c.flags.carry_in = CF(g.flags),
         kind \in WasmInline => Exact(Set(g.flags, kind, a, b, r, w)), NEW held \in RecordHolds,
         NEW n, n = ArmRecord(m, kind, a, b, r, w, held), NEW h, h = WithFlags(g, Set(g.flags, kind, a, b, r, w)),
         NEW o \in Places, Plain(o), WasmOk(m.c, o), NEW dead \in BOOLEAN
  PROVE  /\ ArmDone(IF dead THEN m ELSE n, h, i, dead)
         /\ ArmDone(ArmWrite(IF dead THEN m ELSE n, o, r), Write(h, o, r), i, dead)
<1>1. Done(n, h, i) /\ Fresh(n) /\ Done(WasmWrite(n, o, r), Write(h, o, r), i) /\ Fresh(WasmWrite(n, o, r)) /\ n.c \in Cpus
  <2>1. /\ Along(n, h, i) /\ Sure(n) /\ Fresh(n) /\ Done(n, h, i)
        /\ \A q \in Places : \A v \in Int : Plain(q) /\ WasmOk(m.c, q) =>
             Done(WasmWrite(n, q, v), Write(h, q, v), i) /\ Fresh(WasmWrite(n, q, v))
    BY ArmRecordFact
  <2> QED
    BY <2>1, AlongFact
<1>2. Loose(m, h, i) /\ m.c \in Cpus
  <2>1. Set(g.flags, kind, a, b, r, w) \in Records
    BY SetFact
  <2> QED
    BY <2>1, RecordLoose, LooseFact
<1>3. Loose(WasmWrite(m, o, r), Write(h, o, r), i)
  BY <1>2, WriteLoose
<1>4. ArmWrite(m, o, r) = WasmWrite(m, o, r) /\ ArmWrite(n, o, r) = WasmWrite(n, o, r)
  BY <1>1, <1>2, ArmWriteIs
<1> QED
  BY <1>1, <1>2, <1>3, <1>4 DEF ArmDone

(* emit_alu_inline.                                                          *)
LEMMA ArmAluFact ==
  ASSUME NEW m, NEW g, NEW i, Loose(m, g, i), NEW in, in.x \in Inlined, in.o0 \in Places, in.o1 \in Sources(in.o0.w),
         Plain(in.o0), Plain(in.o1), Reaches(m, g, i, in.o0), Reaches(m, g, i, in.o1), NEW dead \in BOOLEAN
  PROVE  ArmDone(ArmAlu(m, in, dead, i), ExecAlu(g, in), i, dead)
<1> DEFINE o == in.o0
           s == in.o1
           w == in.o0.w
           op == in.x
<1>1. w \in Width /\ s \in Places \cup Immediates /\ Means(s, w)
  <2>1. w \in Width
    BY PlacesFact
  <2> QED
    BY <2>1, SourceFact
<1>2. /\ ArmOk(m.c, o) <=> Readable(g, o)
      /\ ArmOk(m.c, s) <=> Readable(g, s)
      /\ WasmOk(m.c, o) <=> Readable(g, o)
      /\ Readable(g, o) => ArmValue(m.c, o) = Value(g, o) /\ Value(g, o) \in Int /\ Trunc(Value(g, o), w) = Value(g, o)
      /\ Readable(g, s) => /\ ArmValue(m.c, s) \in Int /\ Value(g, s) \in Int
                           /\ Trunc(ArmValue(m.c, s), w) = Trunc(Value(g, s), w)
  BY <1>1, ArmOperands2
<1>3. CASE Readable(g, o) /\ Readable(g, s)
  <2> DEFINE x == Value(g, o)
             y == Value(g, s)
             b == Trunc(y, w)
             r == AluResult(op, x, y, w)
             kind == InlineKind(op)
             e == Set(g.flags, kind, x, b, r, w)
             held == [a |-> 0, b |-> 1, r |-> 2]
             n == ArmRecord(m, kind, x, b, r, w, held)
             h == WithFlags(g, e)
  <2>1. x \in Int /\ y \in Int /\ Trunc(x, w) = x
    BY <1>2, <1>3
  <2>2. /\ x \in Dwords /\ b \in Dwords /\ r \in Int /\ (kind # "Logic" => r \in Dwords)
        /\ kind \in {"Add", "Sub", "Logic"} /\ kind \in Kinds
        /\ Alu(op, x, y, w, g.flags) = [r |-> r, f |-> e]
        /\ AluResult(op, x, b, w) = r
        /\ Exact(e)
    <3> HIDE DEF x, y
    <3> QED
      BY <1>1, <2>1, InlineFact
  <2>3. ArmAlu(m, in, dead, i) = IF op \in Compares THEN (IF dead THEN m ELSE n) ELSE ArmWrite(IF dead THEN m ELSE n, o, r)
    <3>1. AluResult(op, ArmValue(m.c, o), Trunc(ArmValue(m.c, s), w), w) = r
      BY <1>2, <1>3, <2>2
    <3> QED
      BY <1>1, <1>2, <1>3, <3>1 DEF ArmAlu
  <2>4. ExecAlu(g, in) = IF op \in Compares THEN h ELSE Write(h, o, r)
    <3>1. PICK t : t = Alu(op, Value(g, o), Value(g, s), w, g.flags)
      OBVIOUS
    <3>2. ExecAlu(g, in) = IF op \in {"Cmp", "Test"} THEN WithFlags(g, t.f) ELSE Write(WithFlags(g, t.f), o, t.r)
      BY <1>3, <3>1 DEF ExecAlu
    <3>3. t.f = e /\ t.r = r
      <4> HIDE DEF e, r
      <4> QED
        BY <2>2, <3>1
    <3> QED
      BY <3>2, <3>3 DEF Compares
  <2>5. held \in RecordHolds
    BY DEF RecordHolds
  <2> HIDE DEF kind, x, b, r, held
  <2>6. ~CarryInIsLive(kind) /\ kind \in Kinds \ {"None", "Explicit"}
    BY <2>2 DEF CarryInIsLive
  <2>7. PICK p, q : p = n /\ q = h
    OBVIOUS
  <2>8. /\ ArmDone(IF dead THEN m ELSE p, q, i, dead)
        /\ ArmDone(ArmWrite(IF dead THEN m ELSE p, o, r), Write(q, o, r), i, dead)
    BY <1>1, <1>2, <1>3, <2>2, <2>5, <2>6, <2>7, ArmWritten
  <2> QED
    BY <2>3, <2>4, <2>7, <2>8
<1>4. CASE ~(Readable(g, o) /\ Readable(g, s))
  <2>1. ArmAlu(m, in, dead, i) = MemoryFaultAt(m, i)
    BY <1>2, <1>4 DEF ArmAlu
  <2>2. ExecAlu(g, in) = Fault(g)
    BY <1>4 DEF ExecAlu
  <2> QED
    BY <1>4, <2>1, <2>2, ArmFault
<1> QED
  BY <1>3, <1>4

(* A byte of a word with one more byte above it.                             *)
LEMMA ByteAbove ==
  ASSUME NEW j \in 0 .. 3, NEW i \in 0 .. 3, j <= i, NEW v \in 0 .. Power(i * ByteBits) - 1, NEW x \in Bytes
  PROVE  ByteOf(v + x * Power(i * ByteBits), j) = IF j = i THEN x ELSE ByteOf(v, j)
<1>1. PICK b \in Nat : b = ByteBits /\ b >= 2 /\ Bits(4) = 4 * b /\ Bits(1) = b
  BY BitsFact
<1>2. PICK s \in Nat, t \in Nat : s = i * b /\ t = j * b /\ s <= 4 * b /\ t <= s
  <2>1. (i = 0 \/ i = 1 \/ i = 2 \/ i = 3) /\ (j = 0 \/ j = 1 \/ j = 2 \/ j = 3)
    OBVIOUS
  <2> QED
    BY <1>1, <2>1
<1>3. PICK p \in Nat \ {0}, q \in Nat \ {0}, u \in Nat \ {0} : p = Power(s) /\ q = Power(b) /\ u = Power(t)
  <2>1. s \in 0 .. Bits(4) + 1 /\ b \in 0 .. Bits(4) + 1 /\ t \in 0 .. Bits(4) + 1
    BY <1>1, <1>2
  <2> QED
    BY <2>1, PowerFact
<1>4. x \in 0 .. q - 1 /\ x \in Int
  BY <1>1, <1>3 DEF Bytes
<1>5. v \in 0 .. p - 1
  BY <1>1, <1>2, <1>3
<1>6. ByteOf(v, j) = (v \div u) % q /\ ByteOf(v + x * Power(i * ByteBits), j) = ((v + x * p) \div u) % q
  BY <1>1, <1>2, <1>3 DEF ByteOf
<1>7. CASE j = i
  <2>1. u = p
    BY <1>2, <1>3, <1>7
  <2>2. (p * x + v) \div p = x
    BY <1>4, <1>5, DivUnique
  <2>3. v + x * p = p * x + v
    BY <1>4, <1>5
  <2>4. x % q = x
    BY <1>4, DivUnique
  <2> QED
    BY <1>6, <1>7, <2>1, <2>2, <2>3, <2>4
<1>8. CASE j < i
  <2>1. PICK y \in Nat : s = t + (b + y) /\ t + (b + y) <= Bits(4) + 1 /\ b + y <= Bits(4) + 1 /\ b + y \in Nat
    <3>1. (i - j - 1) * b \in Nat /\ s = t + (b + (i - j - 1) * b)
      <4>1. (i = 0 \/ i = 1 \/ i = 2 \/ i = 3) /\ (j = 0 \/ j = 1 \/ j = 2 \/ j = 3)
        OBVIOUS
      <4> QED
        BY <1>1, <1>2, <1>8, <4>1
    <3> QED
      BY <1>1, <1>2, <3>1
  <2>2. PICK z \in Nat \ {0} : z = Power(y)
    <3>1. y \in 0 .. Bits(4) + 1
      BY <1>1, <2>1
    <3> QED
      BY <3>1, PowerFact
  <2>3. p = u * (q * z)
    <3>1. Power(t + (b + y)) = Power(t) * Power(b + y)
      BY <2>1, PowerAdd
    <3>2. Power(b + y) = Power(b) * Power(y)
      BY <2>1, PowerAdd
    <3> QED
      BY <1>3, <2>1, <2>2, <3>1, <3>2
  <2>4. PICK h \in Int, r \in 0 .. u - 1 : v = u * h + r /\ v \div u = h
    BY <1>5, Split
  <2>5. v + x * p = u * (q * (z * x) + h) + r /\ z * x \in Int /\ q * (z * x) + h \in Int
    <3>1. PICK w \in Int : w = z * x
      BY <1>4
    <3>2. x * p = u * (q * w)
      BY <1>4, <2>3, <3>1
    <3> QED
      BY <2>4, <3>1, <3>2
  <2>6. (v + x * p) \div u = q * (z * x) + h
    BY <2>5, DivUnique
  <2>7. (q * (z * x) + h) % q = h % q
    BY <2>5, ModMultiple
  <2> QED
    BY <1>6, <1>8, <2>4, <2>6, <2>7
<1> QED
  BY <1>7, <1>8

(* The bytes of a loaded word are those of memory.                           *)
LEMMA LoadBytes ==
  ASSUME NEW d, d.mem \in [Window -> Bytes], NEW w \in Width, NEW a \in Int, Accessible(a, w), NEW j \in 0 .. w - 1
  PROVE  ByteOf(Load(d, a, w), j) = d.mem[a + j]
<1>1. PICK b \in Nat : b = ByteBits /\ b >= 2 /\ Bits(4) = 4 * b /\ Bits(1) = b
  BY BitsFact
<1>2. w \in 1 .. 4 /\ w \in Nat
  BY DEF Width
<1> DEFINE step == [i \in 1 .. w |-> [v \in Nat |-> v + d.mem[a + i - 1] * Power((i - 1) * ByteBits)]]
<1>3. \A i \in 0 .. w - 1 : a + i \in Window /\ d.mem[a + i] \in Bytes
  <2>1. \A i \in 0 .. w - 1 : a + i \in Window
    BY <1>2, WindowAssumption DEF Accessible, Window
  <2> QED
    BY <2>1
<1>4. ASSUME NEW i \in 0 .. 4
      PROVE  i * b \in 0 .. Bits(4) + 1 /\ Power(i * ByteBits) \in Nat \ {0} /\ (i < 4 => i * b + b = (i + 1) * b /\ i * b + b <= Bits(4) + 1)
  <2>1. i = 0 \/ i = 1 \/ i = 2 \/ i = 3 \/ i = 4
    OBVIOUS
  <2>2. i * b \in 0 .. Bits(4) + 1 /\ (i < 4 => i * b + b = (i + 1) * b /\ i * b + b <= Bits(4) + 1)
    BY <1>1, <2>1
  <2>3. Power(i * b) \in Nat \ {0}
    BY <2>2, PowerFact
  <2> QED
    BY <1>1, <2>2, <2>3
<1>5. PICK q \in Nat \ {0} : q = Power(b) /\ Bytes = 0 .. q - 1
  <2>1. b \in 0 .. Bits(4) + 1
    BY <1>1
  <2> QED
    BY <1>1, <2>1, PowerFact DEF Bytes
<1>6. Steps(step, Nat, w)
  <2>1. ASSUME NEW i \in 1 .. w, NEW v \in Nat PROVE v + d.mem[a + i - 1] * Power((i - 1) * ByteBits) \in Nat
    <3>0. i - 1 \in 0 .. w - 1 /\ i - 1 \in 0 .. 4 /\ a + i - 1 = a + (i - 1)
      BY <1>2
    <3>1. d.mem[a + (i - 1)] \in Nat
      BY <1>3, <1>5, <3>0
    <3>2. Power((i - 1) * ByteBits) \in Nat
      BY <1>4, <3>0
    <3>3. PICK x \in Nat, p \in Nat : x = d.mem[a + (i - 1)] /\ p = Power((i - 1) * ByteBits)
      BY <3>1, <3>2
    <3>4. v + x * p \in Nat
      OBVIOUS
    <3> QED
      BY <3>0, <3>3, <3>4
  <2> QED
    BY <2>1 DEF Steps
<1>7. PICK f : f = WalkStep(f, 0, step, w) /\ \A i \in 0 .. w : f[i] \in Nat
  BY <1>2, <1>6, WalkExists
<1>8. f = LoadStep(f, d.mem, a, w)
  <2>1. ASSUME NEW i \in 0 .. w, i # 0
        PROVE  step[i][f[i - 1]] = f[i - 1] + d.mem[a + i - 1] * Power((i - 1) * ByteBits)
    <3>1. i \in 1 .. w /\ i - 1 \in 0 .. w
      BY <1>2, <2>1
    <3> QED
      BY <1>7, <3>1
  <2> HIDE DEF step
  <2>2. [i \in 0 .. w |-> IF i = 0 THEN 0 ELSE step[i][f[i - 1]]] = LoadStep(f, d.mem, a, w)
    BY <2>1 DEF LoadStep
  <2> QED
    BY <1>7, <2>2 DEF WalkStep
<1> HIDE DEF step
<1>9. ASSUME NEW g, g = LoadStep(g, d.mem, a, w) PROVE ByteOf(g[w], j) = d.mem[a + j]
  <2> DEFINE T == {i \in 0 .. w : g[i] \in 0 .. Power(i * ByteBits) - 1 /\ \A n \in 0 .. i - 1 : ByteOf(g[i], n) = d.mem[a + n]}
  <2>0. \A i \in 0 .. w : g[i] = IF i = 0 THEN 0 ELSE g[i - 1] + d.mem[a + i - 1] * Power((i - 1) * ByteBits)
    BY <1>9 DEF LoadStep
  <2>1. 0 \in T
    <3>1. g[0] = 0 /\ 0 * ByteBits = 0 /\ 0 \in 0 .. w
      BY <1>1, <1>2, <2>0
    <3> QED
      BY <3>1, PowerFact
  <2>2. ASSUME NEW i \in 0 .. w - 1, i \in T PROVE i + 1 \in T
    <3>1. i + 1 \in 1 .. w /\ i + 1 \in 0 .. w /\ (i + 1) - 1 = i /\ i \in 0 .. 3 /\ i \in 0 .. 4 /\ a + (i + 1) - 1 = a + i
      BY <1>2
    <3>2. PICK x \in Bytes, p \in Nat \ {0} : x = d.mem[a + i] /\ p = Power(i * ByteBits)
      BY <1>3, <1>4, <3>1
    <3>3. g[i + 1] = g[i] + x * p /\ g[i] \in 0 .. p - 1
      BY <2>0, <2>2, <3>1, <3>2
    <3>4. Power((i + 1) * ByteBits) = p * q
      <4>1. i * b \in Nat /\ b \in Nat /\ i * b + b <= Bits(4) + 1 /\ i * b + b = (i + 1) * b
        BY <1>4, <3>1
      <4>2. Power(i * b + b) = Power(i * b) * Power(b)
        BY <4>1, PowerAdd
      <4> QED
        BY <1>1, <1>5, <3>2, <4>1, <4>2
    <3>5. g[i + 1] \in 0 .. p * q - 1
      <4>1. x \in 0 .. q - 1
        BY <1>5
      <4>2. g[i] + p * x \in 0 .. p * q - 1
        BY <3>3, <4>1, Appended
      <4>3. p * x = x * p
        BY <4>1
      <4> QED
        BY <3>3, <4>2, <4>3
    <3>6. ASSUME NEW n \in 0 .. (i + 1) - 1 PROVE ByteOf(g[i + 1], n) = d.mem[a + n]
      <4>1. n \in 0 .. 3 /\ n <= i
        BY <3>1
      <4>2. ByteOf(g[i] + x * p, n) = IF n = i THEN x ELSE ByteOf(g[i], n)
        BY <3>1, <3>2, <3>3, <4>1, ByteAbove
      <4>3. n # i => ByteOf(g[i], n) = d.mem[a + n]
        BY <2>2, <4>1
      <4> QED
        BY <3>2, <3>3, <4>2, <4>3
    <3> QED
      BY <3>1, <3>4, <3>5, <3>6
  <2>3. 0 .. w \subseteq T
    <3> HIDE DEF T
    <3> QED
      BY <1>2, <2>1, <2>2, InductionInterval
  <2> QED
    BY <1>2, <2>3
<1>10. Load(d, a, w) = (CHOOSE g : g = LoadStep(g, d.mem, a, w))[w]
  BY LoadIs DEF LoadOf
<1>11. PICK g : g = CHOOSE x : x = LoadStep(x, d.mem, a, w)
  OBVIOUS
<1>12. g = LoadStep(g, d.mem, a, w)
  BY <1>8, <1>11
<1> QED
  BY <1>9, <1>10, <1>11, <1>12

(* A field put back where it was.                                            *)
LEMMA FieldSame ==
  ASSUME NEW v \in Dwords
  PROVE  /\ \A w \in Width : WithField(v, 0, w, Trunc(v, w)) = v
         /\ \A j \in 0 .. 3 : WithField(v, j, 1, ByteOf(v, j)) = v
<1>1. PICK b \in Nat : b = ByteBits /\ b >= 2 /\ Bits(4) = 4 * b /\ Bits(1) = b
  BY BitsFact
<1>2. v \in Int
  BY DwordsFact
<1>3. ASSUME NEW w \in Width PROVE WithField(v, 0, w, Trunc(v, w)) = v
  <2>1. 0 * ByteBits = 0 /\ Power(0) = 1
    BY <1>1, PowerFact
  <2>2. v \div 1 = v
    BY <1>2, DivUnique
  <2>3. Trunc(Trunc(v, w), w) = Trunc(v, w) /\ Trunc(v, w) \in Int
    BY <1>2, TruncFact
  <2>4. WithField(v, 0, w, Trunc(v, w)) = v + (Trunc(v, w) - Trunc(v, w)) * 1
    BY <2>1, <2>2, <2>3 DEF WithField
  <2> QED
    BY <1>2, <2>3, <2>4
<1>4. ASSUME NEW j \in 0 .. 3 PROVE WithField(v, j, 1, ByteOf(v, j)) = v
  <2>1. j * b \in 0 .. Bits(4) + 1
    <3>1. j = 0 \/ j = 1 \/ j = 2 \/ j = 3
      OBVIOUS
    <3> QED
      BY <1>1, <3>1
  <2>2. PICK p \in Nat \ {0} : p = Power(j * ByteBits)
    BY <1>1, <2>1, PowerFact
  <2>3. v \div p \in Int
    BY <1>2, DivMod
  <2>4. ByteOf(v, j) = Trunc(v \div p, 1)
    BY <1>1, <2>2 DEF ByteOf, Trunc
  <2>5. Trunc(ByteOf(v, j), 1) = ByteOf(v, j) /\ ByteOf(v, j) \in Int
    BY <2>3, <2>4, TruncFact, NamesFact
  <2>6. WithField(v, j, 1, ByteOf(v, j)) = v + (ByteOf(v, j) - ByteOf(v, j)) * p
    BY <2>2, <2>4, <2>5 DEF WithField
  <2> QED
    BY <1>2, <2>2, <2>5, <2>6
<1> QED
  BY <1>3, <1>4

(* A value written back where it came from changes nothing.                  *)
LEMMA WriteSame ==
  ASSUME NEW d \in Cpus, NEW o \in Places, Readable(d, o)
  PROVE  Write(d, o, Value(d, o)) = d
<1>1. /\ d.reg \in [0 .. 7 -> Dwords] /\ d.mem \in [Window -> Bytes] /\ o.w \in Width
      /\ (o.k = "Reg" => o.r \in 0 .. 7) /\ o.k \in {"Reg", "Mem"} /\ (o.k = "Mem" => o \in MemoryOf(Widths))
  BY CpusFact, PlacesFact
<1>2. \A regs : regs = d.reg => [d EXCEPT !.reg = regs] = d
  BY DEF Cpus
<1>3. CASE o.k = "Reg" /\ o.w = 1
  <2>1. PICK q \in 0 .. 7, j \in 0 .. 3 : q = o.r % 4 /\ j = o.r \div 4
    BY <1>1, <1>3, RegisterFact
  <2>2. Write(d, o, Value(d, o)) = [d EXCEPT !.reg[q] = WithField(d.reg[q], j, 1, ByteOf(d.reg[q], j))]
    BY <1>3, <2>1 DEF Write, Value, WriteReg, ReadReg
  <2>3. WithField(d.reg[q], j, 1, ByteOf(d.reg[q], j)) = d.reg[q]
    BY <1>1, FieldSame
  <2>4. [d.reg EXCEPT ![q] = d.reg[q]] = d.reg
    BY <1>1
  <2> QED
    BY <1>2, <2>2, <2>3, <2>4
<1>4. CASE o.k = "Reg" /\ o.w # 1
  <2>1. PICK q \in 0 .. 7, w \in Width : q = o.r /\ w = o.w
    BY <1>1, <1>4
  <2>2. Write(d, o, Value(d, o)) = [d EXCEPT !.reg[q] = WithField(d.reg[q], 0, w, Trunc(d.reg[q], w))]
    BY <1>4, <2>1 DEF Write, Value, WriteReg, ReadReg
  <2>3. WithField(d.reg[q], 0, w, Trunc(d.reg[q], w)) = d.reg[q]
    BY <1>1, FieldSame
  <2>4. [d.reg EXCEPT ![q] = d.reg[q]] = d.reg
    BY <1>1
  <2> QED
    BY <1>2, <2>2, <2>3, <2>4
<1>5. CASE o.k = "Mem"
  <2>1. PICK a \in Int : a = Address(d, o) /\ Accessible(a, o.w)
    BY <1>1, <1>5, AddressFact DEF Readable
  <2>2. Write(d, o, Value(d, o)) = Store(d, a, o.w, Load(d, a, o.w))
    BY <1>5, <2>1 DEF Write, Value
  <2>3. ASSUME NEW x \in Window, x \in a .. a + o.w - 1 PROVE ByteOf(Load(d, a, o.w), x - a) = d.mem[x]
    <3>1. x - a \in 0 .. o.w - 1 /\ a + (x - a) = x
      BY <1>1, <2>1, <2>3, WindowAssumption DEF Window, Width
    <3> QED
      BY <1>1, <2>1, <3>1, LoadBytes
  <2>4. [x \in Window |-> IF x \in a .. a + o.w - 1 THEN ByteOf(Load(d, a, o.w), x - a) ELSE d.mem[x]] = d.mem
    BY <1>1, <2>3
  <2>5. \A mem : mem = d.mem => [d EXCEPT !.mem = mem] = d
    BY DEF Cpus
  <2> QED
    BY <2>2, <2>4, <2>5 DEF Store
<1> QED
  BY <1>1, <1>3, <1>4, <1>5

(* The count of a shift.                                                     *)
LEMMA CountValue ==
  ASSUME NEW d \in Cpus, NEW e \in Cpus, Even(d, e), NEW s \in ByteCounts
  PROVE  /\ ArmOk(d, s) /\ Readable(e, s) /\ ArmValue(d, s) = Value(e, s) /\ Value(e, s) \in Int
         /\ \A w \in Width : Trunc(Value(e, s), w) = Value(e, s)
         /\ s.k = "Imm" => Value(e, s) = s.v
<1>1. s \in Places \cup Immediates /\ s.k \in {"Reg", "Imm"} /\ s.w \in Width
  BY CountsFact, PlacesFact DEF ByteCounts, CountBytes, Registers, Immediates
<1>2. ArmOk(d, s) /\ Readable(e, s)
  BY <1>1 DEF ArmOk, IsMem, Readable
<1>3. d.reg = e.reg /\ d.reg \in [0 .. 7 -> Dwords]
  BY CpusFact DEF Even
<1>4. \A v \in Bytes : v \in Int /\ \A w \in Width : Trunc(v, w) = v
  <2>1. ASSUME NEW v \in Bytes, NEW w \in Width PROVE Trunc(v, w) = v
    <3>1. PICK p, q \in Nat : p = Power(Bits(1)) /\ q = Power(Bits(w)) /\ p <= q
      BY WidthFact, NamesFact
    <3>2. v \in 0 .. Power(Bits(w)) - 1
      BY <3>1 DEF Bytes
    <3> QED
      BY <3>2, TruncFact
  <2>2. \A v \in Bytes : v \in Int
    BY DwordsFact
  <2> QED
    BY <2>1, <2>2
<1>5. ArmValue(d, s) = Value(e, s) /\ Value(e, s) \in Bytes
  <2>1. CASE s.k = "Imm"
    <3>1. s.v \in Bytes
      BY <2>1 DEF ByteCounts, CountBytes, Registers
    <3> QED
      BY <1>1, <1>4, <2>1, <3>1 DEF ArmValue, Value
  <2>2. CASE s.k = "Reg"
    <3>1. s.r \in 0 .. 7 /\ s.w = 1
      BY <1>1, <2>2, PlacesFact DEF ByteCounts, CountBytes, Immediates
    <3>2. ReadReg(d, s.r, 1) = ReadReg(e, s.r, 1) /\ ReadReg(d, s.r, 1) \in 0 .. Power(Bits(1)) - 1
      BY <1>3, <3>1, ReadRegFact, NamesFact
    <3> QED
      BY <2>2, <3>1, <3>2 DEF ArmValue, Value, Bytes
  <2> QED
    BY <1>1, <2>1, <2>2
<1>6. s.k = "Imm" => Value(e, s) = s.v
  BY DEF Value
<1> QED
  BY <1>2, <1>4, <1>5, <1>6

\* In the middle of instruction i of the ARM64 backend, the records alike and what it knows of its own so.
Ready(m, g, i) ==
  Along(m, g, i) /\ ArmKnown(m.last, m.lw, m.c.flags) /\ m.made = NothingHeld /\ Words(m.held, m.host, m.c.flags)

(* It is what the WebAssembly backend's instructions begin in, too.          *)
LEMMA ReadyFact ==
  ASSUME NEW m, NEW g, NEW i, Ready(m, g, i)
  PROVE  Along(m, g, i) /\ Sure(m) /\ Fresh(m) /\ Loose(m, g, i) /\ Done(m, g, i) /\ m.made = NothingHeld
<1>1. Along(m, g, i) /\ Sure(m) /\ m.made = NothingHeld
  BY DEF Ready, ArmKnown, Sure
<1>2. Fresh(m)
  BY DEF Ready, Fresh, Words, NothingHeld
<1> QED
  BY <1>1, <1>2, AlongLoose, AlongDone

(* An instruction that leaves the record and what is known of it alone.      *)
LEMMA QuietDone ==
  ASSUME NEW m, NEW g, NEW i, Ready(m, g, i), NEW n, NEW h, Done(n, h, i), n.in => Quiet(m, n), NEW dead
  PROVE  ArmDone(n, h, i, dead)
  BY ReadyFact, QuietFresh DEF ArmDone, Ready

(* One that forgets what it knew.                                            *)
LEMMA ForgetDone ==
  ASSUME NEW m, NEW g, NEW i, NEW dead, ArmDone(m, g, i, dead)
  PROVE  ArmDone(Forgot([m EXCEPT !.made = NothingHeld]), g, i, dead)
<1> DEFINE n == Forgot([m EXCEPT !.made = NothingHeld])
<1>1. NothingHeld \in Holds /\ Unknown \in Kinds \cup {Unknown} /\ 0 \in Nat
  BY DEF Holds, NothingHeld
<1>2. m \in Blocks
  BY DEF ArmDone, Done, Loose
<1>3. /\ n \in Blocks /\ n.c = m.c /\ n.n = m.n /\ n.in = m.in /\ n.exit = m.exit /\ n.last = Unknown /\ n.lw = 0
      /\ n.made = NothingHeld
  BY <1>1, <1>2 DEF Blocks, Forgot, Learned
<1> HIDE DEF n
<1>4. Sure(n) /\ Fresh(n)
  <2>1. Sure(n)
    BY <1>3 DEF Sure, Known, Unknown, WasmInline
  <2> QED
    BY <1>3, <2>1, PlainFresh
<1>5. CASE Done(m, g, i)
  <2>1. Done(n, g, i)
    BY <1>3, <1>4, <1>5 DEF Done
  <2> QED
    BY <1>4, <2>1 DEF ArmDone, n
<1>6. CASE dead /\ Loose(m, g, i)
  <2>1. Loose(n, g, i)
    BY <1>3, <1>6 DEF Loose
  <2> QED
    BY <1>6, <2>1 DEF ArmDone, n
<1> QED
  BY <1>5, <1>6 DEF ArmDone

(* emit_shift_inline of a count that shifts.                                 *)
LEMMA ShiftWritten ==
  ASSUME NEW m, NEW g, NEW i, Loose(m, g, i), NEW op \in ShiftOps, NEW o \in Places, NEW s \in ByteCounts, Plain(o),
         Readable(g, o), NEW n, n = MaskedCount(Value(g, s)), n # 0, NEW dead \in BOOLEAN,
         NEW in, in.x = op, in.o0 = o, in.o1 = s
  PROVE  LET a == Value(g, o)
             r == ShiftResult(op, a, n, o.w)
         IN  ArmDone(ArmWrite(IF dead THEN m ELSE ArmRecord(m, op, a, n, r, o.w, [a |-> 0, b |-> 1, r |-> 2]), o, r),
                     ExecAlu(g, in), i, dead)
<1> DEFINE w == o.w
<1>1. w \in Width /\ s \in Places \cup Immediates /\ m.c \in Cpus /\ g \in Cpus /\ Even(m.c, g)
  BY PlacesFact, CountsFact, LooseFact
<1>2. /\ WasmOk(m.c, o) /\ Value(g, o) \in Int /\ Trunc(Value(g, o), w) = Value(g, o) /\ Value(g, o) \in Dwords
  <2>1. Plain(s)
    BY DEF Plain, IsMem, ByteCounts, CountBytes, Immediates, Registers
  <2> QED
    BY <1>1, <2>1, ArmOperands2
<1>3. Readable(g, s) /\ Value(g, s) \in Int /\ Trunc(Value(g, s), w) = Value(g, s)
  BY <1>1, CountValue
<1>4. PICK x \in Int, y \in Int : x = Value(g, o) /\ y = Value(g, s) /\ Trunc(x, w) = x /\ Trunc(y, w) = y /\ x \in Dwords
  BY <1>2, <1>3
<1> DEFINE r == ShiftResult(op, x, n, w)
           e == Set(g.flags, op, x, n, r, w)
           held == [a |-> 0, b |-> 1, r |-> 2]
<1>5. x \in 0 .. Power(Bits(w)) - 1
  BY <1>1, <1>4, TruncFact
<1>6. n \in 0 .. Bits(4) - 1 /\ n \in Dwords
  BY <1>4, CountFact
<1>7. r \in Dwords /\ r \in Int
  <2> HIDE DEF w
  <2> QED
    BY <1>1, <1>5, <1>6, ShiftResultFact
<1>8. Alu(op, x, y, w, g.flags) = [r |-> r, f |-> e]
  <2>1. Alu(op, x, y, w, g.flags) = Shift(op, x, y, w, g.flags)
    BY <1>4 DEF Alu, ShiftOps
  <2>2. Shift(op, x, y, w, g.flags) = [r |-> r, f |-> e]
    BY <1>4 DEF Shift
  <2> QED
    BY <2>1, <2>2
<1>9. op \notin Compares /\ op \in Kinds \ {"None", "Explicit"} /\ op # "Logic" /\ op \notin WasmInline /\ ~CarryInIsLive(op)
  BY DEF Compares, ShiftOps, Kinds, Shifts, WasmInline, CarryInIsLive
<1>10. ExecAlu(g, in) = Write(WithFlags(g, e), o, r)
  <2>1. PICK t : t = Alu(op, x, y, w, g.flags)
    OBVIOUS
  <2>2. ExecAlu(g, in) = IF op \in {"Cmp", "Test"} THEN WithFlags(g, t.f) ELSE Write(WithFlags(g, t.f), o, t.r)
    BY <1>3, <1>4, <2>1 DEF ExecAlu
  <2>3. t.f = e /\ t.r = r
    <3> HIDE DEF e, r
    <3> QED
      BY <1>8, <2>1
  <2> QED
    BY <1>9, <2>2, <2>3 DEF Compares
<1>11. held \in RecordHolds
  BY DEF RecordHolds
<1>12. PICK p, h : p = ArmRecord(m, op, x, n, r, w, held) /\ h = WithFlags(g, e)
  OBVIOUS
<1> HIDE DEF r, held
<1>13. ArmDone(ArmWrite(IF dead THEN m ELSE p, o, r), Write(h, o, r), i, dead)
  BY <1>1, <1>2, <1>4, <1>6, <1>7, <1>9, <1>11, <1>12, ArmWritten
<1> QED
  BY <1>4, <1>10, <1>12, <1>13 DEF r, held

(* emit_shift_inline.                                                        *)
LEMMA ArmShiftFact ==
  ASSUME NEW m, NEW g, NEW i, Loose(m, g, i), NEW in, in.x \in ShiftOps, in.o0 \in Places, in.o1 \in ByteCounts, Plain(in.o0),
         Ready(m, g, i) \/ (~IsMem(in.o0) /\ in.o1.k = "Imm" /\ MaskedCount(in.o1.v) # 0), NEW dead \in BOOLEAN
  PROVE  ArmDone(ArmShift(m, in, dead, i), ExecAlu(g, in), i, dead)
<1> DEFINE o == in.o0
           s == in.o1
           n == MaskedCount(Value(g, s))
           a == Value(g, o)
           r == ShiftResult(in.x, a, n, o.w)
           e == ArmWrite(IF dead THEN m ELSE ArmRecord(m, in.x, a, n, r, o.w, [a |-> 0, b |-> 1, r |-> 2]), o, r)
<1>1. s \in Places \cup Immediates /\ m.c \in Cpus /\ g \in Cpus /\ Even(m.c, g) /\ Plain(s)
  <2>1. Plain(s)
    BY DEF Plain, IsMem, ByteCounts, CountBytes, Immediates, Registers
  <2> QED
    BY <2>1, CountsFact, LooseFact
<1>2. /\ ArmOk(m.c, o) <=> Readable(g, o)
      /\ Readable(g, o) => ArmValue(m.c, o) = Value(g, o) /\ Trunc(Value(g, o), o.w) = Value(g, o) /\ Value(g, o) \in Int
  BY <1>1, ArmOperands2
<1>3. /\ Readable(g, s) /\ ArmValue(m.c, s) = Value(g, s) /\ Value(g, s) \in Int /\ (s.k = "Imm" => Value(g, s) = s.v)
      /\ Trunc(Value(g, s), o.w) = Value(g, s)
  BY <1>1, CountValue, PlacesFact
<1>4. CASE ~Readable(g, o)
  <2>1. ArmShift(m, in, dead, i) = MemoryFaultAt(m, i) /\ ExecAlu(g, in) = Fault(g)
    BY <1>2, <1>4 DEF ArmShift, ExecAlu
  <2>2. Reaches(m, g, i, o)
    BY <1>4, ReadyFact DEF Reaches
  <2> QED
    BY <1>4, <2>1, <2>2, ArmFault
<1>5. CASE Readable(g, o)
  <2>1. ArmShift(m, in, dead, i) = IF s.k # "Imm" THEN Forgot([(IF n = 0 THEN m ELSE e) EXCEPT !.made = NothingHeld])
                                   ELSE IF n = 0 THEN m ELSE e
    BY <1>2, <1>3, <1>5 DEF ArmShift
  <2>2. n = 0 => ArmDone(m, ExecAlu(g, in), i, dead)
    <3> SUFFICES ASSUME n = 0 PROVE ArmDone(m, ExecAlu(g, in), i, dead)
      OBVIOUS
    <3>1. Ready(m, g, i)
      BY <1>3
    <3>2. Alu(in.x, Value(g, o), Value(g, s), o.w, g.flags) = [r |-> Value(g, o), f |-> g.flags]
      <4>1. Alu(in.x, Value(g, o), Value(g, s), o.w, g.flags) = Shift(in.x, Value(g, o), Value(g, s), o.w, g.flags)
        BY <1>2, <1>3, <1>5 DEF Alu, ShiftOps
      <4> QED
        BY <4>1 DEF Shift
    <3>3. ExecAlu(g, in) = Write(WithFlags(g, g.flags), o, Value(g, o))
      <4>1. PICK t : t = Alu(in.x, Value(g, o), Value(g, s), o.w, g.flags)
        OBVIOUS
      <4>2. in.x \notin {"Cmp", "Test"}
        BY DEF ShiftOps
      <4>3. ExecAlu(g, in) = Write(WithFlags(g, t.f), o, t.r)
        BY <1>3, <1>5, <4>1, <4>2 DEF ExecAlu
      <4> QED
        BY <3>2, <4>1, <4>3
    <3>4. WithFlags(g, g.flags) = g
      BY <1>1 DEF WithFlags, Cpus
    <3>5. ExecAlu(g, in) = g
      BY <1>1, <1>5, <3>3, <3>4, WriteSame
    <3> QED
      BY <3>1, <3>5, ReadyFact DEF ArmDone
  <2>3. n # 0 => ArmDone(e, ExecAlu(g, in), i, dead)
    BY <1>5, ShiftWritten
  <2> HIDE DEF e, n
  <2>4. ArmDone(IF n = 0 THEN m ELSE e, ExecAlu(g, in), i, dead)
    BY <2>2, <2>3
  <2> QED
    BY <2>1, <2>4, ForgetDone
<1> QED
  BY <1>4, <1>5

(* emit_compute_carry_in, saved in the record about to be replaced.          *)
LEMMA ArmCarrySaved ==
  ASSUME NEW m, NEW g, NEW i, Ready(m, g, i)
  PROVE  LET n == [m EXCEPT !.c.flags.carry_in = ArmCarry(m)]
         IN  Along(n, g, i) /\ n.c.flags.carry_in = CF(g.flags) /\ n.c.reg = m.c.reg /\ n.c.fs_base = m.c.fs_base
<1>1. Along(m, g, i) /\ Sure(m) /\ ArmKnown(m.last, m.lw, m.c.flags)
  BY ReadyFact DEF Ready
<1>2. m.c.flags \in Records
  BY <1>1, AlongFact
<1>3. WasmCarry(m) = CF(g.flags) /\ CF(m.c.flags) = CF(g.flags)
  <2>1. [m EXCEPT !.c.flags.carry_in = WasmCarry(m)].c.flags.carry_in = CF(g.flags)
    BY <1>1, CarryAlong
  <2>2. m \in Blocks /\ m.c \in Cpus
    BY <1>1 DEF Along, Blocks
  <2>3. \A v : [m EXCEPT !.c.flags.carry_in = v].c.flags.carry_in = v
    BY <1>2, <2>2 DEF Blocks, Cpus, Records
  <2>4. CF(m.c.flags) = CF(g.flags)
    BY <1>1, AlongFact, SameEflags
  <2> QED
    BY <2>1, <2>3, <2>4
<1>4. ArmCarry(m) = WasmCarry(m)
  <2>1. CASE m.last \in WasmInline \cup {"Explicit"}
    <3>1. m.last \in {"Sub", "Logic", "Add", "Inc", "Dec", "Explicit"}
      BY <2>1 DEF WasmInline
    <3> QED
      BY <2>1, <3>1 DEF ArmCarry, WasmCarry, WasmKnownCarry
  <2>2. CASE m.last \notin WasmInline \cup {"Explicit"}
    <3>1. ArmCarry(m) = CF(m.c.flags)
      BY <2>2 DEF ArmCarry, WasmInline
    <3> QED
      BY <1>3, <3>1
  <2> QED
    BY <2>1, <2>2
<1> QED
  BY <1>1, <1>4, CarryAlong

(* The record of INC, DEC and NEG, and the write of their result.            *)
LEMMA UnaryWritten ==
  ASSUME NEW m, NEW g, NEW i, Loose(m, g, i), NEW n, Loose(n, g, i), NEW op \in {"Neg", "Inc", "Dec"}, NEW o \in Places, Plain(o),
         Readable(g, o), n.c.reg = m.c.reg, n.c.fs_base = m.c.fs_base, op # "Neg" => n.c.flags.carry_in = CF(g.flags),
         NEW held \in RecordHolds, NEW dead \in BOOLEAN, NEW in, in.x = op, in.o0 = o
  PROVE  LET a == Value(g, o)
             r == UnaryResult(op, a, o.w)
             kind == IF op = "Neg" THEN "Sub" ELSE op
             p == IF op = "Neg" THEN 0 ELSE a
             q == IF op = "Neg" THEN a ELSE 1
         IN  ArmDone(ArmWrite(IF dead THEN m ELSE ArmRecord(n, kind, p, q, r, o.w, held), o, r), ExecUnary(g, in), i, dead)
<1> DEFINE w == o.w
<1>1. w \in Width /\ m.c \in Cpus /\ g \in Cpus /\ n.c \in Cpus /\ o \in Places \cup Immediates
  BY PlacesFact, LooseFact
<1>2. /\ WasmOk(m.c, o) /\ WasmOk(n.c, o) /\ Value(g, o) \in Int /\ Trunc(Value(g, o), w) = Value(g, o)
  BY <1>1, ArmOperands2
<1>3. PICK x \in Int : x = Value(g, o) /\ Trunc(x, w) = x
  BY <1>2
<1>4. PICK t : t = AluUnary(op, x, w, g.flags)
  OBVIOUS
<1> DEFINE r == UnaryResult(op, x, w)
           kind == IF op = "Neg" THEN "Sub" ELSE op
           p == IF op = "Neg" THEN 0 ELSE x
           q == IF op = "Neg" THEN x ELSE 1
           e == Set(g.flags, kind, p, q, r, w)
<1>5. ExecUnary(g, in) = Write(WithFlags(g, t.f), o, t.r)
  BY <1>3, <1>4 DEF ExecUnary
<1>6. /\ p \in Dwords /\ q \in Dwords /\ r \in Dwords /\ r \in Int /\ kind \in Kinds /\ kind # "Logic"
      /\ Exact(e) /\ AluUnary(op, x, w, g.flags) = [r |-> r, f |-> e]
  BY <1>1, <1>3, UnaryRecord
<1>7. t.r = r /\ t.f = e
  BY <1>4, <1>6
<1>8. kind \in Kinds \ {"None", "Explicit"} /\ (CarryInIsLive(kind) => n.c.flags.carry_in = CF(g.flags))
  BY <1>6 DEF CarryInIsLive
<1> HIDE DEF r, kind, p, q
<1>9. PICK u, h : u = ArmRecord(n, kind, p, q, r, w, held) /\ h = WithFlags(g, e)
  OBVIOUS
<1>10. ArmDone(ArmWrite(u, o, r), Write(h, o, r), i, FALSE)
  <2>1. PICK no \in BOOLEAN : no = FALSE
    OBVIOUS
  <2>2. ArmDone(ArmWrite(IF no THEN n ELSE u, o, r), Write(h, o, r), i, no)
    BY <1>1, <1>2, <1>6, <1>8, <1>9, ArmWritten
  <2> QED
    BY <2>1, <2>2
<1>11. Loose(ArmWrite(m, o, r), Write(h, o, r), i)
  <2>1. e \in Records
    <3>1. g.flags \in Records
      BY LooseFact
    <3> QED
      BY <1>1, <1>6, <3>1, SetFact
  <2>2. Loose(m, h, i)
    BY <1>9, <2>1, RecordLoose
  <2>3. Loose(WasmWrite(m, o, r), Write(h, o, r), i)
    BY <1>2, <1>6, <2>2, WriteLoose
  <2> QED
    BY <1>1, <2>3, ArmWriteIs
<1>12. ArmDone(ArmWrite(IF dead THEN m ELSE u, o, r), Write(h, o, r), i, dead)
  <2>1. CASE dead
    BY <1>11, <2>1 DEF ArmDone
  <2>2. CASE ~dead
    <3>1. ArmDone(ArmWrite(u, o, r), Write(h, o, r), i, FALSE) /\ dead = FALSE
      BY <1>10, <2>2
    <3> QED
      BY <3>1
  <2> QED
    BY <2>1, <2>2
<1>13. ArmDone(ArmWrite(IF dead THEN m ELSE ArmRecord(n, kind, p, q, r, w, held), o, r), ExecUnary(g, in), i, dead)
  BY <1>5, <1>7, <1>9, <1>12
<1> QED
  BY <1>3, <1>13 DEF r, kind, p, q

(* NOT of a place whose address is good.                                     *)
LEMMA NotWritten ==
  ASSUME NEW m, NEW g, NEW i, Loose(m, g, i), NEW in, in.x = "Not", in.o0 \in Places, Plain(in.o0), Readable(g, in.o0), NEW dead
  PROVE  LET n == ArmUnary(m, in, dead, i)
         IN  Loose(n, ExecUnary(g, in), i) /\ Quiet(m, n) /\ (Along(m, g, i) /\ Sure(m) => Done(n, ExecUnary(g, in), i))
<1> DEFINE o == in.o0
           w == in.o0.w
           r == UnaryResult("Not", Value(g, o), w)
<1>1. w \in Width /\ m.c \in Cpus /\ g \in Cpus /\ m \in Blocks /\ g.flags \in Records /\ o \in Places \cup Immediates
  BY PlacesFact, LooseFact
<1>2. /\ ArmOk(m.c, o) /\ WasmOk(m.c, o) /\ Value(g, o) \in Int /\ ArmValue(m.c, o) = Value(g, o)
  BY <1>1, ArmOperands2
<1>3. AluUnary("Not", Value(g, o), w, g.flags) = [r |-> r, f |-> g.flags]
  BY DEF AluUnary, UnaryResult
<1>4. r \in Int
  <2>1. PICK x \in Int : x = Value(g, o)
    BY <1>2
  <2>2. AluUnary("Not", x, w, g.flags).r \in Int
    BY <1>1, UnaryFact DEF Unary
  <2> QED
    BY <1>3, <2>1, <2>2
<1>5. ArmUnary(m, in, dead, i) = WasmWrite(m, o, r)
  <2>1. ArmUnary(m, in, dead, i) = ArmWrite(m, o, r)
    BY <1>2 DEF ArmUnary
  <2> QED
    BY <1>1, <2>1, ArmWriteIs
<1>6. ExecUnary(g, in) = Write(g, o, r)
  <2>1. WithFlags(g, g.flags) = g
    BY <1>1 DEF WithFlags, Cpus
  <2>2. PICK t : t = AluUnary("Not", Value(g, o), w, g.flags)
    OBVIOUS
  <2>3. ExecUnary(g, in) = Write(WithFlags(g, t.f), o, t.r)
    BY <2>2 DEF ExecUnary
  <2> HIDE DEF r
  <2>4. t.f = g.flags /\ t.r = r
    BY <1>3, <2>2
  <2> QED
    BY <2>1, <2>3, <2>4
<1> HIDE DEF r
<1>7. Loose(WasmWrite(m, o, r), Write(g, o, r), i)
  BY <1>2, <1>4, WriteLoose
<1>8. Quiet(m, WasmWrite(m, o, r))
  BY <1>1, WriteQuiet
<1>9. ASSUME Along(m, g, i), Sure(m) PROVE Done(WasmWrite(m, o, r), Write(g, o, r), i)
  <2>1. Along(WasmWrite(m, o, r), Write(g, o, r), i) /\ (Sure(m) => Sure(WasmWrite(m, o, r)))
    BY <1>2, <1>4, <1>9, WriteAlong
  <2> QED
    BY <1>9, <2>1, AlongDone
<1> QED
  BY <1>5, <1>6, <1>7, <1>8, <1>9

(* emit_alu_unary_inline.                                                    *)
LEMMA ArmUnaryFact ==
  ASSUME NEW m, NEW g, NEW i, Loose(m, g, i), NEW in, in.x \in Unary, in.o0 \in Places, Plain(in.o0),
         Ready(m, g, i) \/ (in.x = "Neg" /\ ~IsMem(in.o0)), NEW dead \in BOOLEAN
  PROVE  ArmDone(ArmUnary(m, in, dead, i), ExecUnary(g, in), i, dead)
<1> DEFINE o == in.o0
           x == Value(g, o)
           r == UnaryResult(in.x, x, o.w)
<1>1. /\ ArmOk(m.c, o) <=> Readable(g, o)
      /\ Readable(g, o) => ArmValue(m.c, o) = Value(g, o)
  BY ArmOperands2
<1>2. CASE ~Readable(g, o)
  <2>1. ArmUnary(m, in, dead, i) = MemoryFaultAt(m, i) /\ ExecUnary(g, in) = Fault(g)
    BY <1>1, <1>2 DEF ArmUnary, ExecUnary
  <2>2. Reaches(m, g, i, o)
    BY <1>2, ReadyFact DEF Reaches
  <2> QED
    BY <1>2, <2>1, <2>2, ArmFault
<1>3. CASE Readable(g, o) /\ in.x = "Not"
  <2>1. Ready(m, g, i)
    BY <1>3
  <2>2. Along(m, g, i) /\ Sure(m)
    BY <2>1, ReadyFact
  <2>3. Quiet(m, ArmUnary(m, in, dead, i)) /\ Done(ArmUnary(m, in, dead, i), ExecUnary(g, in), i)
    BY <1>3, <2>2, NotWritten
  <2> QED
    BY <2>1, <2>3, QuietDone
<1>4. CASE Readable(g, o) /\ in.x = "Neg"
  <2>1. ArmUnary(m, in, dead, i) = ArmWrite(IF dead THEN m ELSE ArmRecord(m, "Sub", 0, x, r, o.w, [a |-> 2, b |-> 0, r |-> 1]), o, r)
    BY <1>1, <1>4 DEF ArmUnary
  <2>2. PICK held \in RecordHolds : held = [a |-> 2, b |-> 0, r |-> 1]
    BY DEF RecordHolds
  <2> HIDE DEF x
  <2>3. ArmDone(ArmWrite(IF dead THEN m ELSE ArmRecord(m, "Sub", 0, x, r, o.w, held), o, r), ExecUnary(g, in), i, dead)
    BY <1>4, UnaryWritten DEF x
  <2> QED
    BY <2>1, <2>2, <2>3
<1>5. CASE Readable(g, o) /\ in.x \in {"Inc", "Dec"}
  <2>1. PICK n : n = [m EXCEPT !.c.flags.carry_in = ArmCarry(m)]
    OBVIOUS
  <2>2. ArmUnary(m, in, dead, i) = ArmWrite(IF dead THEN m ELSE ArmRecord(n, in.x, x, 1, r, o.w, [a |-> 0, b |-> 2, r |-> 1]), o, r)
    BY <1>1, <1>5, <2>1 DEF ArmUnary
  <2>3. PICK held \in RecordHolds : held = [a |-> 0, b |-> 2, r |-> 1]
    BY DEF RecordHolds
  <2>4. Ready(m, g, i)
    BY <1>5
  <2>5. Along(n, g, i) /\ n.c.flags.carry_in = CF(g.flags) /\ n.c.reg = m.c.reg /\ n.c.fs_base = m.c.fs_base
    BY <2>1, <2>4, ArmCarrySaved
  <2>6. Loose(n, g, i)
    BY <2>5, AlongLoose
  <2> HIDE DEF x
  <2>7. ArmDone(ArmWrite(IF dead THEN m ELSE ArmRecord(n, in.x, x, 1, r, o.w, held), o, r), ExecUnary(g, in), i, dead)
    BY <1>5, <2>5, <2>6, UnaryWritten DEF x
  <2> QED
    BY <2>2, <2>3, <2>7
<1> QED
  BY <1>2, <1>3, <1>4, <1>5 DEF Unary

(* The registers of the processor moved, and a fault.                        *)
LEMMA InQuiet ==
  ASSUME NEW m \in Blocks
  PROVE  /\ m.c \in Cpus /\ Quiet(m, m)
         /\ \A i : ~MemoryFaultAt(m, i).in
         /\ \A d : d.flags = m.c.flags => Quiet(m, [m EXCEPT !.c = d]) /\ [m EXCEPT !.c = d].in = m.in /\ [m EXCEPT !.c = d].c = d
         /\ \A regs : [m.c EXCEPT !.reg = regs].flags = m.c.flags
         /\ \A mem : [m.c EXCEPT !.mem = mem].flags = m.c.flags
<1>1. m.c \in Cpus /\ Quiet(m, m)
  BY DEF Blocks, Quiet
<1>2. \A i : ~MemoryFaultAt(m, i).in
  BY ExitQuiet DEF MemoryFaultAt
<1>3. \A d : d.flags = m.c.flags => Quiet(m, [m EXCEPT !.c = d])
  BY PutQuiet
<1>4. \A d : [m EXCEPT !.c = d].in = m.in /\ [m EXCEPT !.c = d].c = d
  BY DEF Blocks
<1>5. /\ \A regs : [m.c EXCEPT !.reg = regs].flags = m.c.flags
      /\ \A mem : [m.c EXCEPT !.mem = mem].flags = m.c.flags
  BY <1>1 DEF Cpus
<1> QED
  BY <1>1, <1>2, <1>3, <1>4, <1>5

(* emit_mov, emit_movx and emit_lea.                                         *)
LEMMA ArmMovesDone ==
  ASSUME NEW m, NEW g, NEW i, Ready(m, g, i), NEW in, in.op \in {"Mov", "Movzx", "Movsx", "Lea"}, Decoded(in), Plain(in.o0), Plain(in.o1),
         NEW dead
  PROVE  ArmDone(ArmEmitted(m, in, dead, i), Execute(g, in), i, dead)
<1> DEFINE o == in.o0
           s == in.o1
<1>1. m \in Blocks /\ m.c \in Cpus /\ Along(m, g, i) /\ Sure(m)
  BY ReadyFact, LooseFact
<1>2. o \in Places /\ s \in Places \cup Immediates /\ (in.op # "Mov" => o \in Registers)
  <2>1. CASE in.op = "Mov"
    BY <2>1, SourceFact, PlacesFact DEF Decoded
  <2>2. CASE in.op \in {"Movzx", "Movsx"}
    BY <2>2 DEF Decoded, Places
  <2>3. CASE in.op = "Lea"
    BY <2>3 DEF Decoded, Places
  <2> QED
    BY <2>1, <2>2, <2>3
<1>3. /\ ArmOk(m.c, o) = WasmOk(m.c, o) /\ ArmOk(m.c, s) = WasmOk(m.c, s) /\ ArmValue(m.c, s) = WasmValue(m.c, s)
      /\ s.k = "Mem" => ArmParts(m.c, s) = WasmParts(m.c, s)
      /\ \A v : ArmWrite(m, o, v) = WasmWrite(m, o, v)
  BY <1>1, <1>2, ArmOperandIs, ArmWriteIs
<1>4. \A v : Quiet(m, WasmWrite(m, o, v))
  BY <1>1, WriteQuiet
<1>5. ~MemoryFaultAt(m, i).in
  BY <1>1, InQuiet
<1>6. CASE in.op = "Mov"
  <2>1. ArmEmitted(m, in, dead, i) = WasmMov(m, in, i) /\ Execute(g, in) = ExecMove(g, in)
    BY <1>3, <1>6 DEF ArmEmitted, ArmBranches, Execute, ArmMov, WasmMov
  <2>2. Done(WasmMov(m, in, i), ExecMove(g, in), i)
    BY <1>1, <1>6, MovFact DEF Decoded
  <2>3. WasmMov(m, in, i).in => Quiet(m, WasmMov(m, in, i))
    BY <1>4, <1>5 DEF WasmMov
  <2> QED
    BY <2>1, <2>2, <2>3, QuietDone
<1>7. CASE in.op \in {"Movzx", "Movsx"}
  <2>1. ArmEmitted(m, in, dead, i) = WasmMovx(m, in, i) /\ Execute(g, in) = ExecMove(g, in)
    BY <1>3, <1>7 DEF ArmEmitted, ArmBranches, Execute, ArmMovx, WasmMovx
  <2>2. Done(WasmMovx(m, in, i), ExecMove(g, in), i)
    BY <1>1, <1>7, MovxFact DEF Decoded
  <2>3. WasmMovx(m, in, i).in => Quiet(m, WasmMovx(m, in, i))
    BY <1>4, <1>5 DEF WasmMovx
  <2> QED
    BY <2>1, <2>2, <2>3, QuietDone
<1>8. CASE in.op = "Lea"
  <2>0. s.k = "Mem" /\ s \in Memories /\ ~s.fs /\ o \in Registers
    BY <1>8 DEF Decoded, Memories, MemoryOf
  <2>1. ArmEmitted(m, in, dead, i) = WasmLea(m, in) /\ Execute(g, in) = ExecMove(g, in)
    BY <1>3, <1>8, <2>0 DEF ArmEmitted, ArmBranches, Execute, ArmLea, WasmLea
  <2>2. Done(WasmLea(m, in), ExecMove(g, in), i)
    BY <1>1, <1>8, <2>0, LeaFact
  <2>3. Quiet(m, WasmLea(m, in))
    BY <1>4 DEF WasmLea
  <2> QED
    BY <2>1, <2>2, <2>3, QuietDone
<1> QED
  BY <1>6, <1>7, <1>8

(* emit_setcc.                                                               *)
LEMMA ArmSetccDone ==
  ASSUME NEW m, NEW g, NEW i, Ready(m, g, i), NEW in, in.op = "Setcc", in.cc \in Conds, in.o0 \in Places, Plain(in.o0), NEW dead
  PROVE  ArmDone(ArmSetcc(m, in, i), ExecCond(g, in), i, dead)
<1>1. m \in Blocks /\ m.c \in Cpus /\ Along(m, g, i) /\ Sure(m) /\ m.c.flags \in Records
  BY ReadyFact, LooseFact
<1>2. (ArmCond(m, in.cc) <=> Cond(in.cc, m.c.flags)) /\ (WasmCond(m, in.cc) <=> Cond(in.cc, m.c.flags))
  BY <1>1, ArmCondFact, WasmCondFact DEF Ready, Sure
<1>3. ArmOk(m.c, in.o0) = WasmOk(m.c, in.o0) /\ \A v : ArmWrite(m, in.o0, v) = WasmWrite(m, in.o0, v)
  BY <1>1, ArmOperandIs, ArmWriteIs
<1>4. ArmSetcc(m, in, i) = WasmSetcc(m, in, i)
  BY <1>2, <1>3 DEF ArmSetcc, WasmSetcc
<1>5. Done(WasmSetcc(m, in, i), ExecCond(g, in), i)
  BY <1>1, SetccFact
<1>6. WasmSetcc(m, in, i).in => Quiet(m, WasmSetcc(m, in, i))
  BY <1>1, WriteQuiet, InQuiet DEF WasmSetcc
<1> QED
  BY <1>4, <1>5, <1>6, QuietDone

(* emit_push_x0 and emit_pop_x0.                                             *)
LEMMA ArmStackIs ==
  ASSUME NEW m, NEW i, m \in Blocks
  PROVE  /\ \A v : /\ ArmPush(m, v, i) = WasmPush(m, v, i)
                   /\ WasmPush(m, v, i).in => Quiet(m, WasmPush(m, v, i))
         /\ ArmPopped(m, i) = WasmPopped(m, 0, i) /\ ArmTop(m) = WasmTop(m)
         /\ \A release : WasmPopped(m, release, i).in => Quiet(m, WasmPopped(m, release, i))
<1>1. m.c \in Cpus /\ ~MemoryFaultAt(m, i).in
  BY InQuiet
<1>2. ASSUME NEW v
      PROVE  ArmPush(m, v, i) = WasmPush(m, v, i) /\ (WasmPush(m, v, i).in => Quiet(m, WasmPush(m, v, i)))
  <2>1. ArmPush(m, v, i) = WasmPush(m, v, i)
    BY DEF ArmPush, WasmPush
  <2>2. PICK esp : esp = Trunc(m.c.reg[Esp] - 4, 4)
    OBVIOUS
  <2>3. PICK d : d = [Store(m.c, esp, 4, v) EXCEPT !.reg[Esp] = esp]
    OBVIOUS
  <2>4. d.flags = m.c.flags
    BY <1>1, <2>3 DEF Store, Cpus
  <2>5. WasmPush(m, v, i) = IF InBounds(esp, 4) THEN [m EXCEPT !.c = d] ELSE MemoryFaultAt(m, i)
    BY <2>2, <2>3 DEF WasmPush
  <2> QED
    BY <1>1, <2>1, <2>4, <2>5, PutQuiet
<1>3. ArmPopped(m, i) = WasmPopped(m, 0, i)
  <2>1. m.c.reg[Esp] \in Int
    BY <1>1, CpusFact, NamesFact
  <2>2. m.c.reg[Esp] + 4 + 0 = m.c.reg[Esp] + 4
    BY <2>1
  <2> QED
    BY <2>2 DEF ArmPopped, WasmPopped
<1>4. ASSUME NEW release, WasmPopped(m, release, i).in
      PROVE  Quiet(m, WasmPopped(m, release, i))
  <2>1. PICK d : d = [m.c EXCEPT !.reg[Esp] = Trunc(@ + 4 + release, 4)]
    OBVIOUS
  <2>2. d.flags = m.c.flags
    BY <1>1, <2>1 DEF Cpus
  <2>3. WasmPopped(m, release, i) = IF InBounds(m.c.reg[Esp], 4) THEN [m EXCEPT !.c = d] ELSE MemoryFaultAt(m, i)
    BY <2>1 DEF WasmPopped
  <2> QED
    BY <1>1, <1>4, <2>2, <2>3, PutQuiet
<1> QED
  BY <1>2, <1>3, <1>4 DEF ArmTop, WasmTop

(* emit_push, emit_pop.                                                      *)
LEMMA ArmStackDone ==
  ASSUME NEW m, NEW g, NEW i, Ready(m, g, i), NEW in, in.op \in {"Push", "Pop"}, Decoded(in), Plain(in.o0),
         in.op = "Push" => in.o0.w = 4 \/ in.o0.k = "Imm", NEW dead
  PROVE  ArmDone(ArmEmitted(m, in, dead, i), Execute(g, in), i, dead)
<1> DEFINE o == in.o0
<1>1. m \in Blocks /\ m.c \in Cpus /\ Along(m, g, i) /\ Sure(m) /\ ~MemoryFaultAt(m, i).in
  BY ReadyFact, LooseFact, InQuiet
<1>2. CASE in.op = "Push"
  <2>1. o \in Places \cup Immediates
    BY <1>2 DEF Decoded
  <2>2. ArmOk(m.c, o) = WasmOk(m.c, o) /\ ArmValue(m.c, o) = WasmValue(m.c, o)
    BY <1>1, <2>1, ArmOperandIs
  <2>3. PICK v : v = IF o.k = "Imm" THEN SignExtend(o.v, o.w, 4) ELSE WasmValue(m.c, o)
    OBVIOUS
  <2>4. WasmPushOperand(m, in, i) = IF WasmOk(m.c, o) THEN WasmPush(m, v, i) ELSE MemoryFaultAt(m, i)
    BY <2>3 DEF WasmPushOperand
  <2>5. ArmPushOperand(m, in, i) = IF WasmOk(m.c, o) THEN ArmPush(m, v, i) ELSE MemoryFaultAt(m, i)
    BY <2>2, <2>3 DEF ArmPushOperand
  <2>6. ArmEmitted(m, in, dead, i) = WasmPushOperand(m, in, i) /\ Execute(g, in) = ExecMove(g, in)
    BY <1>1, <1>2, <2>4, <2>5, ArmStackIs DEF ArmEmitted, ArmBranches, Execute
  <2>7. Done(WasmPushOperand(m, in, i), ExecMove(g, in), i)
    BY <1>1, <1>2, <2>1, PushOperandFact
  <2>8. WasmPushOperand(m, in, i).in => Quiet(m, WasmPushOperand(m, in, i))
    BY <1>1, <2>4, ArmStackIs
  <2> QED
    BY <2>6, <2>7, <2>8, QuietDone
<1>3. CASE in.op = "Pop"
  <2>1. o \in Places
    BY <1>3 DEF Decoded
  <2>2. PICK p : p = WasmPopped(m, 0, i) /\ p = ArmPopped(m, i)
    BY <1>1, ArmStackIs
  <2>3. p.in => p \in Blocks /\ p.c \in Cpus
    <3>1. PICK zero \in Int : zero = 0
      OBVIOUS
    <3> DEFINE q == WasmPopped(m, zero, i)
               h == [AfterPop(g) EXCEPT !.reg[Esp] = Trunc(@ + zero, 4)]
    <3>2. (CanPop(g) => Along(q, h, i)) /\ (q.in <=> CanPop(g))
      BY <1>1, WasmPopFact
    <3>3. p = q
      BY <2>2, <3>1
    <3> HIDE DEF h, q
    <3> QED
      BY <3>2, <3>3, AlongFact
  <2>4. WasmPopOperand(m, in, i) = IF ~p.in THEN p ELSE IF WasmOk(p.c, o) THEN WasmWrite(p, o, WasmTop(m)) ELSE MemoryFaultAt(p, i)
    BY <2>2 DEF WasmPopOperand
  <2>5. ArmPopOperand(m, in, i) = IF ~p.in THEN p ELSE IF ArmOk(p.c, o) THEN ArmWrite(p, o, WasmTop(m)) ELSE MemoryFaultAt(p, i)
    BY <1>1, <2>2, ArmStackIs DEF ArmPopOperand
  <2>6. p.in => ArmOk(p.c, o) = WasmOk(p.c, o) /\ ArmWrite(p, o, WasmTop(m)) = WasmWrite(p, o, WasmTop(m))
    BY <2>1, <2>3, ArmOperandIs, ArmWriteIs
  <2>7. ArmEmitted(m, in, dead, i) = WasmPopOperand(m, in, i) /\ Execute(g, in) = ExecMove(g, in)
    <3>1. ArmPopOperand(m, in, i) = WasmPopOperand(m, in, i)
      BY <2>4, <2>5, <2>6
    <3> QED
      BY <1>3, <3>1 DEF ArmEmitted, ArmBranches, Execute
  <2>8. Done(WasmPopOperand(m, in, i), ExecMove(g, in), i)
    BY <1>1, <1>3, <2>1, PopOperandFact
  <2>9. WasmPopOperand(m, in, i).in => Quiet(m, WasmPopOperand(m, in, i))
    <3>1. p.in => Quiet(m, p)
      BY <1>1, <2>2, ArmStackIs
    <3>2. p.in => Quiet(p, WasmWrite(p, o, WasmTop(m))) /\ ~MemoryFaultAt(p, i).in
      BY <2>3, WriteQuiet, InQuiet
    <3> QED
      BY <2>4, <3>1, <3>2, QuietTwice
  <2> QED
    BY <2>7, <2>8, <2>9, QuietDone
<1> QED
  BY <1>2, <1>3

(* emit_xchg32.                                                              *)
LEMMA ArmXchgDone ==
  ASSUME NEW m, NEW g, NEW i, Ready(m, g, i), NEW in, in.op = "Xchg", Decoded(in), Plain(in.o0), Plain(in.o1), NEW dead
  PROVE  ArmDone(ArmXchg(m, in, i), ExecMove(g, in), i, dead)
<1> DEFINE o == in.o0
           s == in.o1
           x == WasmValue(m.c, o)
           y == WasmValue(m.c, s)
<1>1. m \in Blocks /\ m.c \in Cpus /\ Along(m, g, i) /\ Sure(m) /\ ~MemoryFaultAt(m, i).in
  BY ReadyFact, LooseFact, InQuiet
<1>2. \/ o \in Places /\ s \in Registers
      \/ o \in Registers /\ s \in Memories /\ Apart(s, o)
  BY DEF Decoded
<1>3. o \in Places \cup Immediates /\ s \in Places \cup Immediates
  BY <1>2 DEF Places
<1>4. /\ ArmOk(m.c, o) = WasmOk(m.c, o) /\ ArmOk(m.c, s) = WasmOk(m.c, s) /\ ArmValue(m.c, o) = x /\ ArmValue(m.c, s) = y
      /\ o.k = "Mem" => ArmAddress(m.c, o) = WasmAddress(m.c, o)
      /\ s.k = "Mem" => ArmAddress(m.c, s) = WasmAddress(m.c, s)
  BY <1>1, <1>3, ArmOperandIs
<1>5. ArmXchg(m, in, i) = WasmXchg(m, in, i)
  <2>1. CASE IsMem(s)
    <3>1. o.k = "Reg" /\ s.k = "Mem" /\ WasmOk(m.c, o)
      BY <1>2, <2>1 DEF IsMem, Registers, Memories, MemoryOf, WasmOk
    <3>2. ArmXchg(m, in, i) = IF WasmOk(m.c, s) THEN ArmWrite(ArmWrite(m, s, x), o, y) ELSE MemoryFaultAt(m, i)
      BY <1>4, <2>1, <3>1 DEF ArmXchg
    <3>3. PICK e : e = Store(m.c, WasmAddress(m.c, s), s.w, x)
      OBVIOUS
    <3>4. ArmWrite(ArmWrite(m, s, x), o, y) = [m EXCEPT !.c = WriteReg(e, o.r, o.w, y)]
      BY <1>1, <1>4, <3>1, <3>3 DEF ArmWrite, Blocks
    <3>5. Store(WriteReg(m.c, o.r, o.w, y), WasmAddress(m.c, s), s.w, x) = WriteReg(e, o.r, o.w, y)
      BY <1>1, <3>3, StoreWriteReg
    <3>6. WasmXchg(m, in, i) = IF WasmOk(m.c, s) THEN [m EXCEPT !.c = Store(WriteReg(m.c, o.r, o.w, y), WasmAddress(m.c, s), s.w, x)]
                               ELSE MemoryFaultAt(m, i)
      BY <2>1 DEF WasmXchg
    <3> QED
      BY <3>2, <3>4, <3>5, <3>6
  <2>2. CASE ~IsMem(s) /\ IsMem(o)
    <3>1. s.k = "Reg" /\ o.k = "Mem" /\ WasmOk(m.c, s)
      BY <1>2, <2>2 DEF IsMem, Registers, Memories, MemoryOf, WasmOk
    <3>2. ArmXchg(m, in, i) = IF WasmOk(m.c, o) THEN ArmWrite(ArmWrite(m, o, y), s, x) ELSE MemoryFaultAt(m, i)
      BY <1>4, <2>2, <3>1 DEF ArmXchg
    <3>3. PICK e : e = Store(m.c, WasmAddress(m.c, o), o.w, y)
      OBVIOUS
    <3>4. ArmWrite(ArmWrite(m, o, y), s, x) = [m EXCEPT !.c = WriteReg(e, s.r, s.w, x)]
      BY <1>1, <1>4, <3>1, <3>3 DEF ArmWrite, Blocks
    <3>5. Store(WriteReg(m.c, s.r, s.w, x), WasmAddress(m.c, o), o.w, y) = WriteReg(e, s.r, s.w, x)
      BY <1>1, <3>3, StoreWriteReg
    <3>6. WasmXchg(m, in, i) = IF WasmOk(m.c, o) THEN [m EXCEPT !.c = Store(WriteReg(m.c, s.r, s.w, x), WasmAddress(m.c, o), o.w, y)]
                               ELSE MemoryFaultAt(m, i)
      BY <2>2 DEF WasmXchg
    <3> QED
      BY <3>2, <3>4, <3>5, <3>6
  <2>3. CASE ~IsMem(s) /\ ~IsMem(o)
    <3>1. o \in Registers /\ s \in Registers /\ o.k = "Reg" /\ s.k = "Reg" /\ WasmOk(m.c, o) /\ WasmOk(m.c, s)
      BY <1>2, <2>3 DEF IsMem, Places, Registers, Memories, MemoryOf, WasmOk
    <3>2. ArmXchg(m, in, i) = ArmWrite(ArmWrite(m, o, y), s, x)
      BY <1>4, <2>3, <3>1 DEF ArmXchg
    <3>3. WasmXchg(m, in, i) = WasmWrite(WasmWrite(m, o, y), s, x)
      BY <2>3, <3>1 DEF WasmXchg
    <3> QED
      BY <3>1, <3>2, <3>3 DEF ArmWrite, WasmWrite
  <2> QED
    BY <2>1, <2>2, <2>3
<1>6. Done(WasmXchg(m, in, i), ExecMove(g, in), i)
  BY <1>1, <1>2, XchgFact
<1>7. WasmXchg(m, in, i).in => Quiet(m, WasmXchg(m, in, i))
  <2> DEFINE at == IF IsMem(s) THEN s ELSE o
             reg == IF IsMem(s) THEN o ELSE s
             swapped == Store(WriteReg(m.c, reg.r, reg.w, WasmValue(m.c, at)), WasmAddress(m.c, at), at.w, WasmValue(m.c, reg))
             n == WasmWrite(m, o, y)
  <2>1. WasmXchg(m, in, i) = IF ~WasmOk(m.c, at) THEN MemoryFaultAt(m, i) ELSE IF IsMem(at) THEN [m EXCEPT !.c = swapped]
                             ELSE WasmWrite(n, s, x)
    BY DEF WasmXchg
  <2>2. swapped.flags = m.c.flags
    BY <1>1 DEF Store, WriteReg, Cpus
  <2>3. Quiet(m, [m EXCEPT !.c = swapped])
    BY <1>1, <2>2, PutQuiet
  <2>4. ~IsMem(at) => Quiet(m, WasmWrite(n, s, x))
    <3> SUFFICES ASSUME ~IsMem(at) PROVE Quiet(m, WasmWrite(n, s, x))
      OBVIOUS
    <3>1. o.k = "Reg" /\ s.k = "Reg"
      BY <1>2 DEF IsMem, Places, Registers, Memories, MemoryOf
    <3>2. PICK d : d = WriteReg(WriteReg(m.c, o.r, o.w, y), s.r, s.w, x)
      OBVIOUS
    <3>3. WasmWrite(n, s, x) = [m EXCEPT !.c = d]
      BY <1>1, <3>1, <3>2 DEF WasmWrite, Blocks
    <3>4. d.flags = m.c.flags
      BY <1>1, <3>2 DEF WriteReg, Cpus
    <3> QED
      BY <1>1, <3>3, <3>4, PutQuiet
  <2> QED
    BY <1>1, <2>1, <2>3, <2>4
<1> QED
  BY <1>5, <1>6, <1>7, QuietDone

(* An instruction that leaves an explicit record, or one nothing is known of. *)
LEMMA PlainDone ==
  ASSUME NEW n, NEW h, NEW i, Done(n, h, i), n.in => n.made = NothingHeld /\ n.last \in {Unknown, "Explicit"}, NEW dead
  PROVE  ArmDone(n, h, i, dead)
<1>1. n.in => Fresh(n)
  BY PlainFresh DEF Done
<1> QED
  BY <1>1 DEF ArmDone

(* One that left the block.                                                  *)
LEMMA LeftDone ==
  ASSUME NEW n, NEW h, NEW i, Done(n, h, i), ~n.in, NEW dead
  PROVE  ArmDone(n, h, i, dead)
  BY DEF ArmDone

(* emit_leave, emit_cdq, emit_cwde, emit_bswap and the direction flag.       *)
LEMMA ArmConvertDone ==
  ASSUME NEW m, NEW g, NEW i, Ready(m, g, i), NEW in, in.op \in {"Leave", "Cdq", "Cwde", "Bswap", "Cld", "Std", "Lahf"}, Decoded(in), NEW dead
  PROVE  ArmDone(ArmEmitted(m, in, dead, i), Execute(g, in), i, dead)
<1>1. m \in Blocks /\ m.c \in Cpus /\ Along(m, g, i) /\ Sure(m) /\ ~MemoryFaultAt(m, i).in
  BY ReadyFact, LooseFact, InQuiet
<1>2. CASE in.op = "Leave"
  <2>1. ArmEmitted(m, in, dead, i) = WasmLeave(m, i) /\ Execute(g, in) = ExecFrame(g, in)
    BY <1>2 DEF ArmEmitted, ArmBranches, Execute, ArmLeave, WasmLeave
  <2>2. Done(WasmLeave(m, i), ExecFrame(g, in), i)
    BY <1>1, <1>2, LeaveFact
  <2>3. WasmLeave(m, i).in => Quiet(m, WasmLeave(m, i))
    <3>3. PICK n : n = [m EXCEPT !.c.reg[Esp] = m.c.reg[Ebp]]
      OBVIOUS
    <3>4. PICK e : e = [m.c EXCEPT !.reg[Esp] = m.c.reg[Ebp]]
      OBVIOUS
    <3>5. n \in Blocks
      <4>1. e \in Cpus
        BY <1>1, <3>4, NamesFact, CpusFact DEF Cpus
      <4>2. n = [m EXCEPT !.c = e]
        BY <3>3, <3>4
      <4> QED
        BY <1>1, <4>1, <4>2, PutFact
    <3>6. PICK x, y : x = Trunc(m.c.reg[Ebp] + 4, 4) /\ y = Load(m.c, m.c.reg[Ebp], 4)
      OBVIOUS
    <3>7. WasmLeave(m, i) = IF ~InBounds(m.c.reg[Ebp], 4) THEN MemoryFaultAt(n, i)
                            ELSE [n EXCEPT !.c.reg[Esp] = x, !.c.reg[Ebp] = y]
      BY <3>3, <3>6 DEF WasmLeave
    <3>8. Quiet(n, [n EXCEPT !.c.reg[Esp] = x, !.c.reg[Ebp] = y])
      BY <3>5 DEF Quiet, Blocks, Cpus
    <3>9. Quiet(m, n)
      BY <1>1, <3>3 DEF Quiet, Blocks, Cpus
    <3>10. ~MemoryFaultAt(n, i).in
      BY <3>5, InQuiet
    <3> QED
      BY <3>7, <3>8, <3>9, <3>10, QuietTwice
  <2> QED
    BY <2>1, <2>2, <2>3, QuietDone
<1>3. CASE in.op \in {"Cdq", "Cwde", "Bswap"}
  <2>1. ArmEmitted(m, in, dead, i) = WasmConvert(m, in) /\ Execute(g, in) = ExecFrame(g, in)
    BY <1>3 DEF ArmEmitted, ArmBranches, Execute, ArmConvert, WasmConvert
  <2>2. Done(WasmConvert(m, in), ExecFrame(g, in), i)
    BY <1>1, <1>3, ConvertFact DEF Decoded
  <2>3. Quiet(m, WasmConvert(m, in))
    BY <1>1, <1>3 DEF WasmConvert, Quiet, Blocks, Cpus
  <2> QED
    BY <2>1, <2>2, <2>3, QuietDone
<1>4. CASE in.op \in {"Cld", "Std"}
  <2>1. ArmEmitted(m, in, dead, i) = WasmConvert(m, in) /\ Execute(g, in) = ExecDirection(g, in)
    BY <1>4 DEF ArmEmitted, ArmBranches, Execute, ArmTransfer, WasmConvert
  <2>2. Done(WasmConvert(m, in), ExecDirection(g, in), i)
    BY <1>1, <1>4, DirectionFact
  <2>3. Quiet(m, WasmConvert(m, in))
    BY <1>1, <1>4 DEF WasmConvert, Quiet, Blocks, Cpus
  <2> QED
    BY <2>1, <2>2, <2>3, QuietDone
<1>5. CASE in.op = "Lahf"
  <2>1. ArmEmitted(m, in, dead, i) = WasmFlags(m, in) /\ Execute(g, in) = ExecFlags(g, in)
    BY <1>5 DEF ArmEmitted, ArmBranches, Execute, ArmTransfer, WasmFlags
  <2>2. Done(WasmFlags(m, in), ExecFlags(g, in), i)
    BY <1>1, <1>5, FlagsFact
  <2>3. Quiet(m, WasmFlags(m, in))
    <3>1. WasmFlags(m, in) = [m EXCEPT !.c = Lahf(m.c)]
      BY <1>5 DEF WasmFlags
    <3>2. Lahf(m.c).flags = m.c.flags
      BY <1>1 DEF Lahf, WriteReg, Cpus
    <3> QED
      BY <1>1, <3>1, <3>2, PutQuiet
  <2> QED
    BY <2>1, <2>2, <2>3, QuietDone
<1> QED
  BY <1>2, <1>3, <1>4, <1>5

(* emit_pushfd, emit_popfd, and SAHF.                                        *)
LEMMA ArmFlagsDone ==
  ASSUME NEW m, NEW g, NEW i, Ready(m, g, i), NEW in, in.op \in {"Pushfd", "Popfd", "Sahf"}, NEW dead
  PROVE  ArmDone(ArmEmitted(m, in, dead, i), Execute(g, in), i, dead)
<1>1. m \in Blocks /\ m.c \in Cpus /\ Along(m, g, i) /\ Sure(m) /\ m.made = NothingHeld
  BY ReadyFact, LooseFact
<1>2. CASE in.op = "Pushfd"
  <2>1. ArmEmitted(m, in, dead, i) = WasmFlagWord(m, in, i) /\ Execute(g, in) = ExecFlagWord(g, in)
    BY <1>1, <1>2, ArmStackIs DEF ArmEmitted, ArmBranches, Execute, ArmFlagWord, WasmFlagWord
  <2>2. Done(WasmFlagWord(m, in, i), ExecFlagWord(g, in), i)
    BY <1>1, <1>2, FlagWordFact
  <2>3. WasmFlagWord(m, in, i).in => Quiet(m, WasmFlagWord(m, in, i))
    BY <1>1, <1>2, ArmStackIs DEF WasmFlagWord
  <2> QED
    BY <2>1, <2>2, <2>3, QuietDone
<1>3. CASE in.op = "Popfd"
  <2>1. PICK p : p = WasmPopped(m, 0, i) /\ p = ArmPopped(m, i)
    BY <1>1, ArmStackIs
  <2>2. PICK d : d = SetEflags(p.c, WasmTop(m))
    OBVIOUS
  <2>3. WasmFlagWord(m, in, i) = IF p.in THEN Learned([m EXCEPT !.c = d], "Explicit", 0) ELSE p
    BY <1>3, <2>1, <2>2 DEF WasmFlagWord, WasmWritten, WasmInline
  <2>4. ArmFlagWord(m, in, i) = IF p.in THEN Learned([p EXCEPT !.c = d], "Explicit", 0) ELSE p
    BY <1>1, <1>3, <2>1, <2>2, ArmStackIs DEF ArmFlagWord
  <2>5. p.in => [p EXCEPT !.c = d] = [m EXCEPT !.c = d]
    <3>1. p = IF InBounds(m.c.reg[Esp], 4) THEN [m EXCEPT !.c.reg[Esp] = Trunc(@ + 4, 4)] ELSE MemoryFaultAt(m, i)
      BY <2>1 DEF ArmPopped
    <3>2. ~MemoryFaultAt(m, i).in
      BY <1>1, InQuiet
    <3>3. PICK e : e = [m.c EXCEPT !.reg[Esp] = Trunc(@ + 4, 4)]
      OBVIOUS
    <3>4. p.in => p = [m EXCEPT !.c = e]
      BY <3>1, <3>2, <3>3
    <3> QED
      BY <1>1, <3>4 DEF Blocks
  <2>6. ArmEmitted(m, in, dead, i) = WasmFlagWord(m, in, i) /\ Execute(g, in) = ExecFlagWord(g, in)
    <3>1. ArmFlagWord(m, in, i) = WasmFlagWord(m, in, i)
      BY <2>3, <2>4, <2>5
    <3> QED
      BY <1>3, <3>1 DEF ArmEmitted, ArmBranches, Execute
  <2>7. Done(WasmFlagWord(m, in, i), ExecFlagWord(g, in), i)
    BY <1>1, <1>3, FlagWordFact
  <2>8. WasmFlagWord(m, in, i).in => WasmFlagWord(m, in, i).made = NothingHeld /\ WasmFlagWord(m, in, i).last = "Explicit"
    BY <1>1, <2>3 DEF Learned, Blocks
  <2> QED
    BY <2>6, <2>7, <2>8, PlainDone
<1>4. CASE in.op = "Sahf"
  <2>1. ArmEmitted(m, in, dead, i) = WasmFlags(m, in) /\ Execute(g, in) = ExecFlags(g, in)
    BY <1>4 DEF ArmEmitted, ArmBranches, Execute, ArmTransfer, WasmFlags, WasmWritten, WasmInline
  <2>2. Done(WasmFlags(m, in), ExecFlags(g, in), i)
    BY <1>1, <1>4, FlagsFact
  <2>3. WasmFlags(m, in).made = NothingHeld /\ WasmFlags(m, in).last = "Explicit"
    BY <1>1, <1>4 DEF WasmFlags, WasmWritten, Learned, Blocks
  <2> QED
    BY <2>1, <2>2, <2>3, PlainDone
<1> QED
  BY <1>2, <1>3, <1>4

(* What ends a block of the ARM64 backend.                                   *)
LEMMA ArmJumpDone ==
  ASSUME NEW m, NEW g, NEW i, Ready(m, g, i), NEW in, in.op \in {"Jmp", "Call"}, in.o0 \in Sources(4), Plain(in.o0), NEW dead
  PROVE  ArmDone(ArmEnded(m, in, i), Execute(g, in), i, dead)
<1>1. m \in Blocks /\ m.c \in Cpus /\ Along(m, g, i) /\ Sure(m) /\ ~MemoryFaultAt(m, i).in
  BY ReadyFact, LooseFact, InQuiet
<1>2. ArmOk(m.c, in.o0) = WasmOk(m.c, in.o0) /\ ArmValue(m.c, in.o0) = WasmValue(m.c, in.o0)
  <2>1. in.o0 \in Places \cup Immediates
    BY NamesFact, SourceFact
  <2> QED
    BY <1>1, <2>1, ArmOperandIs
<1>3. CASE in.op = "Jmp"
  <2>1. ArmEnded(m, in, i) = WasmJump(m, in, i) /\ Execute(g, in) = ExecJump(g, in)
    BY <1>2, <1>3 DEF ArmEnded, Execute, ArmJump, WasmJump
  <2>2. Done(WasmJump(m, in, i), ExecJump(g, in), i)
    BY <1>1, <1>3, JumpFact
  <2>3. ~WasmJump(m, in, i).in
    BY <1>1, ExitQuiet DEF WasmJump
  <2> QED
    BY <2>1, <2>2, <2>3, LeftDone
<1>4. CASE in.op = "Call"
  <2>1. PICK p : p = WasmPush(m, i, i) /\ p = ArmPush(m, i, i)
    BY <1>1, ArmStackIs
  <2>2. WasmCall(m, in, i) = IF ~WasmOk(m.c, in.o0) THEN MemoryFaultAt(m, i)
                             ELSE IF p.in THEN Exit(p, WasmValue(m.c, in.o0), "BlockEnd") ELSE p
    BY <2>1 DEF WasmCall
  <2>3. ArmCall(m, in, i) = WasmCall(m, in, i)
    BY <1>2, <2>1, <2>2 DEF ArmCall
  <2>4. Done(WasmCall(m, in, i), ExecCall(g, in), i)
    BY <1>1, <1>4, CallFact
  <2>5. ~WasmCall(m, in, i).in
    <3>1. i \in Int
      BY <1>1, AlongFact
    <3>2. p.in => p \in Blocks
      BY <1>1, <2>1, <3>1, WasmPushFact, AlongFact
    <3>3. p.in => ~Exit(p, WasmValue(m.c, in.o0), "BlockEnd").in
      BY <3>2, ExitQuiet
    <3> QED
      BY <1>1, <2>2, <3>3
  <2>6. ArmEnded(m, in, i) = WasmCall(m, in, i) /\ Execute(g, in) = ExecCall(g, in)
    BY <1>4, <2>3 DEF ArmEnded, Execute
  <2> QED
    BY <2>4, <2>5, <2>6, LeftDone
<1> QED
  BY <1>3, <1>4

(* The RET releases what it popped past.                                     *)
LEMMA ArmRetDone ==
  ASSUME NEW m, NEW g, NEW i, Ready(m, g, i), NEW in, in.op = "Ret", in.n = 1 => in.o0 \in Immediates, NEW dead
  PROVE  ArmDone(ArmEnded(m, in, i), Execute(g, in), i, dead)
<1>1. m \in Blocks /\ m.c \in Cpus /\ Along(m, g, i) /\ Sure(m) /\ ~MemoryFaultAt(m, i).in
  BY ReadyFact, LooseFact, InQuiet
<1>2. PICK release \in Int : release = IF in.n = 1 THEN in.o0.v ELSE 0
  <2>1. in.n = 1 => in.o0.v \in Int
    BY DwordsFact DEF Immediates
  <2> QED
    BY <2>1
<1>3. PICK esp \in Int : esp = m.c.reg[Esp]
  BY <1>1, CpusFact, NamesFact
<1>4. PICK q : q = ArmPopped(m, i)
  OBVIOUS
<1>5. PICK p : p = WasmPopped(m, release, i)
  OBVIOUS
<1>6. q = IF InBounds(esp, 4) THEN [m EXCEPT !.c.reg[Esp] = Trunc(esp + 4, 4)] ELSE MemoryFaultAt(m, i)
  BY <1>3, <1>4 DEF ArmPopped
<1>7. p = IF InBounds(esp, 4) THEN [m EXCEPT !.c.reg[Esp] = Trunc(esp + 4 + release, 4)] ELSE MemoryFaultAt(m, i)
  BY <1>3, <1>5 DEF WasmPopped
<1>8. q.in = p.in /\ (~q.in => p = q) /\ (q.in => [q EXCEPT !.c.reg[Esp] = Trunc(@ + release, 4)] = p)
  <2>1. CASE ~InBounds(esp, 4)
    BY <1>1, <1>6, <1>7, <2>1
  <2>2. CASE InBounds(esp, 4)
    <3>1. q.in = m.in /\ p.in = m.in /\ q.c.reg[Esp] = Trunc(esp + 4, 4)
      BY <1>1, <1>6, <1>7, <2>2, NamesFact DEF Blocks, Cpus
    <3>2. Trunc(Trunc(esp + 4, 4) + release, 4) = Trunc(esp + 4 + release, 4)
      <4>1. PICK x \in Int : x = esp + 4
        OBVIOUS
      <4>2. PICK w \in Width : w = 4
        BY NamesFact
      <4>3. Trunc(Trunc(x, w) + release, w) = Trunc(x + release, w)
        BY TruncAdd
      <4> QED
        BY <4>1, <4>2, <4>3
    <3>3. PICK v : v = Trunc(esp + 4 + release, 4)
      OBVIOUS
    <3>4. [q EXCEPT !.c.reg[Esp] = Trunc(@ + release, 4)] = [q EXCEPT !.c.reg[Esp] = v]
      BY <3>1, <3>2, <3>3
    <3>5. [[m EXCEPT !.c.reg[Esp] = Trunc(esp + 4, 4)] EXCEPT !.c.reg[Esp] = v] = [m EXCEPT !.c.reg[Esp] = v]
      <4>1. PICK u : u = Trunc(esp + 4, 4)
        OBVIOUS
      <4>2. m.c.reg \in [0 .. 7 -> Dwords] /\ Esp \in 0 .. 7
        BY <1>1, CpusFact, NamesFact
      <4>3. [[m.c.reg EXCEPT ![Esp] = u] EXCEPT ![Esp] = v] = [m.c.reg EXCEPT ![Esp] = v]
        BY <4>2
      <4>4. [m EXCEPT !.c.reg[Esp] = u].c.reg = [m.c.reg EXCEPT ![Esp] = u]
        BY <1>1 DEF Blocks, Cpus
      <4>5. [[m EXCEPT !.c.reg[Esp] = u] EXCEPT !.c.reg[Esp] = v] = [m EXCEPT !.c.reg = [m.c.reg EXCEPT ![Esp] = v]]
        <5>1. [[m EXCEPT !.c.reg[Esp] = u] EXCEPT !.c.reg[Esp] = v]
                = [[m EXCEPT !.c.reg[Esp] = u] EXCEPT !.c.reg = [[m.c.reg EXCEPT ![Esp] = u] EXCEPT ![Esp] = v]]
          BY <4>4
        <5> QED
          BY <1>1, <4>3, <5>1 DEF Blocks, Cpus
      <4> QED
        BY <4>1, <4>5
    <3> QED
      BY <1>1, <1>6, <1>7, <2>2, <3>1, <3>3, <3>4, <3>5, AlongFact
  <2> QED
    BY <2>1, <2>2
<1>9. ArmRet(m, in, i) = WasmRet(m, in, i) /\ ~WasmRet(m, in, i).in
  <2>1. WasmRet(m, in, i) = IF p.in THEN Exit(p, WasmTop(m), "BlockEnd") ELSE p
    BY <1>2, <1>5 DEF WasmRet
  <2>2. ArmRet(m, in, i) = IF q.in THEN Exit([q EXCEPT !.c.reg[Esp] = Trunc(@ + release, 4)], WasmTop(m), "BlockEnd") ELSE q
    BY <1>1, <1>2, <1>4, ArmStackIs DEF ArmRet
  <2>3. p.in => p \in Blocks
    <3>1. p.in <=> CanPop(g)
      BY <1>1, <1>5, WasmPopFact
    <3> DEFINE h == [AfterPop(g) EXCEPT !.reg[Esp] = Trunc(@ + release, 4)]
    <3>2. CanPop(g) => Along(p, h, i)
      BY <1>1, <1>5, WasmPopFact
    <3> HIDE DEF h
    <3> QED
      BY <3>1, <3>2, AlongFact
  <2>4. p.in => ~Exit(p, WasmTop(m), "BlockEnd").in
    BY <2>3, ExitQuiet
  <2> QED
    BY <1>8, <2>1, <2>2, <2>4
<1>10. Done(WasmRet(m, in, i), ExecCall(g, in), i)
  BY <1>1, RetFact
<1>11. ArmEnded(m, in, i) = WasmRet(m, in, i) /\ Execute(g, in) = ExecCall(g, in)
  BY <1>9 DEF ArmEnded, Execute
<1> QED
  BY <1>9, <1>10, <1>11, LeftDone

(* JCC and LOOP.                                                             *)
LEMMA ArmConditional ==
  ASSUME NEW m, NEW g, NEW i, Ready(m, g, i), NEW in, in.op \in {"Jcc", "Loop", "Loope", "Loopne"}, Decoded(in), NEW dead
  PROVE  ArmDone(ArmEnded(m, in, i), Execute(g, in), i, dead)
<1>1. m \in Blocks /\ m.c \in Cpus /\ Along(m, g, i) /\ Sure(m) /\ m.c.flags \in Records
  BY ReadyFact, LooseFact
<1>2. CASE in.op = "Jcc"
  <2>1. in.cc \in Conds /\ in.o0.v \in Dwords
    BY <1>2 DEF Decoded, Immediates
  <2>2. ArmCond(m, in.cc) <=> Cond(in.cc, g.flags)
    <3>1. ArmCond(m, in.cc) <=> Cond(in.cc, m.c.flags)
      BY <1>1, <2>1, ArmCondFact DEF Ready
    <3>2. Cond(in.cc, m.c.flags) = Cond(in.cc, g.flags)
      BY <1>1, <2>1, AlongFact, SameCond
    <3> QED
      BY <3>1, <3>2
  <2>3. Execute(g, in) = IF Cond(in.cc, g.flags) THEN Goto(g, in.o0.v) ELSE g
    BY <1>2 DEF Execute, ExecJump
  <2>4. ArmEnded(m, in, i) = IF ArmCond(m, in.cc) THEN Exit(m, in.o0.v, "BlockEnd") ELSE Exit(m, i, "BlockEnd")
    BY <1>2 DEF ArmEnded, ArmJcc
  <2>5. Done(ArmEnded(m, in, i), Execute(g, in), i)
    BY <1>1, <2>1, <2>2, <2>3, <2>4, LeaveDone
  <2>6. ~ArmEnded(m, in, i).in
    BY <1>1, <2>4, ExitQuiet
  <2> QED
    BY <2>5, <2>6, LeftDone
<1>3. CASE in.op \in {"Loop", "Loope", "Loopne"}
  <2>1. ArmEnded(m, in, i) = WasmLoop(m, in, i) /\ Execute(g, in) = ExecLoop(g, in)
    BY <1>3 DEF ArmEnded, Execute, ArmLoop, WasmLoop
  <2>2. in.o0 \in Immediates /\ in.aw \in {16, 32}
    BY <1>3 DEF Decoded
  <2>3. Done(WasmLoop(m, in, i), ExecLoop(g, in), i)
    BY <1>1, <1>3, <2>2, LoopFact
  <2>4. ~WasmLoop(m, in, i).in
    <3>1. [m EXCEPT !.c = LoopCounted(m.c, in.aw)] \in Blocks
      <4>1. PICK w \in Width : w = in.aw \div 8
        BY <2>2 DEF Width
      <4>2. Even(m.c, m.c) /\ m.c.reg \in [0 .. 7 -> Dwords]
        BY <1>1, CpusFact DEF Even
      <4>3. PICK v \in Int : v = ReadReg(m.c, Ecx, w) - 1
        BY <4>2, ReadRegFact, NamesFact
      <4>4. LoopCounted(m.c, in.aw) = WriteReg(m.c, Ecx, w, v)
        BY <4>1, <4>3 DEF LoopCounted
      <4>5. LoopCounted(m.c, in.aw) \in Cpus
        <5>1. Moved(m.c, m.c, WriteReg(m.c, Ecx, w, v), WriteReg(m.c, Ecx, w, v))
          BY <4>2, WriteRegMoved, NamesFact
        <5> QED
          BY <4>4, <5>1 DEF Moved, Even
      <4> QED
        BY <1>1, <4>5, PutFact
    <3> QED
      BY <3>1, ExitQuiet DEF WasmLoop
  <2> QED
    BY <2>1, <2>3, <2>4, LeftDone
<1> QED
  BY <1>2, <1>3

(* emit_alu_helper.                                                          *)
LEMMA ArmHelperDone ==
  ASSUME NEW m, NEW g, NEW i, Ready(m, g, i), NEW in, in.op = "Alu", in.x \in {"Adc", "Sbb"} \cup Rotates, in.o0 \in Places,
         in.o1 \in Places \cup Immediates, Means(in.o1, in.o0.w), Plain(in.o0), Plain(in.o1), NEW dead
  PROVE  ArmDone(ArmHelper(m, in, i), ExecAlu(g, in), i, dead)
<1>1. m \in Blocks /\ m.c \in Cpus /\ Along(m, g, i) /\ Loose(m, g, i) /\ m.made = NothingHeld /\ ~MemoryFaultAt(m, i).in
      /\ m.c.flags \in Records
  BY ReadyFact, LooseFact, InQuiet
<1>2. in.x \in AluOps /\ in.x \notin Inlined /\ in.x \notin ShiftOps /\ in.o0.w \in Width
  BY PlacesFact DEF AluOps, Inlined, Rotates, ShiftOps, Binary
<1>3. Done(WasmHelper(m, in, i), ExecAlu(g, in), i)
  BY <1>1, <1>2, HelperFact
<1>4. /\ ArmOk(m.c, in.o0) = WasmOk(m.c, in.o0) /\ ArmValue(m.c, in.o0) = WasmValue(m.c, in.o0)
      /\ ArmOk(m.c, in.o1) = WasmOk(m.c, in.o1) /\ ArmValue(m.c, in.o1) = WasmValue(m.c, in.o1)
  BY <1>1, ArmOperandIs
<1>5. CASE ~WasmOk(m.c, in.o0) \/ ~WasmOk(m.c, in.o1)
  <2>1. ArmHelper(m, in, i) = MemoryFaultAt(m, i) /\ WasmHelper(m, in, i) = MemoryFaultAt(m, i)
    BY <1>4, <1>5 DEF ArmHelper, WasmHelper
  <2> QED
    BY <1>1, <1>3, <2>1, LeftDone
<1>6. CASE WasmOk(m.c, in.o0) /\ WasmOk(m.c, in.o1)
  <2>1. PICK t : t = Alu(in.x, WasmValue(m.c, in.o0), WasmValue(m.c, in.o1), in.o0.w, m.c.flags)
    OBVIOUS
  <2>2. t.f \in Records
    <3>1. ArmOk(m.c, in.o0) /\ ArmOk(m.c, in.o1)
      BY <1>4, <1>6
    <3>2. ArmValue(m.c, in.o0) \in Int /\ ArmValue(m.c, in.o1) \in Int
      BY <1>1, <3>1, ArmOperands2
    <3>3. PICK x \in Int, y \in Int : x = WasmValue(m.c, in.o0) /\ y = WasmValue(m.c, in.o1)
      BY <1>4, <3>2
    <3> QED
      BY <1>1, <1>2, <2>1, <3>3, AluFact
  <2>3. PICK p : p = [m EXCEPT !.c.flags = t.f]
    OBVIOUS
  <2>4. p.c \in Cpus /\ p.made = NothingHeld
    <3>1. p.c = WithFlags(m.c, t.f)
      BY <1>1, <2>3 DEF Blocks, Cpus, WithFlags
    <3>2. Even(m.c, m.c)
      BY <1>1 DEF Even
    <3>3. WithFlags(m.c, t.f) \in Cpus
      BY <1>1, <2>2, <3>2, SetFlags DEF Even
    <3> QED
      BY <1>1, <2>3, <3>1, <3>3 DEF Blocks
  <2>5. PICK n : n = WasmWrite(p, in.o0, t.r) /\ n = ArmWrite(p, in.o0, t.r)
    BY <2>4, ArmWriteIs
  <2>6. PICK kind : kind = IF in.x \in Rotates THEN Unknown ELSE "Explicit"
    OBVIOUS
  <2>7. ArmHelper(m, in, i) = Learned(n, kind, 0)
    BY <1>4, <1>6, <2>1, <2>3, <2>5, <2>6 DEF ArmHelper
  <2>8. WasmHelper(m, in, i) = Learned(n, kind, 0)
    BY <1>2, <1>6, <2>1, <2>3, <2>5, <2>6 DEF WasmHelper, WasmWritten
  <2>9. Learned(n, kind, 0).made = NothingHeld /\ Learned(n, kind, 0).last = kind
    <3>1. n = [p EXCEPT !.c = n.c]
      BY <1>1, <2>3, <2>5 DEF WasmWrite, Blocks
    <3>2. p.made = NothingHeld
      BY <2>4
    <3> QED
      BY <1>1, <2>3, <3>1, <3>2 DEF Learned, Blocks
  <2>10. kind \in {Unknown, "Explicit"}
    BY <2>6
  <2> QED
    BY <1>3, <2>7, <2>8, <2>9, <2>10, PlainDone
<1> QED
  BY <1>5, <1>6

(* The quotient and the remainder of a dword division are dwords.            *)
LEMMA DivisionDwords ==
  ASSUME NEW hi \in Dwords, NEW lo \in Dwords, NEW v \in Int, NEW op, NEW t, t = IF op = "Div" THEN Div(hi, lo, v, 4) ELSE Idiv(hi, lo, v, 4),
         t.ok
  PROVE  t.q \in Dwords /\ t.r \in Dwords
<1>1. 4 \in Width
  BY NamesFact
<1>2. PICK p \in Nat \ {0} : p = Power(Bits(4))
  BY DwordsFact
<1>3. CASE op = "Div"
  <2>1. Trunc(hi, 4) = hi /\ Trunc(lo, 4) = lo /\ hi \in Nat /\ lo \in Nat
    BY DwordsFact
  <2>2. PICK by \in Nat : by = Trunc(v, 4) /\ by < p
    <3>1. Trunc(v, 4) \in 0 .. Power(Bits(4)) - 1
      BY <1>1, TruncFact
    <3> QED
      BY <1>2, <3>1
  <2>3. PICK num \in Nat : num = hi * p + lo
    <3>1. hi * p \in Nat
      <4>1. PICK x \in Nat : x = hi
        BY <2>1
      <4>2. x * p \in Nat
        OBVIOUS
      <4> QED
        BY <4>1, <4>2
    <3> QED
      BY <2>1, <3>1
  <2>4. t = IF by = 0 \/ num \div by >= p THEN [ok |-> FALSE, q |-> 0, r |-> 0] ELSE [ok |-> TRUE, q |-> num \div by, r |-> num % by]
    BY <1>2, <1>3, <2>1, <2>2, <2>3 DEF Div
  <2>5. by # 0 /\ ~(num \div by >= p) /\ t.q = num \div by /\ t.r = num % by
    BY <2>4
  <2>6. num \div by \in Nat /\ num % by \in 0 .. by - 1
    <3>1. by \in Nat \ {0} /\ num \in Int /\ num >= 0
      BY <2>5
    <3>2. \A n \in Nat \ {0}, u \in Int : u >= 0 => u \div n \in Nat /\ u % n \in 0 .. n - 1
      BY DivMod
    <3> QED
      BY <3>1, <3>2
  <2>7. Dwords = 0 .. p - 1
    BY <1>2 DEF Dwords
  <2> QED
    BY <2>2, <2>5, <2>6, <2>7
<1>4. CASE op # "Div"
  <2>2. t = Idiv(hi, lo, v, 4)
    BY <1>4
  <2>3. PICK num \in Int, d \in Int : num = Signed(hi, 4) * Power(Bits(4)) + Trunc(lo, 4) /\ d = Signed(v, 4)
    <3>1. PICK x \in Int, y \in Int : x = Signed(hi, 4) /\ y = Trunc(lo, 4)
      BY <1>1, SignedTrunc, TruncFact, DwordsFact
    <3>2. Signed(v, 4) \in Int
      BY <1>1, SignedTrunc
    <3>3. x * p + y \in Int
      OBVIOUS
    <3> QED
      BY <1>2, <3>1, <3>2, <3>3
  <2>4. d # 0 /\ t.q = Trunc(Quotient(num, d), 4) /\ t.r = Trunc(Remainder(num, d), 4)
    BY <2>2, <2>3 DEF Idiv
  <2>5. Quotient(num, d) \in Int /\ Remainder(num, d) \in Int
    BY <2>4, QuotientFact
  <2> QED
    BY <1>1, <2>4, <2>5, TruncFact
<1> QED
  BY <1>3, <1>4

(* A whole register written.                                                 *)
LEMMA WholeRegister ==
  ASSUME NEW d \in Cpus, NEW r \in 0 .. 7, NEW v \in Dwords
  PROVE  WriteReg(d, r, 4, v) = [d EXCEPT !.reg[r] = v] /\ WriteReg(d, r, 4, v) \in Cpus
<1>1. Even(d, d) /\ Trunc(v, 4) = v /\ v \in Int
  BY DwordsFact DEF Even
<1>2. PICK w \in Width : w = 4
  BY NamesFact
<1>3. Moved(d, d, WriteReg(d, r, w, v), WriteReg(d, r, w, v)) /\ (w = 4 => WriteReg(d, r, w, v) = [d EXCEPT !.reg[r] = Trunc(v, 4)])
  BY <1>1, WriteRegMoved
<1> QED
  BY <1>1, <1>2, <1>3 DEF Moved, Even

(* emit_div32 and jit_div32.                                                 *)
LEMMA ArmDivideDone ==
  ASSUME NEW m, NEW g, NEW i, Ready(m, g, i), NEW in, in.op \in {"Div", "Idiv"}, in.o0 \in Places, in.o0.w = 4, Plain(in.o0), NEW dead
  PROVE  ArmDone(ArmDivide(m, in, i), ExecDiv(g, in), i, dead)
<1>1. m \in Blocks /\ m.c \in Cpus /\ g \in Cpus /\ Along(m, g, i) /\ Sure(m) /\ Loose(m, g, i) /\ Even(m.c, g)
      /\ ~MemoryFaultAt(m, i).in /\ m.c.reg = g.reg
  BY ReadyFact, LooseFact, InQuiet
<1>2. /\ ArmOk(m.c, in.o0) <=> Readable(g, in.o0)
      /\ Readable(g, in.o0) => ArmValue(m.c, in.o0) = Value(g, in.o0) /\ Value(g, in.o0) \in Int
  BY <1>1, ArmOperands2
<1>3. CASE ~Readable(g, in.o0)
  <2>1. ArmDivide(m, in, i) = MemoryFaultAt(m, i) /\ ExecDiv(g, in) = Fault(g)
    BY <1>2, <1>3 DEF ArmDivide, ExecDiv
  <2> QED
    BY <1>1, <2>1, FaultDone, LeftDone
<1>4. CASE Readable(g, in.o0)
  <2>1. PICK v \in Int : v = Value(g, in.o0) /\ v = ArmValue(m.c, in.o0)
    BY <1>2, <1>4
  <2>2. PICK hi \in Dwords, lo \in Dwords : hi = m.c.reg[Edx] /\ lo = m.c.reg[Eax]
    BY <1>1, CpusFact, NamesFact
  <2>3. ReadReg(g, Edx, 4) = hi /\ ReadReg(g, Eax, 4) = lo
    BY <1>1, <2>2, DwordsFact DEF ReadReg
  <2>4. PICK t : t = IF in.op = "Div" THEN Div(hi, lo, v, 4) ELSE Idiv(hi, lo, v, 4)
    OBVIOUS
  <2>5. t.q \in Int /\ t.r \in Int
    BY <2>4, DivisionFact, NamesFact, DwordsFact
  <2>6. ArmDivide(m, in, i) = IF ~t.ok THEN Exit(m, i - 1, "DivideError")
                              ELSE [m EXCEPT !.c.reg[Eax] = t.q, !.c.reg[Edx] = t.r]
    BY <1>2, <1>4, <2>1, <2>2, <2>4 DEF ArmDivide
  <2>7. ExecDiv(g, in) = IF ~t.ok THEN Stopped(g, "DivideError") ELSE PairStore(g, 4, t.q, t.r)
    BY <1>4, <2>1, <2>3, <2>4 DEF ExecDiv
  <2>8. CASE ~t.ok
    <3>1. "DivideError" \in Statuses
      BY DEF Statuses
    <3> QED
      BY <1>1, <2>6, <2>7, <2>8, <3>1, StopDone, LeftDone
  <2>9. CASE t.ok
    <3>1. PICK f, h : f = PairStore(m.c, 4, t.q, t.r) /\ h = PairStore(g, 4, t.q, t.r)
      OBVIOUS
    <3>2. Moved(m.c, g, f, h)
      BY <1>1, <2>5, <3>1, PairFact, NamesFact
    <3>3. PICK q \in Dwords, r \in Dwords : q = t.q /\ r = t.r
      BY <2>4, <2>9, DivisionDwords, DwordsFact
    <3>4. f = [[m.c EXCEPT !.reg[Eax] = q] EXCEPT !.reg[Edx] = r]
      <4>1. PICK p : p = WriteReg(m.c, Eax, 4, q)
        OBVIOUS
      <4>2. p = [m.c EXCEPT !.reg[Eax] = q] /\ p \in Cpus
        BY <1>1, <4>1, WholeRegister, NamesFact
      <4>3. WriteReg(p, Edx, 4, r) = [p EXCEPT !.reg[Edx] = r]
        <5>1. PICK d \in Cpus : d = p
          BY <4>2
        <5>2. WriteReg(d, Edx, 4, r) = [d EXCEPT !.reg[Edx] = r]
          BY WholeRegister, NamesFact
        <5> QED
          BY <5>1, <5>2
      <4>4. f = WriteReg(p, Edx, 4, r)
        BY <3>1, <3>3, <4>1 DEF PairStore
      <4> QED
        BY <4>2, <4>3, <4>4
    <3>5. [m EXCEPT !.c.reg[Eax] = q, !.c.reg[Edx] = r] = [m EXCEPT !.c = f]
      BY <1>1, <3>4 DEF Blocks, Cpus
    <3>6. PICK n : n = [m EXCEPT !.c = f]
      OBVIOUS
    <3>7. Along(n, h, i) /\ Sure(n)
      BY <1>1, <3>2, <3>6, PutAlong
    <3>8. Quiet(m, n)
      BY <1>1, <3>2, <3>6, PutQuiet DEF Moved, Stays
    <3>9. ArmDivide(m, in, i) = n /\ ExecDiv(g, in) = h
      BY <2>6, <2>7, <2>9, <3>1, <3>3, <3>5, <3>6
    <3> QED
      BY <3>7, <3>8, <3>9, AlongDone, QuietDone
  <2> QED
    BY <2>8, <2>9
<1> QED
  BY <1>3, <1>4

(* emit_double_shift.                                                        *)
LEMMA ArmDoubleShiftDone ==
  ASSUME NEW m, NEW g, NEW i, Ready(m, g, i), NEW in, in.op \in {"Shld", "Shrd"}, in.o0 \in Places, in.o0.w = 4, in.o1 \in Registers,
         in.o2 \in ByteCounts, Plain(in.o0), NEW dead
  PROVE  ArmDone(Forgot(ArmDoubleShift(m, in, i)), ExecDoubleShift(g, in), i, dead)
<1>1. /\ m.c \in Cpus /\ g \in Cpus /\ Even(m.c, g) /\ Eflags(m.c.flags) = Eflags(g.flags) /\ m \in Blocks /\ Along(m, g, i)
      /\ Loose(m, g, i) /\ m.c.st = "Ok" /\ g.st = "Ok" /\ Twin(m.c, g) /\ m.made = NothingHeld
  BY ReadyFact, AlongFact, SameEflags DEF Along
<1>2. PICK o \in Places : o = in.o0 /\ o.w = 4 /\ Plain(o) /\ o \in Places \cup Immediates
  OBVIOUS
<1>3. PICK s \in Places : s = in.o1 /\ s.k = "Reg"
  BY DEF Places, Registers
<1>4. Plain(s) /\ Readable(g, s)
  BY <1>3, RegisterOk
<1>5. /\ ArmOk(m.c, o) <=> Readable(g, o)
      /\ Readable(g, o) => ArmValue(m.c, o) = Value(g, o) /\ Value(g, o) \in Int
      /\ WasmOk(m.c, o) <=> Readable(g, o)
  BY <1>1, <1>2, ArmOperands2
<1>6. ArmValue(m.c, s) = Value(g, s) /\ Value(g, s) \in Int
  BY <1>1, <1>4, ArmOperands2
<1>7. ArmValue(m.c, in.o2) = Value(g, in.o2) /\ Value(g, in.o2) \in Int
  BY <1>1, CountValue
<1>8. CASE ~Readable(g, o)
  <2>1. ArmDoubleShift(m, in, i) = MemoryFaultAt(m, i) /\ ExecDoubleShift(g, in) = Fault(g)
    BY <1>2, <1>5, <1>8 DEF ArmDoubleShift, ExecDoubleShift
  <2>2. ~Forgot(MemoryFaultAt(m, i)).in
    BY <1>1 DEF Forgot, Learned, MemoryFaultAt, Exit, Blocks
  <2> QED
    BY <1>1, <2>1, <2>2, ForgotFault, LeftDone
<1>9. CASE Readable(g, o)
  <2>1. PICK x \in Int, y \in Int, count \in Int, left \in BOOLEAN, e \in SUBSET ArithFlags :
          /\ x = Value(g, o) /\ y = Value(g, s) /\ count = Value(g, in.o2) /\ left = (in.op = "Shld") /\ e = Eflags(g.flags)
    BY <1>5, <1>6, <1>7, <1>9, EflagsFact
  <2>2. PICK w \in Width, n \in Nat : w = 4 /\ n = MaskedCount(count) /\ n <= Bits(w)
    <3>1. MaskedCount(count) \in 0 .. Bits(4) - 1 /\ MaskedCount(count) \in Nat
      BY CountFact
    <3> QED
      BY <3>1, NamesFact, BitsFact
  <2>3. PICK t : t = DoubleShift(left, x, y, count, w, e)
    OBVIOUS
  <2>4. /\ t.r \in Int /\ t.e \in SUBSET ArithFlags
        /\ t.wrote <=> n # 0 /\ n <= Bits(w)
        /\ ~t.wrote => (t.defined <=> n = 0)
    <3>1. n = MaskedCount(count)
      BY <2>2
    <3> QED
      BY <2>3, <3>1, DoubleShiftFact
  <2>5. PICK a : a = ArmAddress(m.c, o)
    OBVIOUS
  <2>6. Slot(m.c, o, a, w) = x
    <3>1. o.k \in {"Reg", "Mem"}
      BY DEF Places, Registers, Memories, MemoryOf
    <3>2. Slot(m.c, o, a, w) = ArmValue(m.c, o)
      BY <1>2, <2>2, <2>5, <3>1 DEF Slot, ArmValue
    <3> QED
      BY <1>5, <1>9, <2>1, <3>2
  <2>7. SlotStore(m.c, o, a, w, t.r) = Write(m.c, o, t.r)
    <3>1. Readable(m.c, o)
      BY <1>1, <1>2, <1>9, GuardFact
    <3>2. o.k \in {"Reg", "Mem"}
      BY DEF Places, Registers, Memories, MemoryOf
    <3>3. o.k = "Mem" => Address(m.c, o) = a
      <4>1. o.k = "Mem" => o \in MemoryOf(Widths) /\ ~o.addr16
        BY <1>2, PlacesFact DEF Plain, IsMem
      <4> QED
        BY <1>1, <2>5, <4>1, AddressFact, ArmAddressIs
    <3> QED
      BY <1>2, <2>2, <3>1, <3>2, <3>3 DEF SlotStore, Write
  <2> DEFINE p == CpuDoubleShift(m.c, o, a, left, y, count, w)
             f == Write(m.c, o, t.r)
             h == Write(g, o, t.r)
  <2>8. p = IF t.wrote THEN Explicitly(f, t.e) ELSE m.c
    BY <1>1, <2>1, <2>3, <2>6, <2>7 DEF CpuDoubleShift
  <2>9. ExecDoubleShift(g, in) = IF t.wrote THEN Explicitly(h, t.e) ELSE g
    <3>1. ExecDoubleShift(g, in) = IF t.wrote THEN Explicitly(h, t.e) ELSE IF t.defined THEN g ELSE Stopped(g, "Unsupported")
      BY <1>2, <1>3, <1>9, <2>1, <2>2, <2>3 DEF ExecDoubleShift
    <3>2. ~t.wrote => t.defined
      BY <2>2, <2>4
    <3> QED
      BY <3>1, <3>2
  <2>10. ArmDoubleShift(m, in, i) = [m EXCEPT !.c = p]
    BY <1>2, <1>3, <1>5, <1>6, <1>7, <1>9, <2>1, <2>2, <2>5 DEF ArmDoubleShift
  <2>11. Moved(m.c, g, f, h)
    BY <1>1, <1>9, <2>4, WriteMoved
  <2> HIDE DEF p, f, h
  <2>12. PICK q : q = ExecDoubleShift(g, in)
    OBVIOUS
  <2>13. Twin(p, q) /\ p.st = "Ok" /\ q.st = "Ok" /\ q.eip = g.eip /\ q.next = g.next
    <3>1. CASE t.wrote
      <4>1. p = Explicitly(f, t.e) /\ q = Explicitly(h, t.e)
        BY <2>8, <2>9, <2>12, <3>1
      <4>2. Even(f, h) /\ f.st = "Ok" /\ h.st = "Ok" /\ h.eip = g.eip /\ h.next = g.next
        BY <1>1, <2>11 DEF Moved, Stays
      <4> QED
        BY <2>4, <4>1, <4>2, ExplicitlyFact
    <3>2. CASE ~t.wrote
      BY <1>1, <2>8, <2>9, <2>12, <3>2
    <3> QED
      BY <3>1, <3>2
  <2>14. Done(Forgot([m EXCEPT !.c = p]), q, i)
    BY <1>1, <2>13, ForgotDone
  <2>15. Forgot([m EXCEPT !.c = p]).made = NothingHeld /\ Forgot([m EXCEPT !.c = p]).last = Unknown
    BY <1>1 DEF Forgot, Learned, Blocks
  <2> QED
    BY <2>10, <2>12, <2>14, <2>15, PlainDone
<1> QED
  BY <1>2, <1>8, <1>9

(* A block that forgets after an instruction that made no record.            *)
LEMMA ForgotMade ==
  ASSUME NEW m \in Blocks, m.made = NothingHeld
  PROVE  Forgot([m EXCEPT !.made = NothingHeld]) = Forgot(m) /\ Forgot(m).made = NothingHeld /\ Forgot(m).last = Unknown /\ Forgot(m).in = m.in
BY DEF Forgot, Learned, Blocks

(* emit_mul32, emit_imul_to_register.                                        *)
LEMMA ArmMultiplyDone ==
  ASSUME NEW m, NEW g, NEW i, Ready(m, g, i), NEW in, in.op \in {"Mul", "Imul"}, Decoded(in), Plain(in.o0), Plain(in.o1), NEW dead
  PROVE  ArmDone(Forgot(ArmMultiply(m, in, dead, i)), ExecMul(g, in), i, dead)
<1>1. /\ m.c \in Cpus /\ g \in Cpus /\ m \in Blocks /\ Along(m, g, i) /\ Loose(m, g, i) /\ m.made = NothingHeld /\ g.flags \in Records
      /\ m.c.flags \in Records /\ ~MemoryFaultAt(m, i).in
  BY ReadyFact, AlongFact, InQuiet
<1>2. /\ in.n \in {1, 2, 3} /\ in.o0 \in Places
      /\ in.n # 1 => in.op = "Imul" /\ in.o0 \in Registers /\ in.o1 \in Places
      /\ in.n = 3 => in.o2 \in Immediates
  <2>1. CASE in.op = "Mul"
    BY <2>1 DEF Decoded
  <2>2. CASE in.op = "Imul"
    BY <2>2 DEF Decoded, Places
  <2> QED
    BY <2>1, <2>2
<1>3. PICK w \in Width : w = in.o0.w
  BY <1>2, PlacesFact
<1>4. /\ ArmOk(m.c, in.o0) = WasmOk(m.c, in.o0) /\ ArmValue(m.c, in.o0) = WasmValue(m.c, in.o0)
      /\ in.n # 1 => ArmOk(m.c, in.o1) = WasmOk(m.c, in.o1) /\ ArmValue(m.c, in.o1) = WasmValue(m.c, in.o1)
  BY <1>1, <1>2, ArmOperandIs
<1>5. in.n # 1 => in.o0.k = "Reg" /\ in.o0.r \in 0 .. 7 /\ ArmOk(m.c, in.o0) /\ Readable(g, in.o0)
  BY <1>2 DEF Registers, Readable, ArmOk, IsMem
<1>6. ASSUME ArmMultiply(m, in, dead, i) = WasmMultiply(m, in, i)
      PROVE  ArmDone(Forgot(ArmMultiply(m, in, dead, i)), ExecMul(g, in), i, dead)
  <2>1. Done(Forgot(WasmMultiply(m, in, i)), ExecMul(g, in), i)
    BY <1>1, MultiplyDone
  <2>2. PICK d : WasmMultiply(m, in, i) = MemoryFaultAt(m, i) \/ WasmMultiply(m, in, i) = [m EXCEPT !.c = d]
    BY DEF WasmMultiply
  <2>3. CASE WasmMultiply(m, in, i) = MemoryFaultAt(m, i)
    <3>1. ~Forgot(MemoryFaultAt(m, i)).in
      BY <1>1 DEF Forgot, Learned, MemoryFaultAt, Exit, Blocks
    <3> QED
      BY <1>6, <2>1, <2>3, <3>1, LeftDone
  <2>4. CASE WasmMultiply(m, in, i) = [m EXCEPT !.c = d]
    <3>1. Forgot([m EXCEPT !.c = d]).made = NothingHeld /\ Forgot([m EXCEPT !.c = d]).last = Unknown
      BY <1>1 DEF Forgot, Learned, Blocks
    <3> QED
      BY <1>6, <2>1, <2>4, <3>1, PlainDone
  <2> QED
    BY <2>2, <2>3, <2>4
<1>7. CASE in.n = 1
  <2>1. ArmMultiply(m, in, dead, i) = WasmMultiply(m, in, i)
    BY <1>4, <1>7 DEF ArmMultiply, WasmMultiply
  <2> QED
    BY <1>6, <2>1
<1>8. CASE in.n # 1 /\ ~ArmOk(m.c, in.o1)
  <2>1. ArmMultiply(m, in, dead, i) = WasmMultiply(m, in, i)
    BY <1>2, <1>4, <1>5, <1>8 DEF ArmMultiply, WasmMultiply
  <2> QED
    BY <1>6, <2>1
<1>9. CASE in.n # 1 /\ ArmOk(m.c, in.o1)
  <2>1. in.o0 \in Places /\ in.o1 \in Places /\ in.o1 \in Places \cup Immediates
    BY <1>2, <1>9
  <2>2. /\ ArmOk(m.c, in.o1) <=> Readable(g, in.o1)
        /\ WasmOk(m.c, in.o0) <=> Readable(g, in.o0)
        /\ Readable(g, in.o0) => ArmValue(m.c, in.o0) = Value(g, in.o0) /\ Value(g, in.o0) \in Int
    BY <1>1, <2>1, ArmOperands2
  <2>3. Readable(g, in.o1) => ArmValue(m.c, in.o1) = Value(g, in.o1) /\ Value(g, in.o1) \in Int
    BY <1>1, <2>1, ArmOperands2
  <2>4. PICK u \in Int, v \in Int : u = Value(g, in.o0) /\ u = ArmValue(m.c, in.o0) /\ v = Value(g, in.o1) /\ v = ArmValue(m.c, in.o1)
    BY <1>5, <1>9, <2>2, <2>3
  <2>5. PICK x \in Int, y \in Int : IF in.n = 2 THEN x = u /\ y = v ELSE x = v /\ y = in.o2.v
    <3>1. in.n = 3 => in.o2.v \in Int
      BY <1>2, DwordsFact DEF Immediates
    <3> QED
      BY <1>2, <1>9, <3>1
  <2>6. in.n = 3 => Value(g, in.o2) = in.o2.v
    BY <1>2 DEF Immediates, Value
  <2>7. CASE ~dead
    <3>1. ArmMultiply(m, in, dead, i) = [m EXCEPT !.c = ImulToRegister(m.c, x, y, in.o0.r, w)]
      BY <1>2, <1>3, <1>5, <1>9, <2>4, <2>5, <2>7 DEF ArmMultiply
    <3>2. WasmMultiply(m, in, i) = [m EXCEPT !.c = ImulToRegister(m.c, x, IF in.n = 2 THEN y ELSE Trunc(y, w), in.o0.r, w)]
      BY <1>2, <1>3, <1>4, <1>9, <2>4, <2>5 DEF WasmMultiply
    <3>3. ImulToRegister(m.c, x, Trunc(y, w), in.o0.r, w) = ImulToRegister(m.c, x, y, in.o0.r, w)
      <4>1. Imul(x, Trunc(y, w), w, m.c.flags) = Imul(x, y, w, m.c.flags)
        BY <1>1, ProductFact
      <4> QED
        BY <4>1 DEF ImulToRegister
    <3> QED
      BY <1>6, <3>1, <3>2, <3>3
  <2>8. CASE dead
    <3>1. PICK p \in Int : p = Signed(x, w) * Signed(y, w)
      <4>1. Signed(x, w) \in Int /\ Signed(y, w) \in Int
        BY SignedTrunc
      <4> QED
        BY <4>1
    <3>2. PICK t : t = Imul(x, y, w, g.flags)
      OBVIOUS
    <3>3. t.lo \in Int /\ t.f \in Records /\ t.lo = Trunc(p, w)
      <4>1. t.lo \in Int /\ t.f \in Records
        BY <1>1, <3>2, ProductFact
      <4>2. t.lo = Trunc(Signed(x, w) * Signed(y, w), w)
        BY <3>2 DEF Imul
      <4> QED
        BY <3>1, <4>1, <4>2
    <3>4. ArmMultiply(m, in, dead, i) = ArmWrite(m, in.o0, p)
      BY <1>2, <1>3, <1>5, <1>9, <2>4, <2>5, <2>8, <3>1 DEF ArmMultiply
    <3>5. ExecMul(g, in) = Write(WithFlags(g, t.f), in.o0, t.lo)
      BY <1>2, <1>3, <1>5, <1>9, <2>2, <2>4, <2>5, <2>6, <3>2 DEF ExecMul
    <3>6. Loose(m, WithFlags(g, t.f), i)
      BY <1>1, <3>3, RecordLoose
    <3>7. PICK n : n = WasmWrite(m, in.o0, p)
      OBVIOUS
    <3>8. ArmMultiply(m, in, dead, i) = n
      BY <1>1, <2>1, <3>4, <3>7, ArmWriteIs
    <3>9. Trunc(p, w) = Trunc(t.lo, w)
      BY <3>3, TruncFact
    <3>10. Loose(n, ExecMul(g, in), i)
      <4>1. PICK o, q, l : o = in.o0 /\ o \in Places /\ q = WithFlags(g, t.f) /\ l = t.lo /\ l \in Int
        BY <2>1, <3>3
      <4>2. Plain(o) /\ WasmOk(m.c, o) /\ Loose(m, q, i) /\ Trunc(p, o.w) = Trunc(l, o.w)
        BY <1>3, <1>5, <1>9, <2>2, <3>6, <3>9, <4>1
      <4>3. Loose(WasmWrite(m, o, p), Write(q, o, l), i)
        BY <4>1, <4>2, WriteLoose
      <4> QED
        BY <3>5, <3>7, <4>1, <4>3
    <3>11. n \in Blocks /\ n.made = NothingHeld
      BY <1>1, <3>7, <3>10, LooseFact, WriteQuiet DEF Quiet
    <3>12. ArmDone(n, ExecMul(g, in), i, dead)
      BY <2>8, <3>10 DEF ArmDone
    <3> QED
      BY <3>8, <3>11, <3>12, ForgetDone, ForgotMade
  <2> QED
    BY <2>7, <2>8
<1> QED
  BY <1>7, <1>8, <1>9

\* What a string instruction does to the status and the record: it may fault, and only a comparison records.
Comparing == {"Scas", "Cmps"}
Keeps(d, op, e) == e.st \in {d.st, "MemoryFault"} /\ (op \notin Comparing => e.flags = d.flags)

(* step_once and its turn do so.                                             *)
LEMMA StringTurnKeeps ==
  ASSUME NEW d \in Cpus, NEW op \in StringOps, NEW w \in Width
  PROVE  /\ Keeps(d, op, StringOnce(d, op, w))
         /\ \A rep, n : Keeps(d, op, StringTurn(d, op, rep, w, n)) /\ StringTurn(d, op, rep, w, n) \in Cpus
<1>1. Twin(d, d)
  BY SameSelf DEF Twin, Even
<1>2. Keeps(d, op, StringOnce(d, op, w))
  <2>1. CASE StringReady(d, op, w)
    <3>1. PICK f : f = StringDone(d, op, w)
      OBVIOUS
    <3>2. f \in Cpus
      BY <1>1, <2>1, <3>1, StringDoneFact DEF Ran, Twin, Even
    <3>3. f.st = d.st /\ (op \notin Comparing => f.flags = d.flags)
      BY <3>1 DEF StringDone, StringOps, Comparing, Store, WriteReg, WithFlags, Cpus
    <3>4. PICK delta : delta = IF d.df = 1 THEN -w ELSE w
      OBVIOUS
    <3>5. StringOnce(d, op, w) = StringNext(f, op, delta)
      BY <2>1, <3>1, <3>4, StringOnceIs
    <3>6. StringNext(f, op, delta).st = f.st /\ StringNext(f, op, delta).flags = f.flags
      BY <3>2 DEF StringNext, Cpus
    <3> QED
      BY <3>3, <3>5, <3>6 DEF Keeps
  <2>2. CASE ~StringReady(d, op, w)
    <3>1. StringOnce(d, op, w) = Fault(d)
      BY <2>2, StringOnceIs
    <3>2. Fault(d).st = "MemoryFault" /\ Fault(d).flags = d.flags
      BY DEF Fault, Stopped, Cpus
    <3> QED
      BY <3>1, <3>2 DEF Keeps
  <2> QED
    BY <2>1, <2>2
<1>3. ASSUME NEW rep, NEW n
      PROVE  Keeps(d, op, StringTurn(d, op, rep, w, n)) /\ StringTurn(d, op, rep, w, n) \in Cpus
  <2>1. StringTurn(d, op, rep, w, n) \in Cpus
    BY <1>1, StringTurnFact DEF Ran, Twin, Even
  <2>2. PICK f : f = StringOnce(d, op, w)
    OBVIOUS
  <2>3. f \in Cpus
    BY <1>1, <2>2, StringOnceFact DEF Ran, Twin, Even
  <2>4. StringCounted(f).st = f.st /\ StringCounted(f).flags = f.flags
    BY <2>3 DEF StringCounted, Cpus
  <2>5. StringTurn(d, op, rep, w, n) = d \/ StringTurn(d, op, rep, w, n) = StringCounted(f)
    BY <2>2 DEF StringTurn
  <2> QED
    BY <1>2, <2>1, <2>2, <2>4, <2>5 DEF Keeps
<1> QED
  BY <1>2, <1>3

(* x86p_string_execute does.                                                 *)
LEMMA StringExecuteKeeps ==
  ASSUME NEW d \in Cpus, NEW op \in StringOps, NEW w \in Width, NEW rep, RepDefined(op, rep)
  PROVE  Keeps(d, op, StringExecute(d, op, rep, w))
<1>1. CASE rep = "None"
  BY <1>1, StringTurnKeeps DEF StringExecute
<1>2. CASE rep # "None" /\ op \in {"Movs", "Stos"} /\ Bulk(d, op, w)
  <2>1. StringExecute(d, op, rep, w) = AfterBulk(d, op, w)
    BY <1>2 DEF StringExecute
  <2>2. PICK mem, regs : mem = BulkMem(d, op, w) /\ regs = BulkRegs(d, op, w)
    OBVIOUS
  <2>3. AfterBulk(d, op, w) = [[d EXCEPT !.mem = mem] EXCEPT !.reg = regs]
    BY <2>2, AfterBulkIs
  <2>4. [[d EXCEPT !.mem = mem] EXCEPT !.reg = regs].st = d.st /\ [[d EXCEPT !.mem = mem] EXCEPT !.reg = regs].flags = d.flags
    BY DEF Cpus
  <2> QED
    BY <2>1, <2>3, <2>4 DEF Keeps
<1>3. CASE rep # "None" /\ ~(op \in {"Movs", "Stos"} /\ Bulk(d, op, w))
  <2>1. StringExecute(d, op, rep, w) = Repeated(d, op, rep, w)
    BY <1>3 DEF StringExecute
  <2>2. PICK f : f = (CHOOSE x : x = StringWalk(x, d, op, rep, w))
    OBVIOUS
  <2>3. f = StringWalk(f, d, op, rep, w) /\ Repeated(d, op, rep, w) = f[Size + 1]
    BY <2>2, StringWalkExists, RepeatedIs
  <2>4. PICK n, m : n \in Nat /\ n = Size + 1 /\ m = d.reg[Ecx]
    BY WindowAssumption
  <2> DEFINE T == {j \in 0 .. n : f[j] \in Cpus /\ Keeps(d, op, f[j])}
  <2>5. 0 \in T
    <3>1. f[0] = d /\ 0 \in 0 .. n
      BY <2>3, <2>4 DEF StringWalk
    <3> QED
      BY <3>1 DEF Keeps
  <2>6. ASSUME NEW j \in 0 .. n - 1, j \in T PROVE j + 1 \in T
    <3>1. j + 1 \in 0 .. n /\ (j + 1) - 1 = j /\ j + 1 # 0
      BY <2>4
    <3>2. f[j + 1] = StringTurn(f[j], op, rep, w, m)
      BY <2>3, <2>4, <3>1 DEF StringWalk
    <3>3. PICK e \in Cpus : e = f[j] /\ Keeps(d, op, e)
      BY <2>6
    <3>4. Keeps(e, op, StringTurn(e, op, rep, w, m)) /\ StringTurn(e, op, rep, w, m) \in Cpus
      BY StringTurnKeeps
    <3>5. Keeps(d, op, f[j + 1]) /\ f[j + 1] \in Cpus
      BY <3>2, <3>3, <3>4 DEF Keeps
    <3> QED
      BY <3>1, <3>5
  <2>7. 0 .. n \subseteq T
    <3> HIDE DEF T
    <3> QED
      BY <2>4, <2>5, <2>6, InductionInterval
  <2> QED
    BY <2>1, <2>3, <2>4, <2>7
<1> QED
  BY <1>1, <1>2, <1>3

(* x86p_a64_emit_string.                                                     *)
LEMMA ArmStringDone ==
  ASSUME NEW m, NEW g, NEW i, Ready(m, g, i), NEW in, in.op = "String", in.x \in StringOps, in.o0.w \in Width,
         RepDefined(in.x, in.rep), NEW dead
  PROVE  ArmDone(ArmEmitted(m, in, dead, i), Execute(g, in), i, dead)
<1>1. m \in Blocks /\ Along(m, g, i) /\ m.made = NothingHeld /\ m.c \in Cpus /\ m.c.st = "Ok" /\ g.eip = i - 1 /\ g.next = i
      /\ Twin(m.c, g) /\ g.st = "Ok" /\ m.in
  BY ReadyFact, LooseFact, InQuiet, AlongFact DEF Along
<1>2. PICK f, h : f = StringExecute(m.c, in.x, in.rep, in.o0.w) /\ h = StringExecute(g, in.x, in.rep, in.o0.w)
  OBVIOUS
<1>3. Twin(f, h) /\ f.st = h.st /\ h.eip = i - 1 /\ h.next = i
  BY <1>1, <1>2, StringExecuteFact DEF Ran
<1>4. Keeps(m.c, in.x, f) /\ f \in Cpus
  <2>0. PICK rep : rep = in.rep
    OBVIOUS
  <2>1. PICK d \in Cpus, op \in StringOps, w \in Width : d = m.c /\ op = in.x /\ w = in.o0.w /\ rep = in.rep /\ RepDefined(op, rep)
    BY <1>1, <2>0
  <2>2. Keeps(d, op, StringExecute(d, op, rep, w))
    BY <2>1, StringExecuteKeeps
  <2> QED
    BY <1>2, <1>3, <2>1, <2>2 DEF Twin, Even
<1>5. PICK n : n = Called(m, f, i)
  OBVIOUS
<1>6. ArmEmitted(m, in, dead, i) = IF in.x \in Comparing THEN Forgot(n) ELSE n
  <2>1. ArmEmitted(m, in, dead, i) = ArmString(m, in, i)
    BY DEF ArmEmitted, ArmBranches
  <2>2. f.st = "Ok" \/ f.st = "MemoryFault"
    BY <1>1, <1>4 DEF Keeps
  <2> QED
    BY <1>2, <1>5, <2>1, <2>2 DEF ArmString, Called, MemoryFaultAt, Comparing
<1>7. Execute(g, in) = h
  BY <1>2 DEF Execute
<1>8. n.in => n.made = m.made /\ n.last = m.last /\ n.lw = m.lw /\ n.host = m.host /\ n.held = m.held /\ n.c.flags = f.flags
  BY <1>1, <1>4, <1>5 DEF Called, Blocks, Cpus, Exit
<1>9. CASE h.st # "Ok"
  <2>1. Done(n, h, i) /\ ~n.in
    BY <1>1, <1>3, <1>5, <1>9, CalledFact
  <2>2. Done(Forgot(n), h, i) /\ ~Forgot(n).in
    <3>1. Done(Forgot(n), h, i)
      BY <2>1, LeftLearned
    <3>2. n \in Blocks
      BY <2>1 DEF Done
    <3> QED
      BY <2>1, <3>1, <3>2 DEF Forgot, Learned, Blocks
  <2> QED
    BY <1>6, <1>7, <2>1, <2>2, LeftDone
<1>10. CASE h.st = "Ok"
  <2>1. Along(n, h, i) /\ n \in Blocks
    BY <1>1, <1>3, <1>5, <1>10, CalledFact, AlongFact DEF Along
  <2>2. n.in
    BY <2>1 DEF Along
  <2>3. CASE in.x \in Comparing
    <3>1. Done(Forgot(n), h, i)
      BY <2>1, UnknownDone
    <3>2. Forgot(n).made = NothingHeld /\ Forgot(n).last = Unknown
      BY <1>1, <1>8, <2>1, <2>2 DEF Forgot, Learned, Blocks
    <3> QED
      BY <1>6, <1>7, <2>3, <3>1, <3>2, PlainDone
  <2>4. CASE in.x \notin Comparing
    <3>1. Done(n, h, i)
      <4>1. Sure(m)
        BY ReadyFact
      <4>2. Sure(n)
        BY <1>4, <1>8, <2>2, <2>4, <4>1 DEF Sure, Keeps
      <4> QED
        BY <2>1, <4>2, AlongDone
    <3>2. Quiet(m, n)
      BY <1>4, <1>8, <2>2, <2>4 DEF Quiet, Keeps
    <3> QED
      BY <1>6, <1>7, <2>4, <3>1, <3>2, QuietDone
  <2> QED
    BY <2>3, <2>4
<1> QED
  BY <1>9, <1>10

(* NOP.                                                                      *)
LEMMA ArmNopDone ==
  ASSUME NEW m, NEW g, NEW i, Ready(m, g, i), NEW in, in.op = "Nop", NEW dead
  PROVE  ArmDone(ArmEmitted(m, in, dead, i), Execute(g, in), i, dead)
<1>1. ArmEmitted(m, in, dead, i) = m /\ Execute(g, in) = g
  BY DEF ArmEmitted, ArmBranches, Execute
<1>2. Done(m, g, i) /\ m \in Blocks
  BY ReadyFact DEF Done
<1> QED
  BY <1>1, <1>2, QuietDone, InQuiet

(* What x86p_a64_can_emit accepts has plain operands, and which it accepts at all. *)
LEMMA CanEmitPlain ==
  ASSUME NEW in, ArmCanEmit(in)
  PROVE  Plain(in.o0) /\ Plain(in.o1) /\ Plain(in.o2)
<1>1. \A x \in {in.o0, in.o1, in.o2} : IsMem(x) => ~x.addr16
  BY DEF ArmCanEmit
<1> QED
  BY <1>1 DEF Plain

(* The arithmetic the backend emits.                                         *)
LEMMA ArmArithmeticDone ==
  ASSUME NEW m, NEW g, NEW i, Ready(m, g, i), NEW in, in.op \in {"Alu", "Unary", "Mul", "Imul", "Div", "Idiv", "Shld", "Shrd"},
         Decoded(in), ArmCanEmit(in), NEW dead \in BOOLEAN
  PROVE  ArmDone(ArmEmitted(m, in, dead, i), Execute(g, in), i, dead)
<1>0. Plain(in.o0) /\ Plain(in.o1) /\ Loose(m, g, i) /\ Along(m, g, i)
  BY CanEmitPlain, ReadyFact
<1>1. CASE in.op = "Alu"
  <2>1. /\ ArmEmitted(m, in, dead, i) = IF in.x \in Inlined THEN ArmAlu(m, in, dead, i)
                                        ELSE IF in.x \in ShiftOps THEN ArmShift(m, in, dead, i) ELSE ArmHelper(m, in, i)
        /\ Execute(g, in) = ExecAlu(g, in)
    BY <1>1 DEF ArmEmitted, ArmBranches, Execute
  <2>2. in.o0 \in Places /\ in.o0.w \in Width /\ \/ in.x \in Binary /\ in.o1 \in Sources(in.o0.w)
                                                 \/ in.x \in ShiftOps \cup Rotates /\ in.o1 \in ByteCounts
    BY <1>1, PlacesFact DEF Decoded
  <2>3. /\ Inlined \subseteq Binary /\ Inlined \cap (ShiftOps \cup Rotates) = {} /\ Binary \cap ShiftOps = {}
        /\ Binary \ Inlined = {"Adc", "Sbb"}
    BY DEF Inlined, Binary, ShiftOps, Rotates
  <2>4. CASE in.x \in Inlined
    <3>1. in.o1 \in Sources(in.o0.w)
      BY <2>2, <2>3, <2>4
    <3>2. Reaches(m, g, i, in.o0) /\ Reaches(m, g, i, in.o1)
      BY <1>0 DEF Reaches
    <3> QED
      BY <1>0, <2>1, <2>2, <2>4, <3>1, <3>2, ArmAluFact
  <2>5. CASE in.x \in ShiftOps
    <3>1. in.o1 \in ByteCounts /\ in.x \notin Inlined
      BY <2>2, <2>3, <2>5
    <3> QED
      BY <1>0, <2>1, <2>2, <2>5, <3>1, ArmShiftFact
  <2>6. CASE in.x \notin Inlined /\ in.x \notin ShiftOps
    <3>1. in.x \in {"Adc", "Sbb"} \cup Rotates /\ in.o1 \in Places \cup Immediates /\ Means(in.o1, in.o0.w)
      BY <2>2, <2>3, <2>6, SourceFact, CountsFact
    <3> QED
      BY <1>0, <1>1, <2>1, <2>2, <2>6, <3>1, ArmHelperDone
  <2> QED
    BY <2>4, <2>5, <2>6
<1>2. CASE in.op = "Unary"
  <2>1. ArmEmitted(m, in, dead, i) = ArmUnary(m, in, dead, i) /\ Execute(g, in) = ExecUnary(g, in)
    BY <1>2 DEF ArmEmitted, ArmBranches, Execute
  <2>2. in.x \in Unary /\ in.o0 \in Places
    BY <1>2 DEF Decoded
  <2> QED
    BY <1>0, <2>1, <2>2, ArmUnaryFact
<1>3. CASE in.op \in {"Mul", "Imul"}
  <2>1. ArmEmitted(m, in, dead, i) = Forgot(ArmMultiply(m, in, dead, i)) /\ Execute(g, in) = ExecMul(g, in)
    BY <1>3 DEF ArmEmitted, ArmBranches, Execute
  <2> QED
    BY <1>0, <1>3, <2>1, ArmMultiplyDone
<1>4. CASE in.op \in {"Div", "Idiv"}
  <2>1. ArmEmitted(m, in, dead, i) = ArmDivide(m, in, i) /\ Execute(g, in) = ExecDiv(g, in)
    BY <1>4 DEF ArmEmitted, ArmBranches, Execute
  <2>2. in.o0 \in Places /\ in.o0.w = 4
    BY <1>4 DEF Decoded, ArmCanEmit
  <2> QED
    BY <1>0, <1>4, <2>1, <2>2, ArmDivideDone
<1>5. CASE in.op \in {"Shld", "Shrd"}
  <2>1. ArmEmitted(m, in, dead, i) = Forgot(ArmDoubleShift(m, in, i)) /\ Execute(g, in) = ExecDoubleShift(g, in)
    BY <1>5 DEF ArmEmitted, ArmBranches, Execute
  <2>2. in.o0 \in Places /\ in.o0.w = 4 /\ in.o1 \in Registers /\ in.o2 \in ByteCounts
    BY <1>5 DEF Decoded, ArmCanEmit
  <2> QED
    BY <1>0, <1>5, <2>1, <2>2, ArmDoubleShiftDone
<1> QED
  BY <1>1, <1>2, <1>3, <1>4, <1>5

(* The terminators.                                                          *)
LEMMA ArmEndedDone ==
  ASSUME NEW m, NEW g, NEW i, Ready(m, g, i), NEW in, in.op \in ArmBranches, Decoded(in), ArmCanEmit(in), NEW dead
  PROVE  ArmDone(ArmEmitted(m, in, dead, i), Execute(g, in), i, dead)
<1>0. Plain(in.o0)
  BY CanEmitPlain
<1>1. ArmEmitted(m, in, dead, i) = ArmEnded(m, in, i)
  BY DEF ArmEmitted, ArmBranches
<1>2. CASE in.op \in {"Jmp", "Call"}
  <2>1. in.o0 \in Sources(4)
    BY <1>2 DEF Decoded
  <2> QED
    BY <1>0, <1>1, <1>2, <2>1, ArmJumpDone
<1>3. CASE in.op = "Ret"
  <2>1. in.n = 1 => in.o0 \in Immediates
    BY <1>3 DEF Decoded
  <2> QED
    BY <1>1, <1>3, <2>1, ArmRetDone
<1>4. CASE in.op \in {"Jcc", "Loop", "Loope", "Loopne"}
  BY <1>1, <1>4, ArmConditional
<1> QED
  BY <1>2, <1>3, <1>4 DEF ArmBranches

(* x86p_jit_translate of the ARM64 backend: whatever it emits, it leaves as the interpreter does. *)
THEOREM ArmEmittedDone ==
  ASSUME NEW m, NEW g, NEW i, Ready(m, g, i), NEW in, Decoded(in), ArmCanEmit(in), NEW dead \in BOOLEAN
  PROVE  ArmDone(ArmEmitted(m, in, dead, i), Execute(g, in), i, dead)
<1>0. Plain(in.o0) /\ Plain(in.o1)
  BY CanEmitPlain
<1>1. CASE in.op \in {"Alu", "Unary", "Mul", "Imul", "Div", "Idiv", "Shld", "Shrd"}
  BY <1>1, ArmArithmeticDone
<1>2. CASE in.op \in ArmBranches
  BY <1>2, ArmEndedDone
<1>3. CASE in.op = "Nop"
  BY <1>3, ArmNopDone
<1>4. CASE in.op \in {"Mov", "Movzx", "Movsx", "Lea"}
  BY <1>0, <1>4, ArmMovesDone
<1>5. CASE in.op = "Xchg"
  <2>1. ArmEmitted(m, in, dead, i) = ArmXchg(m, in, i) /\ Execute(g, in) = ExecMove(g, in)
    BY <1>5 DEF ArmEmitted, ArmBranches, Execute
  <2> QED
    BY <1>0, <1>5, <2>1, ArmXchgDone
<1>6. CASE in.op \in {"Push", "Pop"}
  <2>1. in.op = "Push" => in.o0.w = 4 \/ in.o0.k = "Imm"
    BY <1>6 DEF ArmCanEmit
  <2> QED
    BY <1>0, <1>6, <2>1, ArmStackDone
<1>7. CASE in.op = "Setcc"
  <2>1. ArmEmitted(m, in, dead, i) = ArmSetcc(m, in, i) /\ Execute(g, in) = ExecCond(g, in)
    BY <1>7 DEF ArmEmitted, ArmBranches, Execute
  <2>2. in.cc \in Conds /\ in.o0 \in Places
    BY <1>7 DEF Decoded
  <2> QED
    BY <1>0, <1>7, <2>1, <2>2, ArmSetccDone
<1>8. CASE in.op = "String"
  <2>1. in.x \in StringOps /\ in.o0.w \in Width
    BY <1>8 DEF Decoded
  <2>2. RepDefined(in.x, in.rep)
    BY <1>8 DEF ArmCanEmit
  <2> QED
    BY <1>8, <2>1, <2>2, ArmStringDone
<1>9. CASE in.op \in {"Leave", "Cdq", "Cwde", "Bswap", "Cld", "Std", "Lahf"}
  BY <1>9, ArmConvertDone
<1>10. CASE in.op \in {"Pushfd", "Popfd", "Sahf"}
  BY <1>10, ArmFlagsDone
<1>11. in.op \in {"Alu", "Unary", "Mul", "Imul", "Div", "Idiv", "Shld", "Shrd", "Nop", "Mov", "Movzx", "Movsx", "Lea", "Xchg", "Push",
                  "Pop", "Setcc", "String", "Leave", "Cdq", "Cwde", "Bswap", "Cld", "Std", "Lahf", "Pushfd", "Popfd", "Sahf"} \cup ArmBranches
  BY DEF ArmCanEmit
<1> QED
  BY <1>1, <1>2, <1>3, <1>4, <1>5, <1>6, <1>7, <1>8, <1>9, <1>10, <1>11

(* A killer makes good what the records differ in.                           *)
LEMMA KillsDone ==
  ASSUME NEW m, NEW g, NEW i, Loose(m, g, i), NEW in, Decoded(in), ArmCanEmit(in), Kills(in), NEW dead \in BOOLEAN
  PROVE  ArmDone(ArmEmitted(m, in, dead, i), Execute(g, in), i, dead)
<1>0. Plain(in.o0) /\ Plain(in.o1)
  BY CanEmitPlain
<1>1. CASE in.op = "Alu"
  <2>1. /\ ArmEmitted(m, in, dead, i) = IF in.x \in Inlined THEN ArmAlu(m, in, dead, i)
                                        ELSE IF in.x \in ShiftOps THEN ArmShift(m, in, dead, i) ELSE ArmHelper(m, in, i)
        /\ Execute(g, in) = ExecAlu(g, in)
    BY <1>1 DEF ArmEmitted, ArmBranches, Execute
  <2>2. in.o0 \in Places /\ in.o0.w \in Width /\ \/ in.x \in Binary /\ in.o1 \in Sources(in.o0.w)
                                                 \/ in.x \in ShiftOps \cup Rotates /\ in.o1 \in ByteCounts
    BY <1>1, PlacesFact DEF Decoded
  <2>3. Inlined \subseteq Binary /\ Inlined \cap (ShiftOps \cup Rotates) = {} /\ Binary \cap ShiftOps = {}
    BY DEF Inlined, Binary, ShiftOps, Rotates
  <2>4. ~IsMem(in.o0) /\ ~IsMem(in.o1)
    BY <1>1 DEF Kills
  <2>5. CASE in.x \in Inlined
    <3>1. in.o1 \in Sources(in.o0.w)
      BY <2>2, <2>3, <2>5
    <3>2. Reaches(m, g, i, in.o0) /\ Reaches(m, g, i, in.o1)
      BY <2>4 DEF Reaches
    <3> QED
      BY <1>0, <2>1, <2>2, <2>5, <3>1, <3>2, ArmAluFact
  <2>6. CASE in.x \notin Inlined
    <3>1. in.x \in ShiftOps /\ in.o1.k = "Imm" /\ MaskedCount(in.o1.v) # 0
      BY <1>1, <2>6 DEF Kills
    <3>2. in.o1 \in ByteCounts
      BY <2>2, <2>3, <3>1
    <3> QED
      BY <1>0, <2>1, <2>2, <2>4, <2>6, <3>1, <3>2, ArmShiftFact
  <2> QED
    BY <2>5, <2>6
<1>2. CASE in.op = "Unary"
  <2>1. ArmEmitted(m, in, dead, i) = ArmUnary(m, in, dead, i) /\ Execute(g, in) = ExecUnary(g, in)
    BY <1>2 DEF ArmEmitted, ArmBranches, Execute
  <2>2. in.x \in Unary /\ in.o0 \in Places /\ in.x = "Neg" /\ ~IsMem(in.o0)
    BY <1>2 DEF Decoded, Kills
  <2> QED
    BY <1>0, <2>1, <2>2, ArmUnaryFact
<1> QED
  BY <1>1, <1>2 DEF Kills

(* A transparent instruction leaves the two as they are.                     *)
LEMMA TransparentLoose ==
  ASSUME NEW m, NEW g, NEW i, Loose(m, g, i), NEW in, Decoded(in), ArmCanEmit(in), Transparent(in), NEW dead
  PROVE  Loose(ArmEmitted(m, in, dead, i), Execute(g, in), i)
<1> DEFINE o == in.o0
           s == in.o1
<1>0. Plain(o) /\ Plain(s) /\ m \in Blocks /\ m.c \in Cpus /\ g \in Cpus /\ m.c.reg = g.reg /\ m.c.fs_base = g.fs_base
  BY CanEmitPlain, LooseFact
<1>1. CASE in.op = "Nop"
  <2>1. ArmEmitted(m, in, dead, i) = m /\ Execute(g, in) = g
    BY <1>1 DEF ArmEmitted, ArmBranches, Execute
  <2> QED
    BY <2>1
<1>2. CASE in.op = "Unary"
  <2>1. ArmEmitted(m, in, dead, i) = ArmUnary(m, in, dead, i) /\ Execute(g, in) = ExecUnary(g, in)
    BY <1>2 DEF ArmEmitted, ArmBranches, Execute
  <2>2. in.x = "Not" /\ o \in Places /\ ~IsMem(o)
    BY <1>2 DEF Decoded, Transparent
  <2>3. Readable(g, o)
    BY <2>2 DEF Readable, IsMem
  <2> QED
    BY <1>0, <2>1, <2>2, <2>3, NotWritten
<1>3. CASE in.op = "Mov"
  <2>1. o \in Places /\ s \in Sources(o.w) /\ o.w \in Width /\ o.k = "Reg" /\ ~IsMem(s)
    BY <1>3, PlacesFact DEF Decoded, Transparent
  <2>2. s \in Places \cup Immediates /\ Means(s, o.w)
    BY <2>1, SourceFact
  <2>3. Readable(g, o) /\ Readable(g, s)
    BY <2>1 DEF Readable, IsMem
  <2>4. /\ ArmOk(m.c, o) /\ ArmOk(m.c, s) /\ WasmOk(m.c, o)
        /\ ArmValue(m.c, s) \in Int /\ Value(g, s) \in Int /\ Trunc(ArmValue(m.c, s), o.w) = Trunc(Value(g, s), o.w)
    BY <1>0, <2>1, <2>2, <2>3, ArmOperands2
  <2>5. PICK v \in Int, u \in Int : v = ArmValue(m.c, s) /\ u = Value(g, s) /\ Trunc(v, o.w) = Trunc(u, o.w)
    BY <2>4
  <2>6. Loose(WasmWrite(m, o, v), Write(g, o, u), i)
    BY <1>0, <2>1, <2>4, <2>5, WriteLoose
  <2>7. ArmWrite(m, o, v) = WasmWrite(m, o, v)
    BY <1>0, <2>1, ArmWriteIs
  <2>8. ArmEmitted(m, in, dead, i) = ArmMov(m, in, i) /\ Execute(g, in) = ExecMove(g, in)
    BY <1>3 DEF ArmEmitted, ArmBranches, Execute
  <2>9. ArmMov(m, in, i) = ArmWrite(m, o, v) /\ ExecMove(g, in) = Write(g, o, u)
    BY <1>3, <2>3, <2>4, <2>5 DEF ArmMov, ExecMove
  <2> QED
    BY <2>6, <2>7, <2>8, <2>9
<1>4. CASE in.op = "Lea"
  <2>1. o \in Places /\ o.k = "Reg" /\ s \in MemoryOf(Widths) /\ ~s.addr16 /\ ~s.fs /\ s.k = "Mem" /\ s \in Places \cup Immediates
    BY <1>0, <1>4 DEF Decoded, Places, Registers, Memories, MemoryOf, Widths, Plain, IsMem
  <2>2. WasmParts(m.c, s) = Address(g, s) /\ Address(g, s) \in Int
    BY <1>0, <2>1, AddressFact, SameAddress
  <2>3. PICK u \in Int : u = Address(g, s) /\ ArmParts(m.c, s) = u
    BY <1>0, <2>1, <2>2, ArmAddressIs
  <2>4. WasmOk(m.c, o)
    BY <2>1 DEF WasmOk, IsMem
  <2>5. Loose(WasmWrite(m, o, u), Write(g, o, u), i)
    BY <1>0, <2>1, <2>4, WriteLoose
  <2>6. ArmWrite(m, o, u) = WasmWrite(m, o, u)
    BY <1>0, <2>1, ArmWriteIs
  <2>7. ArmEmitted(m, in, dead, i) = ArmLea(m, in) /\ Execute(g, in) = ExecMove(g, in)
    BY <1>4 DEF ArmEmitted, ArmBranches, Execute
  <2>8. ArmLea(m, in) = ArmWrite(m, o, u) /\ ExecMove(g, in) = Write(g, o, u)
    BY <1>4, <2>3 DEF ArmLea, ExecMove
  <2> QED
    BY <2>5, <2>6, <2>7, <2>8
<1> QED
  BY <1>1, <1>2, <1>3, <1>4 DEF Transparent

\* The ARM64 block goes on beside the interpreter, after n instructions: the records are alike, what it
\* knows of its own is so and the words the next instruction reads are in the registers it was told; or
\* they differ in flags that a later instruction of the block makes before any reads them.
ArmFollowing(m, d, n, code, emits) ==
  /\ m \in Blocks /\ m.n = n /\ Even(m.c, d) /\ m.c.st = "Ok" /\ d.st = "Ok" /\ d.eip = n
  /\ m.made = NothingHeld /\ n + 1 \in emits
  /\ \/ SameRecord(m.c.flags, d.flags) /\ ArmKnown(m.last, m.lw, m.c.flags) /\ Words(m.held, m.host, m.c.flags)
     \/ WriteIsDead(code, n, emits)
\* The inductive invariant of the ARM64 block.
ArmInvariant ==
  /\ \E case \in Cases : prog = case[1]
  /\ k \in 0 .. Len(prog)
  /\ arm64.in \in BOOLEAN
  /\ arm64.n \in Nat /\ arm64.n <= k
  /\ arm64.in => ArmFollowing(arm64, c, k, prog, ArmEmits(prog))
  /\ ~arm64.in /\ arm64.n = k /\ k > 0 => Settled(arm64, c, k)

(* The scan of x86p_jit_flag_write_is_dead, from one instruction to the next. *)
LEMMA DeadNext ==
  ASSUME NEW code, NEW n \in Nat, NEW emits, WriteIsDead(code, n, emits)
  PROVE  /\ n + 1 <= MaxInsns /\ ~Boundary(code, n + 1) /\ n + 1 \in emits
         /\ Kills(code[n + 1]) \/ (Transparent(code[n + 1]) /\ WriteIsDead(code, n + 1, emits))
<1>1. PICK j \in n + 1 .. n + 8 : /\ \A x \in n + 1 .. j : x <= MaxInsns /\ ~Boundary(code, x) /\ x \in emits
                                  /\ Kills(code[j])
                                  /\ \A x \in n + 1 .. j - 1 : Transparent(code[x])
  BY DEF WriteIsDead
<1>2. n + 1 \in n + 1 .. j
  OBVIOUS
<1>3. CASE j = n + 1
  BY <1>1, <1>2, <1>3
<1>4. CASE j # n + 1
  <2>1. n + 1 \in n + 1 .. j - 1 /\ j \in (n + 1) + 1 .. (n + 1) + 8
    BY <1>4
  <2>2. /\ \A x \in (n + 1) + 1 .. j : x <= MaxInsns /\ ~Boundary(code, x) /\ x \in emits
        /\ \A x \in (n + 1) + 1 .. j - 1 : Transparent(code[x])
    <3>1. \A x \in (n + 1) + 1 .. j : x \in n + 1 .. j
      OBVIOUS
    <3>2. \A x \in (n + 1) + 1 .. j - 1 : x \in n + 1 .. j - 1
      OBVIOUS
    <3> QED
      BY <1>1, <3>1, <3>2
  <2>3. WriteIsDead(code, n + 1, emits)
    BY <1>1, <2>1, <2>2 DEF WriteIsDead
  <2> QED
    BY <1>1, <1>2, <2>1, <2>3
<1> QED
  BY <1>3, <1>4

(* The end of an instruction of the ARM64 block.                             *)
LEMMA ArmContinue ==
  ASSUME NEW m, NEW g, NEW i \in 1 .. Power(Bits(4)) - 1, NEW code, NEW emits, NEW dead \in BOOLEAN, dead => WriteIsDead(code, i, emits),
         ArmDone(m, g, i, dead)
  PROVE  LET e == Continue(HeldNext(m), code, emits)
         IN  /\ e.in \in BOOLEAN /\ e.n = i
             /\ e.in => ArmFollowing(e, Completed(g), i, code, emits)
             /\ ~e.in => Settled(e, Completed(g), i)
<1>0. m \in Blocks /\ m.n = i - 1 /\ m.in \in BOOLEAN /\ m.made \in Holds /\ NothingHeld \in Holds /\ i \in Nat /\ (i - 1) + 1 = i
      /\ (i - 1) + 2 = i + 1
  BY DEF ArmDone, Done, Loose, Blocks, Holds, NothingHeld
<1>1. PICK p : p = HeldNext(m)
  OBVIOUS
<1>2. /\ p \in Blocks /\ p.c = m.c /\ p.n = i - 1 /\ p.in = m.in /\ p.exit = m.exit /\ p.last = m.last /\ p.lw = m.lw
      /\ p.host = m.host /\ p.held = m.made /\ p.made = NothingHeld
  BY <1>0, <1>1 DEF HeldNext, Blocks
<1>3. PICK e : e = Continue(p, code, emits)
  OBVIOUS
<1>4. PICK b : b = [p EXCEPT !.n = i]
  OBVIOUS
<1>5. /\ b \in Blocks /\ b.c = m.c /\ b.n = i /\ b.in = m.in /\ b.last = m.last /\ b.lw = m.lw
      /\ b.host = m.host /\ b.held = m.made /\ b.made = NothingHeld
  BY <1>0, <1>2, <1>4 DEF Blocks
<1>6. /\ m.in => e = b \/ ~e.in
      /\ m.in /\ i < MaxInsns /\ ~Boundary(code, i + 1) /\ i + 1 \in emits => e = b
  <2>1. [p EXCEPT !.n = @ + 1] = b
    BY <1>0, <1>2, <1>4
  <2>2. m.in => e = IF i >= MaxInsns \/ Boundary(code, i + 1) THEN Exit(b, i, "BlockEnd")
                    ELSE IF i + 1 \notin emits THEN Exit(b, i, "Unsupported") ELSE b
    BY <1>0, <1>2, <1>3, <1>5, <2>1 DEF Continue
  <2>3. \A a, kind : ~Exit(b, a, kind).in
    BY <1>5, ExitQuiet
  <2> QED
    BY <1>0, <2>2, <2>3, InsnsAssumption
<1>7. CASE Done(m, g, i) /\ (m.in => Fresh(m))
  <2>1. Done(p, g, i)
    BY <1>2, <1>7 DEF Done, Sure
  <2>2. e.in \in BOOLEAN /\ e.n = i /\ (e.in => Following(e, Completed(g), i, emits)) /\ (~e.in => Settled(e, Completed(g), i))
    BY <1>3, <2>1, ContinueDone
  <2>3. ASSUME e.in PROVE ArmFollowing(e, Completed(g), i, code, emits)
    <3>1. m.in
      <4>1. CASE ~m.in
        <5>1. e = b
          <6>1. [p EXCEPT !.n = @ + 1] = b
            BY <1>0, <1>2, <1>4
          <6> QED
            BY <1>2, <1>3, <4>1, <6>1 DEF Continue
        <5> QED
          BY <1>5, <2>3, <4>1, <5>1
      <4> QED
        BY <4>1
    <3>2. e = b /\ Fresh(m)
      BY <1>6, <1>7, <2>3, <3>1
    <3> QED
      BY <1>5, <2>2, <2>3, <3>2 DEF ArmFollowing, Following, Twin, Fresh
  <2> QED
    BY <1>1, <1>3, <2>2, <2>3
<1>8. CASE dead /\ Loose(m, g, i)
  <2>1. WriteIsDead(code, i, emits) /\ i + 1 <= MaxInsns /\ ~Boundary(code, i + 1) /\ i + 1 \in emits
    BY <1>0, <1>8, DeadNext
  <2>2. e = b /\ m.in
    BY <1>0, <1>6, <1>8, <2>1, InsnsAssumption DEF Loose
  <2>3. Even(m.c, g) /\ m.c.st = "Ok" /\ g.st = "Ok" /\ g.next = i /\ g \in Cpus
    BY <1>8 DEF Loose, Even
  <2>4. Even(m.c, Completed(g)) /\ Completed(g).st = "Ok" /\ Completed(g).eip = i
    <3>1. i \in Dwords
      BY DwordsFact DEF Dwords
    <3> QED
      BY <2>3, <3>1 DEF Completed, Even, Cpus
  <2>5. ArmFollowing(e, Completed(g), i, code, emits)
    BY <1>5, <2>1, <2>2, <2>3, <2>4 DEF ArmFollowing
  <2> QED
    BY <1>1, <1>3, <1>5, <2>2, <2>5
<1> QED
  BY <1>7, <1>8 DEF ArmDone

(* One instruction of both.                                                  *)
LEMMA ArmStepFollowing ==
  ASSUME NEW m, NEW d, NEW n \in Nat, n + 1 < Power(Bits(4)), NEW code, m.in, ArmFollowing(m, d, n, code, ArmEmits(code)),
         Decoded(code[n + 1])
  PROVE  LET e == ArmStep(m, code)
             f == StepDecoded(d, code[n + 1])
         IN  /\ e.in \in BOOLEAN /\ e.n = n + 1
             /\ e.in => ArmFollowing(e, f, n + 1, code, ArmEmits(code))
             /\ ~e.in => Settled(e, f, n + 1)
<1>1. PICK i, in, g, emits, dead : /\ i = n + 1 /\ in = code[n + 1] /\ g = [d EXCEPT !.next = Trunc(d.eip + 1, 4)] /\ emits = ArmEmits(code)
                                   /\ dead = WriteIsDead(code, i, emits)
  OBVIOUS
<1>2. i \in 1 .. Power(Bits(4)) - 1 /\ i \in Dwords /\ Trunc(i, 4) = i /\ i - 1 = n
  BY <1>1, DwordsFact DEF Dwords
<1>3. d \in Cpus /\ d.eip = n /\ d.st = "Ok" /\ m.c.st = "Ok" /\ Even(m.c, d) /\ m \in Blocks /\ m.n = n /\ i \in emits
      /\ m.made = NothingHeld
  BY <1>1 DEF ArmFollowing, Even
<1>4. Even(m.c, g) /\ g.st = "Ok" /\ g.eip = n /\ g.next = i /\ g.flags = d.flags
  BY <1>1, <1>2, <1>3 DEF Even, Cpus
<1>5. Loose(m, g, i)
  BY <1>2, <1>3, <1>4 DEF Loose
<1>6. ArmCanEmit(in) /\ Decoded(in) /\ dead \in BOOLEAN
  BY <1>1, <1>3 DEF ArmEmits, WriteIsDead
<1>7. PICK p, h : p = ArmEmitted(m, in, dead, i) /\ h = Execute(g, in)
  OBVIOUS
<1>8. PICK doomed \in BOOLEAN : ArmDone(p, h, i, doomed) /\ (doomed => WriteIsDead(code, i, emits))
  <2>1. CASE SameRecord(m.c.flags, d.flags) /\ ArmKnown(m.last, m.lw, m.c.flags) /\ Words(m.held, m.host, m.c.flags)
    <3>1. Ready(m, g, i)
      BY <1>3, <1>4, <1>5, <2>1, LooseFact DEF Ready
    <3> QED
      BY <1>1, <1>6, <1>7, <3>1, ArmEmittedDone
  <2>2. CASE WriteIsDead(code, n, emits)
    <3>1. Kills(in) \/ (Transparent(in) /\ WriteIsDead(code, i, emits))
      BY <1>1, <2>2, DeadNext
    <3>2. CASE Kills(in)
      BY <1>1, <1>5, <1>6, <1>7, <3>2, KillsDone
    <3>3. CASE Transparent(in) /\ WriteIsDead(code, i, emits)
      <4>1. Loose(p, h, i)
        BY <1>5, <1>6, <1>7, <3>3, TransparentLoose
      <4> QED
        BY <3>3, <4>1 DEF ArmDone
    <3> QED
      BY <3>1, <3>2, <3>3
  <2> QED
    BY <1>1, <2>1, <2>2 DEF ArmFollowing
<1>9. ArmStep(m, code) = Continue(HeldNext(p), code, emits)
  BY <1>1, <1>3, <1>7 DEF ArmStep
<1>10. StepDecoded(d, code[n + 1]) = Completed(h)
  BY <1>1, <1>7 DEF StepDecoded
<1>11. PICK e, f : e = Continue(HeldNext(p), code, emits) /\ f = Completed(h)
  OBVIOUS
<1>12. e.in \in BOOLEAN /\ e.n = i /\ (e.in => ArmFollowing(e, f, i, code, emits)) /\ (~e.in => Settled(e, f, i))
  BY <1>2, <1>8, <1>11, ArmContinue
<1> QED
  BY <1>1, <1>9, <1>10, <1>11, <1>12

(* What the comparison of tools/jit_lockstep asks follows from it.           *)
LEMMA ArmInvariantAgrees == ArmInvariant => Arm64Agrees
<1> SUFFICES ASSUME ArmInvariant, arm64.n = k, k > 0
             PROVE  /\ \A field \in {"reg", "mem", "df", "cs"} : arm64.c[field] = c[field]
                    /\ arm64.in => c.st = "Ok" /\ c.eip = k
                    /\ ~arm64.in => SameGuest(arm64.c, c) /\ (arm64.exit = c.st \/ (arm64.exit \in {"BlockEnd", "Unsupported"} /\ c.st = "Ok"))
  BY DEF Arm64Agrees, Agrees
<1>1. Even(arm64.c, c)
  BY DEF ArmInvariant, ArmFollowing, Settled, Twin
<1>2. arm64.c.reg = c.reg /\ arm64.c.mem = c.mem /\ arm64.c.df = c.df /\ arm64.c.cs = c.cs
  BY <1>1 DEF Even
<1>3. arm64.in => c.st = "Ok" /\ c.eip = k
  BY DEF ArmInvariant, ArmFollowing
<1>4. ASSUME ~arm64.in
      PROVE  SameGuest(arm64.c, c) /\ (arm64.exit = c.st \/ (arm64.exit \in {"BlockEnd", "Unsupported"} /\ c.st = "Ok"))
  <2>1. Settled(arm64, c, k)
    BY <1>4 DEF ArmInvariant
  <2>2. SameFlags(arm64.c.flags, c.flags)
    BY <2>1, SameEflags DEF SameFlags, SameRecord, Settled, Twin
  <2>3. SameGuest(arm64.c, c)
    BY <1>2, <2>1, <2>2 DEF SameGuest, Settled
  <2> QED
    BY <2>1, <2>3 DEF Settled
<1> QED
  BY <1>2, <1>3, <1>4

(* A block is entered with nothing known and nothing held.                   *)
LEMMA ArmEnterInvariant == Init => ArmInvariant
<1> SUFFICES ASSUME Init PROVE ArmInvariant
  OBVIOUS
<1>1. PICK case \in Cases : prog = case[1] /\ c = case[2]
  BY DEF Init
<1>2. c \in Cpus /\ c.eip = 0 /\ c.st = "Ok" /\ Len(prog) \in Nat /\ k = 0 /\ arm64 = ArmEnter(c, prog)
  BY <1>1, CasesAssumption DEF Init
<1>3. PICK emits : emits = ArmEmits(prog)
  OBVIOUS
<1>4. (\E p \in Cases : prog = p[1]) /\ k \in 0 .. Len(prog) /\ 0 \in Nat /\ 0 <= k /\ ~(k > 0)
  BY <1>1, <1>2
<1>5. CASE 1 \in emits
  <2>1. arm64 = Entered(c)
    BY <1>2, <1>3, <1>5 DEF ArmEnter
  <2>2. /\ arm64 \in Blocks /\ arm64.c = c /\ arm64.n = 0 /\ arm64.in = TRUE /\ arm64.last = Unknown
        /\ arm64.held = NothingHeld /\ arm64.made = NothingHeld
    BY <1>2, <2>1 DEF Entered, Blocks, Exits, Holds, NothingHeld
  <2>3. ArmKnown(arm64.last, arm64.lw, arm64.c.flags)
    BY <2>2 DEF ArmKnown, Known, Unknown, WasmInline, Shifts
  <2>4. Words(arm64.held, arm64.host, arm64.c.flags)
    BY <2>2 DEF Words, NothingHeld
  <2>5. Even(arm64.c, c) /\ SameRecord(arm64.c.flags, c.flags)
    BY <1>2, <2>2, SameSelf DEF Even
  <2>6. ArmFollowing(arm64, c, k, prog, emits)
    BY <1>2, <1>5, <2>2, <2>3, <2>4, <2>5 DEF ArmFollowing
  <2> QED
    BY <1>3, <1>4, <2>2, <2>6 DEF ArmInvariant
<1>6. CASE 1 \notin emits
  <2>1. arm64 = [Entered(c) EXCEPT !.in = FALSE, !.exit = "UnsupportedAtEntry"]
    BY <1>2, <1>3, <1>6 DEF ArmEnter
  <2>2. arm64.n = 0 /\ arm64.in = FALSE
    BY <2>1 DEF Entered
  <2> QED
    BY <1>4, <2>2 DEF ArmInvariant
<1> QED
  BY <1>5, <1>6

(* Every step keeps it.                                                      *)
LEMMA ArmStepInvariant == ArmInvariant /\ [Next]_vars => ArmInvariant'
<1> SUFFICES ASSUME ArmInvariant, [Next]_vars PROVE ArmInvariant'
  OBVIOUS
<1>1. CASE Step
  <2>1. PICK case \in Cases : prog = case[1]
    BY DEF ArmInvariant
  <2>2. /\ k \in Nat /\ k < Len(prog) /\ Len(prog) \in Nat /\ Len(prog) < Power(Bits(4)) /\ k' = k + 1 /\ prog' = prog
        /\ Decoded(prog[k + 1]) /\ Power(Bits(4)) \in Nat
    <3>1. Len(prog) \in Nat /\ Len(prog) < Power(Bits(4)) /\ DOMAIN prog = 1 .. Len(prog) /\ \A i \in DOMAIN prog : Decoded(prog[i])
      BY <2>1, CasesAssumption
    <3>2. k \in 0 .. Len(prog) /\ k < Len(prog) /\ k' = k + 1 /\ prog' = prog
      BY <1>1 DEF ArmInvariant, Step
    <3>3. k + 1 \in DOMAIN prog /\ k \in Nat
      BY <3>1, <3>2
    <3> QED
      BY <3>1, <3>2, <3>3, DwordsFact
  <2>3. arm64' = ArmStep(arm64, prog) /\ c' = StepDecoded(c, prog[k + 1])
    BY <1>1 DEF Step
  <2>4. k + 1 \in 0 .. Len(prog) /\ k + 1 < Power(Bits(4)) /\ k + 1 \in Nat /\ k + 1 > 0
    BY <2>2
  <2>5. CASE arm64.in
    <3>1. ArmFollowing(arm64, c, k, prog, ArmEmits(prog))
      BY <2>5 DEF ArmInvariant
    <3>2. PICK e, f : e = ArmStep(arm64, prog) /\ f = StepDecoded(c, prog[k + 1])
      OBVIOUS
    <3>3. /\ e.in \in BOOLEAN /\ e.n = k + 1 /\ (e.in => ArmFollowing(e, f, k + 1, prog, ArmEmits(prog)))
          /\ ~e.in => Settled(e, f, k + 1)
      BY <2>2, <2>4, <2>5, <3>1, <3>2, ArmStepFollowing
    <3>4. arm64' = e /\ c' = f
      BY <2>3, <3>2
    <3> QED
      BY <2>1, <2>2, <2>4, <3>3, <3>4 DEF ArmInvariant
  <2>6. CASE ~arm64.in
    <3>1. arm64' = arm64
      BY <2>3, <2>6 DEF ArmStep
    <3>2. arm64.n \in Nat /\ arm64.n < k + 1 /\ arm64.in \in BOOLEAN
      BY <2>2 DEF ArmInvariant
    <3> QED
      BY <2>1, <2>2, <2>4, <2>6, <3>1, <3>2 DEF ArmInvariant
  <2> QED
    BY <2>5, <2>6
<1>2. CASE UNCHANGED vars
  BY <1>2 DEF vars, ArmInvariant
<1> QED
  BY <1>1, <1>2 DEF Next

(* The ARM64 backend does what the interpreter does (tests/test_jit.c).      *)
THEOREM Arm64Safe == Spec => []Arm64Agrees
<1>1. Init => ArmInvariant
  BY ArmEnterInvariant
<1>2. ArmInvariant /\ [Next]_vars => ArmInvariant'
  BY ArmStepInvariant
<1>3. ArmInvariant => Arm64Agrees
  BY ArmInvariantAgrees
<1> QED
  BY <1>1, <1>2, <1>3, PTL DEF Spec
=============================================================================
