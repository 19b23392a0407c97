-------------------------------- MODULE Decode --------------------------------
(***************************************************************************)
(* What decode.c hands to the engines: the operands map_operand fills in   *)
(* and the shapes the instructions give them, and the CPU states a program *)
(* can be in.                                                              *)
(***************************************************************************)
EXTENDS Block

Width == {1, 2, 4}
Dwords == 0 .. Power(Bits(4)) - 1
Bytes == 0 .. Power(Bits(1)) - 1

\* map_operand: registers 0 to 7, and memory of one of the integer widths or of CMPXCHG8B's.
Registers == [k : {"Reg"}, r : 0 .. 7, w : Width]
MemoryOf(widths) ==
  [k : {"Mem"}, base : -1 .. 7, index : -1 .. 7, scale : {1, 2, 4, 8}, disp : Int, w : widths, addr16 : BOOLEAN, fs : BOOLEAN]
Memories == MemoryOf(Width)
Immediates == [k : {"Imm"}, v : Dwords, w : Width]
Places == Registers \cup Memories
\* Sign extension has already happened: an immediate is a value of the size it is used at.
Means(o, w) == o.k = "Imm" => w <= o.w \/ o.v < Power(Bits(o.w))
Sources(w) == Places \cup {o \in Immediates : Means(o, w)}
\* A count, or the number of a bit: a byte of the instruction.
CountBytes == {o \in Immediates : o.v \in Bytes}
ByteCounts == CountBytes \cup {o \in Registers : o.w = 1}
\* An exchange names its memory operand first; named second, it is not addressed by the register.
Apart(o, r) == LET whole == IF r.w = 1 THEN r.r % 4 ELSE r.r IN o.base # whole /\ o.index # whole

StringOps == {"Movs", "Stos", "Lods", "Scas", "Cmps"}
BitOps == {"Bt", "Bts", "Btr", "Btc"}
\* The operands of each integer instruction a backend lowers.
Decoded(in) ==
  LET o == in.o0
      s == in.o1
  IN  CASE in.op = "Alu" ->
             \/ in.x \in Binary /\ o \in Places /\ s \in Sources(o.w)
             \/ in.x \in ShiftOps \cup Rotates /\ o \in Places /\ s \in ByteCounts
        [] in.op = "Unary" -> in.x \in Unary /\ o \in Places
        [] in.op = "Mov" -> o \in Places /\ s \in Sources(o.w)
        [] in.op \in {"Movzx", "Movsx"} -> o \in Registers /\ s \in Places
        [] in.op = "Lea" -> o \in Registers /\ s \in Memories /\ ~s.fs
        [] in.op = "Xchg" -> \/ o \in Places /\ s \in Registers
                             \/ o \in Registers /\ s \in Memories /\ Apart(s, o)
        [] in.op = "Push" -> o \in Places \cup Immediates
        [] in.op \in {"Jmp", "Call"} -> o \in Sources(4)
        [] in.op \in {"Pop", "Div", "Idiv"} -> o \in Places
        [] in.op = "Setcc" -> in.cc \in Conds /\ o \in Places
        [] in.op = "Cmovcc" -> in.cc \in Conds /\ o \in Registers /\ s \in Places
        [] in.op = "Jcc" -> in.cc \in Conds /\ o \in Immediates
        [] in.op \in {"Loop", "Loope", "Loopne"} -> o \in Immediates /\ in.aw \in {16, 32}
        [] in.op = "Jecxz" -> o \in Immediates /\ in.aw = 32
        [] in.op = "Ret" -> in.n = 1 => o \in Immediates
        [] in.op = "Mul" -> in.n = 1 /\ o \in Places
        [] in.op = "Imul" -> \/ in.n = 1 /\ o \in Places
                             \/ in.n = 2 /\ o \in Registers /\ s \in Places
                             \/ in.n = 3 /\ o \in Registers /\ s \in Places /\ in.o2 \in Immediates
        [] in.op \in {"Shld", "Shrd"} -> o \in Places /\ s \in Registers /\ in.o2 \in ByteCounts
        [] in.op = "Bit" -> in.x \in BitOps /\ o \in Places /\ s \in Registers \cup CountBytes
        [] in.op = "Bswap" -> o \in Registers /\ o.w = 4
        [] in.op \in {"Bsf", "Bsr"} -> o \in Registers /\ s \in Places
        [] in.op \in {"Xadd", "Cmpxchg"} -> o \in Places /\ s \in Registers /\ s.w = o.w
        [] in.op = "Cmpxchg8b" -> o \in MemoryOf({8})
        [] in.op = "String" -> in.x \in StringOps /\ in.rep \in {"None", "Rep", "Repne"} /\ o.w \in Width
        [] in.op = "Enter" -> o \in Immediates /\ s \in Immediates
        [] OTHER -> TRUE

-----------------------------------------------------------------------------
\* cpu.h, flags.h.  Only a logical result is not known to be a word by its record alone.
Kinds == {"None", "Explicit", "Logic", "Sub", "Add", "Inc", "Dec"} \cup Shifts
Records ==
  {f \in [kind : Kinds, a : Dwords, b : Dwords, r : Int, w : {0} \cup Width, carry_in : BOOLEAN, word : SUBSET ArithFlags] :
     f.kind # "Logic" => f.r \in Dwords}
\* x86p_status of the last instruction.
Statuses == {"Ok", "MemoryFault", "Unsupported", "DivideError", "Interrupt", "ProtectionFault", "BoundRange"}
Cpus ==
  [reg : [0 .. 7 -> Dwords], mem : [Window -> Bytes], flags : Records, df : {0, 1}, cs : Dwords, fs_base : Dwords,
   eip : Dwords, next : Dwords, st : Statuses]
=============================================================================
