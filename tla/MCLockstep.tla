----------------------------- MODULE MCLockstep -----------------------------
(***************************************************************************)
(* Programs of one to three instructions over a window of eight bytes.  A  *)
(* byte has four bits here, so a dword has sixteen.                        *)
(***************************************************************************)
EXTENDS Lockstep, TLC

Insn(op, o0, o1, n) ==
  [op |-> op, x |-> "none", cc |-> "none", o0 |-> o0, o1 |-> o1, o2 |-> None, n |-> n, rep |-> "None", aw |-> 32]
Plain(op) == Insn(op, None, None, 0)
One(op, o) == Insn(op, o, None, 1)
Two(op, o, s) == Insn(op, o, s, 2)
Three(op, o, s, t) == [Insn(op, o, s, 3) EXCEPT !.o2 = t]
AluOf(x, o, s) == [Two("Alu", o, s) EXCEPT !.x = x]
UnaryOf(x, o) == [One("Unary", o) EXCEPT !.x = x]
BitOf(x, o, s) == [Two("Bit", o, s) EXCEPT !.x = x]
StringOf(x, rep, w) == [One("String", Reg(Eax, w)) EXCEPT !.x = x, !.rep = rep]
Conditional(op, cc, o, s, n) == [Insn(op, o, s, n) EXCEPT !.cc = cc]

R(r) == Reg(r, 4)
Al == Reg(0, 1)
Ah == Reg(4, 1)
Cl == Reg(1, 1)
Ax == Reg(Eax, 2)
\* At EBX, and at ESI - which the starts put at an end of the window.
At(w) == Mem(Ebx, -1, 1, 0, w)
Near(w) == Mem(-1, Esi, 1, 0, w)
Fs(o) == [o EXCEPT !.fs = TRUE]

AluForms ==
  {AluOf(x, o, Imm(3, 4)) : x \in Binary, o \in {Al, Ah, Ax, R(Eax), At(1), Near(4)}}
    \cup {AluOf(x, o, R(Edx)) : x \in Binary, o \in {R(Eax), At(4)}}
    \cup {AluOf(x, R(Eax), Near(4)) : x \in Binary}
    \cup {AluOf(x, o, s) : x \in ShiftOps, o \in {Al, R(Eax), Near(2)}, s \in {Imm(0, 1), Imm(1, 1), Imm(9, 1), Cl}}
    \cup {AluOf(x, o, s) : x \in Rotates, o \in {Al, Near(2)}, s \in {Imm(0, 1), Imm(4, 1), Imm(9, 1), Cl}}
    \cup {UnaryOf(x, o) : x \in Unary, o \in {Al, Ah, R(Eax), Near(2)}}
MoveForms ==
  {Two("Mov", o, s) : o \in {R(Eax), R(Ebx), Near(4)}, s \in {Imm(9, 4), R(Edx), R(Esp)}}
    \cup {Two("Mov", Ah, Imm(5, 1)), Two("Mov", Al, Ah), Two("Mov", R(Esi), Fs(At(4))), Two("Mov", Ax, Near(2))}
    \cup {Two(op, o, s) : op \in {"Movzx", "Movsx"}, o \in {R(Eax), R(Edx)}, s \in {Al, Ah, Ax, Near(1), Near(2)}}
    \cup {Two("Lea", R(Eax), Mem(Ebx, Esi, 2, 7, 4))}
    \cup {Two("Xchg", o, s) : o \in {R(Eax), Near(4)}, s \in {R(Eax), R(Edx), R(Esi)}}
    \cup {Two("Xchg", R(Esp), At(4)), Two("Xchg", Al, Ah)}
    \cup {One(op, o) : op \in {"Push", "Pop"}, o \in {R(Eax), R(Esp), Mem(Esp, -1, 1, 0, 4), Near(4)}}
    \cup {One("Push", Imm(12, 1)), One("Push", Imm(9, 4))}
    \cup {Plain(op) : op \in {"Nop", "Leave", "Cdq", "Cwde", "Cld", "Std", "Sahf", "Lahf", "Pushfd", "Popfd", "Pushad",
                              "Popad", "Stc", "Clc", "Cmc", "Salc"}}
    \cup {One("Bswap", R(Eax)), Two("Enter", Imm(4, 2), Imm(0, 1)), Two("Enter", Imm(0, 2), Imm(2, 1))}
WideForms ==
  {One(op, o) : op \in {"Mul", "Imul", "Div", "Idiv"}, o \in {Cl, Near(1), Reg(Ecx, 2)}}
    \cup {One(op, o) : op \in {"Imul", "Div", "Idiv"}, o \in {R(Ecx), Near(4)}}
    \cup {Two("Imul", R(Eax), R(Ecx)), Three("Imul", R(Eax), Near(4), Imm(3, 4)), Two("Imul", R(Eax), R(Eax))}
    \cup {Three(op, o, R(Edx), s) : op \in {"Shld", "Shrd"}, o \in {R(Eax), Near(4)}, s \in {Imm(0, 1), Imm(5, 1), Cl}}
    \cup {Three(op, Ax, Reg(Edx, 2), Imm(9, 1)) : op \in {"Shld", "Shrd"}}
    \cup {BitOf(x, o, s) : x \in {"Bt", "Bts", "Btr", "Btc"}, o \in {R(Eax), At(4)}, s \in {Imm(3, 1), R(Ecx)}}
    \cup {Two(op, R(Eax), s) : op \in {"Bsf", "Bsr"}, s \in {R(Ecx), Near(4)}}
    \cup {Two(op, o, R(Edx)) : op \in {"Xadd", "Cmpxchg"}, o \in {R(Ecx), Near(4)}}
    \cup {Two(op, R(Edx), R(Edx)) : op \in {"Xadd", "Cmpxchg"}}
    \cup {One("Cmpxchg8b", At(8)), One("Cmpxchg8b", Near(8))}
    \cup {StringOf(x, rep, w) : x \in {"Movs", "Stos", "Lods", "Scas", "Cmps"}, rep \in {"None", "Rep", "Repne"}, w \in {1, 2}}
BranchForms ==
  {One(op, o) : op \in {"Jmp", "Call"}, o \in {Imm(5, 4), R(Eax), Near(4), R(Esp)}}
    \cup {Plain("Ret"), One("Ret", Imm(4, 2))}
    \cup {[One(op, Imm(7, 4)) EXCEPT !.aw = aw] : op \in {"Loop", "Loope", "Loopne"}, aw \in {16, 32}}
    \cup {One("Jecxz", Imm(7, 4)), Plain("Int"), Plain("Hlt"), Plain("Into"), Two("Bound", R(Eax), Near(4))}
Judges(cc) ==
  {Conditional("Jcc", cc, Imm(9, 4), None, 1), Conditional("Setcc", cc, Al, None, 1), Conditional("Setcc", cc, Near(1), None, 1),
   Conditional("Cmovcc", cc, R(Eax), R(Edx), 2), Conditional("Cmovcc", cc, Ax, Near(2), 2)}
AllForms == AluForms \cup MoveForms \cup WideForms \cup BranchForms \cup UNION {Judges(cc) : cc \in Conds}

\* The flags a program may start with.
StartFlags ==
  {NoFlags, SetExplicit({"CF", "ZF", "OF"}), [NoFlags EXCEPT !.kind = "Sub", !.a = 2, !.b = 9, !.r = 9, !.w = 1],
   [NoFlags EXCEPT !.kind = "Dec", !.a = 32768, !.b = 1, !.r = 32767, !.w = 4, !.carry_in = TRUE]}
Start(eax, ecx, edx, ebx, esp, esi, flags, df) ==
  [reg |-> (Eax :> eax @@ Ecx :> ecx @@ Edx :> edx @@ Ebx :> ebx @@ Esp :> esp @@ Ebp :> 20 @@ Esi :> esi @@ Edi :> 19),
   mem |-> [x \in Window |-> (x * 7) % 16], flags |-> flags, df |-> df, cs |-> 8, fs_base |-> 4,
   eip |-> 0, next |-> 0, st |-> "Ok"]
Usual(flags) == Start(32773, 2, 1, 16, 20, 17, flags, 0)
Edge(flags) == Start(127, 0, 32767, 19, 17, 22, flags, 1)
Out(flags) == Start(32768, 65535, 0, 65535, 26, 14, flags, 0)

\* What a block may know, hold in a host register or have dropped when the next instruction asks.
Writers ==
  {AluOf(x, Al, Imm(3, 4)) : x \in {"Add", "Sub", "And", "Adc", "Shl", "Rol"}}
    \cup {AluOf("Shr", R(Eax), Cl), AluOf("Xor", R(Eax), R(Edx)), AluOf("Add", R(Eax), R(Edx)), AluOf("Cmp", R(Eax), Near(4))}
    \cup {UnaryOf(x, o) : x \in {"Neg", "Dec"}, o \in {Al, R(Eax)}} \cup {UnaryOf("Inc", Near(2))}
    \cup {Two("Mov", R(Eax), Imm(9, 4)), Two("Mov", Ah, Imm(5, 1)), Two("Imul", R(Eax), R(Ecx)), Plain("Popfd")}
Middles ==
  {Plain("Nop"), UnaryOf("Not", Al), UnaryOf("Inc", R(Edx)), Two("Mov", Al, Ah), Two("Mov", R(Eax), R(Edx)), Two("Mov", R(Edx), At(4)),
   Two("Lea", R(Eax), Mem(Ebx, Esi, 2, 7, 4)), AluOf("Shl", R(Edx), Cl), AluOf("Sub", R(Eax), R(Edx)), AluOf("Ror", Al, Imm(0, 1)),
   One("Push", R(Eax)), Two("Xchg", R(Eax), R(Edx)), Plain("Cld"), StringOf("Scas", "None", 1), Conditional("Setcc", "LE", Ah, None, 1)}
Readers ==
  {Conditional("Setcc", cc, Al, None, 1) : cc \in Conds} \cup {Conditional("Jcc", cc, Imm(9, 4), None, 1) : cc \in {"L", "BE"}}
    \cup {AluOf("Adc", R(Eax), Imm(1, 4)), AluOf("Cmp", R(Eax), R(Edx)), UnaryOf("Inc", R(Eax)), One("Push", R(Eax)), Plain("Pushfd"), Plain("Lahf")}

\* Every form alone, every form before every reader, what is written, carried past an instruction
\* and read, and a record made by the last instruction a block can hold.
MCCases ==
  {<<<<in>>, s>> : in \in AllForms, s \in UNION {{Usual(f), Edge(f), Out(f)} : f \in StartFlags}}
    \cup {<<<<in, r>>, s>> : in \in AllForms, r \in Readers, s \in {Usual(NoFlags)}}
    \cup {<<<<w, m, r>>, s>> : w \in Writers, m \in Middles, r \in Readers, s \in {Usual(SetExplicit({"CF"})), Edge(NoFlags)}}
    \cup {<<<<Plain("Nop"), Plain("Nop"), w, AluOf("Xor", R(Eax), R(Eax))>>, Usual(NoFlags)>> : w \in Writers}
=============================================================================
