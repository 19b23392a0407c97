-------------------------------- MODULE MCX87 ---------------------------------
(***************************************************************************)
(* Four registers, so that three mirrored ones leave one below them, and a *)
(* cell of memory for each format.                                         *)
(***************************************************************************)
EXTENDS X87Lockstep, TLC

Insn(x, o0, o1) == [x |-> x, o0 |-> o0, o1 |-> o1, op |-> "Add", rev |-> FALSE, pops |-> 0, int |-> FALSE, fn |-> "None", cond |-> "CF"]
Nullary(x) == Insn(x, NoOperand, NoOperand)
Popping(in, n) == [in EXCEPT !.pops = n]
OfInt(in) == [in EXCEPT !.int = TRUE]
FnOf(fn) == [Nullary("Fn") EXCEPT !.fn = fn]
Arithmetic(op, rev, o0, o1) == [Insn("Arith", o0, o1) EXCEPT !.op = op, !.rev = rev]

Single == Cell("single", 4)
Double == Cell("double", 8)
Small == Cell("small", 2)
Long == Cell("long", 4)
Word == Cell("word", 2)
Status == Cell("status", 2)
Image == Cell("image", 4)

Loads == {Insn("Load", o, NoOperand) : o \in {St(0), St(1), St(3), Single, Double}} \cup {OfInt(Insn("Load", Small, NoOperand))}
Stores ==
  {Popping(Insn("Store", o, NoOperand), n) : o \in {St(0), St(1), St(3), Single, Double}, n \in {0, 1}}
    \cup {OfInt(Popping(Insn("Store", o, NoOperand), n)) : o \in {Small, Long}, n \in {0, 1}}
RegisterArith ==
  {Arithmetic(op, rev, St(0), St(i)) : op \in {"Add", "Sub", "Mul", "Div"}, rev \in BOOLEAN, i \in {0, 1, 3}}
    \cup {Popping(Arithmetic(op, rev, St(i), St(0)), n) : op \in {"Sub", "Div"}, rev \in BOOLEAN, i \in {1, 2}, n \in {0, 1}}
MemoryArith ==
  {Arithmetic(op, rev, o, NoOperand) : op \in {"Add", "Sub", "Mul", "Div"}, rev \in BOOLEAN, o \in {Single, Double}}
    \cup {OfInt(Arithmetic(op, rev, Small, NoOperand)) : op \in {"Sub", "Div"}, rev \in BOOLEAN}
Compares ==
  {Popping(Insn("Compare", St(i), NoOperand), n) : i \in {1, 2}, n \in {0, 1}} \cup {Popping(Insn("Compare", St(1), NoOperand), 2)}
    \cup {Popping(Insn("Compare", o, NoOperand), n) : o \in {Single, Double}, n \in {0, 1}} \cup {OfInt(Insn("Compare", Small, NoOperand))}
    \cup {Popping(Insn("CompareInt", St(0), St(1)), n) : n \in {0, 1}}
Registers ==
  {Insn("Exchange", St(i), NoOperand) : i \in {1, 2, 3}} \cup {Nullary(x) : x \in {"ChangeSign", "Abs", "Test", "Examine"}}
    \cup {Insn("Free", St(1), NoOperand), [Insn("Cmov", St(0), St(1)) EXCEPT !.cond = "CF"]}
Controls ==
  {Insn("LoadControl", Word, NoOperand), Insn("StoreControl", Word, NoOperand), Insn("StoreStatus", Status, NoOperand),
   Insn("StoreStatus", Ax, NoOperand), Nullary("ClearExc"), Nullary("Init"), Nullary("Wait"), Insn("SaveState", Image, NoOperand),
   Insn("RestoreState", Image, NoOperand)}
Functions == {FnOf(fn) : fn \in {"Sqrt", "Rndint", "SinCos", "Patan", "Scale", "Xtract"}}
Others ==
  {Insn("Touch", Single, NoOperand), Insn("Touch", Double, NoOperand), Nullary("Plain"), Nullary("Helper"), Insn("Mmx", St(1), NoOperand), Nullary("Emms")}
AllForms ==
  Loads \cup Stores \cup RegisterArith \cup MemoryArith \cup Compares \cup Registers \cup Controls \cup Functions \cup Others
    \cup {Nullary(x) : x \in Constants}

\* Registers: a value each, from the bottom; an ordinary unit and its rounding edges.
Values == <<V(FALSE, 12), V(TRUE, 8), V(FALSE, 11), V(FALSE, 20)>>
Edges == <<V(TRUE, 0), V(FALSE, 30), V(FALSE, Inf), V(TRUE, Nan)>>
Tiny == <<V(FALSE, 1), V(FALSE, 4), V(FALSE, 0), V(TRUE, 31)>>
Unit(values, full, top, rc, pc, double, census) ==
  [reg |-> [p \in 0 .. Regs - 1 |-> values[p + 1]], full |-> full, top |-> top, status |-> {"C1"},
   control |-> [rc |-> rc, pc |-> pc], double |-> double, host |-> TRUE, census |-> census]
SavedImage ==
  [control |-> InitControl, word |-> [bits |-> {"C3"}, top |-> 2], tags |-> [p \in 0 .. Regs - 1 |-> IF p < 2 THEN "Empty" ELSE "Valid"],
   reg |-> [p \in 0 .. Regs - 1 |-> V(FALSE, 16)]]
Guest(f, single, double, mapped) ==
  [f |-> f, mapped |-> mapped, ax |-> "none", flags |-> {"CF"}, st |-> "Ok",
   mem |-> [a \in {"single", "double", "small", "long", "word", "status", "image"} |->
              CASE a = "single" -> single [] a = "double" -> double [] a = "small" -> 0 - 1 [] a = "long" -> 2
                [] a = "word" -> [rc |-> "Up", pc |-> "Extended"] [] a = "status" -> "none" [] a = "image" -> SavedImage]]
Everything == {"single", "double", "small", "long", "word", "status", "image"}
Layouts == {<<{}, 0>>, <<{3}, 3>>, <<{2, 3}, 2>>, <<{0, 2, 3}, 2>>, <<0 .. 3, 1>>, <<{0, 2}, 0>>}
Reals(values, single, double) ==
  {Guest(Unit(values, l[1], l[2], Nearest, "Extended", d, -1), single, double, Everything) : l \in Layouts, d \in BOOLEAN}
Ordinaries == Reals(Values, V(FALSE, 16), V(TRUE, 12))
Strange == Reals(Edges, V(FALSE, Nan), V(FALSE, Inf)) \cup Reals(Tiny, V(TRUE, 0), V(FALSE, 4))
Modes ==
  {Guest(Unit(v, {2, 3, 0}, 2, rc, pc, TRUE, census), V(FALSE, 24), V(FALSE, 20), Everything) :
     v \in {Values, Tiny}, rc \in {Nearest, "Down", "Truncate"}, pc \in {"Single", "Double"}, census \in {-1, 0}}
Unmapped == {Guest(Unit(Values, l[1], l[2], Nearest, "Extended", FALSE, -1), V(FALSE, 8), V(FALSE, 8), {"small"}) : l \in Layouts}

\* What fills, dirties, moves and empties the mirror.
Builders ==
  {Insn("Load", Single, NoOperand), Insn("Load", St(1), NoOperand), Nullary("ConstOne"), Insn("Exchange", St(2), NoOperand),
   Popping(Arithmetic("Sub", FALSE, St(1), St(0)), 1), Arithmetic("Mul", FALSE, St(2), St(0)), Popping(Insn("Store", St(2), NoOperand), 1),
   Nullary("ChangeSign"), Arithmetic("Div", TRUE, Double, NoOperand), Insn("Load", Double, NoOperand)}
Movers ==
  Builders \cup {Popping(Insn("Store", Double, NoOperand), 1), Popping(Insn("Compare", St(1), NoOperand), 2), Insn("StoreStatus", Ax, NoOperand),
    Nullary("Helper"), Nullary("Plain"), FnOf("SinCos"), FnOf("Sqrt"), Insn("LoadControl", Word, NoOperand), Insn("Free", St(1), NoOperand), Nullary("Emms")}
Deep == {Guest(Unit(Values, l[1], l[2], Nearest, "Extended", TRUE, -1), V(FALSE, 24), V(TRUE, 4), (Everything \ {"double"}) \cup x) :
           l \in {<<{}, 0>>, <<{0, 2, 3}, 2>>}, x \in {{"double"}, {}}}

MCCases ==
  {<<{<<in>> : in \in AllForms}, Ordinaries \cup Strange \cup Modes \cup Unmapped>>,
   <<{<<a, in>> : a \in Builders, in \in AllForms}, {g \in Ordinaries : g.f.double}>>,
   <<{<<a, b, d, in>> : a \in Builders, b \in Builders, d \in Movers, in \in Movers}, Deep>>,
   <<{<<a, a, b, b, in>> : a \in Builders, b \in Builders, in \in Movers}, Deep>>}
=============================================================================
