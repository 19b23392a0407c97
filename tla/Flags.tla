-------------------------------- MODULE Flags --------------------------------
(***************************************************************************)
(* EFLAGS, lazily (flags.c, cond.c): an operation records its kind, its    *)
(* operands, its result and its width, and each flag is derived from that  *)
(* record when something asks.  An Explicit record carries the flags       *)
(* themselves, as the set of those that are 1.                             *)
(***************************************************************************)
EXTENDS Word

ArithFlags == {"CF", "PF", "AF", "ZF", "SF", "OF"}
Shifts == {"Shl", "Shr", "Sar"}
Conds == {"O", "NO", "B", "NB", "Z", "NZ", "BE", "A", "S", "NS", "P", "NP", "L", "GE", "LE", "G"}

NoFlags == [kind |-> "None", a |-> 0, b |-> 0, r |-> 0, w |-> 0, carry_in |-> FALSE, word |-> {}]

CarryInIsLive(kind) == kind \in {"Inc", "Dec"}

\* A shift's last bit out: of nothing once SHL or SHR has run out of bits, of the sign for SAR.
ShiftCarry(f) ==
  IF f.b > Bits(f.w) THEN f.kind = "Sar" /\ Msb(f.a, f.w) = 1
  ELSE IF f.kind = "Shl" THEN Bit(f.a, Bits(f.w) - f.b) = 1
  ELSE Bit(f.a, f.b - 1) = 1

CF(f) ==
  \/ f.kind = "Sub" /\ Trunc(f.a, f.w) < Trunc(f.b, f.w)
  \/ f.kind = "Add" /\ Trunc(f.r, f.w) < Trunc(f.a, f.w)
  \/ f.kind \in {"Inc", "Dec"} /\ f.carry_in
  \/ f.kind = "Explicit" /\ "CF" \in f.word
  \/ f.kind \in Shifts /\ ShiftCarry(f)

ZF(f) == IF f.kind = "Explicit" THEN "ZF" \in f.word ELSE f.kind # "None" /\ Trunc(f.r, f.w) = 0
SF(f) == IF f.kind = "Explicit" THEN "SF" \in f.word ELSE f.kind # "None" /\ Msb(f.r, f.w) = 1
PF(f) == IF f.kind = "Explicit" THEN "PF" \in f.word ELSE f.kind # "None" /\ EvenParity(f.r)

OF(f) ==
  LET sa == Msb(f.a, f.w)
      sb == Msb(f.b, f.w)
      sr == Msb(f.r, f.w)
      least == Power(Bits(f.w) - 1)
  IN  CASE f.kind = "Explicit" -> "OF" \in f.word
        [] f.kind = "Add" -> sa = sb /\ sr # sa
        [] f.kind = "Sub" -> sa # sb /\ sr # sa
        [] f.kind = "Inc" -> Trunc(f.r, f.w) = least
        [] f.kind = "Dec" -> Trunc(f.a, f.w) = least
        [] f.kind = "Shl" -> ~(sr = 1 <=> CF(f))
        [] f.kind = "Shr" -> f.b = 1 /\ sa = 1
        [] OTHER -> FALSE

\* The carry out of the low half of a byte; set by every shift.
AF(f) ==
  CASE f.kind = "Explicit" -> "AF" \in f.word
    [] f.kind \in {"Add", "Sub", "Inc", "Dec"} -> Bit(Xor(Xor(f.a, f.b), f.r), ByteBits \div 2) = 1
    [] f.kind \in Shifts -> TRUE
    [] OTHER -> FALSE

\* x86p_eflags: the flags that are 1.
Eflags(f) ==
  IF f.kind = "None" THEN {}
  ELSE IF f.kind = "Explicit" THEN f.word \cap ArithFlags
  ELSE {x \in ArithFlags :
          CASE x = "CF" -> CF(f) [] x = "PF" -> PF(f) [] x = "AF" -> AF(f)
            [] x = "ZF" -> ZF(f) [] x = "SF" -> SF(f) [] x = "OF" -> OF(f)}

CarryForgotten(f, kind, a, b, r, w) ==
  [kind |-> kind, a |-> a, b |-> b, r |-> r, w |-> w, carry_in |-> FALSE, word |-> {}]
\* x86p_flags_set: the carry is read from the old record before it is overwritten.
Set(f, kind, a, b, r, w) ==
  [kind |-> kind, a |-> a, b |-> b, r |-> r, w |-> w, carry_in |-> CF(f), word |-> {}]
SetExplicit(word) ==
  [kind |-> "Explicit", a |-> 0, b |-> 0, r |-> 0, w |-> 4, carry_in |-> "CF" \in word, word |-> word]

\* The flags of an addition or subtraction with a carry in, computed at once (adc and sbb).
CommonFlags(a, b, r, w) ==
  {x \in {"ZF", "SF", "PF", "AF"} :
     CASE x = "ZF" -> r = 0
       [] x = "SF" -> Msb(r, w) = 1
       [] x = "PF" -> EvenParity(r)
       [] x = "AF" -> Bit(Xor(Xor(a, b), r), ByteBits \div 2) = 1}
AdcFlags(a, b, c, r, w) ==
  CommonFlags(a, b, r, w)
    \cup (IF a + b + c >= Power(Bits(w)) THEN {"CF"} ELSE {})
    \cup (IF Msb(a, w) = Msb(b, w) /\ Msb(r, w) # Msb(a, w) THEN {"OF"} ELSE {})
SbbFlags(a, b, c, r, w) ==
  CommonFlags(a, b, r, w)
    \cup (IF a - b - c < 0 THEN {"CF"} ELSE {})
    \cup (IF Msb(a, w) # Msb(b, w) /\ Msb(r, w) # Msb(a, w) THEN {"OF"} ELSE {})

\* x86p_cond_eflags, over a set of flags.
CondEflags(cc, e) ==
  CASE cc = "O" -> "OF" \in e [] cc = "NO" -> "OF" \notin e
    [] cc = "B" -> "CF" \in e [] cc = "NB" -> "CF" \notin e
    [] cc = "Z" -> "ZF" \in e [] cc = "NZ" -> "ZF" \notin e
    [] cc = "BE" -> {"CF", "ZF"} \cap e # {} [] cc = "A" -> {"CF", "ZF"} \cap e = {}
    [] cc = "S" -> "SF" \in e [] cc = "NS" -> "SF" \notin e
    [] cc = "P" -> "PF" \in e [] cc = "NP" -> "PF" \notin e
    [] cc = "L" -> ~("SF" \in e <=> "OF" \in e) [] cc = "GE" -> ("SF" \in e <=> "OF" \in e)
    [] cc = "LE" -> "ZF" \in e \/ ~("SF" \in e <=> "OF" \in e)
    [] cc = "G" -> "ZF" \notin e /\ ("SF" \in e <=> "OF" \in e)

CondLessBySign(cc, f) == IF cc = "L" THEN SF(f) ELSE CondEflags(cc, Eflags(f))
\* x86p_cond: nothing recorded reads as every flag clear.
Cond(cc, f) ==
  IF f.kind \in {"None", "Explicit"} THEN CondEflags(cc, f.word)
  ELSE CASE cc = "O" -> OF(f) [] cc = "NO" -> ~OF(f)
         [] cc = "B" -> CF(f) [] cc = "NB" -> ~CF(f)
         [] cc = "Z" -> ZF(f) [] cc = "NZ" -> ~ZF(f)
         [] cc = "BE" -> ZF(f) \/ CF(f) [] cc = "A" -> ~ZF(f) /\ ~CF(f)
         [] cc = "S" -> SF(f) [] cc = "NS" -> ~SF(f)
         [] cc = "P" -> PF(f) [] cc = "NP" -> ~PF(f)
         [] cc = "L" -> ~(SF(f) <=> OF(f)) [] cc = "GE" -> (SF(f) <=> OF(f))
         [] cc = "LE" -> ZF(f) \/ ~(SF(f) <=> OF(f))
         [] cc = "G" -> ~ZF(f) /\ (SF(f) <=> OF(f))
=============================================================================
