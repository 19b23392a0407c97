------------------------------- MODULE Decimal -------------------------------
(***************************************************************************)
(* The decimal adjustments (bcd.c), on bytes of eight bits: ax is the pair *)
(* of its halves al and ah, e the set of flags.                            *)
(***************************************************************************)
EXTENDS Alu

With(e, flag, on) == IF on THEN e \cup {flag} ELSE e \ {flag}
ResultFlags(e, al) == With(With(With(e, "SF", al >= 128), "ZF", al = 0), "PF", EvenParity(al))
\* OF: signed overflow of the last adjustment made, clear when none was.
AddOverflow(a, b) == LET r == (a + b) % 256 IN (a >= 128) = (b >= 128) /\ (r >= 128) # (a >= 128)
SubOverflow(a, b) == LET r == (a - b) % 256 IN (a >= 128) # (b >= 128) /\ (r >= 128) # (a >= 128)

DaaCarryIgnored(al, ah, e) ==
  LET low == al % 16 > 9 \/ "AF" \in e
      al1 == IF low THEN (al + 6) % 256 ELSE al
      high == al > 153
      al2 == IF high THEN (al1 + 96) % 256 ELSE al1
      of == IF high THEN AddOverflow(al1, 96) ELSE low /\ AddOverflow(al, 6)
  IN  [ok |-> TRUE, al |-> al2, ah |-> ah, e |-> With(ResultFlags(With(With(e, "AF", low), "CF", high), al2), "OF", of)]
\* DAA: the second test is on AL as it was; when it fails CF is cleared.
Daa(al, ah, e) ==
  LET low == al % 16 > 9 \/ "AF" \in e
      al1 == IF low THEN (al + 6) % 256 ELSE al
      high == al > 153 \/ "CF" \in e
      al2 == IF high THEN (al1 + 96) % 256 ELSE al1
      of == IF high THEN AddOverflow(al1, 96) ELSE low /\ AddOverflow(al, 6)
  IN  [ok |-> TRUE, al |-> al2, ah |-> ah, e |-> With(ResultFlags(With(With(e, "AF", low), "CF", high), al2), "OF", of)]

\* DAS: when the second test fails CF stays as the first block left it.
Das(al, ah, e) ==
  LET low == al % 16 > 9 \/ "AF" \in e
      al1 == IF low THEN (al - 6) % 256 ELSE al
      high == al > 153 \/ "CF" \in e
      al2 == IF high THEN (al1 - 96) % 256 ELSE al1
      cf == high \/ (low /\ al < 6) \/ "CF" \in e
      of == IF high THEN SubOverflow(al1, 96) ELSE low /\ SubOverflow(al, 6)
  IN  [ok |-> TRUE, al |-> al2, ah |-> ah, e |-> With(ResultFlags(With(With(e, "AF", low), "CF", cf), al2), "OF", of)]

\* AAA, AAS: six is added to or taken from AX, so that AL's borrow reaches AH.
AsciiAdjust(sub, al, ah, e) ==
  LET adjust == al % 16 > 9 \/ "AF" \in e
      ax == IF ~adjust THEN ah * 256 + al
            ELSE IF sub THEN (ah * 256 + al - 6 - 256) % 65536 ELSE (ah * 256 + al + 6 + 256) % 65536
      new == With(With(ResultFlags(With(With(e, "AF", adjust), "CF", adjust), ax % 256), "SF", ax >= 32768), "OF", FALSE)
  IN  [ok |-> TRUE, al |-> ax % 16, ah |-> ax \div 256, e |-> new]

\* AAM by a zero base is a divide error, with nothing written.
Aam(al, ah, e, imm) ==
  IF imm = 0 THEN [ok |-> FALSE, al |-> al, ah |-> ah, e |-> e]
  ELSE [ok |-> TRUE, al |-> al % imm, ah |-> al \div imm,
        e |-> ResultFlags(e, al % imm) \ {"CF", "AF", "OF"}]
Aad(al, ah, e, imm) ==
  LET addend == (ah * imm) % 256
      sum == al + addend
      new == With(With(With(e, "CF", sum > 255), "AF", (al % 16) + (addend % 16) > 15), "OF", AddOverflow(al, addend))
  IN  [ok |-> TRUE, al |-> sum % 256, ah |-> 0, e |-> ResultFlags(new, sum % 256)]

\* x86p_bcd_apply.
BcdApply(op, al, ah, e, imm) ==
  CASE op = "Daa" -> Daa(al, ah, e) [] op = "Das" -> Das(al, ah, e)
    [] op = "Aaa" -> AsciiAdjust(FALSE, al, ah, e) [] op = "Aas" -> AsciiAdjust(TRUE, al, ah, e)
    [] op = "Aam" -> Aam(al, ah, e, imm) [] op = "Aad" -> Aad(al, ah, e, imm)
=============================================================================
