--------------------------- MODULE MCFontDaemon ---------------------------
(* Instances of FontDaemon for TLC: two font files, of one style or of two. *)
EXTENDS FontDaemon

TwoStyles == [n \in Names |-> n]
OneStyle == [n \in Names |-> "s"]

CONSTANTS f1, f2, c1, c2

PairOfFonts == {{FileAt(f1, d, TRUE), FileAt(f2, d, FALSE)} : d \in Dir}
OneFont == {{FileAt(f1, d, h)} : d \in Dir, h \in BOOLEAN}
AnyFonts == PairOfFonts \cup OneFont

\* A kill counts as a call, a change from outside as two; a second file takes one away.
OneOrTwo ==
    LET onlyOne == (\A f \in disk : f.name = f1) /\ (\A i \in DOMAIN stack : stack[i].name = f1)
    IN  used.calls + used.kills + 2 * used.outside <= IF onlyOne THEN 3 ELSE 2
=============================================================================
