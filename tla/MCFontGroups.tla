---------------------------- MODULE MCFontGroups ----------------------------
(* Instances of FontGroups for TLC. *)
EXTENDS FontGroups
File(fam, st) == [family |-> fam, style |-> st, sys |-> FALSE, hidden |-> FALSE]
\* A family of two fonts.
TwoStyles == {File("a", 1), File("a", 2)}
OneFile   == {File("a", 1)}
\* What is made larger in one instance is kept small in the other: two groups and
\* saves that fail, or several changes of the fonts and deaths of the daemon.
FewFonts == disk \cup known \cup list.files \subseteq OneFile /\ changes <= 1 /\ crashes = 0 /\ Len(wire) <= 1
FewGroups == DOMAIN groups \cup DOMAIN file \subseteq {"g"} /\ ~lost
Small == FewFonts \/ FewGroups
=============================================================================
