----------------------------- MODULE MCFontList -----------------------------
(* An instance of FontList for TLC. *)
EXTENDS FontList
File(fam, st, sys, hidden) == [family |-> fam, style |-> st, sys |-> sys, hidden |-> hidden]
\* A font that can be hidden and shown, and another style in the other folder.
TwoFolders == {File("a", 1, FALSE, FALSE), File("a", 1, FALSE, TRUE), File("a", 2, TRUE, FALSE)}
\* Two families of one folder: more than MaxSlowed.
TwoFamilies == {File("a", 1, FALSE, FALSE), File("b", 1, FALSE, FALSE)}
AllFiles == TwoFolders \cup TwoFamilies
\* One or the other.  With two families the daemon does not die: they are for what is
\* held when it is too much.
Small == LET there == disk \cup known \cup list.files
         IN  there \subseteq TwoFolders \/ (there \subseteq TwoFamilies /\ crashes = 0)
=============================================================================
