-------------------------- MODULE MCKeyboardDaemon --------------------------
(* An instance of KeyboardDaemon for TLC. *)
EXTENDS KeyboardDaemon

Config(p, list, n) == [policy |-> p, layouts |-> list, loop |-> n, configure |-> TRUE]
TwoWindows == {"w1", "w2"}
TwoClasses == [w \in TwoWindows |-> "class of " \o w]
\* Applications with a spare layout, and desktops without.
SomeConfigs == {Config("WinClass", <<"us", "de", "fr">>, 2), Config("Desktop", <<"us", "de">>, NO_LOOPING)}
OtherLists == {<<"ru">>}
AnyLists == {<<"us", "de">>, <<"ru">>}
FewEvents == (0 :> 2) @@ (1 :> 1) @@ (2 :> 1)

\* The user goes where it matters: to another desktop when the layouts are of the
\* desktops, to another window when they are not, to the desktop's own window and the
\* panel before the first turn only.  The settings change first and a
\* session is saved after that, with no more than one container remembered.
Relevant ==
  /\ Len(events') > Len(events) =>
       LET e == events'[Len(events')] IN
       /\ e.type = "desktop" => stored.policy = "Desktop"
       /\ e.type = "window" => stored.policy # "Desktop" /\ (turns = 0 \/ e.value \in Windows)
  /\ stored' # stored => turns = 0 /\ Cardinality(DOMAIN layoutMap) <= 1
  /\ session' # session => turns = 1 /\ Cardinality(DOMAIN session'.map) <= 1
  /\ ~running /\ running' => IF stored.policy = "Desktop" THEN active' = "w1" ELSE desk' = "d1"
=============================================================================
