---------------------------- MODULE FontHelper ----------------------------
(***************************************************************************)
(* The files of the two font folders and the privileged helper             *)
(* (dbus/Helper.cpp) that changes the system one on behalf of the font     *)
(* daemon.  A font file has a name, a style, the folder it is in, and is    *)
(* hidden (".name") exactly when it is disabled.  The files of metrics      *)
(* (AFM, PFM) follow their font and are not represented.                   *)
(***************************************************************************)
EXTENDS Naturals, FiniteSets

CONSTANTS
    Names,      \* normalised file names (Misc::modifyName)
    StyleOf     \* the family and style of the font in a file

ASSUME StyleOfAssumption == DOMAIN StyleOf = Names

Dir == {"sys", "user"}
File == [name : Names, dir : Dir, hidden : BOOLEAN]
Styles == {StyleOf[n] : n \in Names}

FileAt(n, d, h) == [name |-> n, dir |-> d, hidden |-> h]
In(S, d) == {f \in S : f.dir = d}
Hidden(S) == {f \in S : f.hidden}
Visible(S) == {f \in S : ~f.hidden}
OfStyle(S, s) == {f \in S : StyleOf[f.name] = s}

\* The files whose name enabling (on) or disabling changes, and their new names.
ToFlip(S, on) == {f \in S : f.hidden = on}
Flipped(S, on) == {[f EXCEPT !.hidden = ~on] : f \in ToFlip(S, on)}
Moved(S, d) == {[f EXCEPT !.dir = d] : f \in S}

VARIABLES
    disk,           \* the font files there are
    cfg,            \* cfg[d]: the files disabledfonts.xml of folder d lists
    helper,         \* the helper process: its theFontFolder
    unconfigured    \* history: folders changed by a request since fc-cache ran there

helperVars == <<disk, cfg, helper, unconfigured>>

NoHelper == [up |-> FALSE, fonts |-> {}, dirty |-> FALSE, modified |-> FALSE]

HelperTypeOK ==
    /\ disk \subseteq File
    /\ cfg \in [Dir -> SUBSET File]
    /\ helper \in [up : BOOLEAN, fonts : SUBSET File, dirty : BOOLEAN, modified : BOOLEAN]
    /\ unconfigured \subseteq Dir

-----------------------------------------------------------------------------
(* Folder::saveDisabled() and Folder::loadDisabled() as the helper runs     *)
(* them: the list is not cleared by a load, and an entry whose file is gone *)
(* makes the list dirty again.                                             *)

SavedByHelper == IF helper.dirty THEN Hidden(helper.fonts) ELSE cfg["sys"]

LoadedByHelper == helper.fonts \cup (SavedByHelper \cap disk)

ResavedByHelper ==
    IF SavedByHelper \subseteq disk THEN SavedByHelper ELSE Hidden(LoadedByHelper)

\* D-Bus activates the helper for a request; its constructor loads the file.
HelperStarts ==
    /\ ~helper.up
    /\ helper' = [NoHelper EXCEPT !.up = TRUE, !.fonts = LoadedByHelper]
    /\ cfg' = [cfg EXCEPT !["sys"] = ResavedByHelper]
    /\ UNCHANGED <<disk, unconfigured>>

\* The idle helper quits; cleanup() and the destructor save the list.
HelperExits ==
    /\ helper.up
    /\ cfg' = [cfg EXCEPT !["sys"] = SavedByHelper]
    /\ helper' = NoHelper
    /\ UNCHANGED <<disk, unconfigured>>

-----------------------------------------------------------------------------
(* The methods.  What they return is not looked at by the daemon.          *)

Changed(ds) == unconfigured' = unconfigured \cup ds

HelperInstall(n) ==
    /\ FileAt(n, "sys", FALSE) \notin disk
    /\ disk' = disk \cup {FileAt(n, "sys", FALSE)}
    /\ helper' = [helper EXCEPT !.modified = TRUE]
    /\ Changed({"sys"})
    /\ UNCHANGED cfg

\* Each file is removed or cannot be; a missing one counts as removed.
HelperUninstall(S) ==
    \E gone \in {g \in SUBSET S : S \ disk \subseteq g /\ g # {}} :
        /\ disk' = disk \ gone
        /\ helper' = [helper EXCEPT !.modified = TRUE]
        /\ Changed({"sys"})
        /\ UNCHANGED cfg

\* Hidden files cannot be moved, and rename() does not replace a file: then
\* everything is moved back.
HelperMove(S, d) ==
    /\ Hidden(S) = {}
    /\ S \subseteq disk
    /\ Moved(S, d) \cap disk = {}
    /\ disk' = (disk \ S) \cup Moved(S, d)
    /\ helper' = [helper EXCEPT !.modified = @ \/ d = "sys"]
    /\ Changed(Dir)
    /\ UNCHANGED cfg

HelperToggle(S, s, on) ==
    /\ ToFlip(S, on) \subseteq disk
    /\ Flipped(S, on) \cap disk = {}
    /\ disk' = (disk \ ToFlip(S, on)) \cup Flipped(S, on)
    /\ helper' = [helper EXCEPT
                    !.fonts = (@ \ OfStyle(@, s)) \cup (IF on THEN {} ELSE Flipped(S, on)),
                    !.dirty = TRUE,
                    !.modified = @ \/ ToFlip(S, on) # {}]
    /\ Changed(IF ToFlip(S, on) = {} THEN {} ELSE {"sys"})
    /\ UNCHANGED cfg

\* Some files were renamed before one could not be, and were renamed back: only
\* the mark of the folder stays.
HelperUndoes ==
    /\ helper' = [helper EXCEPT !.modified = TRUE]
    /\ UNCHANGED <<disk, cfg, unconfigured>>

HelperMoveFails(S, d) ==
    /\ d = "sys" /\ Hidden(S) = {} /\ S \cap disk # {}
    /\ HelperUndoes

HelperToggleFails(S, on) ==
    /\ ToFlip(S, on) \cap disk # {}
    /\ HelperUndoes

HelperRemoveFile(f) ==
    /\ f \in disk
    /\ disk' = disk \ {f}
    /\ helper' = [helper EXCEPT !.modified = TRUE]
    /\ Changed({"sys"})
    /\ UNCHANGED cfg

HelperOnlyLoads ==
    /\ helper' = [helper EXCEPT !.fonts = LoadedByHelper, !.dirty = FALSE]
    /\ UNCHANGED <<disk, cfg, unconfigured>>

HelperSaveDisabled ==
    /\ cfg' = [cfg EXCEPT !["sys"] = ResavedByHelper]
    /\ helper' = [helper EXCEPT !.fonts = LoadedByHelper, !.dirty = FALSE]
    /\ UNCHANGED <<disk, unconfigured>>

HelperReconfigure ==
    /\ cfg' = [cfg EXCEPT !["sys"] = ResavedByHelper]
    /\ helper' = [helper EXCEPT !.fonts = LoadedByHelper, !.dirty = FALSE, !.modified = FALSE]
    /\ unconfigured' = IF helper.modified THEN unconfigured \ {"sys"} ELSE unconfigured
    /\ UNCHANGED disk

=============================================================================
