------------------------------ MODULE FontJob ------------------------------
(***************************************************************************)
(* What a font job promises the user who starts it (the callers of         *)
(* CKCmFontInst::doCmd, kcms/kfontinst/kcmfontinst/KCmFontInst.cpp), with  *)
(* no bus, no pages and no iterator: its items are handed to the daemon in *)
(* the order of the list and none of them twice, an item counts as done    *)
(* only when the daemon has acted on it (which is to have carried it out,  *)
(* or to have asked the privileged helper to), nothing is handed over once *)
(* the user has cancelled, and a job that has done something asks for the  *)
(* fonts to be configured before it closes.                                *)
(*                                                                         *)
(* Two things void a promise: a daemon that dies, the last of them; and a  *)
(* job that begins while answers to the one before are on their way        *)
(* ("muddled"), all of them, as a status does not say what it answers.     *)
(*                                                                         *)
(* JobRunner implements this specification.                                *)
(***************************************************************************)
EXTENDS Integers, Sequences

VARIABLES
    job,      \* jobs begun so far
    items,    \* how many items this one has
    muddled,  \* this one began with leftovers of the one before
    handed,   \* its items the daemon was asked for, in order
    acted,    \* its items the daemon has acted on
    done,     \* its items that count as done
    stopped,  \* has the user cancelled the rest?
    stage,    \* "closed", "working" or "configuring"
    died      \* has the daemon ever died?

jobVars == <<job, items, muddled, handed, acted, done, stopped, stage, died>>

Init ==
    /\ job = 0 /\ items = 0 /\ muddled = FALSE
    /\ handed = <<>> /\ acted = {} /\ done = {} /\ stopped = FALSE
    /\ stage = "closed" /\ died = FALSE

(* A job that only configures the fonts has no items.                      *)
Begin ==
    /\ stage = "closed"
    /\ stage' \in {"working", "configuring"}
    /\ job' = job + 1 /\ items' \in Nat /\ muddled' \in BOOLEAN
    /\ handed' = <<>> /\ acted' = {} /\ done' = {} /\ stopped' = FALSE
    /\ UNCHANGED died

\* The item that comes next is one further down the list.
HandOver(i) ==
    /\ \A k \in DOMAIN handed : handed[k] < i
    /\ handed' = Append(handed, i)

\* An item that was acted on counts as done.
CountDone(i) ==
    /\ i \in acted
    /\ done' = done \cup {i}

(* The job goes on: it counts an item, hands over the next one, turns to   *)
(* the configuration of the fonts, closes.  The user may have stopped it.  *)
Proceed ==
    /\ stage = "working"
    /\ stopped' \in {stopped, TRUE}
    /\ UNCHANGED done \/ \E i \in acted : CountDone(i)
    /\ UNCHANGED handed \/ (~stopped' /\ \E i \in 1..items : HandOver(i))
    /\ stage' \in {"working", "configuring", "closed"}
    /\ stage' = "closed" /\ ~died => done' = {}
    /\ UNCHANGED <<job, items, muddled, acted, died>>

(* Once the fonts are being configured, no item is touched.                *)
Close ==
    /\ stage = "configuring"
    /\ stage' = "closed"
    /\ UNCHANGED <<job, items, muddled, handed, acted, done, stopped, died>>

\* The daemon acts on what it was handed, also after the job has closed.
Act ==
    /\ \E k \in DOMAIN handed : acted' = acted \cup {handed[k]}
    /\ UNCHANGED <<job, items, muddled, handed, done, stopped, stage, died>>

(* It dies; what it was doing may have been done.                          *)
Die ==
    /\ died' = TRUE
    /\ \E some \in SUBSET {handed[k] : k \in DOMAIN handed} : acted' = acted \cup some
    /\ UNCHANGED <<job, items, muddled, handed, done, stopped, stage>>

(* A job that takes the answers to another one for its own.                *)
Muddle ==
    /\ muddled /\ stage # "closed"
    /\ UNCHANGED <<job, items, muddled, died>>
    /\ done \subseteq done' /\ acted \subseteq acted'

Next == Begin \/ Proceed \/ Close \/ Act \/ Die \/ Muddle

Spec == Init /\ [][Next]_jobVars
=============================================================================
