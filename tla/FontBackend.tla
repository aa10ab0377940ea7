---------------------------- MODULE FontBackend ----------------------------
(***************************************************************************)
(* The font daemon (kcms/kfontinst/dbus) as its D-Bus clients see it: a    *)
(* service that takes requests from the session bus in the order they were *)
(* sent, performs each of them at most once and broadcasts one status      *)
(* signal for it.  The signal carries the process id of the requester and  *)
(* a result code, and nothing that names the request.                      *)
(*                                                                         *)
(* What concerns the system's fonts, and every move, is left to the KAuth  *)
(* helper.  While a request waits for it the daemon runs a nested event    *)
(* loop (FontInst::performAction), so that it may take another request     *)
(* before it has answered the first: "handling" is the stack of the        *)
(* requests that are being executed.  What the helper answers is not       *)
(* looked at, so that a status 0 says that it was asked and no more.       *)
(*                                                                         *)
(* The process may die, which loses what it was doing and what the bus had *)
(* already delivered to it; the bus starts it again for the next request,  *)
(* or fails to.  Of the two folders' memory of modified directories only   *)
(* the user's is here: the system's decides whether the helper is asked    *)
(* once more, which FontDaemon models.                                     *)
(***************************************************************************)
EXTENDS Integers, Sequences

CONSTANTS
    MaxNest,    \* bound: requests the daemon executes at the same time
    MaxDeaths,  \* bound: times the daemon's process ends unexpectedly
    MaxLost,    \* bound: times the bus fails to start the daemon
    MaxForeign  \* bound: requests other processes make

ASSUME BoundsAssumption ==
    /\ MaxNest \in Nat \ {0}
    /\ MaxDeaths \in Nat
    /\ MaxLost \in Nat
    /\ MaxForeign \in Nat

VARIABLES
    requests,     \* requests on the bus, not yet taken by the daemon
    handling,     \* stack of requests the daemon is executing
    signals,      \* signals on their way to the process of the font module
    waiting,      \* the depths in handling that wait in a nested event loop
    alive,        \* is the daemon's name owned on the bus?
    userModified, \* does the user's folder have modified directories (daemon's memory)?
    acted,        \* history: requests it acted on: what it could do itself it did,
                  \* for the rest it asked the helper
    unconfigured, \* history: those that changed the user's fonts, no fc-cache run after
    deaths, lost, foreign   \* how much of each bound is used

busVars == <<requests, signals>>
daemonVars == <<handling, waiting, alive, userModified, acted, unconfigured>>
boundVars == <<deaths, lost, foreign>>
backendVars == <<busVars, daemonVars, boundVars>>

-----------------------------------------------------------------------------
Folders == {"USER", "SYS"}
Pids == {"app", "other"}
ItemMethods == {"install", "uninstall", "enable", "disable", "move", "removeFile"}

\* What a status signal can say: 0, or one of the error codes.
Results == {"ok", "error"}

Requests ==
    [method : ItemMethods \cup {"reconfigure"}, pid : Pids, job : Nat, pos : Nat,
     folder : Folders, metric : BOOLEAN, force : BOOLEAN, createAfm : BOOLEAN]

\* A method that goes through performAction().
Helped(r) == r.method = "move" \/ (r.folder = "SYS" /\ r.method # "reconfigure")

\* Metrics are no fonts to fontconfig.
ChangesUserFonts(r) == ~r.metric /\ (r.method = "move" \/ r.folder = "USER")

\* "of" is the request a status answers; no code reads it, properties do.
Statuses == [kind : {"status"}, result : Results, of : Requests]
OwnerLost == [kind |-> "ownerLost"]
Signals == Statuses \cup {OwnerLost}

Top == handling[Len(handling)]
Pop == SubSeq(handling, 1, Len(handling) - 1)

Reply(result) == signals' = Append(signals, [kind |-> "status", result |-> result, of |-> Top])

BackendTypeOK ==
    /\ requests \in Seq(Requests)
    /\ handling \in Seq(Requests)
    /\ signals \in Seq(Signals)
    /\ alive \in BOOLEAN
    /\ waiting \subseteq 1..Len(handling)
    /\ userModified \in BOOLEAN
    /\ acted \subseteq Requests
    /\ unconfigured \subseteq acted
    /\ deaths \in 0..MaxDeaths
    /\ lost \in 0..MaxLost
    /\ foreign \in 0..MaxForeign

BackendInit ==
    /\ requests = <<>> /\ handling = <<>> /\ signals = <<>>
    /\ alive \in BOOLEAN
    /\ waiting = {} /\ userModified = FALSE /\ acted = {} /\ unconfigured = {}
    /\ deaths = 0 /\ lost = 0 /\ foreign = 0

-----------------------------------------------------------------------------
(* A client's call: asynchronous, the bus keeps the order.                 *)
Send(r) == requests' = Append(requests, r)

(* Another process (the fonts:/ KIO worker, a second font module) calls the*)
(* daemon.  An uninstall stands for the methods that change one folder.    *)
ForeignRequest ==
    /\ foreign < MaxForeign
    /\ foreign' = foreign + 1
    /\ \E m \in {"uninstall", "move", "reconfigure"}, f \in Folders :
         Send([method |-> m, pid |-> "other", job |-> 0, pos |-> 0, folder |-> f,
               metric |-> FALSE, force |-> FALSE, createAfm |-> FALSE])
    /\ UNCHANGED <<signals, daemonVars, deaths, lost>>

\* The daemon executes a request; it has begun to, and waits for the helper.
Executes == alive /\ handling # <<>>
Begun == Len(handling) \in waiting

\* An event loop runs: the main one, or one nested in the method on top.  The
\* helper may also be waited for before a method begins, when it refreshes the
\* font lists (checkConfig, which the dialog never asks for) or saves the list
\* of disabled fonts (reconfigure).
LoopRuns ==
    handling # <<>> => Begun \/ Top.method = "reconfigure" \/ Top.pid = "other"

(* It takes the next call.                                                 *)
Take ==
    /\ alive
    /\ requests # <<>>
    /\ Len(handling) < MaxNest
    /\ LoopRuns
    /\ handling' = Append(handling, Head(requests))
    /\ requests' = Tail(requests)
    /\ UNCHANGED <<signals, waiting, alive, userModified, acted, unconfigured, boundVars>>

\* theFolders[FOLDER_USER].addModifiedDir()
NotNoted(r) == userModified
Noted(r) == TRUE

(* The user's fonts change, and the folder is noted as modified.           *)
ChangeUserFonts ==
    /\ unconfigured' = unconfigured \cup {Top}
    /\ userModified' = Noted(Top)

(* In the user's folder the daemon does the work itself: fonts are         *)
(* installed, removed, renamed.  Metrics do not count as a change, and a   *)
(* font that is (not) hidden already is not renamed.                       *)
AnswerOk ==
    /\ Executes /\ ~Begun
    /\ Top.method # "reconfigure" /\ ~Helped(Top)
    /\ acted' = acted \cup {Top}
    /\ \/ ~Top.metric /\ ChangeUserFonts
       \/ /\ Top.metric \/ Top.method \in {"enable", "disable"}
          /\ UNCHANGED <<unconfigured, userModified>>
    /\ Reply("ok")
    /\ handling' = Pop
    /\ UNCHANGED <<requests, waiting, alive, boundVars>>

(* The request fails before anything is done, or an uninstall half way     *)
(* (STATUS_PARTIAL_DELETE).                                                *)
AnswerError ==
    /\ Executes /\ ~Begun
    /\ Top.method # "reconfigure"
    /\ \/ UNCHANGED <<acted, unconfigured, userModified>>
       \/ /\ Top.method = "uninstall" /\ ~Helped(Top)
          /\ acted' = acted \cup {Top}
          /\ ChangeUserFonts
    /\ Reply("error")
    /\ handling' = Pop
    /\ UNCHANGED <<requests, waiting, alive, boundVars>>

(* performAction(): the helper is called and waited for.  A move has noted *)
(* both folders before.                                                    *)
AskHelper ==
    /\ Executes /\ ~Begun
    /\ Helped(Top)
    /\ waiting' = waiting \cup {Len(handling)}
    /\ userModified' = (userModified \/ Top.method = "move")
    /\ UNCHANGED <<busVars, handling, alive, acted, unconfigured, boundVars>>

(* It has done what it was asked for or has refused; a status 0 is         *)
(* broadcast either way.                                                   *)
HelperAnswers ==
    /\ Executes /\ Begun
    /\ Top.method # "reconfigure"
    /\ acted' = acted \cup {Top}
    /\ \/ UNCHANGED unconfigured
       \/ Top.method = "move" /\ unconfigured' = unconfigured \cup {Top}
    /\ Reply("ok")
    /\ handling' = Pop
    /\ waiting' = waiting \ {Len(handling)}
    /\ UNCHANGED <<requests, alive, userModified, boundVars>>

(* fc-cache runs for the user's folder when it is forced to or when the    *)
(* daemon remembers a change there.                                        *)
Reconfigure ==
    /\ Executes /\ ~Begun
    /\ Top.method = "reconfigure"
    /\ \/ /\ Top.force \/ userModified
          /\ unconfigured' = {} /\ userModified' = FALSE
       \/ /\ ~(Top.force \/ userModified)
          /\ UNCHANGED <<unconfigured, userModified>>
    /\ waiting' = waiting \cup {Len(handling)}
    /\ UNCHANGED <<busVars, handling, alive, acted, boundVars>>

(* Then, as far as it is needed, the helper is asked to do the same for    *)
(* the system's folder and the font lists are refreshed; what becomes of   *)
(* that is not looked at.                                                  *)
AnswerReconfigure ==
    /\ Executes /\ Begun
    /\ Top.method = "reconfigure"
    /\ Reply("ok")
    /\ handling' = Pop
    /\ waiting' = waiting \ {Len(handling)}
    /\ UNCHANGED <<requests, alive, userModified, acted, unconfigured, boundVars>>

(* The process ends.  The changes of requests it was executing may be on   *)
(* disk or not; a prefix of the calls on the bus had been delivered to it. *)
Die ==
    /\ alive
    /\ deaths < MaxDeaths
    /\ deaths' = deaths + 1
    /\ alive' = FALSE
    /\ \E done \in SUBSET {r \in {handling[i] : i \in 1..Len(handling)} : r.method # "reconfigure"} :
         /\ acted' = acted \cup done
         /\ unconfigured' = unconfigured \cup {r \in done : ChangesUserFonts(r)}
    /\ \E k \in 0..Len(requests) : requests' = SubSeq(requests, k + 1, Len(requests))
    /\ handling' = <<>> /\ waiting' = {}
    /\ userModified' = FALSE
    /\ signals' = Append(signals, OwnerLost)
    /\ UNCHANGED <<lost, foreign>>

(* D-Bus activation.                                                       *)
Start ==
    /\ ~alive
    /\ requests # <<>>
    /\ alive' = TRUE
    /\ UNCHANGED <<busVars, handling, waiting, userModified, acted, unconfigured, boundVars>>

StartFails ==
    /\ ~alive
    /\ requests # <<>>
    /\ lost < MaxLost
    /\ lost' = lost + 1
    /\ requests' = <<>>
    /\ UNCHANGED <<signals, daemonVars, deaths, foreign>>

\* The daemon goes on with the request on top.
DaemonTurn ==
    \/ AnswerOk \/ AnswerError
    \/ AskHelper \/ HelperAnswers
    \/ Reconfigure \/ AnswerReconfigure

BackendNext ==
    \/ ForeignRequest
    \/ Take
    \/ DaemonTurn
    \/ Die \/ Start \/ StartFails
=============================================================================
