---------------------------- MODULE MCJobRunner ----------------------------
(* Small job lists for JobRunner. *)
EXTENDS JobRunner

Item(n, t) == [name |-> n, type |-> t, folder |-> "USER", isDisabled |-> FALSE,
               remote |-> FALSE, marker |-> FALSE]
System(item) == [item EXCEPT !.folder = "SYS"]
Disabled(item) == [item EXCEPT !.isDisabled = TRUE]
Remote(item) == [item EXCEPT !.remote = TRUE]
Job(c, items, d) == [cmd |-> c, items |-> items, dest |-> d]

\* A Type 1 font with both metrics, in the wrong order, and another font.
MCType1 == {Job("INSTALL", <<Item(1, TYPE1_PFM), Item(2, OTHER_FONT), Item(1, TYPE1_AFM),
                             Item(1, TYPE1_FONT)>>, "USER")}

\* Plain jobs: the user's font and a system one deleted, a disabled font moved, an
\* update.
MCMixed == {Job("DELETE", <<Item(1, OTHER_FONT), System(Item(2, OTHER_FONT))>>, "USER"),
            Job("MOVE", <<Disabled(Item(1, OTHER_FONT))>>, "SYS"),
            Job("UPDATE", <<>>, "USER")}

\* A download first, a PFM after it.
MCRemote == {Job("INSTALL", <<Remote(Item(1, TYPE1_FONT)), Item(1, TYPE1_PFM)>>, "USER"),
             Job("INSTALL", <<Remote(Item(1, OTHER_FONT)), Remote(Item(2, OTHER_FONT))>>, "USER")}

\* All of them.  Within a behaviour the jobs are of one of the three kinds, each
\* with bounds of its own: the Type 1 font with another process' requests, plain
\* jobs with deeper nesting and a daemon that does not start, downloads with that.
MCJobs == MCType1 \cup MCMixed \cup MCRemote
Kind ==
    CASE job = 0 -> "none"
      [] cmd # "INSTALL" -> "plain"
      [] Len(urls) = 4 -> "type1"
      [] OTHER -> "remote"
KindBounds ==
    /\ Kind = "type1" => lost = 0 /\ job = 1
    /\ Kind = "plain" => foreign = 0 \/ (job = 1 /\ deaths = 0 /\ lost = 0)
    /\ Kind = "remote" => foreign = 0 /\ Len(handling) <= 1
OneKind == job > 0 => Kind' = Kind
=============================================================================
