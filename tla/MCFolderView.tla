---------------------------- MODULE MCFolderView ----------------------------
(* An instance of FolderView for TLC.  Items are numbers, in their sort order. *)
EXTENDS FolderView
TwoItems == {1, 2}
\* A view has no size (0) before it is laid out, and when it is hidden.
Sizes == {0, 1, 2}
\* Maps that have parted from the rows are followed without drags or other sizes,
\* drags in a view of the larger size.
Small ==
  /\ broken => dragRows = {} /\ perStripe = 2
  /\ dragRows # {} => perStripe = 2
=============================================================================
