----------------------------- MODULE FolderView -----------------------------
(***************************************************************************)
(* The folder model (containments/folder/plugin/foldermodel.cpp) as far as *)
(* rows and drags go, composed with the positioner that follows it and     *)
(* with the view's drop handler (package/contents/ui/ItemView.qml).        *)
(*                                                                         *)
(* Items arrive behind the others when the view is unsorted (KDirModel     *)
(* appends and the proxy model keeps that order); an item that a change of *)
(* the filter lets through again takes its old row, which may be anywhere. *)
(* In the sorted view the positioner is not enabled and passes rows on.    *)
(***************************************************************************)
EXTENDS Positioner

CONSTANTS
  Changes,      \* what the user changes: "filter", "sort", "url", "direction"
  MaxDrag,      \* how many items are dragged at most
  MaxBatch,     \* how many rows come or go in one signal at most
  MaxCell,      \* cells an item is dropped on are at most this
  MaxDrift      \* by how many rows the views miscount at most: bounds the model

ASSUME FolderAssumption ==
  /\ Items \subseteq Int    \* they are numbered in their sort order
  /\ Changes \subseteq {"filter", "sort", "url", "direction"}
  /\ MaxDrag \in Nat /\ MaxBatch \in Nat /\ MaxCell \in Nat /\ MaxDrift \in Nat

VARIABLES
  urls,         \* the mime data of the drag that is in progress
  moving        \* the items that onMove has still to place

folderVars == <<rows, dragRows, urls, moving>>
vars == <<rows, dragRows, urls, moving, positionerVars>>

ItemsIn(source) == {source[i] : i \in 1 .. Len(source)}

\* Items are numbered in their sort order.
SortedSeq(S) ==
  CHOOSE s \in [1 .. Cardinality(S) -> S] : \A i, j \in 1 .. Cardinality(S) : i < j => s[i] < s[j]

\* Between two turns of the loop of onMove nothing else happens.
Idle == moving = <<>>

Init ==
  /\ rows = <<>> /\ dragRows = {} /\ urls = <<>> /\ moving = <<>>
  /\ enabled \in {TRUE, "sort" \notin Changes}
  /\ perStripe = 0
  /\ maps = NoMaps
  /\ positions = [per |-> 0, items |-> {}]
  /\ pending = FALSE /\ queued = FALSE
  /\ applying = FALSE /\ resetting = FALSE
  /\ shown = RowCount(NoMaps, <<>>, enabled)
  /\ broken = FALSE /\ spoiled = FALSE

-----------------------------------------------------------------------------
(* Rows come and go.                                                       *)

\* The bounds on what the views count and on the cells in use.
Bounded ==
  /\ shown' - RowCount(maps', rows', enabled') \in -MaxDrift .. MaxDrift
  /\ LastIndex(maps'.p2s) < MaxCell + Cardinality(Items)

InsertRows(at, batch) ==
  /\ rows' = SubSeq(rows, 1, at) \o batch \o SubSeq(rows, at + 1, Len(rows))
  /\ SourceRowsInserted(at, at + Len(batch) - 1, rows')
  /\ Bounded
  /\ UNCHANGED <<dragRows, urls, moving>>

\* New files, in an unsorted view.
ItemsArrive ==
  /\ Idle /\ enabled
  /\ \E n \in 1 .. MaxBatch : \E batch \in [1 .. n -> Items \ ItemsIn(rows)] :
       /\ \A i, j \in 1 .. n : i # j => batch[i] # batch[j]
       /\ InsertRows(Len(rows), batch)

\* A file that the filter did not accept before, in an unsorted view.
FilterShows ==
  /\ Idle /\ enabled /\ "filter" \in Changes
  /\ \E x \in Items \ ItemsIn(rows), at \in 0 .. Len(rows) : InsertRows(at, <<x>>)

\* A new or accepted file, in a sorted view.
SortedItemArrives ==
  /\ Idle /\ ~enabled
  /\ \E x \in Items \ ItemsIn(rows) :
       InsertRows(Cardinality({y \in ItemsIn(rows) : y < x}), <<x>>)

\* Files are deleted, or a change of the filter hides them.
ItemsLeave ==
  /\ Idle
  /\ \E first \in RowsOf(rows), n \in 1 .. MaxBatch :
       LET last == first + n - 1 IN
       /\ last \in RowsOf(rows)
       /\ rows' = SubSeq(rows, 1, first) \o SubSeq(rows, last + 2, Len(rows))
       /\ SourceRowsRemoved(first, last)
       /\ Bounded
  /\ UNCHANGED <<dragRows, urls, moving>>

\* setSortMode() from the configuration.  The rows are sorted before the view
\* disables the positioner.
SortModeChanges ==
  /\ Idle /\ "sort" \in Changes
  /\ rows' = IF enabled THEN SortedSeq(ItemsIn(rows)) ELSE rows
  /\ SetEnabled(~enabled, rows')
  /\ UNCHANGED <<dragRows, urls, moving>>

\* setUrl() with another folder: its model empties, then urlChanged() resets.
UrlChanges ==
  /\ Idle /\ "url" \in Changes
  /\ rows' = <<>>
  /\ Reset(<<>>)
  /\ IF rows # <<>> THEN QueueUpdate ELSE UNCHANGED <<pending, queued>>
  /\ UNCHANGED <<dragRows, urls, moving, spoiled>>

\* The direction of the grid changes: ItemView.qml resets the positions.
DirectionChanges ==
  /\ Idle /\ enabled /\ "direction" \in Changes
  /\ Reset(rows)
  /\ UNCHANGED <<rows, dragRows, urls, moving, pending, queued, spoiled>>

\* The view or its icons change their size.
SizeChanges ==
  /\ Idle
  /\ \E per \in Stripes : SetPerStripe(per)
  /\ UNCHANGED folderVars
  /\ Bounded

Updates ==
  /\ Idle
  /\ UpdatePositions
  /\ UNCHANGED folderVars

-----------------------------------------------------------------------------
(* Drags.  dragSelected() runs an event loop until the drag is over.       *)

DragStarts ==
  /\ Idle /\ urls = <<>> /\ dragRows = {}
  /\ \E S \in (SUBSET RowsOf(rows)) \ {{}} :
       /\ Cardinality(S) <= MaxDrag
       /\ dragRows' = S
       /\ urls' = LET order == SortedSeq(S) IN [k \in 1 .. Cardinality(S) |-> rows[order[k] + 1]]
  /\ UNCHANGED <<rows, moving, positionerVars>>

\* drop() of the folder's own items: the view becomes unsorted, then moves them.
Drop ==
  /\ Idle /\ urls # <<>>
  /\ moving' = urls /\ urls' = <<>>
  /\ IF enabled THEN UNCHANGED positionerVars ELSE SetEnabled(TRUE, rows)
  /\ UNCHANGED <<rows, dragRows>>

\* A turn of the loop of onMove.  An item that has no row or cell any more, or
\* no picture in the drag, is passed over; the target depends on the pictures.
MoveNext ==
  LET x == Head(moving) IN
  /\ moving # <<>>
  /\ moving' = Tail(moving)
  /\ \/ UNCHANGED positionerVars
     \/ /\ x \in ItemsIn(rows)
        /\ LET row == RowOf(rows, x) IN
             /\ row \in DOMAIN maps.s2p
             /\ \E to \in -1 .. MaxCell : Move(maps.s2p[row], to)
  /\ UNCHANGED <<rows, dragRows, urls>>

DragEnds ==
  /\ Idle /\ dragRows # {}
  /\ dragRows' = {} /\ urls' = <<>>
  /\ UNCHANGED <<rows, moving, positionerVars>>

\* The session ends; the configuration has the positions and the sort mode.
Restart ==
  /\ Idle
  /\ rows' = <<>> /\ dragRows' = {} /\ urls' = <<>>
  /\ perStripe' = 0
  /\ maps' = NoMaps
  /\ pending' = FALSE /\ queued' = FALSE
  /\ applying' = FALSE /\ resetting' = FALSE
  /\ shown' = RowCount(NoMaps, <<>>, enabled)
  /\ broken' = FALSE /\ spoiled' = FALSE
  /\ UNCHANGED <<moving, enabled, positions>>

Next ==
  \/ ItemsArrive \/ FilterShows \/ SortedItemArrives \/ ItemsLeave
  \/ SortModeChanges \/ UrlChanges \/ DirectionChanges \/ SizeChanges
  \/ Updates \/ DragStarts \/ Drop \/ MoveNext \/ DragEnds \/ Restart

Spec == Init /\ [][Next]_vars

\* The event loop delivers the queued call.  The loop of onMove, in which it does
\* not run, is one call in the code: strong fairness, not weak.
FairSpec == Spec /\ SF_vars(Updates) /\ WF_vars(MoveNext)

-----------------------------------------------------------------------------
(* Properties.                                                             *)

CellMap(D) == [D -> Nat]

\* Every variable has its type, and a drag under way has rows.
TypeOK ==
  /\ rows \in Seq(Items) /\ \A i, j \in 1 .. Len(rows) : rows[i] = rows[j] => i = j
  /\ dragRows \subseteq Nat /\ urls \in Seq(Items) /\ moving \in Seq(Items)
  /\ (urls # <<>> \/ moving # <<>>) => dragRows # {}
  /\ enabled \in BOOLEAN /\ perStripe \in Stripes \cup {0}
  /\ DOMAIN maps.p2s \subseteq Nat /\ maps.p2s \in CellMap(DOMAIN maps.p2s)
  /\ DOMAIN maps.s2p \subseteq Nat /\ maps.s2p \in CellMap(DOMAIN maps.s2p)
  /\ positions.items \subseteq [name : Items, stripe : Nat, pos : Nat]
  /\ {pending, queued, applying, resetting, broken, spoiled} \subseteq BOOLEAN
  /\ shown \in Int

\* The two maps are inverse to each other, unless rows came before others, several
\* went at once, or an item was dropped on the cell of another dragged one
\* (positioner.cpp:409, 453, 285).
MapsInverse ==
  enabled /\ ~broken =>
    /\ \A c \in DOMAIN maps.p2s :
         maps.p2s[c] \in DOMAIN maps.s2p /\ maps.s2p[maps.p2s[c]] = c
    /\ \A i \in DOMAIN maps.s2p :
         maps.s2p[i] \in DOMAIN maps.p2s /\ maps.p2s[maps.s2p[i]] = i

\* Every row of the folder has a cell, and no other has one.  The exceptions are
\* the view that waits for its size to place saved items, and a single item: the
\* maps are not filled for one row (positioner.cpp:571).
EveryRowPlaced ==
  enabled /\ ~broken =>
    \/ DOMAIN maps.s2p = RowsOf(rows)
    \/ DOMAIN maps.s2p = {} /\ (Len(rows) = 1 \/ applying)

\* What is saved is the arrangement on the screen whenever no save is due; only
\* a reset leaves nothing saved (positioner.cpp:319).  While m_applyPositions is
\* left set (615), insertions cause no save (521).
SavedIsCurrent ==
  enabled /\ ~applying /\ ~pending /\ perStripe > 0 /\ positions.items # {} /\ DOMAIN maps.p2s # {} =>
    /\ positions.per = perStripe
    /\ positions.items = Saved(maps.p2s, rows, perStripe)

\* The views never have fewer rows than the model.  (They may have more: an
\* empty map counts as one row, positioner.cpp:595.)  It may not be so while saved
\* positions are to be applied: when the maps are filled already, insertions that
\* were begun are not ended then (positioner.cpp:508, 615); nor after the maps have
\* parted from the rows: they can be empty then for a folder that is not, and the
\* next insertion fills them for rows the views were never told of (positioner.cpp:393).
ViewsMissNothing ==
  ~applying /\ (enabled => ~spoiled) => shown >= RowCount(maps, rows, enabled)

Cell(n) == maps.s2p[RowOf(rows, n)]
Placed(n) == n \in ItemsIn(rows) /\ RowOf(rows, n) \in DOMAIN maps.s2p

\* When files come and go, the others keep their cells (positioner.cpp:399, 453).
KeepsPlace ==
  [][ enabled /\ enabled' /\ rows # rows' /\ rows' # <<>> /\ ~broken' /\ ~applying =>
        \A n \in ItemsIn(rows') : Placed(n) => Placed(n)' /\ Cell(n)' = Cell(n) ]_vars

\* The steps in which applyPositions() places saved items: rows come to a view that has
\* its size and has placed none (positioner.cpp:396, 513), the view gets a size or
\* another one (105), or rows come when saved positions have waited for that.
Applies ==
  \/ enabled /\ enabled' /\ DOMAIN maps.s2p = {} /\ Len(rows') > Len(rows)
  \/ enabled /\ perStripe' # perStripe
  \/ applying /\ ~applying'

OneEntry(n) == \A d \in positions.items, e \in positions.items : d.name = n /\ e.name = n => d = e

\* The cell of e is also given to an item saved one position beyond the stripe: the
\* comparison admits it, though it then stands at the head of the next stripe (675).
Contested(e, per, source) ==
  \E d \in positions.items :
     d.name \in ItemsIn(source) /\ d.pos = per /\ CellOf(d, per) = CellOf(e, per)

\* Whenever saved positions are applied, in a view of the size they were saved for or
\* of another, every item whose place still fits its stripe is in it, but for those
\* whose cell is contested: none is when the size is the same (positioner.cpp:672).
SavedIsRestored ==
  [][ Applies /\ perStripe' > 0 /\ rows' # <<>> =>
        \A e \in positions.items :
          /\ e.name \in ItemsIn(rows') /\ OneEntry(e.name)
          /\ e.pos < perStripe'
          /\ ~Contested(e, perStripe', rows') \/ perStripe' = positions.per
          => Placed(e.name)' /\ Cell(e.name)' = CellOf(e, perStripe') ]_vars

\* A due save happens; but not after the maps knew rows the folder has not, when
\* the call leaves early and keeps the flag that says it is due (positioner.cpp:319, 344).
EventuallySaved == pending ~> (~pending \/ spoiled)
=============================================================================
