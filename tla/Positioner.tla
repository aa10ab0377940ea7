----------------------------- MODULE Positioner -----------------------------
(***************************************************************************)
(* The positions of the folder view (containments/folder/plugin/           *)
(* positioner.cpp): a proxy model in which each item of the folder model   *)
(* has a cell of a grid.  It keeps two maps, from cells to rows of the     *)
(* folder model and back, follows the folder model's row signals, and      *)
(* saves the cells by item in the configuration.                           *)
(*                                                                         *)
(* The operators named like methods are the bodies of the methods; the     *)
(* module FolderView gives the folder model that calls them.               *)
(***************************************************************************)
EXTENDS Integers, Sequences, FiniteSets

CONSTANTS
  Items,        \* the files of the folder
  Stripes       \* the numbers of cells per row (or column) of the view

ASSUME StripesAssumption == Stripes \subseteq Nat /\ Items # {}

VARIABLES
  rows,         \* the folder model: its items by row (row i is rows[i + 1])
  dragRows,     \* the folder model's m_dragIndexes: rows, not items
  enabled,      \* m_enabled
  perStripe,    \* m_perStripe
  maps,         \* m_proxyToSource and m_sourceToProxy: [p2s, s2p]
  positions,    \* m_positions: cells by item, and the perStripe they stand for
  pending,      \* m_pendingPositionsUpdate
  queued,       \* a call of updatePositions() is in the event queue
  applying,     \* m_applyPositions
  resetting,    \* m_resetting
  shown,        \* number of rows the views were told of
  broken,       \* history: rows and maps parted since the maps were built
  spoiled       \* history: they ever did since the program started

positionerVars == <<enabled, perStripe, maps, positions, pending, queued,
                    applying, resetting, shown, broken, spoiled>>

-----------------------------------------------------------------------------
(* The maps.                                                               *)

Cells(f) == {f[x] : x \in DOMAIN f}

EmptyMap == [x \in {} |-> 0]
NoMaps   == [p2s |-> EmptyMap, s2p |-> EmptyMap]

Without(f, x) == [y \in DOMAIN f \ {x} |-> f[y]]
With(f, x, v) == [y \in DOMAIN f \cup {x} |-> IF y = x THEN v ELSE f[y]]

RowsOf(source)  == 0 .. Len(source) - 1
RowOf(source, n) == CHOOSE i \in RowsOf(source) : source[i + 1] = n

\* lastIndex(): an empty map has the last cell 0 (m_lastIndex is always -1).
LastIndex(p2s) ==
  IF DOMAIN p2s = {} THEN 0
  ELSE CHOOSE c \in DOMAIN p2s : \A d \in DOMAIN p2s : d <= c

RowCount(m, source, on) == IF on THEN LastIndex(m.p2s) + 1 ELSE Len(source)

FirstFreeRow(p2s) ==
  LET free == IF DOMAIN p2s = {} THEN {} ELSE (0 .. LastIndex(p2s)) \ DOMAIN p2s
  IN  IF free = {} THEN -1 ELSE CHOOSE c \in free : \A d \in free : c <= d

\* Mutant: the number of rows is taken for the last row.
InitMapsPastEnd(size) ==
  IF size = 0 THEN NoMaps
  ELSE [p2s |-> [i \in 0 .. size + 1 |-> i], s2p |-> [i \in 0 .. size + 1 |-> i]]

\* initMaps(size): the last row is taken for the size, and 0 for none.
InitMaps(size) ==
  IF size = 0 THEN NoMaps
  ELSE [p2s |-> [i \in 0 .. size |-> i], s2p |-> [i \in 0 .. size |-> i]]

\* isBlank(): a dragged row counts as blank.
IsBlank(cell) == cell \in DOMAIN maps.p2s => maps.p2s[cell] \in dragRows

\* "updatePositions" is queued once.
QueueUpdate == pending' = TRUE /\ queued' = (queued \/ ~pending)

-----------------------------------------------------------------------------
(* applyPositions().                                                       *)

\* Mutant: the last position of a stripe does not fit.
ClaimsTooFew(per, source) ==
  {e \in positions.items : e.pos < per - 1 /\ \E i \in RowsOf(source) : source[i + 1] = e.name}

\* Saved cells that fit in the view, for the present number per stripe.  The
\* comparison admits one position too many.
Claims(per, source) ==
  {e \in positions.items : e.pos <= per /\ \E i \in RowsOf(source) : source[i + 1] = e.name}

CellOf(e, per) == e.stripe * per + e.pos

\* What the first loop can place: in the order of the list, an entry is passed
\* over when its item has a cell already or its cell is taken.
Placements(per, source) ==
  {M \in SUBSET Claims(per, source) :
     LET clash(d, e) == d.name = e.name \/ CellOf(d, per) = CellOf(e, per)
     IN  /\ \A d \in M, e \in M : d # e => ~clash(d, e)
         /\ \A d \in Claims(per, source) \ M : \E e \in M : clash(d, e)}

\* The other two loops: each item left takes the first free cell, those that
\* were saved beyond the stripe before those that were not saved.  The first
\* one of an empty map goes to cell 1, the second to cell 0.
Fillings(M, per, source) ==
  LET taken   == {CellOf(e, per) : e \in M}
      left    == {i \in RowsOf(source) : \A e \in M : e.name # source[i + 1]}
      beyond  == {i \in left : \E e \in positions.items :
                                 e.name = source[i + 1] /\ e.pos > per}
      n       == Cardinality(left)
      last    == IF taken = {} THEN 0 ELSE CHOOSE c \in taken : \A d \in taken : d <= c
      free    == (0 .. last + n) \ taken
      lowest  == {c \in free : Cardinality({d \in free : d < c}) < n}
      cells   == IF taken = {} /\ n = 1 THEN {1} ELSE lowest
      turn(c) == IF taken = {} /\ c \in {0, 1} THEN 1 - c ELSE c
  IN  {f \in [left -> cells] :
         /\ \A i \in left, j \in left : i # j => f[i] # f[j]
         /\ \A i \in beyond, j \in left \ beyond : turn(f[i]) < turn(f[j])}

Arrangement(M, f, per, source) ==
  LET saved(i) == {e \in M : e.name = source[i + 1]}
      s2p == [i \in RowsOf(source) |->
                IF i \in DOMAIN f THEN f[i] ELSE CellOf(CHOOSE e \in saved(i) : TRUE, per)]
  IN  [s2p |-> s2p,
       p2s |-> [c \in Cells(s2p) |-> CHOOSE i \in RowsOf(source) : s2p[i] = c]]

\* applyPositions(), in the state st that its caller leaves: maps, number of rows
\* shown, m_applyPositions and (history) broken.  An early return (nothing is
\* saved) does not reset m_applyPositions.
ApplyPositions(st, per, source) ==
  LET rebuilt(n) ==
        /\ maps' = n
        /\ shown' = RowCount(NoMaps, source, enabled) + LastIndex(n.p2s) + 1
        /\ broken' = FALSE
  IN
  \/ /\ positions.items = {} /\ resetting
     /\ maps' = st.maps /\ shown' = st.shown /\ broken' = st.broken
     /\ resetting' = FALSE
     /\ applying' = st.applying
  \/ /\ positions.items = {} /\ ~resetting
     /\ rebuilt(InitMaps(Len(source) - 1))
     /\ applying' = st.applying
     /\ UNCHANGED resetting
  \/ /\ positions.items # {}
     /\ \E M \in Placements(per, source) : \E f \in Fillings(M, per, source) :
          rebuilt(Arrangement(M, f, per, source))
     /\ applying' = FALSE
     /\ UNCHANGED resetting

State(m, count, apply, bad) ==
  [maps |-> m, shown |-> count, applying |-> apply, broken |-> bad]

-----------------------------------------------------------------------------
(* Slots and properties of the positioner.                                 *)

\* setEnabled(), the folder model having the rows of source.
SetEnabled(on, source) ==
  LET m == IF on THEN InitMaps(Len(source) - 1) ELSE maps IN
  /\ on # enabled
  /\ enabled' = on
  /\ maps' = m
  /\ shown' = RowCount(m, source, on)
  /\ broken' = (broken /\ ~on)
  /\ IF source # <<>> THEN QueueUpdate ELSE UNCHANGED <<pending, queued>>
  /\ UNCHANGED <<perStripe, positions, applying, resetting, spoiled>>

SetPerStripe(per) ==
  /\ per # perStripe
  /\ perStripe' = per
  /\ \/ /\ enabled /\ per > 0
        /\ ApplyPositions(State(maps, shown, applying, broken), per, rows)
        /\ QueueUpdate
     \/ /\ ~(enabled /\ per > 0)
        /\ UNCHANGED <<maps, shown, broken, applying, resetting, pending, queued>>
  /\ UNCHANGED <<enabled, positions, spoiled>>

\* reset(), by a change of the folder or of the direction of the grid.
Reset(source) ==
  /\ resetting' = TRUE
  /\ maps' = InitMaps(Len(source) - 1)
  /\ broken' = FALSE
  /\ shown' = RowCount(maps', source, enabled)
  /\ positions' = [positions EXCEPT !.items = {}]
  /\ UNCHANGED <<enabled, perStripe, applying>>

\* Mutant: the cell behind the last one is not tried.
MoveTargetFreeOnly(to) == IF to # -1 THEN to ELSE FirstFreeRow(maps.p2s)

\* Where move() goes: -1 stands for the first free cell.
MoveTarget(to) ==
  LET free == FirstFreeRow(maps.p2s)
  IN  IF to # -1 THEN to ELSE IF free # -1 THEN free ELSE LastIndex(maps.p2s) + 1

\* Mutant: only one of the maps is updated.
MovedMapsOneWay(from, target) ==
  [maps EXCEPT !.p2s = With(Without(maps.p2s, from), target, maps.p2s[from])]

MovedMaps(from, target) ==
  [p2s |-> With(Without(maps.p2s, from), target, maps.p2s[from]),
   s2p |-> With(maps.s2p, maps.p2s[from], target)]

\* move()
Move(from, to) ==
  LET target == MoveTarget(to)
      before == LastIndex(maps.p2s) + 1
      onto   == target \in DOMAIN maps.p2s
  IN
  /\ from \in DOMAIN maps.p2s /\ from # to
  /\ IsBlank(target)
  /\ maps' = MovedMaps(from, target)
  /\ LET grown == IF target < before THEN 0 ELSE target - before + 1
         after == LastIndex(maps'.p2s) + 1
     IN  shown' = shown + grown - (IF after < before THEN before - after ELSE 0)
  /\ broken' = (broken \/ onto) /\ spoiled' = (spoiled \/ onto)
  /\ QueueUpdate
  /\ UNCHANGED <<enabled, perStripe, positions, applying, resetting>>

\* What updatePositions() writes.
Saved(p2s, source, per) ==
  {[name |-> source[p2s[c] + 1], stripe |-> c \div per, pos |-> c % per] : c \in DOMAIN p2s}

\* Mutant: the flag is not taken back.
NothingToSaveForgets == perStripe < 1 /\ UNCHANGED <<positions, pending>>

\* updatePositions() before the view has a size.
NothingToSave == perStripe < 1 /\ pending' = FALSE /\ UNCHANGED positions

\* updatePositions(), from the event queue.  When the folder model does not know
\* a row it returns, and the flag stays.
UpdatePositions ==
  /\ queued /\ queued' = FALSE
  /\ \/ NothingToSave
     \/ /\ perStripe >= 1
        /\ enabled /\ ~(Cells(maps.p2s) \subseteq RowsOf(rows))
        /\ UNCHANGED <<positions, pending>>
     \/ /\ perStripe >= 1
        /\ enabled => Cells(maps.p2s) \subseteq RowsOf(rows)
        /\ positions' = [per   |-> perStripe,
                         items |-> IF enabled THEN Saved(maps.p2s, rows, perStripe) ELSE {}]
        /\ pending' = FALSE
  /\ UNCHANGED <<enabled, perStripe, maps, applying, resetting, shown, broken, spoiled>>

-----------------------------------------------------------------------------
(* The row signals of the folder model; source has its rows afterwards.    *)

\* Mutant: new rows are not saved.
SaveAfterInsertNever(apply) == UNCHANGED <<pending, queued>>

SaveAfterInsert(apply) == IF apply THEN UNCHANGED <<pending, queued>> ELSE QueueUpdate

\* sourceRowsInserted(), in the state st that sourceRowsAboutToBeInserted() leaves
\* (st.shown counts the rows it announced); ignore is m_ignoreNextTransaction.
RowsInserted(st, ignore, source) ==
  /\ \/ /\ ignore \/ ~st.applying
        /\ maps' = st.maps /\ shown' = st.shown
        /\ applying' = st.applying /\ broken' = st.broken
        /\ UNCHANGED resetting
     \/ /\ ~ignore /\ st.applying /\ perStripe = 0
        /\ maps' = st.maps /\ broken' = st.broken
        /\ applying' = st.applying
        /\ UNCHANGED <<shown, resetting>>
     \/ /\ ~ignore /\ st.applying /\ perStripe > 0
        /\ ApplyPositions([st EXCEPT !.shown = shown], perStripe, source)
  /\ SaveAfterInsert(applying')

\* The cells of new rows: free ones in their order, then those behind the last.
NewCells(p2s, first, last) ==
  LET lowest == IF DOMAIN p2s = {} THEN 1 ELSE 0
      free   == (lowest .. LastIndex(p2s) + (last - first) + 1) \ DOMAIN p2s
  IN  {f \in [first .. last -> free] :
         /\ \A i \in first .. last, j \in first .. last : i < j => f[i] < f[j]
         /\ \A c \in free : c < f[last] => c \in Cells(f)}

\* The rows behind the new ones keep their numbers in both maps.
FilledMaps(m, f) ==
  [p2s |-> [c \in DOMAIN m.p2s \cup Cells(f) |->
              IF c \in Cells(f) THEN CHOOSE i \in DOMAIN f : f[i] = c ELSE m.p2s[c]],
   s2p |-> [i \in DOMAIN m.s2p \cup DOMAIN f |->
              IF i \in DOMAIN f THEN f[i] ELSE m.s2p[i]]]

\* sourceRowsAboutToBeInserted() and sourceRowsInserted(): rows first .. last are
\* new in source.
SourceRowsInserted(first, last, source) ==
  /\ \/ /\ ~enabled
        /\ RowsInserted(State(maps, shown + (last - first) + 1, applying, broken), FALSE, source)
        /\ UNCHANGED spoiled
     \/ /\ enabled /\ DOMAIN maps.s2p = {} /\ positions.items = {}
        /\ LET shift == first < Len(rows) IN
             /\ RowsInserted(State(InitMaps(last), shown + (last - first) + 1, applying, shift),
                             FALSE, source)
             /\ spoiled' = (spoiled \/ shift)
     \/ /\ enabled /\ DOMAIN maps.s2p = {} /\ positions.items # {}
        /\ RowsInserted(State(maps, shown, TRUE, broken), FALSE, source)
        /\ UNCHANGED spoiled
     \/ /\ enabled /\ DOMAIN maps.s2p # {}
        /\ \E f \in NewCells(maps.p2s, first, last) :
             LET m     == FilledMaps(maps, f)
                 grown == LastIndex(m.p2s) - LastIndex(maps.p2s)
                 shift == first < Len(rows)
             IN  /\ RowsInserted(State(m, shown + grown, applying, broken \/ shift),
                                 grown = 0, source)
                 /\ spoiled' = (spoiled \/ shift)
  /\ UNCHANGED <<enabled, perStripe, positions>>

\* Mutant: the cells behind move up as well as the rows.
RemoveRowCompacts(m, i) ==
  LET cell == IF i \in DOMAIN m.s2p THEN m.s2p[i] ELSE 0
      up(k, n) == IF k > n THEN k - 1 ELSE k
  IN  [p2s |-> [c \in {up(d, cell) : d \in DOMAIN m.p2s \ {cell}} |->
                  up(m.p2s[IF c >= cell THEN c + 1 ELSE c], i)],
       s2p |-> [k \in {up(j, i) : j \in DOMAIN m.s2p \ {i}} |->
                  up(m.s2p[IF k >= i THEN k + 1 ELSE k], cell)]]

\* One turn of the loop of sourceRowsAboutToBeRemoved(); a row that is in no map
\* is taken to be in cell 0.
RemoveRow(m, i) ==
  LET cell == IF i \in DOMAIN m.s2p THEN m.s2p[i] ELSE 0
      up(k) == IF k > i THEN k - 1 ELSE k
  IN  [p2s |-> [c \in DOMAIN m.p2s \ {cell} |-> up(m.p2s[c])],
       s2p |-> [k \in {up(j) : j \in DOMAIN m.s2p \ {i}} |->
                  m.s2p[IF k >= i THEN k + 1 ELSE k]]]

\* The loop counts up although each turn moves the rows behind it up.
RemoveRows(m, first, last) ==
  LET after[i \in first .. last] == RemoveRow(IF i = first THEN m ELSE after[i - 1], i)
  IN  IF first = last THEN RemoveRow(m, first) ELSE after[last]

\* Mutant: as many rows go from the view as from the folder.
RowsTakenFromViewAll(before, after, count) == count

\* The views lose rows only when the last cell in use is another one.
RowsTakenFromView(before, after, count) == IF before > after THEN before - after ELSE 0

\* sourceRowsAboutToBeRemoved() and sourceRowsRemoved().
SourceRowsRemoved(first, last) ==
  /\ \/ /\ ~enabled
        /\ shown' = shown - (last - first + 1)
        /\ UNCHANGED <<maps, broken, spoiled>>
     \/ /\ enabled
        /\ maps' = RemoveRows(maps, first, last)
        /\ shown' = shown - RowsTakenFromView(LastIndex(maps.p2s), LastIndex(maps'.p2s),
                                              last - first + 1)
        /\ LET batch == first < last
           IN  broken' = (broken \/ batch) /\ spoiled' = (spoiled \/ batch)
  /\ QueueUpdate
  /\ UNCHANGED <<enabled, perStripe, positions, applying, resetting>>
=============================================================================
