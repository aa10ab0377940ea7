---------------------------- MODULE FolderProofs ----------------------------
(***************************************************************************)
(* The folder view's positions: the maps fit the rows of the folder, what  *)
(* is saved is what is on the screen, and the views hear of every row.     *)
(*                                                                         *)
(* The proofs need what finite sets and numbers have (a smallest family    *)
(* member, a largest element, a sorted listing); then that each way to     *)
(* build or change the maps gives every row one cell of its own; then, for *)
(* each slot of the positioner, that it keeps FolderInv.                   *)
(***************************************************************************)
EXTENDS FolderView, FiniteSetTheorems, WellFoundedInduction, TLAPS

-----------------------------------------------------------------------------
(* Finite sets and numbers.                                                *)

\* Induction on finite sets: a family of them has one that no other is part of.
Finite(T) == \A U \in T : IsFiniteSet(U)
Minimal(U, T) == U \in T /\ \A V \in T : V \subseteq U => V = U

LEMMA SmallestSet ==
  ASSUME NEW T, Finite(T), T # {}
  PROVE  \E U : Minimal(U, T)
<1> DEFINE S == UNION T
           R == StrictSubsetOrdering(S)
           F == FiniteSubsetsOf(S)
<1>1. T \subseteq F
  BY DEF FiniteSubsetsOf, Finite
<1>2. IsWellFoundedOn(R, F)
  BY FS_StrictSubsetOrderingWellFounded
<1>3. \A U \in T, V \in T : V \subseteq U /\ V # U => <<V, U>> \in R
  BY DEF StrictSubsetOrdering
<1> HIDE DEF R, F
<1>4. \E U \in T : \A V \in T : ~(<<V, U>> \in R)
  BY <1>1, <1>2, WFMin, Zenon
<1> QED BY <1>3, <1>4 DEF Minimal

\* A finite set of numbers has a largest one, a set of natural ones a smallest one.
LEMMA Largest ==
  ASSUME NEW S, S \subseteq Int, IsFiniteSet(S), S # {}
  PROVE  \E x \in S : \A y \in S : y <= x
<1> DEFINE HasMax(U) == \E x \in U : \A y \in U : y <= x
           T == {U \in SUBSET S : U # {} /\ ~HasMax(U)}
<1> SUFFICES ASSUME T # {} PROVE FALSE
  OBVIOUS
<1>1. Finite(T)
  BY FS_Subset DEF Finite
<1>2. PICK U : Minimal(U, T)
  <2> HIDE DEF T
  <2> QED BY <1>1, SmallestSet
<1>3. U \in T /\ U # {} /\ U \subseteq S /\ ~HasMax(U)
  BY <1>2 DEF Minimal
<1>4. PICK x \in U : TRUE
  BY <1>3
<1>5. U \ {x} \notin T
  BY <1>2, <1>4 DEF Minimal
<1>6. U \subseteq Int /\ x \in Int
  BY <1>3, <1>4
<1>7. CASE U \ {x} = {}
  BY <1>3, <1>4, <1>6, <1>7
<1>8. CASE U \ {x} # {}
  <2>1. PICK y \in U \ {x} : \A z \in U \ {x} : z <= y
    BY <1>3, <1>5, <1>8
  <2> QED BY <1>3, <1>4, <1>6, <2>1
<1> QED BY <1>7, <1>8

LEMMA Smallest ==
  ASSUME NEW S, S \subseteq Nat, S # {}
  PROVE  \E x \in S : \A y \in S : x <= y
<1> DEFINE T == {0 .. n : n \in S}
<1>1. Finite(T) /\ T # {}
  <2>1. \A n \in S : IsFiniteSet(0 .. n)
    BY FS_Interval
  <2> QED BY <2>1 DEF Finite
<1>2. PICK U : Minimal(U, T)
  <2> HIDE DEF T
  <2> QED BY <1>1, SmallestSet
<1>3. PICK x \in S : U = 0 .. x
  BY <1>2 DEF Minimal
<1>4. ASSUME NEW y \in S, y < x PROVE FALSE
  <2>1. 0 .. y \subseteq U /\ x \in U /\ x \notin 0 .. y
    BY <1>3, <1>4
  <2> QED BY <1>2, <2>1 DEF Minimal
<1> QED BY <1>3, <1>4

\* The cell of a saved entry, computed back from its stripe and position.
LEMMA DivMod ==
  ASSUME NEW c \in Nat, NEW per \in Nat, per > 0
  PROVE  c \div per \in Nat /\ c % per \in Nat /\ c % per < per /\ (c \div per) * per + (c % per) = c
<1>1. c \div per \in Nat
  OBVIOUS
<1>2. c % per \in Nat /\ c % per < per
  OBVIOUS
<1>3. per * (c \div per) + (c % per) = c
  OBVIOUS
<1>4. (c \div per) * per = per * (c \div per)
  BY <1>1
<1> QED BY <1>1, <1>2, <1>3, <1>4

\* The image of a function on a finite set is finite.
LEMMA FiniteCells ==
  ASSUME NEW f, IsFiniteSet(DOMAIN f), f = [x \in DOMAIN f |-> f[x]]
  PROVE  IsFiniteSet(Cells(f))
<1>1. f \in Surjection(DOMAIN f, Cells(f))
  BY DEF Surjection, Cells
<1> QED BY <1>1, FS_Surjection

LEMMA LastIndexType ==
  ASSUME NEW p2s, DOMAIN p2s \subseteq Nat, IsFiniteSet(DOMAIN p2s)
  PROVE  /\ LastIndex(p2s) \in Nat
         /\ \A c \in DOMAIN p2s : c <= LastIndex(p2s)
         /\ DOMAIN p2s # {} => LastIndex(p2s) \in DOMAIN p2s
<1>1. CASE DOMAIN p2s = {}
  BY <1>1 DEF LastIndex
<1>2. CASE DOMAIN p2s # {}
  <2>1. \E c \in DOMAIN p2s : \A d \in DOMAIN p2s : d <= c
    BY <1>2, Largest
  <2> QED BY <1>2, <2>1 DEF LastIndex
<1> QED BY <1>1, <1>2

Increasing(s, n) == \A i, j \in 1 .. n : i < j => s[i] < s[j]

\* A finite set of numbers can be sorted.
LEMMA Sorted ==
  ASSUME NEW S, S \subseteq Int, IsFiniteSet(S)
  PROVE  /\ Cardinality(S) \in Nat
         /\ SortedSeq(S) \in [1 .. Cardinality(S) -> S]
         /\ Increasing(SortedSeq(S), Cardinality(S))
<1> DEFINE Sortable(U) == \E s \in [1 .. Cardinality(U) -> U] : Increasing(s, Cardinality(U))
           T == {U \in SUBSET S : ~Sortable(U)}
<1>1. T = {}
  <2> SUFFICES ASSUME T # {} PROVE FALSE
    OBVIOUS
  <2>1. Finite(T)
    BY FS_Subset DEF Finite
  <2>2. PICK U : Minimal(U, T)
    <3> HIDE DEF T
    <3> QED BY <2>1, SmallestSet
  <2>3. U \in T /\ U \subseteq S /\ ~Sortable(U) /\ IsFiniteSet(U)
    BY <2>1, <2>2 DEF Minimal, Finite
  <2>4. CASE U = {}
    <3>1. Cardinality(U) = 0
      BY <2>4, FS_EmptySet
    <3>2. <<>> \in [1 .. 0 -> U] /\ Increasing(<<>>, 0)
      BY DEF Increasing
    <3> QED BY <2>3, <3>1, <3>2
  <2>5. CASE U # {}
    <3>1. PICK x \in U : \A y \in U : y <= x
      BY <2>3, <2>5, Largest
    <3> DEFINE V == U \ {x}
               n == Cardinality(U)
    <3>2. V \subseteq U /\ V # U /\ V \subseteq S
      BY <2>3, <3>1
    <3>3. IsFiniteSet(V) /\ Cardinality(V) = n - 1 /\ n \in Nat
      BY <2>3, <3>1, FS_RemoveElement, FS_CardinalityType
    <3>4. Sortable(V)
      BY <2>2, <3>2 DEF Minimal
    <3>5. PICK s \in [1 .. Cardinality(V) -> V] : Increasing(s, Cardinality(V))
      BY <3>4
    <3> DEFINE t == [i \in 1 .. n |-> IF i = n THEN x ELSE s[i]]
    <3>6. s \in [1 .. n - 1 -> V] /\ Increasing(s, n - 1)
      BY <3>3, <3>5
    <3> HIDE DEF n, V
    <3>9. \A i \in 1 .. n : i # n => s[i] \in V
      BY <3>3, <3>6
    <3>10. V \subseteq Int /\ V \subseteq U /\ x \in U /\ x \in Int
      BY <2>3, <3>1, <3>2
    <3>7. t \in [1 .. n -> U]
      BY <3>9, <3>10
    <3>8. Increasing(t, n)
      <4> SUFFICES ASSUME NEW i \in 1 .. n, NEW j \in 1 .. n, i < j PROVE t[i] < t[j]
        BY DEF Increasing
      <4>1. i # n /\ i \in 1 .. n - 1
        BY <3>3
      <4>2. CASE j = n
        <5>1. s[i] \in V /\ s[i] # x /\ s[i] <= x
          BY <3>1, <3>9, <3>10, <4>1 DEF V
        <5>2. t[i] = s[i] /\ t[j] = x
          BY <4>1, <4>2
        <5>3. s[i] \in Int /\ x \in Int
          BY <3>10, <5>1
        <5> HIDE DEF t
        <5> QED BY <5>1, <5>2, <5>3
      <4>3. CASE j # n
        <5>1. j \in 1 .. n - 1
          BY <3>3, <4>3
        <5> QED BY <3>6, <4>1, <4>3, <5>1 DEF Increasing
      <4> QED BY <4>2, <4>3
    <3> HIDE DEF t
    <3> QED BY <2>3, <3>7, <3>8 DEF n
  <2> QED BY <2>4, <2>5
<1>2. Sortable(S)
  BY <1>1
<1>3. Cardinality(S) \in Nat
  BY FS_CardinalityType
<1> QED BY <1>2, <1>3 DEF SortedSeq, Increasing

-----------------------------------------------------------------------------
(* The maps keep their type.                                               *)

IsMap(f) == DOMAIN f \subseteq Nat /\ IsFiniteSet(DOMAIN f) /\ f \in CellMap(DOMAIN f)
AreMaps(m) == IsMap(m.p2s) /\ IsMap(m.s2p)

LEMMA InitMapsType ==
  ASSUME NEW n \in Int
  PROVE  AreMaps(InitMaps(n))
<1>1. IsFiniteSet(0 .. n) /\ IsFiniteSet({})
  BY FS_Interval, FS_EmptySet
<1>2. IsMap(EmptyMap)
  BY <1>1 DEF IsMap, CellMap, EmptyMap
<1>3. IsMap([i \in 0 .. n |-> i])
  BY <1>1 DEF IsMap, CellMap
<1> QED BY <1>2, <1>3 DEF AreMaps, InitMaps, NoMaps

LEMMA NoMapsType == AreMaps(NoMaps)
<1>1. InitMaps(0) = NoMaps
  BY DEF InitMaps
<1> QED BY <1>1, InitMapsType

LEMMA WithType ==
  ASSUME NEW f, IsMap(f), NEW x \in Nat, NEW v \in Nat, NEW y
  PROVE  IsMap(With(f, x, v)) /\ IsMap(Without(f, y))
<1>1. IsFiniteSet(DOMAIN f \cup {x}) /\ IsFiniteSet(DOMAIN f \ {y})
  BY FS_AddElement, FS_RemoveElement DEF IsMap
<1> QED BY <1>1 DEF IsMap, CellMap, With, Without

LEMMA MovedMapsType ==
  ASSUME AreMaps(maps), NEW from \in DOMAIN maps.p2s, NEW target \in Nat
  PROVE  AreMaps(MovedMaps(from, target))
<1>1. maps.p2s[from] \in Nat
  BY DEF AreMaps, IsMap, CellMap
<1>2. IsMap(Without(maps.p2s, from))
  BY WithType DEF AreMaps
<1>3. IsMap(With(Without(maps.p2s, from), target, maps.p2s[from]))
  BY <1>1, <1>2, WithType
<1>4. IsMap(With(maps.s2p, maps.p2s[from], target))
  BY <1>1, WithType DEF AreMaps
<1> QED BY <1>3, <1>4 DEF AreMaps, MovedMaps

\* The new cells are free ones, each for one row.
LEMMA NewCellsFree ==
  ASSUME NEW p2s, IsMap(p2s), NEW first \in Nat, NEW last \in Nat, NEW f \in NewCells(p2s, first, last)
  PROVE  /\ f \in [first .. last -> Nat]
         /\ \A i \in first .. last : f[i] \notin DOMAIN p2s
         /\ \A i \in first .. last, j \in first .. last : f[i] = f[j] => i = j
<1> DEFINE lowest == IF DOMAIN p2s = {} THEN 1 ELSE 0
           free   == (lowest .. LastIndex(p2s) + (last - first) + 1) \ DOMAIN p2s
<1>1. free \subseteq Nat /\ free \cap DOMAIN p2s = {}
  BY LastIndexType DEF IsMap
<1>2. f \in [first .. last -> free] /\ \A i \in first .. last, j \in first .. last : i < j => f[i] < f[j]
  BY DEF NewCells
<1> HIDE DEF free
<1>3. \A i \in first .. last : f[i] \in Nat /\ f[i] \notin DOMAIN p2s
  BY <1>1, <1>2
<1>4. ASSUME NEW i \in first .. last, NEW j \in first .. last, f[i] = f[j] PROVE i = j
  <2>1. ~(i < j) /\ ~(j < i)
    BY <1>2, <1>3, <1>4
  <2> QED BY <2>1
<1> QED BY <1>1, <1>2, <1>3, <1>4

LEMMA FilledMapsType ==
  ASSUME NEW m, AreMaps(m), NEW first \in Nat, NEW last \in Nat, NEW f \in [first .. last -> Nat]
  PROVE  AreMaps(FilledMaps(m, f))
<1>1. IsFiniteSet(first .. last) /\ DOMAIN f = first .. last /\ first .. last \subseteq Nat
  BY FS_Interval
<1>2. IsFiniteSet(Cells(f)) /\ Cells(f) \subseteq Nat
  BY <1>1, FiniteCells DEF Cells
<1>3. IsFiniteSet(DOMAIN m.p2s \cup Cells(f)) /\ IsFiniteSet(DOMAIN m.s2p \cup DOMAIN f)
  BY <1>1, <1>2, FS_Union DEF AreMaps, IsMap
<1>4. \A c \in Cells(f) : (CHOOSE i \in DOMAIN f : f[i] = c) \in Nat
  BY <1>1 DEF Cells
<1>5. IsMap(FilledMaps(m, f).p2s)
  BY <1>2, <1>3, <1>4 DEF AreMaps, IsMap, CellMap, FilledMaps
<1>6. IsMap(FilledMaps(m, f).s2p)
  BY <1>1, <1>3 DEF AreMaps, IsMap, CellMap, FilledMaps
<1> QED BY <1>5, <1>6 DEF AreMaps

LEMMA RemoveRowType ==
  ASSUME NEW m, AreMaps(m), NEW i \in Nat
  PROVE  AreMaps(RemoveRow(m, i))
<1> DEFINE cell == IF i \in DOMAIN m.s2p THEN m.s2p[i] ELSE 0
           up(k) == IF k > i THEN k - 1 ELSE k
           D == DOMAIN m.s2p \ {i}
           E == {up(j) : j \in D}
           n == RemoveRow(m, i)
<1>1. n.p2s = [c \in DOMAIN m.p2s \ {cell} |-> up(m.p2s[c])]
  BY DEF RemoveRow
<1>2. n.s2p = [k \in E |-> m.s2p[IF k >= i THEN k + 1 ELSE k]]
  BY DEF RemoveRow
<1>3. IsFiniteSet(DOMAIN m.p2s \ {cell}) /\ IsFiniteSet(D)
  BY FS_RemoveElement DEF AreMaps, IsMap
<1>4. IsFiniteSet(E)
  <2>1. [j \in D |-> up(j)] \in Surjection(D, E)
    BY DEF Surjection
  <2> HIDE DEF D, E
  <2> QED BY <1>3, <2>1, FS_Surjection
<1>5. \A k \in E : k \in Nat /\ (IF k >= i THEN k + 1 ELSE k) \in D
  BY DEF AreMaps, IsMap
<1>6. \A c \in DOMAIN m.p2s : up(m.p2s[c]) \in Nat
  BY DEF AreMaps, IsMap, CellMap
<1>7. \A j \in D : m.s2p[j] \in Nat
  BY DEF AreMaps, IsMap, CellMap
<1> HIDE DEF n, cell, up, D, E
<1>8. IsMap(n.p2s)
  BY <1>1, <1>3, <1>6 DEF AreMaps, IsMap, CellMap
<1>9. IsMap(n.s2p)
  BY <1>2, <1>4, <1>5, <1>7 DEF IsMap, CellMap
<1> QED BY <1>8, <1>9 DEF AreMaps, n

\* Induction on numbers, for a set of them.
LEMMA AllNumbers ==
  ASSUME NEW T, 0 \in T, \A n \in Nat : n \in T => n + 1 \in T
  PROVE  \A n \in Nat : n \in T
<1> DEFINE Bad == {n \in Nat : n \notin T}
           S == {0 .. n : n \in Bad}
<1> SUFFICES ASSUME Bad # {} PROVE FALSE
  OBVIOUS
<1>1. Finite(S) /\ S # {}
  BY FS_Interval DEF Finite
<1>2. PICK U : Minimal(U, S)
  <2> HIDE DEF S
  <2> QED BY <1>1, SmallestSet
<1>3. PICK n \in Bad : U = 0 .. n
  BY <1>2 DEF Minimal
<1>4. n # 0 /\ n - 1 \in Nat
  BY <1>3
<1>5. n - 1 \in Bad
  <2>1. (n - 1) + 1 = n
    BY <1>3
  <2> QED BY <1>3, <1>4, <2>1
<1>6. 0 .. (n - 1) \in S
  BY <1>5
<1>7. 0 .. (n - 1) \subseteq U /\ n \in U /\ n \notin 0 .. (n - 1)
  BY <1>3, <1>4
<1> QED BY <1>2, <1>6, <1>7 DEF Minimal

\* The turns of the loop are well defined, each from the one before.
LEMMA RemoveRowsType ==
  ASSUME NEW m, AreMaps(m), NEW first \in Nat, NEW last \in Nat, first <= last
  PROVE  AreMaps(RemoveRows(m, first, last))
<1> DEFINE Loop(g, n) == g = [i \in first .. n |-> RemoveRow(IF i = first THEN m ELSE g[i - 1], i)]
           T == {n \in Nat : \E g : Loop(g, first + n)}
<1>1. 0 \in T
  <2> DEFINE g == [i \in first .. first |-> RemoveRow(m, i)]
  <2>1. Loop(g, first + 0)
    OBVIOUS
  <2> HIDE DEF g
  <2> QED BY <2>1
<1>2. ASSUME NEW n \in Nat, n \in T PROVE n + 1 \in T
  <2>1. PICK g : Loop(g, first + n)
    BY <1>2
  <2> DEFINE h == [i \in first .. first + (n + 1) |->
                     IF i = first + (n + 1) THEN RemoveRow(g[first + n], i) ELSE g[i]]
  <2>2. ASSUME NEW i \in first .. first + (n + 1)
        PROVE  h[i] = RemoveRow(IF i = first THEN m ELSE h[i - 1], i)
    <3>1. CASE i = first + (n + 1)
      <4>1. i # first /\ i - 1 = first + n /\ first + n \in first .. first + (n + 1) /\ first + n # first + (n + 1)
        BY <3>1
      <4>2. h[i - 1] = g[first + n]
        BY <4>1
      <4>3. h[i] = RemoveRow(g[first + n], i)
        BY <3>1
      <4> QED BY <4>1, <4>2, <4>3
    <3>2. CASE i # first + (n + 1)
      <4>1. i \in first .. first + n
        BY <3>2
      <4>2. g[i] = RemoveRow(IF i = first THEN m ELSE g[i - 1], i)
        BY <2>1, <4>1
      <4>3. h[i] = g[i]
        BY <3>2
      <4>4. i # first => i - 1 \in first .. first + (n + 1) /\ i - 1 # first + (n + 1)
        OBVIOUS
      <4>5. i # first => h[i - 1] = g[i - 1]
        BY <4>4
      <4> HIDE DEF h
      <4> QED BY <4>2, <4>3, <4>5
    <3> QED BY <3>1, <3>2
  <2>3. Loop(h, first + (n + 1))
    BY <2>2
  <2> HIDE DEF h
  <2> QED BY <2>3
<1>3. \A n \in Nat : n \in T
  <2> HIDE DEF T
  <2> QED BY <1>1, <1>2, AllNumbers
<1> DEFINE after == CHOOSE g : Loop(g, last)
<1>4. Loop(after, last)
  <2>1. last - first \in Nat /\ first + (last - first) = last
    OBVIOUS
  <2>2. \E g : Loop(g, last)
    BY <1>3, <2>1
  <2> QED BY <2>2
<1> HIDE DEF after
<1>5. \A i \in first .. last : after[i] = RemoveRow(IF i = first THEN m ELSE after[i - 1], i)
  BY <1>4
<1> DEFINE R == {n \in Nat : n <= last - first => AreMaps(after[first + n])}
<1>6. 0 \in R
  <2>1. after[first] = RemoveRow(m, first)
    BY <1>5
  <2> QED BY <2>1, RemoveRowType
<1>7. ASSUME NEW n \in Nat, n \in R PROVE n + 1 \in R
  <2> SUFFICES ASSUME n + 1 <= last - first PROVE AreMaps(after[first + (n + 1)])
    OBVIOUS
  <2>1. AreMaps(after[first + n])
    BY <1>7
  <2>2. /\ first + (n + 1) \in first .. last /\ first + (n + 1) \in Nat
        /\ first + (n + 1) # first /\ (first + (n + 1)) - 1 = first + n
    OBVIOUS
  <2>3. after[first + (n + 1)] = RemoveRow(after[first + n], first + (n + 1))
    BY <1>5, <2>2
  <2> QED BY <2>1, <2>2, <2>3, RemoveRowType
<1>8. AreMaps(after[last])
  <2>1. \A n \in Nat : n \in R
    <3> HIDE DEF R
    <3> QED BY <1>6, <1>7, AllNumbers
  <2>2. last - first \in R /\ first + (last - first) = last
    BY <2>1
  <2> QED BY <2>2
<1>9. RemoveRows(m, first, last) = IF first = last THEN RemoveRow(m, first) ELSE after[last]
  BY DEF RemoveRows, after
<1> QED BY <1>8, <1>9, RemoveRowType

-----------------------------------------------------------------------------
(* Saved positions and their arrangement.                                  *)

Entries == [name : Items, stripe : Nat, pos : Nat]
Distinct(source) == \A i, j \in 1 .. Len(source) : source[i] = source[j] => i = j
Listing(source) == source \in Seq(Items) /\ Distinct(source)
Positions == positions \in [per : Nat, items : SUBSET Entries] /\ IsFiniteSet(positions.items)

LEMMA CellOfType ==
  ASSUME NEW e \in Entries, NEW per \in Nat
  PROVE  CellOf(e, per) \in Nat
<1>1. e.stripe \in Nat /\ e.pos \in Nat
  BY DEF Entries
<1>2. e.stripe * per \in Nat
  BY <1>1
<1> QED BY <1>1, <1>2 DEF CellOf

\* Placed entries are of different items and in different cells; every row has either
\* an entry that is placed or a cell of the filling, which is none of theirs.
Fills(M, f, per, source) ==
  /\ M \subseteq Entries
  /\ \A d \in M, e \in M : d.name = e.name \/ CellOf(d, per) = CellOf(e, per) => d = e
  /\ DOMAIN f \subseteq RowsOf(source)
  /\ \A i \in RowsOf(source) \ DOMAIN f : \E e \in M : e.name = source[i + 1]
  /\ \A i \in DOMAIN f : \A e \in M : e.name # source[i + 1] /\ CellOf(e, per) # f[i]
  /\ \A i \in DOMAIN f : f[i] \in Nat
  /\ \A i \in DOMAIN f, j \in DOMAIN f : f[i] = f[j] => i = j

LEMMA FillingFacts ==
  ASSUME Positions, NEW per \in Nat, NEW source, Listing(source),
         NEW M \in Placements(per, source), NEW f \in Fillings(M, per, source)
  PROVE  Fills(M, f, per, source)
<1>1. /\ M \subseteq Claims(per, source)
      /\ \A d \in M, e \in M : d # e => ~(d.name = e.name \/ CellOf(d, per) = CellOf(e, per))
  BY DEF Placements
<1>2. M \subseteq positions.items /\ M \subseteq Entries
  BY <1>1 DEF Claims, Positions
<1> DEFINE taken == {CellOf(e, per) : e \in M}
           left == {i \in RowsOf(source) : \A e \in M : e.name # source[i + 1]}
           n == Cardinality(left)
           last == IF taken = {} THEN 0 ELSE CHOOSE c \in taken : \A d \in taken : d <= c
           free == (0 .. last + n) \ taken
           lowest == {c \in free : Cardinality({d \in free : d < c}) < n}
           cells == IF taken = {} /\ n = 1 THEN {1} ELSE lowest
<1>3. f \in [left -> cells] /\ \A i \in left, j \in left : i # j => f[i] # f[j]
  BY DEF Fillings
<1>4. free \subseteq Nat /\ free \cap taken = {}
  <2>1. IsFiniteSet(left)
    <3>1. IsFiniteSet(0 .. Len(source) - 1)
      BY FS_Interval DEF Listing
    <3> QED BY <3>1, FS_Subset DEF RowsOf
  <2>2. n \in Nat
    BY <2>1, FS_CardinalityType
  <2>3. taken \subseteq Nat
    BY <1>2, CellOfType
  <2>4. IsFiniteSet(taken)
    <3>1. IsFiniteSet(M)
      BY <1>2, FS_Subset DEF Positions
    <3>2. [e \in M |-> CellOf(e, per)] \in Surjection(M, taken)
      BY DEF Surjection
    <3> HIDE DEF taken
    <3> QED BY <3>1, <3>2, FS_Surjection
  <2> HIDE DEF n, taken
  <2>5. last \in Nat
    <3>2. taken \subseteq Int
      BY <2>3
    <3>1. taken # {} => \E c \in taken : \A d \in taken : d <= c
      BY <2>4, <3>2, Largest
    <3> QED BY <2>3, <3>1
  <2> HIDE DEF last
  <2> QED BY <2>2, <2>5
<1> HIDE DEF free, last
<1>5. cells \subseteq Nat /\ cells \cap taken = {}
  <2>1. lowest \subseteq free
    OBVIOUS
  <2> HIDE DEF lowest, n, taken
  <2>2. CASE taken = {} /\ n = 1
    <3>1. cells = {1} /\ 1 \in Nat
      BY <2>2
    <3> HIDE DEF cells
    <3> QED BY <2>2, <3>1
  <2>3. CASE ~(taken = {} /\ n = 1)
    <3>1. cells = lowest
      BY <2>3
    <3> HIDE DEF cells
    <3> QED BY <1>4, <2>1, <3>1
  <2> QED BY <2>2, <2>3
<1> HIDE DEF cells
<1>6. \A i \in left : f[i] \in Nat /\ \A e \in M : CellOf(e, per) # f[i]
  BY <1>3, <1>5
<1>7. DOMAIN f = left
  BY <1>3
<1> QED BY <1>1, <1>2, <1>3, <1>6, <1>7 DEF Fills

\* The arrangement gives every row of the folder a cell of its own; an item whose entry is
\* placed gets the saved one.
LEMMA ArrangementFacts ==
  ASSUME Positions, NEW per \in Nat, NEW source, Listing(source),
         NEW M \in Placements(per, source), NEW f \in Fillings(M, per, source)
  PROVE  LET m == Arrangement(M, f, per, source) IN
         /\ m.s2p \in [RowsOf(source) -> Nat]
         /\ \A i \in RowsOf(source), j \in RowsOf(source) : m.s2p[i] = m.s2p[j] => i = j
         /\ m.p2s = [c \in Cells(m.s2p) |-> CHOOSE i \in RowsOf(source) : m.s2p[i] = c]
         /\ \A e \in M, i \in RowsOf(source) : e.name = source[i + 1] => m.s2p[i] = CellOf(e, per)
<1> DEFINE m == Arrangement(M, f, per, source)
           entry(i) == CHOOSE e \in {d \in M : d.name = source[i + 1]} : TRUE
<1>1. Fills(M, f, per, source)
  BY FillingFacts
<1> USE DEF Fills
<1>2. /\ m.s2p = [i \in RowsOf(source) |-> IF i \in DOMAIN f THEN f[i] ELSE CellOf(entry(i), per)]
      /\ m.p2s = [c \in Cells(m.s2p) |-> CHOOSE i \in RowsOf(source) : m.s2p[i] = c]
  BY DEF Arrangement
<1>3. \A i \in RowsOf(source) \ DOMAIN f : entry(i) \in M /\ entry(i).name = source[i + 1]
  BY <1>1
<1> HIDE DEF m, entry
<1>4. m.s2p \in [RowsOf(source) -> Nat]
  <2>1. \A i \in RowsOf(source) \ DOMAIN f : CellOf(entry(i), per) \in Nat
    BY <1>1, <1>3, CellOfType
  <2> QED BY <1>1, <1>2, <2>1
<1>5. ASSUME NEW i \in RowsOf(source), NEW j \in RowsOf(source), m.s2p[i] = m.s2p[j] PROVE i = j
  <2>1. CASE i \in DOMAIN f /\ j \in DOMAIN f
    BY <1>1, <1>2, <1>5, <2>1
  <2>2. CASE i \in DOMAIN f /\ j \notin DOMAIN f
    BY <1>1, <1>2, <1>3, <1>5, <2>2
  <2>3. CASE i \notin DOMAIN f /\ j \in DOMAIN f
    BY <1>1, <1>2, <1>3, <1>5, <2>3
  <2>4. CASE i \notin DOMAIN f /\ j \notin DOMAIN f
    <3>1. entry(i) = entry(j)
      BY <1>1, <1>2, <1>3, <1>5, <2>4
    <3>2. source[i + 1] = source[j + 1]
      BY <1>3, <2>4, <3>1
    <3>3. i + 1 \in 1 .. Len(source) /\ j + 1 \in 1 .. Len(source) /\ i \in Int /\ j \in Int
      BY DEF RowsOf, Listing
    <3>4. i + 1 = j + 1
      BY <3>2, <3>3 DEF Listing, Distinct
    <3> QED BY <3>3, <3>4
  <2> QED BY <2>1, <2>2, <2>3, <2>4
<1>6. ASSUME NEW e \in M, NEW i \in RowsOf(source), e.name = source[i + 1]
      PROVE  m.s2p[i] = CellOf(e, per)
  <2>1. i \notin DOMAIN f
    BY <1>1, <1>6
  <2>2. entry(i) = e
    BY <1>1, <1>3, <1>6, <2>1
  <2> QED BY <1>2, <2>1, <2>2
<1> QED BY <1>2, <1>4, <1>5, <1>6 DEF m

-----------------------------------------------------------------------------
(* Maps that fit the rows of the folder.                                   *)

MutuallyInverse(m) ==
  /\ \A c \in DOMAIN m.p2s : m.p2s[c] \in DOMAIN m.s2p /\ m.s2p[m.p2s[c]] = c
  /\ \A i \in DOMAIN m.s2p : m.s2p[i] \in DOMAIN m.p2s /\ m.p2s[m.s2p[i]] = i

\* As MapsInverse and EveryRowPlaced have it.
Fits(m, source, wait) ==
  /\ MutuallyInverse(m)
  /\ \/ DOMAIN m.s2p = RowsOf(source)
     \/ DOMAIN m.s2p = {} /\ (Len(source) = 1 \/ wait)

LEMMA InitMapsFit ==
  ASSUME NEW source, Listing(source), NEW wait
  PROVE  Fits(InitMaps(Len(source) - 1), source, wait)
<1>1. Len(source) \in Nat
  BY DEF Listing
<1>2. CASE Len(source) - 1 = 0
  <2>1. Len(source) = 1 /\ InitMaps(Len(source) - 1) = NoMaps
    BY <1>1, <1>2 DEF InitMaps
  <2> QED BY <2>1 DEF Fits, MutuallyInverse, NoMaps, EmptyMap
<1>3. CASE Len(source) - 1 # 0
  <2> DEFINE n == Len(source) - 1
             m == InitMaps(n)
  <2>1. m.p2s = [i \in 0 .. n |-> i] /\ m.s2p = [i \in 0 .. n |-> i]
    BY <1>3 DEF InitMaps
  <2> HIDE DEF m
  <2>2. DOMAIN m.p2s = 0 .. n /\ DOMAIN m.s2p = 0 .. n
    BY <2>1
  <2>3. \A i \in 0 .. n : m.p2s[i] = i /\ m.s2p[i] = i
    BY <2>1
  <2>4. MutuallyInverse(m)
    BY <2>2, <2>3 DEF MutuallyInverse
  <2>5. DOMAIN m.s2p = RowsOf(source)
    BY <2>2 DEF RowsOf
  <2> QED BY <2>4, <2>5 DEF Fits, m
<1> QED BY <1>2, <1>3

LEMMA ArrangementFits ==
  ASSUME Positions, NEW per \in Nat, NEW source, Listing(source), NEW wait,
         NEW M \in Placements(per, source), NEW f \in Fillings(M, per, source)
  PROVE  AreMaps(Arrangement(M, f, per, source)) /\ Fits(Arrangement(M, f, per, source), source, wait)
<1> DEFINE m == Arrangement(M, f, per, source)
           D == RowsOf(source)
           row(c) == CHOOSE i \in D : m.s2p[i] = c
<1>1. /\ m.s2p \in [D -> Nat]
      /\ \A i \in D, j \in D : m.s2p[i] = m.s2p[j] => i = j
      /\ m.p2s = [c \in Cells(m.s2p) |-> row(c)]
  BY ArrangementFacts
<1>2. D \subseteq Nat /\ IsFiniteSet(D)
  BY FS_Interval DEF RowsOf, Listing
<1> HIDE DEF m, D
<1>3. IsFiniteSet(Cells(m.s2p)) /\ Cells(m.s2p) \subseteq Nat
  BY <1>1, <1>2, FiniteCells DEF Cells
<1>4. \A c \in Cells(m.s2p) : row(c) \in D /\ m.s2p[row(c)] = c
  BY <1>1 DEF Cells
<1> HIDE DEF row
<1>6. DOMAIN m.p2s = Cells(m.s2p) /\ DOMAIN m.s2p = D
  BY <1>1
<1>5. AreMaps(m)
  <2>1. IsMap(m.s2p)
    BY <1>1, <1>2, <1>6 DEF IsMap, CellMap
  <2>2. m.p2s \in [Cells(m.s2p) -> Nat]
    BY <1>1, <1>2, <1>4
  <2> QED BY <1>3, <1>6, <2>1, <2>2 DEF AreMaps, IsMap, CellMap
<1>7. \A c \in DOMAIN m.p2s : m.p2s[c] \in DOMAIN m.s2p /\ m.s2p[m.p2s[c]] = c
  BY <1>1, <1>4, <1>6
<1>8. ASSUME NEW i \in DOMAIN m.s2p PROVE m.s2p[i] \in DOMAIN m.p2s /\ m.p2s[m.s2p[i]] = i
  <2>1. m.s2p[i] \in DOMAIN m.p2s
    BY <1>6, <1>8 DEF Cells
  <2>2. m.p2s[m.s2p[i]] \in D /\ m.s2p[m.p2s[m.s2p[i]]] = m.s2p[i]
    BY <1>6, <1>7, <2>1
  <2> QED BY <1>1, <1>6, <2>1, <2>2
<1> QED BY <1>5, <1>6, <1>7, <1>8 DEF Fits, MutuallyInverse, D, m

\* The types of what applyPositions() works on.
StateType(st) ==
  AreMaps(st.maps) /\ st.shown \in Int /\ st.applying \in BOOLEAN /\ st.broken \in BOOLEAN

\* Unless they are known not to, the maps of a view that is enabled fit the rows.
StateFits(st, source) == ~st.broken => Fits(st.maps, source, st.applying)

\* As ViewsMissNothing has it.
Shows(st, source) == ~st.applying => st.shown >= RowCount(st.maps, source, enabled)

NextState == State(maps, shown, applying, broken)

LEMMA ApplyPositionsFits ==
  ASSUME Positions, enabled \in BOOLEAN, resetting \in BOOLEAN,
         NEW per \in Nat, NEW source, Listing(source), NEW st, StateType(st),
         ApplyPositions(st, per, source)
  PROVE  /\ StateType(NextState') /\ resetting' \in BOOLEAN
         /\ StateFits(st, source) => StateFits(NextState', source)
         /\ Shows(st, source) => Shows(NextState', source)
         /\ broken' => st.broken
<1> USE DEF State, NextState
<1>1. CASE positions.items = {} /\ resetting
  BY <1>1 DEF ApplyPositions, StateType, StateFits, Shows
<1> DEFINE Rebuilt(n) ==
        /\ maps' = n
        /\ shown' = RowCount(NoMaps, source, enabled) + LastIndex(n.p2s) + 1
        /\ broken' = FALSE
<1>2. ASSUME NEW n, AreMaps(n), \A wait : Fits(n, source, wait), Rebuilt(n),
             applying' \in BOOLEAN, resetting' \in BOOLEAN
      PROVE  /\ StateType(NextState') /\ resetting' \in BOOLEAN /\ StateFits(NextState', source)
             /\ Shows(NextState', source) /\ ~broken'
  <2>1. LastIndex(n.p2s) \in Nat
    BY <1>2, LastIndexType DEF AreMaps, IsMap
  <2>2. RowCount(NoMaps, source, enabled) \in Nat /\ Len(source) \in Nat
        /\ (~enabled => RowCount(NoMaps, source, enabled) = Len(source))
    <3>1. LastIndex(NoMaps.p2s) \in Nat
      BY NoMapsType, LastIndexType DEF AreMaps, IsMap
    <3> QED BY <3>1 DEF RowCount, Listing
  <2>3. shown' \in Int /\ maps' = n /\ broken' = FALSE
    BY <1>2, <2>1, <2>2
  <2>4. broken' \in BOOLEAN
    BY <2>3
  <2>5. shown' >= RowCount(n, source, enabled)
    <3> DEFINE k == RowCount(NoMaps, source, enabled)
               l == LastIndex(n.p2s)
    <3>1. k \in Nat /\ Len(source) \in Nat /\ l \in Nat /\ shown' = k + l + 1
          /\ (~enabled => k = Len(source)) /\ RowCount(n, source, enabled) = IF enabled THEN l + 1 ELSE Len(source)
      BY <1>2, <2>1, <2>2 DEF RowCount
    <3> HIDE DEF k, l
    <3> QED BY <3>1
  <2> QED BY <1>2, <2>3, <2>4, <2>5 DEF StateType, StateFits, Shows
<1>3. CASE positions.items = {} /\ ~resetting
  <2>1. Rebuilt(InitMaps(Len(source) - 1)) /\ applying' = st.applying /\ resetting' = resetting
    BY <1>3 DEF ApplyPositions
  <2>2. AreMaps(InitMaps(Len(source) - 1))
    BY InitMapsType DEF Listing
  <2>3. \A wait : Fits(InitMaps(Len(source) - 1), source, wait)
    BY InitMapsFit
  <2>4. applying' \in BOOLEAN /\ resetting' \in BOOLEAN
    BY <2>1 DEF StateType
  <2> QED BY <1>2, <2>1, <2>2, <2>3, <2>4
<1>4. CASE positions.items # {}
  <2>5. PICK M \in Placements(per, source) :
          \E f \in Fillings(M, per, source) : Rebuilt(Arrangement(M, f, per, source))
    BY <1>4 DEF ApplyPositions
  <2>1. PICK f \in Fillings(M, per, source) : Rebuilt(Arrangement(M, f, per, source))
    BY <2>5
  <2>2. applying' \in BOOLEAN /\ resetting' \in BOOLEAN
    BY <1>4 DEF ApplyPositions
  <2>3. AreMaps(Arrangement(M, f, per, source))
        /\ \A wait : Fits(Arrangement(M, f, per, source), source, wait)
    BY ArrangementFits
  <2> QED BY <1>2, <2>1, <2>2, <2>3
<1> QED BY <1>1, <1>3, <1>4

LEMMA FilledMapsFit ==
  ASSUME NEW m, AreMaps(m), MutuallyInverse(m), NEW n \in Nat, DOMAIN m.s2p = 0 .. n - 1,
         NEW last \in Nat, n <= last, NEW f \in NewCells(m.p2s, n, last)
  PROVE  MutuallyInverse(FilledMaps(m, f)) /\ DOMAIN FilledMaps(m, f).s2p = 0 .. last
<1> DEFINE w == FilledMaps(m, f)
           row(c) == CHOOSE i \in DOMAIN f : f[i] = c
           D == n .. last
<1>1. /\ f \in [D -> Nat] /\ \A i \in D : f[i] \notin DOMAIN m.p2s
      /\ \A i \in D, j \in D : f[i] = f[j] => i = j
  BY NewCellsFree DEF AreMaps
<1>2. /\ w.p2s = [c \in DOMAIN m.p2s \cup Cells(f) |-> IF c \in Cells(f) THEN row(c) ELSE m.p2s[c]]
      /\ w.s2p = [i \in DOMAIN m.s2p \cup DOMAIN f |-> IF i \in DOMAIN f THEN f[i] ELSE m.s2p[i]]
  BY DEF FilledMaps
<1>3. \A c \in Cells(f) : row(c) \in D /\ f[row(c)] = c
  BY <1>1 DEF Cells
<1>4. DOMAIN f = D /\ DOMAIN m.s2p \cap D = {} /\ DOMAIN m.s2p \cup D = 0 .. last
  BY <1>1
<1>5. Cells(f) \cap DOMAIN m.p2s = {} /\ \A i \in D : f[i] \in Cells(f)
  BY <1>1 DEF Cells
<1> HIDE DEF w, row, D
<1>6. DOMAIN w.p2s = DOMAIN m.p2s \cup Cells(f) /\ DOMAIN w.s2p = 0 .. last
  BY <1>2, <1>4
<1>7. ASSUME NEW c \in DOMAIN w.p2s PROVE w.p2s[c] \in DOMAIN w.s2p /\ w.s2p[w.p2s[c]] = c
  <2>1. CASE c \in Cells(f)
    <3>1. w.p2s[c] = row(c)
      BY <1>2, <2>1
    <3> QED BY <1>2, <1>3, <1>4, <2>1, <3>1
  <2>2. CASE c \notin Cells(f)
    <3>1. w.p2s[c] = m.p2s[c] /\ c \in DOMAIN m.p2s
      BY <1>2, <1>6, <1>7, <2>2
    <3>2. m.p2s[c] \in DOMAIN m.s2p /\ m.s2p[m.p2s[c]] = c
      BY <3>1 DEF MutuallyInverse
    <3> QED BY <1>2, <1>4, <3>1, <3>2
  <2> QED BY <2>1, <2>2
<1>8. ASSUME NEW i \in DOMAIN w.s2p PROVE w.s2p[i] \in DOMAIN w.p2s /\ w.p2s[w.s2p[i]] = i
  <2>1. CASE i \in D
    <3>1. w.s2p[i] = f[i] /\ f[i] \in Cells(f)
      BY <1>2, <1>4, <1>5, <2>1
    <3>2. row(f[i]) = i
      BY <1>1, <1>3, <2>1, <3>1
    <3> QED BY <1>2, <1>6, <3>1, <3>2
  <2>2. CASE i \notin D
    <3>1. i \in DOMAIN m.s2p /\ w.s2p[i] = m.s2p[i]
      BY <1>2, <1>4, <1>6, <1>8, <2>2
    <3>2. m.s2p[i] \in DOMAIN m.p2s /\ m.p2s[m.s2p[i]] = i
      BY <3>1 DEF MutuallyInverse
    <3>3. m.s2p[i] \notin Cells(f)
      BY <1>5, <3>2
    <3> QED BY <1>2, <1>6, <3>1, <3>2, <3>3
  <2> QED BY <2>1, <2>2
<1> QED BY <1>6, <1>7, <1>8 DEF MutuallyInverse, w

\* When one row goes, or one item moves, the others keep theirs.
LEMMA RemoveRowFits ==
  ASSUME NEW m, AreMaps(m), NEW source, NEW after, NEW wait, Listing(source), Listing(after),
         Fits(m, source, wait), NEW i \in RowsOf(source), Len(after) = Len(source) - 1
  PROVE  Fits(RemoveRow(m, i), after, wait)
<1> DEFINE n == Len(source)
           w == RemoveRow(m, i)
           cell == IF i \in DOMAIN m.s2p THEN m.s2p[i] ELSE 0
           up(k) == IF k > i THEN k - 1 ELSE k
           back(k) == IF k >= i THEN k + 1 ELSE k
           D == {up(j) : j \in DOMAIN m.s2p \ {i}}
<1>1. n \in Nat /\ i \in 0 .. n - 1 /\ RowsOf(after) = 0 .. n - 2 /\ RowsOf(source) = 0 .. n - 1
  BY DEF RowsOf, Listing
<1>2. /\ w.p2s = [c \in DOMAIN m.p2s \ {cell} |-> up(m.p2s[c])]
      /\ w.s2p = [k \in D |-> m.s2p[back(k)]]
  BY DEF RemoveRow
<1>3. CASE DOMAIN m.s2p = {}
  <2>1. DOMAIN m.p2s = {}
    BY <1>3 DEF Fits, MutuallyInverse
  <2>2. D = {}
    BY <1>3
  <2>3. DOMAIN w.p2s = {} /\ DOMAIN w.s2p = {}
    BY <1>2, <2>1, <2>2
  <2>4. MutuallyInverse(w)
    BY <2>3 DEF MutuallyInverse
  <2>5. n = 1 \/ wait
    BY <1>1, <1>3 DEF Fits
  <2>6. n = 1 => RowsOf(after) = {}
    BY <1>1
  <2> HIDE DEF w
  <2> QED BY <2>3, <2>4, <2>5, <2>6 DEF Fits, w
<1>4. CASE DOMAIN m.s2p = RowsOf(source)
  <2>1. cell = m.s2p[i] /\ cell \in DOMAIN m.p2s /\ m.p2s[cell] = i
    BY <1>4 DEF Fits, MutuallyInverse
  <2>2. D = 0 .. n - 2
    <3>1. \A k \in 0 .. n - 2 : back(k) \in DOMAIN m.s2p \ {i} /\ k = up(back(k))
      BY <1>1, <1>4
    <3>2. \A j \in DOMAIN m.s2p \ {i} : up(j) \in 0 .. n - 2
      BY <1>1, <1>4
    <3> QED BY <3>1, <3>2
  <2>3. \A k \in 0 .. n - 2 : back(k) \in 0 .. n - 1 /\ back(k) # i /\ up(back(k)) = k
    BY <1>1
  <2>4. \A j \in 0 .. n - 1 : j # i => up(j) \in 0 .. n - 2 /\ back(up(j)) = j
    BY <1>1
  <2> HIDE DEF w, cell, up, back, D
  <2>5. ASSUME NEW c \in DOMAIN w.p2s PROVE w.p2s[c] \in DOMAIN w.s2p /\ w.s2p[w.p2s[c]] = c
    <3>1. c \in DOMAIN m.p2s /\ c # cell /\ w.p2s[c] = up(m.p2s[c])
      BY <1>2, <2>5
    <3>2. m.p2s[c] \in 0 .. n - 1 /\ m.s2p[m.p2s[c]] = c
      BY <1>1, <1>4, <3>1 DEF Fits, MutuallyInverse
    <3>3. m.p2s[c] # i
      BY <2>1, <3>1, <3>2
    <3>4. up(m.p2s[c]) \in 0 .. n - 2 /\ back(up(m.p2s[c])) = m.p2s[c]
      BY <2>4, <3>2, <3>3
    <3> QED BY <1>2, <2>2, <3>1, <3>2, <3>4
  <2>6. ASSUME NEW k \in DOMAIN w.s2p PROVE w.s2p[k] \in DOMAIN w.p2s /\ w.p2s[w.s2p[k]] = k
    <3>1. k \in 0 .. n - 2 /\ w.s2p[k] = m.s2p[back(k)]
      BY <1>2, <2>2, <2>6
    <3>2. back(k) \in 0 .. n - 1 /\ back(k) # i /\ up(back(k)) = k
      BY <2>3, <3>1
    <3>3. m.s2p[back(k)] \in DOMAIN m.p2s /\ m.p2s[m.s2p[back(k)]] = back(k)
      BY <1>1, <1>4, <3>2 DEF Fits, MutuallyInverse
    <3>4. m.s2p[back(k)] # cell
      BY <2>1, <3>2, <3>3
    <3> QED BY <1>2, <3>1, <3>2, <3>3, <3>4
  <2>7. DOMAIN w.s2p = RowsOf(after)
    BY <1>1, <1>2, <2>2
  <2> QED BY <2>5, <2>6, <2>7 DEF Fits, MutuallyInverse, w
<1> QED BY <1>3, <1>4 DEF Fits

LEMMA MovedMapsFit ==
  ASSUME NEW source, NEW wait, Fits(maps, source, wait), NEW from \in DOMAIN maps.p2s,
         NEW target, target \notin DOMAIN maps.p2s
  PROVE  Fits(MovedMaps(from, target), source, wait)
<1> DEFINE row == maps.p2s[from]
           w == MovedMaps(from, target)
<1>1. /\ w.p2s = [y \in (DOMAIN maps.p2s \ {from}) \cup {target} |-> IF y = target THEN row ELSE maps.p2s[y]]
      /\ w.s2p = [y \in DOMAIN maps.s2p \cup {row} |-> IF y = row THEN target ELSE maps.s2p[y]]
  BY DEF MovedMaps, With, Without
<1>2. row \in DOMAIN maps.s2p /\ maps.s2p[row] = from /\ from # target
  BY DEF Fits, MutuallyInverse
<1> HIDE DEF w, row
<1>3. ASSUME NEW c \in DOMAIN w.p2s PROVE w.p2s[c] \in DOMAIN w.s2p /\ w.s2p[w.p2s[c]] = c
  <2>1. CASE c = target
    BY <1>1, <1>2, <2>1
  <2>2. CASE c # target
    <3>1. c \in DOMAIN maps.p2s /\ c # from /\ w.p2s[c] = maps.p2s[c]
      BY <1>1, <1>3, <2>2
    <3>2. maps.p2s[c] \in DOMAIN maps.s2p /\ maps.s2p[maps.p2s[c]] = c
      BY <3>1 DEF Fits, MutuallyInverse
    <3>3. maps.p2s[c] # row
      BY <1>2, <3>1, <3>2
    <3> QED BY <1>1, <3>1, <3>2, <3>3
  <2> QED BY <2>1, <2>2
<1>4. ASSUME NEW i \in DOMAIN w.s2p PROVE w.s2p[i] \in DOMAIN w.p2s /\ w.p2s[w.s2p[i]] = i
  <2>1. CASE i = row
    BY <1>1, <1>2, <2>1
  <2>2. CASE i # row
    <3>1. i \in DOMAIN maps.s2p /\ w.s2p[i] = maps.s2p[i]
      BY <1>1, <1>4, <2>2
    <3>2. maps.s2p[i] \in DOMAIN maps.p2s /\ maps.p2s[maps.s2p[i]] = i
      BY <3>1 DEF Fits, MutuallyInverse
    <3>3. maps.s2p[i] # from /\ maps.s2p[i] # target
      BY <2>2, <3>2 DEF row
    <3> QED BY <1>1, <3>1, <3>2, <3>3
  <2> QED BY <2>1, <2>2
<1>5. DOMAIN w.s2p = DOMAIN maps.s2p
  BY <1>1, <1>2
<1>6. MutuallyInverse(w)
  BY <1>3, <1>4 DEF MutuallyInverse
<1> QED BY <1>5, <1>6 DEF Fits, w

-----------------------------------------------------------------------------
(* The rows of the folder model.                                           *)

LEMMA Joined ==
  ASSUME NEW s \in Seq(Items), NEW t \in Seq(Items)
  PROVE  /\ s \o t \in Seq(Items) /\ Len(s \o t) = Len(s) + Len(t)
         /\ \A i \in 1 .. Len(s) + Len(t) : (s \o t)[i] = IF i <= Len(s) THEN s[i] ELSE t[i - Len(s)]
  OBVIOUS

LEMMA InsertedRows ==
  ASSUME Listing(rows), NEW at \in 0 .. Len(rows), NEW n \in Nat, n > 0,
         NEW batch \in [1 .. n -> Items \ ItemsIn(rows)],
         \A i, j \in 1 .. n : i # j => batch[i] # batch[j]
  PROVE  LET w == SubSeq(rows, 1, at) \o batch \o SubSeq(rows, at + 1, Len(rows)) IN
         /\ Listing(w) /\ Len(w) = Len(rows) + n
         /\ \A i \in 1 .. at : w[i] = rows[i]
<1> DEFINE u == SubSeq(rows, 1, at)
           v == SubSeq(rows, at + 1, Len(rows))
           w == u \o batch \o v
<1>1. rows \in Seq(Items) /\ Len(rows) \in Nat /\ at \in Nat /\ at <= Len(rows)
  BY DEF Listing
<1>2. u \in Seq(Items) /\ Len(u) = at /\ \A i \in 1 .. at : u[i] = rows[i]
  BY <1>1
<1>3. v \in Seq(Items) /\ Len(v) = Len(rows) - at /\ \A i \in 1 .. Len(rows) - at : v[i] = rows[at + i]
  BY <1>1
<1>4. batch \in Seq(Items) /\ Len(batch) = n
  OBVIOUS
<1> HIDE DEF u, v
<1>5. u \o batch \in Seq(Items) /\ Len(u \o batch) = at + n
      /\ \A i \in 1 .. at + n : (u \o batch)[i] = IF i <= at THEN u[i] ELSE batch[i - at]
  BY <1>2, <1>4, Joined
<1> DEFINE ub == u \o batch
<1> HIDE DEF ub
<1>6. /\ ub \o v \in Seq(Items) /\ Len(ub \o v) = Len(rows) + n
      /\ \A i \in 1 .. Len(rows) + n : (ub \o v)[i] = IF i <= at + n THEN ub[i] ELSE v[i - (at + n)]
  <2>1. ub \in Seq(Items) /\ Len(ub) = at + n
    BY <1>5 DEF ub
  <2>2. (at + n) + (Len(rows) - at) = Len(rows) + n
    BY <1>1
  <2>3. Len(ub) + Len(v) = Len(rows) + n
    BY <1>3, <2>1, <2>2
  <2>4. /\ ub \o v \in Seq(Items) /\ Len(ub \o v) = Len(ub) + Len(v)
        /\ \A i \in 1 .. Len(ub) + Len(v) : (ub \o v)[i] = IF i <= Len(ub) THEN ub[i] ELSE v[i - Len(ub)]
    BY <1>3, <2>1, Joined
  <2> QED BY <2>1, <2>3, <2>4
<1>7. w = ub \o v
  BY DEF ub
<1> HIDE DEF w
<1>8. /\ w \in Seq(Items) /\ Len(w) = Len(rows) + n
      /\ \A i \in 1 .. at : w[i] = rows[i]
      /\ \A i \in at + 1 .. at + n : w[i] = batch[i - at]
      /\ \A i \in at + n + 1 .. Len(rows) + n : w[i] = rows[i - n]
  <2>1. w \in Seq(Items) /\ Len(w) = Len(rows) + n
    BY <1>6, <1>7
  <2>2. ASSUME NEW i \in 1 .. at PROVE w[i] = rows[i]
    <3>1. i \in 1 .. Len(rows) + n /\ i \in 1 .. at + n /\ i <= at /\ i <= at + n
      BY <1>1
    <3> QED BY <1>2, <1>5, <1>6, <1>7, <3>1 DEF ub
  <2>3. ASSUME NEW i \in at + 1 .. at + n PROVE w[i] = batch[i - at]
    <3>1. i \in 1 .. Len(rows) + n /\ i \in 1 .. at + n /\ ~(i <= at) /\ i <= at + n
      BY <1>1
    <3> QED BY <1>5, <1>6, <1>7, <3>1 DEF ub
  <2>4. ASSUME NEW i \in at + n + 1 .. Len(rows) + n PROVE w[i] = rows[i - n]
    <3>1. /\ i \in 1 .. Len(rows) + n /\ ~(i <= at + n)
          /\ i - (at + n) \in 1 .. Len(rows) - at /\ at + (i - (at + n)) = i - n
      BY <1>1
    <3> QED BY <1>3, <1>6, <1>7, <3>1
  <2> QED BY <2>1, <2>2, <2>3, <2>4
<1>9. Distinct(w)
  <2> DEFINE old(i) == IF i <= at THEN i ELSE i - n
             new(i) == i \in at + 1 .. at + n
  <2>1. ASSUME NEW i \in 1 .. Len(w), ~new(i)
        PROVE  w[i] = rows[old(i)] /\ old(i) \in 1 .. Len(rows) /\ w[i] \in ItemsIn(rows)
    <3>1. CASE i <= at
      BY <1>1, <1>8, <2>1, <3>1 DEF ItemsIn
    <3>2. CASE ~(i <= at)
      <4>1. i \in at + n + 1 .. Len(rows) + n /\ i - n \in 1 .. Len(rows)
        BY <1>1, <1>8, <2>1, <3>2
      <4> QED BY <1>8, <3>2, <4>1 DEF ItemsIn
    <3> QED BY <3>1, <3>2
  <2>2. ASSUME NEW i \in 1 .. Len(w), new(i)
        PROVE  w[i] = batch[i - at] /\ i - at \in 1 .. n /\ w[i] \notin ItemsIn(rows)
    BY <1>1, <1>8, <2>2
  <2> SUFFICES ASSUME NEW i \in 1 .. Len(w), NEW j \in 1 .. Len(w), w[i] = w[j] PROVE i = j
    BY DEF Distinct
  <2>3. i \in Int /\ j \in Int
    BY <1>8
  <2>4. CASE new(i) /\ new(j)
    <3>1. i - at = j - at
      BY <2>2, <2>4
    <3> QED BY <1>1, <2>3, <3>1
  <2>5. CASE ~new(i) /\ ~new(j)
    <3>1. old(i) = old(j)
      BY <2>1, <2>5 DEF Listing, Distinct
    <3> QED BY <1>1, <2>3, <2>5, <3>1
  <2>6. CASE new(i) /\ ~new(j)
    BY <2>1, <2>2, <2>6
  <2>7. CASE ~new(i) /\ new(j)
    BY <2>1, <2>2, <2>7
  <2> QED BY <2>4, <2>5, <2>6, <2>7
<1> QED BY <1>8, <1>9 DEF Listing, w, u, v

LEMMA RowsLeft ==
  ASSUME Listing(rows), NEW first \in RowsOf(rows), NEW last \in RowsOf(rows), first <= last
  PROVE  LET w == SubSeq(rows, 1, first) \o SubSeq(rows, last + 2, Len(rows)) IN
         /\ Listing(w) /\ Len(w) = Len(rows) - (last - first + 1)
         /\ \A i \in 1 .. Len(w) : w[i] = IF i <= first THEN rows[i] ELSE rows[i + (last - first + 1)]
<1> DEFINE u == SubSeq(rows, 1, first)
           v == SubSeq(rows, last + 2, Len(rows))
           w == u \o v
           n == last - first + 1
<1>1. /\ rows \in Seq(Items) /\ Len(rows) \in Nat /\ first \in Nat /\ last \in Nat
      /\ last + 1 <= Len(rows) /\ n \in Nat /\ n > 0
  BY DEF Listing, RowsOf
<1>2. u \in Seq(Items) /\ Len(u) = first /\ \A i \in 1 .. first : u[i] = rows[i]
  BY <1>1
<1>3. v \in Seq(Items) /\ Len(v) = Len(rows) - (last + 1)
      /\ \A i \in 1 .. Len(rows) - (last + 1) : v[i] = rows[last + 1 + i]
  BY <1>1
<1> HIDE DEF u, v
<1>4. w \in Seq(Items) /\ Len(w) = Len(rows) - n
      /\ \A i \in 1 .. Len(rows) - n : w[i] = IF i <= first THEN u[i] ELSE v[i - first]
  <2>1. first + (Len(rows) - (last + 1)) = Len(rows) - n
    BY <1>1
  <2>2. /\ w \in Seq(Items) /\ Len(w) = Len(u) + Len(v)
        /\ \A i \in 1 .. Len(u) + Len(v) : w[i] = IF i <= Len(u) THEN u[i] ELSE v[i - Len(u)]
    BY <1>2, <1>3, Joined
  <2>3. Len(u) = first /\ Len(u) + Len(v) = Len(rows) - n
    BY <1>2, <1>3, <2>1
  <2> HIDE DEF n, w
  <2> QED BY <2>2, <2>3
<1> HIDE DEF w
<1>5. ASSUME NEW i \in 1 .. Len(w) PROVE w[i] = IF i <= first THEN rows[i] ELSE rows[i + n]
  <2>1. CASE i <= first
    <3>1. i \in 1 .. Len(rows) - n /\ i \in 1 .. first
      BY <1>1, <1>4, <2>1
    <3> QED BY <1>2, <1>4, <2>1, <3>1
  <2>2. CASE ~(i <= first)
    <3>1. i \in 1 .. Len(rows) - n /\ i - first \in 1 .. Len(rows) - (last + 1)
          /\ last + 1 + (i - first) = i + n
      BY <1>1, <1>4, <2>2
    <3> QED BY <1>3, <1>4, <2>2, <3>1
  <2> QED BY <2>1, <2>2
<1>6. Distinct(w)
  <2> DEFINE old(i) == IF i <= first THEN i ELSE i + n
  <2> SUFFICES ASSUME NEW i \in 1 .. Len(w), NEW j \in 1 .. Len(w), w[i] = w[j] PROVE i = j
    BY DEF Distinct
  <2>1. i \in Nat /\ j \in Nat /\ old(i) \in 1 .. Len(rows) /\ old(j) \in 1 .. Len(rows)
    BY <1>1, <1>4
  <2>2. w[i] = rows[old(i)] /\ w[j] = rows[old(j)]
    BY <1>5
  <2>3. old(i) = old(j)
    <3> HIDE DEF old
    <3> QED BY <2>1, <2>2 DEF Listing, Distinct
  <2> QED BY <1>1, <2>1, <2>3
<1> QED BY <1>4, <1>5, <1>6 DEF Listing, w, u, v

LEMMA ItemsFinite ==
  ASSUME Listing(rows)
  PROVE  IsFiniteSet(ItemsIn(rows)) /\ ItemsIn(rows) \subseteq Items /\ ItemsIn(rows) \subseteq Int
<1>1. IsFiniteSet(1 .. Len(rows)) /\ rows \in Seq(Items)
  BY FS_Interval DEF Listing
<1>2. ItemsIn(rows) \subseteq Items
  BY <1>1 DEF ItemsIn
<1>3. rows \in Surjection(1 .. Len(rows), ItemsIn(rows))
  BY <1>1 DEF ItemsIn, Surjection
<1> QED BY <1>1, <1>2, <1>3, FS_Surjection, FolderAssumption

LEMMA SortedRows ==
  ASSUME NEW S, S \subseteq Items, IsFiniteSet(S)
  PROVE  Listing(SortedSeq(S))
<1>1. S \subseteq Int
  BY FolderAssumption
<1> DEFINE s == SortedSeq(S)
           n == Cardinality(S)
<1>2. n \in Nat /\ s \in [1 .. n -> S] /\ Increasing(s, n)
  BY <1>1, Sorted
<1> HIDE DEF s, n
<1>3. s \in Seq(Items) /\ Len(s) = n
  BY <1>2
<1>4. ASSUME NEW i \in 1 .. n, NEW j \in 1 .. n, s[i] = s[j] PROVE i = j
  <2>1. s[i] \in Int /\ s[j] \in Int
    BY <1>1, <1>2
  <2>2. ~(i < j) /\ ~(j < i)
    BY <1>2, <1>4, <2>1 DEF Increasing
  <2> QED BY <2>2
<1> QED BY <1>3, <1>4 DEF Listing, Distinct, s

-----------------------------------------------------------------------------
(* What the slots of the positioner keep.                                  *)

Flags == pending \in BOOLEAN /\ queued \in BOOLEAN /\ resetting \in BOOLEAN

LEMMA QueueUpdateFlags ==
  ASSUME Flags
  PROVE  QueueUpdate => pending' \in BOOLEAN /\ queued' \in BOOLEAN /\ pending'
BY Zenon DEF QueueUpdate, Flags

LEMMA RowsInsertedKeeps ==
  ASSUME Positions, Flags, enabled \in BOOLEAN, shown \in Int, perStripe \in Nat,
         NEW source, Listing(source), NEW ignore \in BOOLEAN,
         NEW m, NEW count, NEW apply, NEW bad, StateType(State(m, count, apply, bad)),
         RowsInserted(State(m, count, apply, bad), ignore, source)
  PROVE  /\ StateType(NextState') /\ Flags'
         /\ StateFits(State(m, count, apply, bad), source) => StateFits(NextState', source)
         /\ Shows(State(m, count, apply, bad), source) => Shows(NextState', source)
         /\ broken' => bad
         /\ ~applying' => pending'
<1> DEFINE st == State(m, count, apply, bad)
<1>1. pending' \in BOOLEAN /\ queued' \in BOOLEAN /\ (~applying' => pending')
  <2>1. SaveAfterInsert(applying')
    BY DEF RowsInserted
  <2>2. CASE applying'
    BY <2>1, <2>2 DEF SaveAfterInsert, Flags
  <2>3. CASE ~applying'
    BY <2>1, <2>3, QueueUpdateFlags DEF SaveAfterInsert
  <2> QED BY <2>2, <2>3
<1>2. CASE /\ ignore \/ ~apply
           /\ maps' = m /\ shown' = count /\ applying' = apply /\ broken' = bad
           /\ UNCHANGED resetting
  <2>1. NextState' = st
    BY <1>2 DEF NextState, State
  <2> QED BY <1>1, <1>2, <2>1 DEF Flags
<1>3. CASE /\ apply /\ perStripe = 0
           /\ maps' = m /\ broken' = bad /\ applying' = apply
           /\ UNCHANGED <<shown, resetting>>
  <2>1. /\ NextState'.maps = st.maps /\ NextState'.shown = shown
        /\ NextState'.applying = st.applying /\ NextState'.broken = st.broken
    BY <1>3 DEF NextState, State
  <2>2. st.applying
    BY <1>3 DEF State
  <2>3. StateType(NextState')
    BY <2>1 DEF StateType
  <2> QED BY <1>1, <1>3, <2>1, <2>2, <2>3 DEF Flags, StateFits, Shows
<1>4. CASE apply /\ ApplyPositions([st EXCEPT !.shown = shown], perStripe, source)
  <2> DEFINE start == [st EXCEPT !.shown = shown]
  <2>1. /\ start.maps = st.maps /\ start.shown = shown
        /\ start.applying = st.applying /\ start.broken = st.broken
    BY DEF State
  <2>2. st.applying
    BY <1>4 DEF State
  <2> HIDE DEF start, st
  <2>3. StateType(start)
    BY <2>1 DEF StateType, st
  <2>4. ApplyPositions(start, perStripe, source)
    BY <1>4 DEF start
  <2>5. /\ StateType(NextState') /\ resetting' \in BOOLEAN
        /\ StateFits(start, source) => StateFits(NextState', source)
        /\ Shows(start, source) => Shows(NextState', source)
        /\ broken' => start.broken
    BY <2>3, <2>4, ApplyPositionsFits DEF Flags
  <2>6. /\ StateFits(st, source) => StateFits(start, source)
        /\ Shows(start, source)
    BY <2>1, <2>2 DEF StateFits, Shows
  <2>7. start.broken = bad
    BY <2>1 DEF st, State
  <2> QED BY <1>1, <2>5, <2>6, <2>7 DEF Flags, st
<1> QED BY <1>2, <1>3, <1>4 DEF RowsInserted, State

\* Every variable has its type; a drag under way has rows, and items are only
\* being placed in a view that is enabled.
Types ==
  /\ Listing(rows)
  /\ dragRows \subseteq Nat /\ urls \in Seq(Items) /\ moving \in Seq(Items)
  /\ (urls # <<>> \/ moving # <<>>) => dragRows # {}
  /\ moving # <<>> => enabled
  /\ enabled \in BOOLEAN /\ perStripe \in Stripes \cup {0}
  /\ Positions
  /\ StateType(NextState) /\ Flags
  /\ spoiled \in BOOLEAN

\* Maps that do not fit are known of, and leave their trace.
Fitting == (enabled => StateFits(NextState, rows)) /\ (broken => spoiled)

LEMMA InitMapsLast ==
  ASSUME NEW n \in Nat
  PROVE  LastIndex(InitMaps(n).p2s) \in 0 .. n
<1>1. AreMaps(InitMaps(n))
  BY InitMapsType
<1>2. DOMAIN InitMaps(n).p2s \subseteq 0 .. n
  BY DEF InitMaps, NoMaps, EmptyMap
<1>3. CASE DOMAIN InitMaps(n).p2s = {}
  BY <1>3 DEF LastIndex
<1>4. CASE DOMAIN InitMaps(n).p2s # {}
  BY <1>1, <1>2, <1>4, LastIndexType DEF AreMaps, IsMap
<1> QED BY <1>3, <1>4

LEMMA SourceRowsInsertedKeeps ==
  ASSUME Types, Fitting, ViewsMissNothing, NEW source, Listing(source),
         NEW at \in 0 .. Len(rows), NEW n \in Nat, n > 0, Len(source) = Len(rows) + n,
         SourceRowsInserted(at, at + n - 1, source)
  PROVE  /\ StateType(NextState') /\ Flags' /\ spoiled' \in BOOLEAN
         /\ enabled => StateFits(NextState', source)
         /\ broken' => spoiled'
         /\ (enabled => ~spoiled') => Shows(NextState', source)
         /\ ~applying' => pending'
         /\ UNCHANGED <<enabled, perStripe, positions>>
<1> DEFINE last == at + n - 1
           shift == at < Len(rows)
           Good(m, count, apply, bad) ==
             /\ StateType(State(m, count, apply, bad))
             /\ enabled => StateFits(State(m, count, apply, bad), source)
             /\ (enabled => ~spoiled') => Shows(State(m, count, apply, bad), source)
             /\ bad => spoiled'
             /\ spoiled' \in BOOLEAN
           Goal == /\ StateType(NextState') /\ Flags' /\ spoiled' \in BOOLEAN
                   /\ enabled => StateFits(NextState', source)
                   /\ broken' => spoiled'
                   /\ (enabled => ~spoiled') => Shows(NextState', source)
                   /\ ~applying' => pending'
<1>1. /\ Len(rows) \in Nat /\ at \in Nat /\ last \in Nat /\ at <= last /\ last = at + n - 1
      /\ Len(source) = Len(rows) + n /\ Len(source) \in Nat
      /\ perStripe \in Nat /\ AreMaps(maps) /\ shown \in Int
      /\ enabled \in BOOLEAN /\ applying \in BOOLEAN /\ broken \in BOOLEAN /\ spoiled \in BOOLEAN
      /\ Positions /\ Flags
  BY StripesAssumption DEF Types, Listing, StateType, NextState, State
<1> HIDE DEF last
<1>2. UNCHANGED <<enabled, perStripe, positions>> /\ SourceRowsInserted(at, last, source)
  BY DEF SourceRowsInserted, last
<1>3. ASSUME NEW m, NEW count, NEW apply, NEW bad, NEW ignore \in BOOLEAN, Good(m, count, apply, bad),
             RowsInserted(State(m, count, apply, bad), ignore, source)
      PROVE  Goal
  BY <1>1, <1>3, RowsInsertedKeeps
<1> HIDE DEF Good, Goal
<1>4. ASSUME /\ ~enabled
             /\ RowsInserted(State(maps, shown + (last - at) + 1, applying, broken), FALSE, source)
             /\ UNCHANGED spoiled
      PROVE  Goal
  <2>1. shown + (last - at) + 1 = shown + n /\ shown + n \in Int
    BY <1>1
  <2>2. ~applying => shown + n >= Len(source)
    <3>1. ~applying => shown >= Len(rows)
      BY <1>4 DEF ViewsMissNothing, RowCount
    <3> QED BY <1>1, <3>1
  <2>3. StateType(State(maps, shown + n, applying, broken))
    BY <1>1, <2>1 DEF StateType, State
  <2>4. Shows(State(maps, shown + n, applying, broken), source)
    BY <1>4, <2>2 DEF Shows, State, RowCount
  <2>5. (broken => spoiled') /\ spoiled' \in BOOLEAN
    BY <1>1, <1>4, Zenon DEF Fitting
  <2>6. Good(maps, shown + n, applying, broken)
    BY <1>4, <2>3, <2>4, <2>5 DEF Good
  <2> QED BY <1>3, <1>4, <2>1, <2>6
<1>5. ASSUME /\ enabled /\ DOMAIN maps.s2p = {}
             /\ RowsInserted(State(InitMaps(last), shown + (last - at) + 1, applying, shift), FALSE, source)
             /\ spoiled' = (spoiled \/ shift)
      PROVE  Goal
  <2>1. shown + (last - at) + 1 = shown + n /\ shown + n \in Int
    BY <1>1
  <2>2. AreMaps(InitMaps(last)) /\ LastIndex(InitMaps(last).p2s) \in 0 .. last
    BY <1>1, InitMapsType, InitMapsLast
  <2>3. StateType(State(InitMaps(last), shown + n, applying, shift))
    <3>1. shift \in BOOLEAN
      BY <1>1
    <3> HIDE DEF shift
    <3> QED BY <1>1, <2>1, <2>2, <3>1 DEF StateType, State
  <2>4. StateFits(State(InitMaps(last), shown + n, applying, shift), source)
    <3>1. ~shift => last = Len(source) - 1
      BY <1>1
    <3> HIDE DEF shift
    <3> QED BY <3>1, InitMapsFit DEF StateFits, State
  <2>5. ~spoiled' => Shows(State(InitMaps(last), shown + n, applying, shift), source)
    <3> SUFFICES ASSUME ~spoiled', ~applying PROVE shown + n >= LastIndex(InitMaps(last).p2s) + 1
      BY <1>5 DEF Shows, State, RowCount
    <3>1. ~spoiled /\ ~shift
      BY <1>5
    <3>2. Fits(maps, rows, applying)
      BY <1>5, <3>1 DEF Fitting, StateFits, NextState, State
    <3>3. Len(rows) = 0 \/ Len(rows) = 1
      <4>1. RowsOf(rows) = {} => Len(rows) = 0
        <5> SUFFICES ASSUME Len(rows) # 0 PROVE 0 \in RowsOf(rows)
          OBVIOUS
        <5> QED BY <1>1 DEF RowsOf
      <4>2. RowsOf(rows) = {} \/ Len(rows) = 1
        <5>1. DOMAIN maps.s2p = RowsOf(rows) \/ Len(rows) = 1
          BY <3>2 DEF Fits
        <5>2. DOMAIN maps.s2p = {}
          BY <1>5
        <5> QED BY <5>1, <5>2, Zenon
      <4> QED BY <4>1, <4>2, Zenon
    <3>4. shown >= 1
      <4>1. LastIndex(maps.p2s) \in Nat /\ shown >= LastIndex(maps.p2s) + 1
        BY <1>1, <1>5, <3>1, LastIndexType DEF ViewsMissNothing, RowCount, AreMaps, IsMap
      <4> QED BY <1>1, <4>1
    <3>5. at = Len(rows)
      BY <1>1, <3>1
    <3> DEFINE l == LastIndex(InitMaps(last).p2s)
    <3>6. l \in 0 .. last
      BY <2>2
    <3> HIDE DEF l, shift
    <3>7. last = n - 1 \/ last = n
      <4>1. at = 0 \/ at = 1
        BY <3>3, <3>5
      <4>2. last = at + n - 1
        BY <1>1
      <4> HIDE DEF last
      <4> QED BY <4>1, <4>2
    <3> QED BY <1>1, <3>4, <3>6, <3>7 DEF l
  <2>7. (shift => spoiled') /\ spoiled' \in BOOLEAN
    BY <1>1, <1>5, Zenon
  <2> HIDE DEF shift
  <2>6. Good(InitMaps(last), shown + n, applying, shift)
    BY <1>5, <2>3, <2>4, <2>5, <2>7 DEF Good
  <2> QED BY <1>3, <1>5, <2>1, <2>6
<1>6. ASSUME /\ enabled /\ DOMAIN maps.s2p = {}
             /\ RowsInserted(State(maps, shown, TRUE, broken), FALSE, source)
             /\ UNCHANGED spoiled
      PROVE  Goal
  <2>1. State(maps, shown, TRUE, broken).applying
    BY DEF State
  <2>2. StateType(State(maps, shown, TRUE, broken))
    BY <1>1 DEF StateType, State
  <2>3. StateFits(State(maps, shown, TRUE, broken), source)
    BY <1>6 DEF StateFits, State, Fits, Fitting, NextState
  <2>5. (broken => spoiled') /\ spoiled' \in BOOLEAN
    BY <1>1, <1>6, Zenon DEF Fitting
  <2>4. Good(maps, shown, TRUE, broken)
    BY <2>1, <2>2, <2>3, <2>5 DEF Good, Shows
  <2> QED BY <1>3, <1>6, <2>4
<1>7. ASSUME /\ enabled /\ DOMAIN maps.s2p # {}
             /\ \E f \in NewCells(maps.p2s, at, last) :
                  LET m     == FilledMaps(maps, f)
                      grown == LastIndex(m.p2s) - LastIndex(maps.p2s)
                  IN  /\ RowsInserted(State(m, shown + grown, applying, broken \/ shift),
                                      grown = 0, source)
                      /\ spoiled' = (spoiled \/ shift)
      PROVE  Goal
  <2> PICK f \in NewCells(maps.p2s, at, last) :
             LET m     == FilledMaps(maps, f)
                 grown == LastIndex(m.p2s) - LastIndex(maps.p2s)
             IN  /\ RowsInserted(State(m, shown + grown, applying, broken \/ shift),
                                 grown = 0, source)
                 /\ spoiled' = (spoiled \/ shift)
    BY <1>7
  <2> DEFINE m == FilledMaps(maps, f)
             grown == LastIndex(m.p2s) - LastIndex(maps.p2s)
             bad == broken \/ shift
  <2>1. RowsInserted(State(m, shown + grown, applying, bad), grown = 0, source) /\ spoiled' = (spoiled \/ shift)
    OBVIOUS
  <2>2. AreMaps(m)
    <3>1. f \in [at .. last -> Nat]
      BY <1>1, NewCellsFree DEF AreMaps
    <3> QED BY <1>1, <3>1, FilledMapsType
  <2>3. LastIndex(m.p2s) \in Nat /\ LastIndex(maps.p2s) \in Nat
    BY <1>1, <2>2, LastIndexType DEF AreMaps, IsMap
  <2>4. ~bad => Fits(m, source, applying)
    <3> SUFFICES ASSUME ~broken, ~shift PROVE Fits(m, source, applying)
      OBVIOUS
    <3>1. Fits(maps, rows, applying)
      BY <1>7 DEF Fitting, StateFits, NextState, State
    <3>2. MutuallyInverse(maps) /\ DOMAIN maps.s2p = 0 .. at - 1
      BY <1>1, <1>7, <3>1 DEF Fits, RowsOf
    <3>3. MutuallyInverse(m) /\ DOMAIN m.s2p = 0 .. last
      BY <1>1, <3>2, FilledMapsFit
    <3>4. 0 .. last = RowsOf(source)
      BY <1>1 DEF RowsOf
    <3> QED BY <3>3, <3>4 DEF Fits
  <2> HIDE DEF m
  <2>5. bad \in BOOLEAN
    BY <1>1
  <2>6. ~spoiled' /\ ~applying => shown + grown >= LastIndex(m.p2s) + 1
    <3>1. ~spoiled' /\ ~applying => shown >= LastIndex(maps.p2s) + 1
      BY <1>7, <2>1 DEF ViewsMissNothing, RowCount
    <3> QED BY <1>1, <2>3, <3>1
  <2>7. shown + grown \in Int
    BY <1>1, <2>3
  <2> HIDE DEF bad, grown
  <2>8. StateType(State(m, shown + grown, applying, bad))
    BY <1>1, <2>2, <2>5, <2>7 DEF StateType, State
  <2>9. StateFits(State(m, shown + grown, applying, bad), source)
    BY <2>4 DEF StateFits, State
  <2>10. ~spoiled' => Shows(State(m, shown + grown, applying, bad), source)
    BY <1>7, <2>6 DEF Shows, State, RowCount
  <2>11. (bad => spoiled') /\ spoiled' \in BOOLEAN
    BY <1>1, <2>1, Zenon DEF bad, Fitting
  <2>12. Good(m, shown + grown, applying, bad)
    BY <1>7, <2>8, <2>9, <2>10, <2>11 DEF Good
  <2>13. (grown = 0) \in BOOLEAN
    OBVIOUS
  <2> QED BY <1>3, <2>1, <2>12, <2>13
<1>8. Goal
  BY <1>2, <1>4, <1>5, <1>6, <1>7 DEF SourceRowsInserted
<1> QED BY <1>2, <1>8 DEF Goal

LEMMA SourceRowsRemovedKeeps ==
  ASSUME Types, Fitting, ViewsMissNothing, NEW source, Listing(source),
         NEW first \in RowsOf(rows), NEW last \in RowsOf(rows), first <= last,
         Len(source) = Len(rows) - (last - first + 1), SourceRowsRemoved(first, last)
  PROVE  /\ StateType(NextState') /\ Flags' /\ spoiled' \in BOOLEAN
         /\ enabled => StateFits(NextState', source)
         /\ broken' => spoiled'
         /\ (enabled => ~spoiled') => Shows(NextState', source)
         /\ pending'
         /\ UNCHANGED <<enabled, perStripe, positions, applying, resetting>>
<1>1. /\ Len(rows) \in Nat /\ first \in Nat /\ last \in Nat
      /\ Len(source) = Len(rows) - (last - first + 1) /\ Len(source) \in Nat
      /\ AreMaps(maps) /\ shown \in Int /\ Flags
      /\ enabled \in BOOLEAN /\ applying \in BOOLEAN /\ broken \in BOOLEAN /\ spoiled \in BOOLEAN
  BY DEF Types, Listing, StateType, NextState, State, RowsOf
<1>2. UNCHANGED <<enabled, perStripe, positions, applying, resetting>> /\ QueueUpdate
  BY DEF SourceRowsRemoved
<1>3. Flags' /\ pending'
  BY <1>1, <1>2, QueueUpdateFlags DEF Flags
<1> DEFINE Goal == /\ StateType(NextState') /\ spoiled' \in BOOLEAN
                   /\ enabled => StateFits(NextState', source)
                   /\ broken' => spoiled'
                   /\ (enabled => ~spoiled') => Shows(NextState', source)
<1>4. ASSUME /\ ~enabled
             /\ shown' = shown - (last - first + 1)
             /\ UNCHANGED <<maps, broken, spoiled>>
      PROVE  Goal
  <2>1. shown' \in Int
    BY <1>1, <1>4
  <2>2. ~applying => shown' >= Len(source)
    <3>1. ~applying => shown >= Len(rows)
      BY <1>4 DEF ViewsMissNothing, RowCount
    <3> QED BY <1>1, <1>4, <3>1
  <2>3. StateType(NextState')
    BY <1>1, <1>2, <1>4, <2>1 DEF StateType, NextState, State
  <2>4. Shows(NextState', source)
    BY <1>2, <1>4, <2>2 DEF Shows, NextState, State, RowCount
  <2>5. (broken' => spoiled') /\ spoiled' \in BOOLEAN
    BY <1>1, <1>4, Zenon DEF Fitting
  <2> QED BY <1>4, <2>3, <2>4, <2>5
<1>5. ASSUME /\ enabled
             /\ maps' = RemoveRows(maps, first, last)
             /\ shown' = shown - RowsTakenFromView(LastIndex(maps.p2s), LastIndex(maps'.p2s),
                                                   last - first + 1)
             /\ broken' = (broken \/ first < last) /\ spoiled' = (spoiled \/ first < last)
      PROVE  Goal
  <2>1. AreMaps(maps')
    BY <1>1, <1>5, RemoveRowsType
  <2> DEFINE before == LastIndex(maps.p2s)
             after  == LastIndex(maps'.p2s)
  <2>2. before \in Nat /\ after \in Nat
    BY <1>1, <2>1, LastIndexType DEF AreMaps, IsMap
  <2>3. shown' = shown - (IF before > after THEN before - after ELSE 0)
    BY <1>5 DEF RowsTakenFromView
  <2>4. shown' \in Int
    <3> HIDE DEF before, after
    <3> QED BY <1>1, <2>2, <2>3
  <2>5. broken' \in BOOLEAN /\ spoiled' \in BOOLEAN /\ (broken' => spoiled')
    BY <1>1, <1>5, Zenon DEF Fitting
  <2>6. StateType(NextState')
    BY <1>1, <1>2, <2>1, <2>4, <2>5 DEF StateType, NextState, State
  <2>7. ~(first < last) => maps' = RemoveRow(maps, first)
    <3>1. ~(first < last) => first = last
      BY <1>1
    <3> QED BY <1>5, <3>1 DEF RemoveRows
  <2>8. StateFits(NextState', source)
    <3> SUFFICES ASSUME ~broken' PROVE Fits(maps', source, applying)
      BY <1>2 DEF StateFits, NextState, State
    <3>1. ~broken /\ ~(first < last)
      BY <1>5
    <3>2. Fits(maps, rows, applying)
      BY <1>5, <3>1 DEF Fitting, StateFits, NextState, State
    <3>3. Len(source) = Len(rows) - 1
      BY <1>1, <3>1
    <3> QED BY <1>1, <2>7, <3>1, <3>2, <3>3, RemoveRowFits DEF Types
  <2>9. ~spoiled' => Shows(NextState', source)
    <3> SUFFICES ASSUME ~spoiled', ~applying PROVE shown' >= after + 1
      BY <1>2, <1>5 DEF Shows, NextState, State, RowCount
    <3>1. ~spoiled /\ ~(first < last)
      BY <1>5
    <3>2. shown >= before + 1
      BY <1>5, <3>1 DEF ViewsMissNothing, RowCount
    <3> HIDE DEF before, after
    <3>3. after <= before
      <4>1. DOMAIN maps'.p2s \subseteq DOMAIN maps.p2s
        BY <2>7, <3>1 DEF RemoveRow
      <4>2. CASE DOMAIN maps'.p2s = {}
        <5>1. after = 0
          BY <4>2 DEF after, LastIndex
        <5> QED BY <2>2, <5>1
      <4>3. CASE DOMAIN maps'.p2s # {}
        <5>1. after \in DOMAIN maps'.p2s
          BY <2>1, <4>3, LastIndexType DEF after, AreMaps, IsMap
        <5> QED BY <1>1, <4>1, <5>1, LastIndexType DEF before, AreMaps, IsMap
      <4> QED BY <4>2, <4>3
    <3> QED BY <1>1, <2>2, <2>3, <3>2, <3>3
  <2> QED BY <1>5, <2>5, <2>6, <2>8, <2>9
<1>6. Goal
  BY <1>4, <1>5 DEF SourceRowsRemoved
<1> QED BY <1>2, <1>3, <1>6

LEMMA MoveTargetType ==
  ASSUME AreMaps(maps), NEW to \in Nat \cup {-1}
  PROVE  MoveTarget(to) \in Nat
<1> DEFINE free == IF DOMAIN maps.p2s = {} THEN {} ELSE (0 .. LastIndex(maps.p2s)) \ DOMAIN maps.p2s
<1>1. LastIndex(maps.p2s) \in Nat
  BY LastIndexType DEF AreMaps, IsMap
<1>2. free \subseteq Nat
  BY <1>1
<1>3. FirstFreeRow(maps.p2s) = IF free = {} THEN -1 ELSE CHOOSE c \in free : \A d \in free : c <= d
  BY DEF FirstFreeRow
<1> HIDE DEF free
<1>4. free # {} => FirstFreeRow(maps.p2s) \in Nat
  <2>1. free # {} => \E c \in free : \A d \in free : c <= d
    BY <1>2, Smallest
  <2> QED BY <1>2, <1>3, <2>1
<1>5. FirstFreeRow(maps.p2s) \in Nat \/ FirstFreeRow(maps.p2s) = -1
  BY <1>3, <1>4
<1> QED BY <1>1, <1>5 DEF MoveTarget

LEMMA MoveKeeps ==
  ASSUME Types, Fitting, ViewsMissNothing, enabled, NEW from, NEW to \in Nat \cup {-1}, Move(from, to)
  PROVE  /\ StateType(NextState') /\ Flags' /\ spoiled' \in BOOLEAN
         /\ StateFits(NextState', rows)
         /\ broken' => spoiled'
         /\ ~spoiled' => Shows(NextState', rows)
         /\ pending'
         /\ UNCHANGED <<enabled, perStripe, positions, applying, resetting>>
<1> DEFINE target == MoveTarget(to)
           before == LastIndex(maps.p2s) + 1
           after  == LastIndex(maps'.p2s) + 1
           onto   == target \in DOMAIN maps.p2s
           grown  == IF target < before THEN 0 ELSE target - before + 1
<1>1. /\ AreMaps(maps) /\ shown \in Int /\ Flags
      /\ applying \in BOOLEAN /\ broken \in BOOLEAN /\ spoiled \in BOOLEAN
  BY DEF Types, StateType, NextState, State
<1>2. /\ UNCHANGED <<enabled, perStripe, positions, applying, resetting>> /\ QueueUpdate
      /\ from \in DOMAIN maps.p2s
      /\ maps' = MovedMaps(from, target)
      /\ shown' = shown + grown - (IF after < before THEN before - after ELSE 0)
      /\ broken' = (broken \/ onto) /\ spoiled' = (spoiled \/ onto)
  BY DEF Move
<1>3. Flags' /\ pending'
  BY <1>1, <1>2, QueueUpdateFlags DEF Flags
<1>4. target \in Nat
  BY <1>1, MoveTargetType
<1>5. AreMaps(maps')
  BY <1>1, <1>2, <1>4, MovedMapsType
<1>6. before \in Nat /\ after \in Nat
  BY <1>1, <1>5, LastIndexType DEF AreMaps, IsMap
<1>7. DOMAIN maps'.p2s = (DOMAIN maps.p2s \ {from}) \cup {target}
  BY <1>2 DEF MovedMaps, With, Without
<1>8. \A c \in DOMAIN maps.p2s : c < before
  BY <1>1, LastIndexType DEF AreMaps, IsMap
<1>9. /\ \A c \in DOMAIN maps'.p2s : c < after
      /\ after - 1 \in DOMAIN maps'.p2s
  <2>1. DOMAIN maps'.p2s # {}
    BY <1>7
  <2>2. after - 1 = LastIndex(maps'.p2s) /\ LastIndex(maps'.p2s) \in Nat
    BY <1>5, LastIndexType DEF AreMaps, IsMap
  <2> HIDE DEF after
  <2>3. LastIndex(maps'.p2s) \in DOMAIN maps'.p2s /\ \A c \in DOMAIN maps'.p2s : c \in Nat /\ c <= LastIndex(maps'.p2s)
    BY <1>5, <2>1, LastIndexType DEF AreMaps, IsMap
  <2> QED BY <1>6, <2>2, <2>3
<1> HIDE DEF target, before, after
<1>10. /\ target < before => after <= before
       /\ target >= before => after = target + 1
  <2>1. after - 1 = target \/ after - 1 < before
    BY <1>7, <1>8, <1>9
  <2>2. target < after
    BY <1>7, <1>9
  <2> QED BY <1>4, <1>6, <2>1, <2>2
<1>11. broken' \in BOOLEAN /\ spoiled' \in BOOLEAN /\ (broken' => spoiled')
  BY <1>1, <1>2, Zenon DEF Fitting
<1>12. shown' \in Int
  BY <1>1, <1>2, <1>4, <1>6
<1>13. StateType(NextState')
  BY <1>1, <1>2, <1>5, <1>11, <1>12 DEF StateType, NextState, State
<1>14. StateFits(NextState', rows)
  <2> SUFFICES ASSUME ~broken' PROVE Fits(maps', rows, applying)
    BY <1>2 DEF StateFits, NextState, State
  <2>1. ~broken /\ target \notin DOMAIN maps.p2s
    BY <1>2
  <2>2. Fits(maps, rows, applying)
    BY <2>1 DEF Fitting, StateFits, NextState, State
  <2> QED BY <1>2, <2>1, <2>2, MovedMapsFit
<1>15. ~spoiled' => Shows(NextState', rows)
  <2> SUFFICES ASSUME ~spoiled', ~applying PROVE shown' >= after
    BY <1>2 DEF Shows, NextState, State, RowCount, after
  <2>1. ~spoiled
    BY <1>2
  <2>2. shown >= before
    BY <2>1 DEF ViewsMissNothing, RowCount, before
  <2> QED BY <1>1, <1>2, <1>4, <1>6, <1>10, <2>2
<1> QED BY <1>2, <1>3, <1>11, <1>13, <1>14, <1>15

-----------------------------------------------------------------------------
(* The inductive invariant.                                                *)

\* What is saved fits in its stripes, and no two entries are for one cell.
SavedCells ==
  \A e \in positions.items :
    /\ e.pos < positions.per
    /\ \A d \in positions.items : CellOf(d, positions.per) = CellOf(e, positions.per) => d = e

FolderInv == Types /\ Fitting /\ SavedCells /\ SavedIsCurrent /\ ViewsMissNothing

\* A step that a signal of the folder model or a move causes: rows, maps and what the
\* views were told of change, what is saved does not, and a save is due after it.
LEMMA SignalStep ==
  ASSUME FolderInv, Listing(rows'), StateType(NextState'), Flags', spoiled' \in BOOLEAN,
         enabled => StateFits(NextState', rows'), broken' => spoiled',
         (enabled => ~spoiled') => Shows(NextState', rows'),
         ~applying' => pending',
         UNCHANGED <<enabled, perStripe, positions>>,
         dragRows' \subseteq Nat, urls' \in Seq(Items), moving' \in Seq(Items),
         (urls' # <<>> \/ moving' # <<>>) => dragRows' # {},
         moving' # <<>> => enabled
  PROVE  FolderInv'
<1>1. Types'
  BY DEF FolderInv, Types, Positions
<1>2. Fitting'
  BY DEF Fitting, StateFits, NextState, State
<1>3. SavedCells'
  BY DEF FolderInv, SavedCells
<1>4. SavedIsCurrent'
  BY DEF SavedIsCurrent
<1>5. ViewsMissNothing'
  BY DEF ViewsMissNothing, Shows, NextState, State
<1> QED BY <1>1, <1>2, <1>3, <1>4, <1>5 DEF FolderInv

LEMMA InsertStep ==
  ASSUME FolderInv, NEW at \in 0 .. Len(rows), NEW n \in Nat, n > 0,
         NEW batch \in [1 .. n -> Items \ ItemsIn(rows)],
         \A i, j \in 1 .. n : i # j => batch[i] # batch[j],
         InsertRows(at, batch)
  PROVE  FolderInv'
<1>1. rows' = SubSeq(rows, 1, at) \o batch \o SubSeq(rows, at + 1, Len(rows))
  BY DEF InsertRows
<1>2. Listing(rows') /\ Len(rows') = Len(rows) + n
  BY <1>1, InsertedRows DEF FolderInv, Types
<1>3. Len(batch) = n
  OBVIOUS
<1>4. SourceRowsInserted(at, at + n - 1, rows') /\ UNCHANGED <<dragRows, urls, moving>>
  BY <1>3 DEF InsertRows
<1>5. /\ StateType(NextState') /\ Flags' /\ spoiled' \in BOOLEAN
      /\ enabled => StateFits(NextState', rows')
      /\ broken' => spoiled'
      /\ (enabled => ~spoiled') => Shows(NextState', rows')
      /\ ~applying' => pending'
      /\ UNCHANGED <<enabled, perStripe, positions>>
  BY <1>2, <1>4, SourceRowsInsertedKeeps DEF FolderInv
<1>6. /\ dragRows' \subseteq Nat /\ urls' \in Seq(Items) /\ moving' \in Seq(Items)
      /\ (urls' # <<>> \/ moving' # <<>>) => dragRows' # {}
      /\ moving' # <<>> => enabled
  BY <1>4 DEF FolderInv, Types
<1> QED BY <1>2, <1>5, <1>6, SignalStep

LEMMA ArrivesStep ==
  ASSUME FolderInv
  PROVE  ItemsArrive \/ FilterShows \/ SortedItemArrives => FolderInv'
<1>1. Listing(rows) /\ Len(rows) \in Nat
  BY DEF FolderInv, Types, Listing
<1>2. ASSUME ItemsArrive PROVE FolderInv'
  <2>1. PICK n \in 1 .. MaxBatch : \E batch \in [1 .. n -> Items \ ItemsIn(rows)] :
               /\ \A i, j \in 1 .. n : i # j => batch[i] # batch[j]
               /\ InsertRows(Len(rows), batch)
    BY <1>2 DEF ItemsArrive
  <2>2. PICK batch \in [1 .. n -> Items \ ItemsIn(rows)] :
               /\ \A i, j \in 1 .. n : i # j => batch[i] # batch[j]
               /\ InsertRows(Len(rows), batch)
    BY <2>1
  <2>3. n \in Nat /\ n > 0 /\ Len(rows) \in 0 .. Len(rows)
    BY <1>1, FolderAssumption
  <2> QED BY <2>2, <2>3, InsertStep
<1>3. ASSUME NEW x \in Items \ ItemsIn(rows), NEW at \in 0 .. Len(rows), InsertRows(at, <<x>>)
      PROVE  FolderInv'
  <2>1. <<x>> \in [1 .. 1 -> Items \ ItemsIn(rows)] /\ \A i, j \in 1 .. 1 : i # j => <<x>>[i] # <<x>>[j]
    OBVIOUS
  <2>2. 1 \in Nat /\ 1 > 0
    OBVIOUS
  <2> QED BY <1>3, <2>1, <2>2, InsertStep
<1>4. ASSUME FilterShows PROVE FolderInv'
  BY <1>3, <1>4 DEF FilterShows
<1>5. ASSUME SortedItemArrives PROVE FolderInv'
  <2>1. PICK x \in Items \ ItemsIn(rows) : InsertRows(Cardinality({y \in ItemsIn(rows) : y < x}), <<x>>)
    BY <1>5 DEF SortedItemArrives
  <2>2. Cardinality({y \in ItemsIn(rows) : y < x}) \in 0 .. Len(rows)
    <3>1. IsFiniteSet(ItemsIn(rows))
      BY <1>1, ItemsFinite
    <3>2. {y \in ItemsIn(rows) : y < x} \subseteq ItemsIn(rows)
      OBVIOUS
    <3>3. /\ Cardinality({y \in ItemsIn(rows) : y < x}) \in Nat /\ Cardinality(ItemsIn(rows)) \in Nat
          /\ Cardinality({y \in ItemsIn(rows) : y < x}) <= Cardinality(ItemsIn(rows))
      BY <3>1, <3>2, FS_Subset, FS_CardinalityType
    <3>4. Cardinality(ItemsIn(rows)) <= Len(rows)
      <4>3. rows \in Seq(Items) /\ ItemsIn(rows) \subseteq Items
        BY <1>1, ItemsFinite DEF Listing
      <4>4. rows \in Surjection(1 .. Len(rows), ItemsIn(rows))
        BY <4>3 DEF ItemsIn, Surjection
      <4>1. rows \in Surjection(1 .. Len(rows), ItemsIn(rows)) /\ IsFiniteSet(1 .. Len(rows))
        BY <1>1, <4>4, FS_Interval
      <4>2. Cardinality(1 .. Len(rows)) = Len(rows)
        BY <1>1, FS_Interval
      <4> QED BY <4>1, <4>2, FS_Surjection
    <3> QED BY <1>1, <3>3, <3>4
  <2> QED BY <1>3, <2>1, <2>2
<1> QED BY <1>2, <1>4, <1>5

\* Rows leave: the ones from first to last.
LEMMA LeaveFacts ==
  ASSUME Listing(rows), ItemsLeave
  PROVE  /\ Listing(rows') /\ Len(rows') < Len(rows)
         /\ \E first, last \in RowsOf(rows) :
              /\ first <= last
              /\ rows' = SubSeq(rows, 1, first) \o SubSeq(rows, last + 2, Len(rows))
              /\ SourceRowsRemoved(first, last)
<1>1. Len(rows) \in Nat
  BY DEF Listing
<1>2. PICK first \in RowsOf(rows) : \E n \in 1 .. MaxBatch :
         LET last == first + n - 1 IN
         /\ last \in RowsOf(rows)
         /\ rows' = SubSeq(rows, 1, first) \o SubSeq(rows, last + 2, Len(rows))
         /\ SourceRowsRemoved(first, last)
  BY DEF ItemsLeave
<1>3. PICK n \in 1 .. MaxBatch :
         LET last == first + n - 1 IN
         /\ last \in RowsOf(rows)
         /\ rows' = SubSeq(rows, 1, first) \o SubSeq(rows, last + 2, Len(rows))
         /\ SourceRowsRemoved(first, last)
  BY <1>2
<1> DEFINE last == first + n - 1
<1>4. last \in RowsOf(rows) /\ first <= last
  BY <1>1, <1>3, FolderAssumption DEF RowsOf
<1>5. rows' = SubSeq(rows, 1, first) \o SubSeq(rows, last + 2, Len(rows)) /\ SourceRowsRemoved(first, last)
  BY <1>3
<1> HIDE DEF last
<1>6. Listing(rows') /\ Len(rows') = Len(rows) - (last - first + 1)
  BY <1>1, <1>4, <1>5, RowsLeft
<1>7. Len(rows') < Len(rows)
  BY <1>1, <1>4, <1>6 DEF RowsOf
<1> QED BY <1>4, <1>5, <1>6, <1>7

LEMMA LeaveStep ==
  ASSUME FolderInv, ItemsLeave
  PROVE  FolderInv'
<1>1. Listing(rows) /\ Len(rows) \in Nat
  BY DEF FolderInv, Types, Listing
<1>4. PICK first, last \in RowsOf(rows) :
          /\ first <= last
          /\ rows' = SubSeq(rows, 1, first) \o SubSeq(rows, last + 2, Len(rows))
          /\ SourceRowsRemoved(first, last)
  BY <1>1, LeaveFacts
<1>5. SourceRowsRemoved(first, last)
  BY <1>4
<1>6. Listing(rows') /\ Len(rows') = Len(rows) - (last - first + 1)
  BY <1>1, <1>4, RowsLeft
<1>7. /\ StateType(NextState') /\ Flags' /\ spoiled' \in BOOLEAN
      /\ enabled => StateFits(NextState', rows')
      /\ broken' => spoiled'
      /\ (enabled => ~spoiled') => Shows(NextState', rows')
      /\ pending'
      /\ UNCHANGED <<enabled, perStripe, positions, applying, resetting>>
  BY <1>4, <1>5, <1>6, SourceRowsRemovedKeeps DEF FolderInv
<1>8. UNCHANGED <<dragRows, urls, moving>>
  BY DEF ItemsLeave
<1>9. /\ dragRows' \subseteq Nat /\ urls' \in Seq(Items) /\ moving' \in Seq(Items)
      /\ (urls' # <<>> \/ moving' # <<>>) => dragRows' # {}
      /\ moving' # <<>> => enabled
  BY <1>8 DEF FolderInv, Types
<1> QED BY <1>6, <1>7, <1>9, SignalStep

\* The maps and the count that enabling, disabling or a reset leave.
LEMMA InitialState ==
  ASSUME NEW source, Listing(source), NEW apply \in BOOLEAN
  PROVE  LET m == InitMaps(Len(source) - 1) IN
         /\ AreMaps(m)
         /\ Fits(m, source, apply)
         /\ RowCount(m, source, TRUE) \in Int /\ Len(source) \in Int
BY InitMapsType, InitMapsFit, LastIndexType DEF Listing, RowCount, AreMaps, IsMap

LEMMA SetEnabledKeeps ==
  ASSUME FolderInv, NEW on \in BOOLEAN, Listing(rows'), SetEnabled(on, rows'),
         dragRows' \subseteq Nat, urls' \in Seq(Items), moving' \in Seq(Items),
         (urls' # <<>> \/ moving' # <<>>) => dragRows' # {},
         moving' # <<>> => on
  PROVE  FolderInv'
<1> DEFINE m == IF on THEN InitMaps(Len(rows') - 1) ELSE maps
<1>1. /\ enabled' = on /\ maps' = m /\ shown' = RowCount(m, rows', on)
      /\ broken' = (broken /\ ~on)
      /\ UNCHANGED <<perStripe, positions, applying, resetting, spoiled>>
      /\ IF rows' # <<>> THEN QueueUpdate ELSE UNCHANGED <<pending, queued>>
  BY DEF SetEnabled
<1>2. /\ AreMaps(maps) /\ Flags /\ applying \in BOOLEAN /\ broken \in BOOLEAN /\ spoiled \in BOOLEAN
      /\ perStripe \in Stripes \cup {0} /\ Positions
  BY DEF FolderInv, Types, StateType, NextState, State
<1>3. Flags' /\ (rows' # <<>> => pending')
  BY <1>1, <1>2, QueueUpdateFlags DEF Flags
<1>4. on => Fits(m, rows', applying)
  BY <1>2, InitialState
<1>5. AreMaps(m) /\ shown' \in Int
  BY <1>1, <1>2, InitialState DEF RowCount
<1> HIDE DEF m
<1>6. broken' \in BOOLEAN /\ (broken' => spoiled) /\ (broken' => ~on)
  BY <1>1, <1>2, Zenon DEF FolderInv, Fitting
<1>7. StateType(NextState')
  BY <1>1, <1>2, <1>5, <1>6 DEF StateType, NextState, State
<1>8. Types'
  BY <1>1, <1>2, <1>3, <1>7 DEF Types, Positions
<1>9. Fitting'
  BY <1>1, <1>4, <1>6 DEF Fitting, StateFits, NextState, State
<1>10. SavedCells'
  BY <1>1 DEF FolderInv, SavedCells
<1>11. SavedIsCurrent'
  <2>1. CASE rows' # <<>>
    BY <1>3, <2>1 DEF SavedIsCurrent
  <2>2. CASE rows' = <<>> /\ on
    <3>1. Len(rows') - 1 = -1
      BY <2>2
    <3>2. m.p2s = [i \in 0 .. -1 |-> i]
      BY <2>2, <3>1 DEF m, InitMaps
    <3>3. DOMAIN maps'.p2s = {}
      BY <1>1, <3>2
    <3> QED BY <3>3 DEF SavedIsCurrent
  <2>3. CASE ~on
    BY <1>1, <2>3 DEF SavedIsCurrent
  <2> QED BY <2>1, <2>2, <2>3
<1>12. ViewsMissNothing'
  <2>1. shown' = RowCount(maps, rows, enabled)'
    BY <1>1 DEF RowCount
  <2> QED BY <1>5, <2>1 DEF ViewsMissNothing
<1> QED BY <1>8, <1>9, <1>10, <1>11, <1>12 DEF FolderInv

LEMMA ResetKeeps ==
  ASSUME FolderInv, Listing(rows'), Reset(rows'), UNCHANGED <<dragRows, urls, moving, spoiled>>,
         pending' \in BOOLEAN, queued' \in BOOLEAN
  PROVE  FolderInv'
<1> DEFINE m == InitMaps(Len(rows') - 1)
<1>1. /\ resetting' = TRUE /\ maps' = m /\ broken' = FALSE /\ shown' = RowCount(m, rows', enabled)
      /\ positions' = [positions EXCEPT !.items = {}]
      /\ UNCHANGED <<enabled, perStripe, applying>>
  BY DEF Reset
<1>2. /\ applying \in BOOLEAN /\ spoiled \in BOOLEAN /\ Positions
  BY DEF FolderInv, Types, StateType, NextState, State
<1>3. AreMaps(m) /\ Fits(m, rows', applying) /\ shown' \in Int
  BY <1>1, <1>2, InitialState DEF RowCount
<1>4. positions'.items = {} /\ positions' \in [per : Nat, items : SUBSET Entries]
  BY <1>1, <1>2 DEF Positions
<1> HIDE DEF m
<1>5. broken' \in BOOLEAN /\ resetting' \in BOOLEAN
  BY <1>1
<1>6. StateType(NextState')
  BY <1>1, <1>2, <1>3, <1>5 DEF StateType, NextState, State
<1>7. Positions'
  BY <1>4, FS_EmptySet DEF Positions
<1>8. Types'
  BY <1>1, <1>5, <1>6, <1>7 DEF FolderInv, Types, Flags
<1>9. Fitting'
  BY <1>1, <1>3 DEF Fitting, StateFits, NextState, State
<1>10. SavedCells' /\ SavedIsCurrent'
  BY <1>4 DEF SavedCells, SavedIsCurrent
<1>11. ViewsMissNothing'
  <2>1. shown' = RowCount(maps, rows, enabled)'
    BY <1>1 DEF RowCount
  <2> QED BY <1>3, <2>1 DEF ViewsMissNothing
<1> QED BY <1>8, <1>9, <1>10, <1>11 DEF FolderInv

LEMMA UserChangesStep ==
  ASSUME FolderInv
  PROVE  SortModeChanges \/ UrlChanges \/ DirectionChanges => FolderInv'
<1>1. Listing(rows) /\ Flags /\ enabled \in BOOLEAN /\ Listing(<<>>)
  BY DEF FolderInv, Types, Listing, Distinct
<1>2. ASSUME SortModeChanges PROVE FolderInv'
  <2>1. /\ rows' = IF enabled THEN SortedSeq(ItemsIn(rows)) ELSE rows
        /\ SetEnabled(~enabled, rows') /\ UNCHANGED <<dragRows, urls, moving>> /\ moving = <<>>
    BY <1>2 DEF SortModeChanges, Idle
  <2>2. Listing(SortedSeq(ItemsIn(rows)))
    BY <1>1, ItemsFinite, SortedRows
  <2>3. Listing(rows')
    BY <1>1, <2>1, <2>2
  <2>4. /\ dragRows' \subseteq Nat /\ urls' \in Seq(Items) /\ moving' \in Seq(Items)
        /\ (urls' # <<>> \/ moving' # <<>>) => dragRows' # {}
        /\ moving' # <<>> => ~enabled
    BY <2>1 DEF FolderInv, Types
  <2>5. (~enabled) \in BOOLEAN
    OBVIOUS
  <2> QED BY <2>1, <2>3, <2>4, <2>5, SetEnabledKeeps
<1>3. ASSUME UrlChanges PROVE FolderInv'
  <2>1. /\ rows' = <<>> /\ Reset(rows')
        /\ IF rows # <<>> THEN QueueUpdate ELSE UNCHANGED <<pending, queued>>
        /\ UNCHANGED <<dragRows, urls, moving, spoiled>>
    BY <1>3 DEF UrlChanges
  <2>2. pending' \in BOOLEAN /\ queued' \in BOOLEAN
    BY <1>1, <2>1, QueueUpdateFlags DEF Flags
  <2>3. Listing(rows')
    BY <1>1, <2>1
  <2> QED BY <2>1, <2>2, <2>3, ResetKeeps
<1>4. ASSUME DirectionChanges PROVE FolderInv'
  <2>1. Reset(rows) /\ UNCHANGED <<rows, dragRows, urls, moving, pending, queued, spoiled>>
    BY <1>4 DEF DirectionChanges
  <2>2. Reset(rows') /\ Listing(rows') /\ pending' \in BOOLEAN /\ queued' \in BOOLEAN
    BY <1>1, <2>1 DEF Flags
  <2> QED BY <2>1, <2>2, ResetKeeps
<1> QED BY <1>2, <1>3, <1>4

LEMMA SizeStep ==
  ASSUME FolderInv, SizeChanges
  PROVE  FolderInv'
<1>1. PICK per \in Stripes : SetPerStripe(per)
  BY DEF SizeChanges
<1>2. UNCHANGED folderVars
  BY DEF SizeChanges
<1>3. perStripe' = per /\ UNCHANGED <<enabled, positions, spoiled>> /\ per \in Nat
  BY <1>1, StripesAssumption DEF SetPerStripe
<1>4. /\ Listing(rows) /\ Listing(rows') /\ rows' = rows /\ Flags /\ Positions /\ StateType(NextState)
      /\ enabled \in BOOLEAN /\ spoiled \in BOOLEAN
  BY <1>2 DEF FolderInv, Types, folderVars
<1>5. ASSUME enabled, ApplyPositions(State(maps, shown, applying, broken), per, rows), QueueUpdate
      PROVE  FolderInv'
  <2>1. ApplyPositions(NextState, per, rows)
    BY <1>5 DEF NextState
  <2>2. /\ StateType(NextState') /\ resetting' \in BOOLEAN
        /\ StateFits(NextState, rows) => StateFits(NextState', rows)
        /\ Shows(NextState, rows) => Shows(NextState', rows)
        /\ broken' => NextState.broken
    BY <1>3, <1>4, <2>1, ApplyPositionsFits DEF Flags
  <2>3. Flags' /\ pending'
    BY <1>4, <1>5, <2>2, QueueUpdateFlags DEF Flags
  <2>4. Types'
    BY <1>2, <1>3, <1>4, <2>2, <2>3 DEF FolderInv, Types, folderVars, Positions
  <2>5. broken' => broken
    BY <2>2 DEF NextState, State
  <2>6. Fitting'
    <3>1. StateFits(NextState', rows)
      BY <1>5, <2>2 DEF FolderInv, Fitting
    <3>2. StateFits(NextState, rows)'
      BY <1>4, <3>1 DEF StateFits
    <3>3. broken' => spoiled'
      BY <1>3, <2>5 DEF FolderInv, Fitting
    <3> QED BY <3>2, <3>3 DEF Fitting
  <2>7. SavedCells' /\ SavedIsCurrent'
    BY <1>3, <2>3 DEF FolderInv, SavedCells, SavedIsCurrent
  <2>8. ViewsMissNothing'
    <3> SUFFICES ASSUME ~applying', ~spoiled PROVE shown' >= RowCount(maps', rows', enabled')
      BY <1>3, <1>5 DEF ViewsMissNothing
    <3>1. Shows(NextState, rows)
      BY DEF FolderInv, ViewsMissNothing, Shows, NextState, State
    <3>2. Shows(NextState', rows)
      BY <2>2, <3>1
    <3> QED BY <1>3, <1>4, <3>2 DEF Shows, NextState, State
  <2> QED BY <2>4, <2>6, <2>7, <2>8 DEF FolderInv
<1>6. ASSUME ~(enabled /\ per > 0),
             UNCHANGED <<maps, shown, broken, applying, resetting, pending, queued>>
      PROVE  FolderInv'
  <2>1. StateType(NextState')
    BY <1>4, <1>6 DEF NextState, StateType, State
  <2>2. Types'
    BY <1>2, <1>3, <1>6, <2>1 DEF FolderInv, Types, folderVars, Positions, Flags
  <2>3. Fitting'
    BY <1>3, <1>4, <1>6 DEF FolderInv, Fitting, StateFits, NextState, State
  <2>4. SavedCells'
    BY <1>3 DEF FolderInv, SavedCells
  <2>5. SavedIsCurrent'
    BY <1>3, <1>6 DEF SavedIsCurrent
  <2>6. ViewsMissNothing'
    BY <1>3, <1>4, <1>6 DEF FolderInv, ViewsMissNothing, RowCount
  <2> QED BY <2>2, <2>3, <2>4, <2>5, <2>6 DEF FolderInv
<1> QED BY <1>1, <1>5, <1>6 DEF SetPerStripe

LEMMA SavedType ==
  ASSUME IsMap(maps.p2s), Listing(rows), NEW per \in Nat, per > 0, Cells(maps.p2s) \subseteq RowsOf(rows)
  PROVE  LET S == Saved(maps.p2s, rows, per) IN
         /\ S \subseteq Entries /\ IsFiniteSet(S)
         /\ \A e \in S : /\ e.pos < per
                         /\ \A d \in S : CellOf(d, per) = CellOf(e, per) => d = e
<1> DEFINE p2s == maps.p2s
           entry(c) == [name |-> rows[p2s[c] + 1], stripe |-> c \div per, pos |-> c % per]
           S == {entry(c) : c \in DOMAIN p2s}
<1>1. Saved(maps.p2s, rows, per) = S
  BY DEF Saved
<1>2. ASSUME NEW c \in DOMAIN p2s
      PROVE  entry(c) \in Entries /\ entry(c).pos < per /\ CellOf(entry(c), per) = c
  <2>1. c \in Nat /\ p2s[c] \in RowsOf(rows)
    BY DEF IsMap, Cells
  <2>2. c \div per \in Nat /\ c % per \in Nat /\ c % per < per /\ (c \div per) * per + (c % per) = c
    BY <2>1, DivMod
  <2>3. rows[p2s[c] + 1] \in Items
    <3>1. p2s[c] + 1 \in 1 .. Len(rows)
      BY <2>1 DEF RowsOf, Listing
    <3> QED BY <3>1 DEF Listing
  <2> QED BY <2>2, <2>3 DEF Entries, CellOf
<1>3. IsFiniteSet(S)
  <2>1. [c \in DOMAIN p2s |-> entry(c)] \in Surjection(DOMAIN p2s, S)
    BY DEF Surjection
  <2>2. IsFiniteSet(DOMAIN p2s)
    BY DEF IsMap
  <2> HIDE DEF S, p2s
  <2> QED BY <2>1, <2>2, FS_Surjection
<1> HIDE DEF entry, p2s
<1>4. \A e \in S : \E c \in DOMAIN p2s : e = entry(c)
  OBVIOUS
<1>5. \A e \in S : e \in Entries /\ e.pos < per
  BY <1>2, <1>4
<1>6. ASSUME NEW d \in S, NEW e \in S, CellOf(d, per) = CellOf(e, per) PROVE d = e
  BY <1>2, <1>4, <1>6
<1> QED BY <1>1, <1>3, <1>5, <1>6

LEMMA UpdatesStep ==
  ASSUME FolderInv, Updates
  PROVE  FolderInv'
<1>1. /\ UpdatePositions /\ UNCHANGED folderVars
      /\ UNCHANGED <<enabled, perStripe, maps, applying, resetting, shown, broken, spoiled>>
      /\ queued' = FALSE
  BY DEF Updates, UpdatePositions
<1>2. /\ Listing(rows) /\ Flags /\ Positions /\ StateType(NextState) /\ perStripe \in Nat
      /\ enabled \in BOOLEAN /\ spoiled \in BOOLEAN
  BY StripesAssumption DEF FolderInv, Types
<1>3. Fitting' /\ ViewsMissNothing'
  BY <1>1 DEF FolderInv, Fitting, StateFits, NextState, State, ViewsMissNothing, folderVars
<1>4. NextState' = NextState
  BY <1>1 DEF NextState
<1>5. queued' \in BOOLEAN /\ resetting' \in BOOLEAN
  BY <1>1, <1>2 DEF Flags
<1>6. ASSUME Positions', SavedCells', SavedIsCurrent', pending' \in BOOLEAN PROVE FolderInv'
  <2>1. StateType(NextState)'
    BY <1>2, <1>4 DEF StateType
  <2>2. Types'
    BY <1>1, <1>5, <1>6, <2>1 DEF FolderInv, Types, folderVars, Flags
  <2> QED BY <1>3, <1>6, <2>2 DEF FolderInv
<1>7. CASE NothingToSave
  <2>3. perStripe = 0
    BY <1>2, <1>7 DEF NothingToSave
  <2>4. perStripe' = perStripe
    BY <1>1
  <2>5. pending' \in BOOLEAN /\ UNCHANGED positions
    BY <1>7 DEF NothingToSave
  <2>1. perStripe' = 0 /\ pending' \in BOOLEAN /\ UNCHANGED positions
    BY <2>3, <2>4, <2>5
  <2>2. Positions' /\ SavedCells' /\ SavedIsCurrent'
    BY <1>2, <2>1 DEF FolderInv, Positions, SavedCells, SavedIsCurrent
  <2> QED BY <1>6, <2>1, <2>2
<1>8. CASE UNCHANGED <<positions, pending>>
  <2>1. Positions' /\ SavedCells' /\ SavedIsCurrent' /\ pending' \in BOOLEAN
    BY <1>1, <1>2, <1>8 DEF FolderInv, Positions, SavedCells, SavedIsCurrent, Flags, folderVars
  <2> QED BY <1>6, <2>1
<1>9. CASE /\ perStripe >= 1
           /\ enabled => Cells(maps.p2s) \subseteq RowsOf(rows)
           /\ positions' = [per   |-> perStripe,
                            items |-> IF enabled THEN Saved(maps.p2s, rows, perStripe) ELSE {}]
           /\ pending' = FALSE
  <2> DEFINE S == IF enabled THEN Saved(maps.p2s, rows, perStripe) ELSE {}
  <2>1. /\ S \subseteq Entries /\ IsFiniteSet(S)
        /\ \A e \in S : /\ e.pos < perStripe
                        /\ \A d \in S : CellOf(d, perStripe) = CellOf(e, perStripe) => d = e
    <3>1. CASE ~enabled
      BY <3>1, FS_EmptySet
    <3>2. CASE enabled
      <4>1. IsMap(maps.p2s)
        BY <1>2 DEF StateType, NextState, State, AreMaps
      <4>2. perStripe > 0
        BY <1>2, <1>9
      <4> QED BY <1>2, <1>9, <3>2, <4>1, <4>2, SavedType
    <3> QED BY <3>1, <3>2
  <2>2. positions' = [per |-> perStripe, items |-> S]
    BY <1>9
  <2>3. enabled => S = Saved(maps.p2s, rows, perStripe)
    OBVIOUS
  <2> HIDE DEF S
  <2>4. Positions' /\ SavedCells'
    BY <1>2, <2>1, <2>2 DEF Positions, SavedCells
  <2>5. SavedIsCurrent'
    BY <1>1, <2>2, <2>3 DEF SavedIsCurrent, folderVars
  <2>6. pending' \in BOOLEAN
    BY <1>9
  <2> QED BY <1>6, <2>4, <2>5, <2>6
<1> QED BY <1>1, <1>7, <1>8, <1>9 DEF UpdatePositions

\* Steps of a drag that leave the positions alone.
LEMMA DragKeeps ==
  ASSUME FolderInv, UNCHANGED <<rows, positionerVars>>,
         dragRows' \subseteq Nat, urls' \in Seq(Items), moving' \in Seq(Items),
         (urls' # <<>> \/ moving' # <<>>) => dragRows' # {},
         moving' # <<>> => enabled
  PROVE  FolderInv'
<1>1. Types'
  <2>1. StateType(NextState)' /\ Flags' /\ Positions'
    BY DEF FolderInv, Types, StateType, NextState, State, Flags, Positions, positionerVars
  <2> QED BY <2>1 DEF FolderInv, Types, positionerVars
<1>2. Fitting' /\ SavedCells' /\ SavedIsCurrent' /\ ViewsMissNothing'
  BY DEF FolderInv, Fitting, StateFits, NextState, State, SavedCells, SavedIsCurrent, ViewsMissNothing,
         positionerVars
<1> QED BY <1>1, <1>2 DEF FolderInv

LEMMA DragStep ==
  ASSUME FolderInv
  PROVE  DragStarts \/ Drop \/ DragEnds => FolderInv'
<1>1. /\ Listing(rows) /\ Len(rows) \in Nat /\ dragRows \subseteq Nat /\ urls \in Seq(Items) /\ moving \in Seq(Items)
      /\ (urls # <<>> \/ moving # <<>>) => dragRows # {}
      /\ enabled \in BOOLEAN /\ <<>> \in Seq(Items)
  BY DEF FolderInv, Types, Listing
<1>2. ASSUME DragStarts PROVE FolderInv'
  <2>1. PICK S \in (SUBSET RowsOf(rows)) \ {{}} :
          /\ dragRows' = S
          /\ urls' = LET order == SortedSeq(S) IN [k \in 1 .. Cardinality(S) |-> rows[order[k] + 1]]
    BY <1>2 DEF DragStarts
  <2>2. UNCHANGED <<rows, moving, positionerVars>> /\ moving = <<>>
    BY <1>2 DEF DragStarts, Idle
  <2>3. S \subseteq Nat /\ S \subseteq RowsOf(rows) /\ S \subseteq Int /\ IsFiniteSet(S) /\ S # {}
    <3>1. Len(rows) - 1 \in Int /\ 0 \in Int /\ RowsOf(rows) = 0 .. Len(rows) - 1
      BY <1>1 DEF RowsOf
    <3>2. IsFiniteSet(RowsOf(rows))
      BY <3>1, FS_Interval
    <3>3. RowsOf(rows) \subseteq Nat
      BY <3>1
    <3>4. S \subseteq RowsOf(rows) /\ S # {}
      BY <2>1
    <3> QED BY <3>2, <3>3, <3>4, FS_Subset
  <2> DEFINE order == SortedSeq(S)
             k == Cardinality(S)
  <2>4. k \in Nat /\ order \in [1 .. k -> S]
    BY <2>3, Sorted
  <2> HIDE DEF order, k
  <2>5. \A i \in 1 .. k : rows[order[i] + 1] \in Items
    <3> SUFFICES ASSUME NEW i \in 1 .. k PROVE rows[order[i] + 1] \in Items
      OBVIOUS
    <3>1. order[i] + 1 \in 1 .. Len(rows)
      <4>1. order[i] \in RowsOf(rows)
        BY <2>3, <2>4
      <4> QED BY <1>1, <4>1 DEF RowsOf
    <3> QED BY <1>1, <3>1 DEF Listing
  <2>6. urls' = [i \in 1 .. k |-> rows[order[i] + 1]]
    BY <2>1 DEF order, k
  <2>7. urls' \in Seq(Items)
    BY <2>4, <2>5, <2>6
  <2> QED BY <1>1, <2>1, <2>2, <2>3, <2>7, DragKeeps
<1>3. ASSUME Drop PROVE FolderInv'
  <2>1. /\ urls # <<>> /\ moving' = urls /\ urls' = <<>> /\ UNCHANGED <<rows, dragRows>>
        /\ IF enabled THEN UNCHANGED positionerVars ELSE SetEnabled(TRUE, rows)
    BY <1>3 DEF Drop
  <2>2. CASE enabled
    BY <1>1, <2>1, <2>2, DragKeeps
  <2>3. CASE ~enabled
    <3>1. SetEnabled(TRUE, rows') /\ Listing(rows') /\ TRUE \in BOOLEAN
      BY <1>1, <2>1, <2>3
    <3> QED BY <1>1, <2>1, <3>1, SetEnabledKeeps
  <2> QED BY <2>2, <2>3
<1>4. ASSUME DragEnds PROVE FolderInv'
  <2>1. dragRows' = {} /\ urls' = <<>> /\ UNCHANGED <<rows, moving, positionerVars>> /\ moving = <<>>
    BY <1>4 DEF DragEnds, Idle
  <2> QED BY <1>1, <2>1, DragKeeps
<1> QED BY <1>2, <1>3, <1>4

LEMMA MoveStep ==
  ASSUME FolderInv, MoveNext
  PROVE  FolderInv'
<1>1. moving # <<>> /\ moving' = Tail(moving) /\ UNCHANGED <<rows, dragRows, urls>>
  BY DEF MoveNext
<1>2. /\ enabled /\ Listing(rows) /\ dragRows' \subseteq Nat /\ urls' \in Seq(Items)
      /\ moving' \in Seq(Items) /\ dragRows' # {}
  BY <1>1 DEF FolderInv, Types
<1>3. CASE UNCHANGED positionerVars
  BY <1>1, <1>2, <1>3, DragKeeps
<1>4. ASSUME NEW from, NEW to \in -1 .. MaxCell, Move(from, to)
      PROVE  FolderInv'
  <2>1. to \in Nat \cup {-1}
    BY FolderAssumption
  <2>2. /\ StateType(NextState') /\ Flags' /\ spoiled' \in BOOLEAN
        /\ StateFits(NextState', rows)
        /\ broken' => spoiled'
        /\ ~spoiled' => Shows(NextState', rows)
        /\ pending'
        /\ UNCHANGED <<enabled, perStripe, positions, applying, resetting>>
    BY <1>2, <1>4, <2>1, MoveKeeps DEF FolderInv
  <2>3. Listing(rows') /\ rows' = rows
    BY <1>1, <1>2
  <2> QED BY <1>1, <1>2, <2>2, <2>3, SignalStep
<1>5. CASE \E to \in -1 .. MaxCell : Move(maps.s2p[RowOf(rows, Head(moving))], to)
  BY <1>4, <1>5
<1> QED BY <1>3, <1>5 DEF MoveNext

LEMMA RestartStep ==
  ASSUME FolderInv, Restart
  PROVE  FolderInv'
<1>1. /\ rows' = <<>> /\ dragRows' = {} /\ urls' = <<>> /\ moving' = <<>> /\ perStripe' = 0
      /\ maps' = NoMaps /\ shown' = RowCount(NoMaps, <<>>, enabled)
      /\ pending' = FALSE /\ queued' = FALSE /\ applying' = FALSE /\ resetting' = FALSE
      /\ broken' = FALSE /\ spoiled' = FALSE
      /\ UNCHANGED <<enabled, positions>>
  BY DEF Restart, Idle
<1>2. Listing(rows')
  BY <1>1 DEF Listing, Distinct
<1>3. AreMaps(NoMaps) /\ shown' \in Int
  BY <1>1, NoMapsType, LastIndexType DEF RowCount, AreMaps, IsMap
<1>4. StateType(NextState')
  <2>1. applying' \in BOOLEAN /\ broken' \in BOOLEAN
    BY <1>1
  <2> QED BY <1>1, <1>3, <2>1 DEF StateType, NextState, State
<1>5. Types'
  <2>1. Flags' /\ spoiled' \in BOOLEAN
    BY <1>1 DEF Flags
  <2>2. Positions' /\ enabled' \in BOOLEAN
    BY <1>1 DEF FolderInv, Types, Positions
  <2>3. <<>> \in Seq(Items)
    OBVIOUS
  <2> QED BY <1>1, <1>2, <1>4, <2>1, <2>2, <2>3 DEF Types
<1>6. Fits(NoMaps, <<>>, FALSE)
  <2>1. DOMAIN NoMaps.s2p = {} /\ DOMAIN NoMaps.p2s = {} /\ RowsOf(<<>>) = {}
    BY DEF NoMaps, EmptyMap, RowsOf
  <2> QED BY <2>1 DEF Fits, MutuallyInverse
<1>7. Fitting'
  BY <1>1, <1>6 DEF Fitting, StateFits, NextState, State
<1>8. SavedCells' /\ SavedIsCurrent'
  BY <1>1 DEF FolderInv, SavedCells, SavedIsCurrent
<1>9. ViewsMissNothing'
  <2>1. shown' = RowCount(maps, rows, enabled)'
    BY <1>1 DEF RowCount
  <2> QED BY <1>3, <2>1 DEF ViewsMissNothing
<1> QED BY <1>5, <1>7, <1>8, <1>9 DEF FolderInv

LEMMA FolderInit ==
  Init => FolderInv
<1> SUFFICES ASSUME Init PROVE FolderInv
  OBVIOUS
<1> USE DEF Init
<1>1. enabled \in BOOLEAN
  OBVIOUS
<1>2. Listing(rows)
  BY DEF Listing, Distinct
<1>3. AreMaps(NoMaps) /\ shown \in Int
  BY NoMapsType, LastIndexType DEF RowCount, AreMaps, IsMap
<1>4. StateType(NextState)
  BY <1>3 DEF StateType, NextState, State
<1>5. Positions
  BY FS_EmptySet DEF Positions
<1>6. Types
  <2>1. Flags /\ spoiled \in BOOLEAN
    BY DEF Flags
  <2>2. <<>> \in Seq(Items)
    OBVIOUS
  <2> QED BY <1>1, <1>2, <1>4, <1>5, <2>1, <2>2 DEF Types
<1>7. Fits(NoMaps, <<>>, FALSE)
  <2>1. DOMAIN NoMaps.s2p = {} /\ DOMAIN NoMaps.p2s = {} /\ RowsOf(<<>>) = {}
    BY DEF NoMaps, EmptyMap, RowsOf
  <2> QED BY <2>1 DEF Fits, MutuallyInverse
<1>8. Fitting
  BY <1>7 DEF Fitting, StateFits, NextState, State
<1>9. SavedCells /\ SavedIsCurrent
  BY DEF SavedCells, SavedIsCurrent
<1>10. ViewsMissNothing
  BY <1>3 DEF ViewsMissNothing
<1> QED BY <1>6, <1>8, <1>9, <1>10 DEF FolderInv

LEMMA FolderStep ==
  FolderInv /\ [Next]_vars => FolderInv'
<1> SUFFICES ASSUME FolderInv, [Next]_vars PROVE FolderInv'
  OBVIOUS
<1>1. ASSUME UNCHANGED vars PROVE FolderInv'
  <2>1. UNCHANGED <<rows, positionerVars>> /\ UNCHANGED <<dragRows, urls, moving, enabled>>
    BY <1>1 DEF vars, positionerVars
  <2>2. /\ dragRows' \subseteq Nat /\ urls' \in Seq(Items) /\ moving' \in Seq(Items)
        /\ (urls' # <<>> \/ moving' # <<>>) => dragRows' # {}
        /\ moving' # <<>> => enabled
    BY <2>1 DEF FolderInv, Types
  <2> QED BY <2>1, <2>2, DragKeeps
<1> QED BY <1>1, ArrivesStep, LeaveStep, UserChangesStep, SizeStep, UpdatesStep, DragStep, MoveStep,
           RestartStep DEF Next

\* FolderInv holds in every state that the folder model and its positioner reach.
THEOREM FolderInvariant == Spec => []FolderInv
BY FolderInit, FolderStep, PTL DEF Spec

\* Every variable has its type, and a drag under way has rows: the maps stay maps of
\* cells to rows and back whatever rows come and go (positioner.cpp:387-542).
THEOREM FolderTypeCorrect == Spec => []TypeOK
<1>1. FolderInv => TypeOK
  <2> SUFFICES ASSUME FolderInv PROVE TypeOK
    OBVIOUS
  <2>1. {pending, queued, applying, resetting, broken, spoiled} \subseteq BOOLEAN
    BY DEF FolderInv, Types, Flags, StateType, NextState, State
  <2>2. AreMaps(maps) /\ shown \in Int
    BY DEF FolderInv, Types, StateType, NextState, State
  <2> QED BY <2>1, <2>2 DEF TypeOK, FolderInv, Types, Listing, Distinct, Positions, Entries, AreMaps, IsMap
<1> QED BY <1>1, FolderInvariant, PTL

\* Every row of the folder has a cell and no cell is for a row that is not there, as
\* long as the maps have not parted from the rows (positioner.cpp:387-542, 571).
THEOREM RowsHaveCells == Spec => []EveryRowPlaced
<1>1. FolderInv => EveryRowPlaced
  BY DEF FolderInv, Fitting, StateFits, NextState, State, Fits, EveryRowPlaced
<1> QED BY <1>1, FolderInvariant, PTL

\* m_proxyToSource and m_sourceToProxy are inverse to each other, as long as they have
\* not parted from the rows (positioner.cpp:285, 409, 453).
THEOREM MapsAreInverse == Spec => []MapsInverse
<1>1. FolderInv => MapsInverse
  BY DEF FolderInv, Fitting, StateFits, NextState, State, Fits, MutuallyInverse, MapsInverse
<1> QED BY <1>1, FolderInvariant, PTL

\* What updatePositions() saved is the arrangement on the screen whenever no further
\* save is due (positioner.cpp:319).
THEOREM SavedAsShown == Spec => []SavedIsCurrent
<1>1. FolderInv => SavedIsCurrent
  BY DEF FolderInv
<1> QED BY <1>1, FolderInvariant, PTL

\* The row signals of the positioner announce at least the rows it has
\* (positioner.cpp:387-542, 595).
THEOREM ViewsHearOfAllRows == Spec => []ViewsMissNothing
<1>1. FolderInv => ViewsMissNothing
  BY DEF FolderInv
<1> QED BY <1>1, FolderInvariant, PTL

-----------------------------------------------------------------------------
(* What a step may never do.                                               *)

LEMMA RowOfFacts ==
  ASSUME NEW source, Listing(source)
  PROVE  /\ \A i \in RowsOf(source) : RowOf(source, source[i + 1]) = i /\ source[i + 1] \in ItemsIn(source)
         /\ \A n \in ItemsIn(source) : RowOf(source, n) \in RowsOf(source) /\ source[RowOf(source, n) + 1] = n
<1>1. Len(source) \in Nat /\ \A i \in RowsOf(source) : i \in Nat /\ i + 1 \in 1 .. Len(source)
  BY DEF Listing, RowsOf
<1>2. ASSUME NEW i \in RowsOf(source), NEW j \in RowsOf(source), source[i + 1] = source[j + 1]
      PROVE  i = j
  <2>1. i + 1 = j + 1
    BY <1>1, <1>2 DEF Listing, Distinct
  <2> QED BY <1>1, <2>1
<1>3. \A i \in RowsOf(source) : RowOf(source, source[i + 1]) = i /\ source[i + 1] \in ItemsIn(source)
  BY <1>1, <1>2 DEF RowOf, ItemsIn
<1>4. ASSUME NEW n \in ItemsIn(source)
      PROVE  RowOf(source, n) \in RowsOf(source) /\ source[RowOf(source, n) + 1] = n
  <2>1. PICK k \in 1 .. Len(source) : source[k] = n
    BY DEF ItemsIn
  <2>2. k - 1 \in RowsOf(source) /\ (k - 1) + 1 = k
    BY <1>1 DEF RowsOf
  <2> QED BY <2>1, <2>2 DEF RowOf
<1> QED BY <1>3, <1>4

Keeps(n) == Placed(n) => Placed(n)' /\ Cell(n)' = Cell(n)

LEMMA InsertKeepsPlace ==
  ASSUME FolderInv, NEW at \in 0 .. Len(rows), NEW k \in Nat, k > 0,
         NEW batch \in [1 .. k -> Items \ ItemsIn(rows)],
         \A i, j \in 1 .. k : i # j => batch[i] # batch[j],
         InsertRows(at, batch), enabled, ~broken', ~applying, NEW n
  PROVE  Keeps(n)
<1> SUFFICES ASSUME Placed(n) PROVE Placed(n)' /\ Cell(n)' = Cell(n)
  BY DEF Keeps
<1> DEFINE i == RowOf(rows, n)
           last == at + k - 1
           shift == at < Len(rows)
<1>1. Listing(rows) /\ Len(rows) \in Nat /\ at \in Nat /\ last \in Nat
  BY DEF FolderInv, Types, Listing
<1>2. i \in RowsOf(rows) /\ rows[i + 1] = n /\ i \in DOMAIN maps.s2p
  BY <1>1, RowOfFacts DEF Placed
<1>3. /\ rows' = SubSeq(rows, 1, at) \o batch \o SubSeq(rows, at + 1, Len(rows))
      /\ SourceRowsInserted(at, last, rows')
  <2>1. Len(batch) = k
    OBVIOUS
  <2> QED BY <2>1 DEF InsertRows
<1>4. Listing(rows') /\ Len(rows') = Len(rows) + k /\ \A j \in 1 .. at : rows'[j] = rows[j]
  BY <1>1, <1>3, InsertedRows
<1> HIDE DEF last, i
<1>5. PICK f \in NewCells(maps.p2s, at, last) :
        LET m     == FilledMaps(maps, f)
            grown == LastIndex(m.p2s) - LastIndex(maps.p2s)
        IN  RowsInserted(State(m, shown + grown, applying, broken \/ shift), grown = 0, rows')
  <2>1. DOMAIN maps.s2p # {}
    BY <1>2
  <2> QED BY <1>3, <2>1 DEF SourceRowsInserted
<1>6. maps' = FilledMaps(maps, f) /\ broken' = (broken \/ shift)
  BY <1>5 DEF RowsInserted, State
<1>7. at = Len(rows)
  <2>1. ~shift
    BY <1>6
  <2> QED BY <1>1, <2>1
<1>8. i \in RowsOf(rows') /\ i + 1 \in 1 .. at /\ i \notin at .. last
  BY <1>1, <1>2, <1>4, <1>7 DEF RowsOf
<1>9. rows'[i + 1] = n /\ n \in ItemsIn(rows') /\ RowOf(rows', n) = i
  BY <1>2, <1>4, <1>8, RowOfFacts
<1>10. i \in DOMAIN maps'.s2p /\ maps'.s2p[i] = maps.s2p[i]
  <2>1. DOMAIN f = at .. last
    BY DEF NewCells
  <2> QED BY <1>2, <1>6, <1>8, <2>1 DEF FilledMaps
<1> QED BY <1>9, <1>10 DEF Placed, Cell, i

LEMMA LeaveKeepsPlace ==
  ASSUME FolderInv, ItemsLeave, enabled, ~broken', NEW n \in ItemsIn(rows')
  PROVE  Keeps(n)
<1> SUFFICES ASSUME Placed(n) PROVE Placed(n)' /\ Cell(n)' = Cell(n)
  BY DEF Keeps
<1>1. Listing(rows) /\ Len(rows) \in Nat
  BY DEF FolderInv, Types, Listing
<1>2. PICK first \in RowsOf(rows) : \E k \in 1 .. MaxBatch :
         LET last == first + k - 1 IN
         /\ last \in RowsOf(rows)
         /\ rows' = SubSeq(rows, 1, first) \o SubSeq(rows, last + 2, Len(rows))
         /\ SourceRowsRemoved(first, last)
  BY DEF ItemsLeave
<1>3. PICK k \in 1 .. MaxBatch :
         LET last == first + k - 1 IN
         /\ last \in RowsOf(rows)
         /\ rows' = SubSeq(rows, 1, first) \o SubSeq(rows, last + 2, Len(rows))
         /\ SourceRowsRemoved(first, last)
  BY <1>2
<1> DEFINE last == first + k - 1
<1>4. last \in RowsOf(rows) /\ first <= last /\ first \in Nat /\ last \in Nat
  BY <1>1, <1>3, FolderAssumption DEF RowsOf
<1>5. rows' = SubSeq(rows, 1, first) \o SubSeq(rows, last + 2, Len(rows)) /\ SourceRowsRemoved(first, last)
  BY <1>3
<1> HIDE DEF last
<1>6. maps' = RemoveRows(maps, first, last) /\ broken' = (broken \/ first < last)
  BY <1>5 DEF SourceRowsRemoved
<1>7. first = last
  <2>1. ~(first < last)
    BY <1>6
  <2> QED BY <1>4, <2>1
<1>8. maps' = RemoveRow(maps, first)
  BY <1>6, <1>7 DEF RemoveRows
<1>9. /\ Listing(rows') /\ Len(rows') = Len(rows) - 1
      /\ \A i \in 1 .. Len(rows') : rows'[i] = IF i <= first THEN rows[i] ELSE rows[i + 1]
  <2>1. last - first + 1 = 1
    BY <1>4, <1>7
  <2>2. /\ Listing(rows') /\ Len(rows') = Len(rows) - (last - first + 1)
        /\ \A i \in 1 .. Len(rows') : rows'[i] = IF i <= first THEN rows[i] ELSE rows[i + (last - first + 1)]
    BY <1>1, <1>4, <1>5, RowsLeft
  <2> QED BY <2>1, <2>2
<1> DEFINE j == RowOf(rows, n)
           i == RowOf(rows', n)
           up(x) == IF x > first THEN x - 1 ELSE x
           back(x) == IF x >= first THEN x + 1 ELSE x
<1>10. /\ i \in RowsOf(rows') /\ rows'[i + 1] = n
       /\ j \in RowsOf(rows) /\ rows[j + 1] = n /\ j \in DOMAIN maps.s2p
  BY <1>1, <1>9, RowOfFacts DEF Placed
<1> HIDE DEF i, j
<1>11. i \in Nat /\ j \in Nat /\ i + 1 \in 1 .. Len(rows')
  BY <1>1, <1>9, <1>10 DEF RowsOf
<1>12. back(i) \in RowsOf(rows) /\ rows[back(i) + 1] = n
  <2>1. rows'[i + 1] = IF i + 1 <= first THEN rows[i + 1] ELSE rows[(i + 1) + 1]
    BY <1>9, <1>11
  <2>2. back(i) + 1 = IF i + 1 <= first THEN i + 1 ELSE (i + 1) + 1
    BY <1>4, <1>11
  <2>3. rows[back(i) + 1] = n
    BY <1>10, <2>1, <2>2
  <2>4. back(i) \in RowsOf(rows)
    BY <1>1, <1>4, <1>9, <1>11 DEF RowsOf
  <2> QED BY <2>3, <2>4
<1>13. back(i) = j
  BY <1>1, <1>10, <1>12, RowOfFacts
<1>14. j # first /\ up(j) = i
  BY <1>4, <1>11, <1>13
<1>15. i \in DOMAIN maps'.s2p /\ maps'.s2p[i] = maps.s2p[j]
  <2>1. maps'.s2p = [x \in {up(y) : y \in DOMAIN maps.s2p \ {first}} |-> maps.s2p[back(x)]]
    BY <1>8 DEF RemoveRow
  <2>2. i \in {up(y) : y \in DOMAIN maps.s2p \ {first}}
    BY <1>10, <1>14
  <2> HIDE DEF up, back
  <2> QED BY <1>13, <2>1, <2>2
<1> QED BY <1>15 DEF Placed, Cell, i, j

\* When files come or one goes, every other keeps its cell (positioner.cpp:399, 453).
THEOREM OthersKeepTheirPlace == Spec => KeepsPlace
<1> DEFINE Step == enabled /\ enabled' /\ rows # rows' /\ rows' # <<>> /\ ~broken' /\ ~applying =>
                     \A n \in ItemsIn(rows') : Keeps(n)
<1>1. FolderInv /\ [Next]_vars => Step
  <2> SUFFICES ASSUME FolderInv, [Next]_vars, enabled, enabled', rows # rows', rows' # <<>>, ~broken', ~applying,
                      NEW n \in ItemsIn(rows')
               PROVE  Keeps(n)
    OBVIOUS
  <2>1. Listing(rows) /\ Len(rows) \in Nat
    BY DEF FolderInv, Types, Listing
  <2>2. CASE ItemsArrive
    <3>1. PICK k \in 1 .. MaxBatch : \E batch \in [1 .. k -> Items \ ItemsIn(rows)] :
                 /\ \A i, j \in 1 .. k : i # j => batch[i] # batch[j]
                 /\ InsertRows(Len(rows), batch)
      BY <2>2 DEF ItemsArrive
    <3>2. PICK batch \in [1 .. k -> Items \ ItemsIn(rows)] :
                 /\ \A i, j \in 1 .. k : i # j => batch[i] # batch[j]
                 /\ InsertRows(Len(rows), batch)
      BY <3>1
    <3>3. k \in Nat /\ k > 0 /\ Len(rows) \in 0 .. Len(rows)
      BY <2>1, FolderAssumption
    <3> QED BY <3>2, <3>3, InsertKeepsPlace
  <2>3. CASE FilterShows
    <3>1. PICK x \in Items \ ItemsIn(rows), at \in 0 .. Len(rows) : InsertRows(at, <<x>>)
      BY <2>3 DEF FilterShows
    <3>2. /\ <<x>> \in [1 .. 1 -> Items \ ItemsIn(rows)]
          /\ \A i, j \in 1 .. 1 : i # j => <<x>>[i] # <<x>>[j]
          /\ 1 \in Nat /\ 1 > 0
      OBVIOUS
    <3> QED BY <3>1, <3>2, InsertKeepsPlace
  <2>4. CASE SortedItemArrives
    BY <2>4 DEF SortedItemArrives
  <2>5. CASE ItemsLeave
    BY <2>5, LeaveKeepsPlace
  <2>6. CASE SortModeChanges
    BY <2>6 DEF SortModeChanges, SetEnabled
  <2>7. CASE UrlChanges \/ Restart
    BY <2>7 DEF UrlChanges, Restart
  <2>8. CASE DirectionChanges \/ SizeChanges \/ Updates \/ DragStarts \/ Drop \/ MoveNext \/ DragEnds
    BY <2>8 DEF DirectionChanges, SizeChanges, Updates, DragStarts, Drop, MoveNext, DragEnds, folderVars
  <2>9. CASE UNCHANGED vars
    BY <2>9 DEF vars
  <2> QED BY <2>2, <2>3, <2>4, <2>5, <2>6, <2>7, <2>8, <2>9 DEF Next
<1>2. Step => (enabled /\ enabled' /\ rows # rows' /\ rows' # <<>> /\ ~broken' /\ ~applying =>
                 \A n \in ItemsIn(rows') : Placed(n) => Placed(n)' /\ Cell(n)' = Cell(n))
  BY DEF Keeps
<1> HIDE DEF Step
<1> QED BY <1>1, <1>2, FolderInvariant, PTL DEF Spec, KeepsPlace

\* Cells of different positions that fit their stripes are different.
LEMMA CellsApart ==
  ASSUME NEW per \in Nat, NEW s \in Nat, NEW t \in Nat, NEW p \in Nat, NEW q \in Nat,
         p < per, q < per, s * per + p = t * per + q
  PROVE  s = t /\ p = q
<1>1. ASSUME NEW a \in Nat, NEW b \in Nat, a < b
      PROVE  a * per + per <= b * per
  <2> DEFINE k == b - a - 1
  <2>1. k \in Nat /\ b = a + 1 + k
    BY <1>1
  <2> HIDE DEF k
  <2>2. b * per = a * per + per + k * per
    BY <2>1
  <2>3. k * per \in Nat /\ a * per \in Nat
    BY <2>1
  <2> QED BY <2>2, <2>3
<1>2. s * per \in Nat /\ t * per \in Nat
  OBVIOUS
<1>3. ~(s < t)
  <2> SUFFICES ASSUME s < t PROVE FALSE
    OBVIOUS
  <2>1. s * per + per <= t * per
    BY <1>1
  <2> QED BY <1>2, <2>1
<1>4. ~(t < s)
  <2> SUFFICES ASSUME t < s PROVE FALSE
    OBVIOUS
  <2>1. t * per + per <= s * per
    BY <1>1
  <2> QED BY <1>2, <2>1
<1>5. s = t
  BY <1>3, <1>4
<1> QED BY <1>2, <1>5

\* An entry whose item comes back to its cell.
Restorable(e, per, source) ==
  /\ e.name \in ItemsIn(source) /\ OneEntry(e.name)
  /\ e.pos < per
  /\ ~Contested(e, per, source) \/ per = positions.per

InPlace(e, m, source, per) ==
  RowOf(source, e.name) \in DOMAIN m.s2p /\ m.s2p[RowOf(source, e.name)] = CellOf(e, per)

\* No other entry that fits the view is for its cell.
LEMMA RestorableIsAlone ==
  ASSUME Positions, SavedCells, NEW source, Listing(source), NEW per \in Nat,
         NEW e \in positions.items, Restorable(e, per, source),
         NEW b \in Claims(per, source), e.name = b.name \/ CellOf(e, per) = CellOf(b, per)
  PROVE  b = e
<1>1. b \in positions.items /\ b.pos <= per /\ b.name \in ItemsIn(source)
  <2>1. b \in positions.items /\ b.pos <= per /\ \E k \in RowsOf(source) : source[k + 1] = b.name
    BY DEF Claims
  <2>2. \A k \in RowsOf(source) : k + 1 \in 1 .. Len(source)
    BY DEF RowsOf, Listing
  <2> QED BY <2>1, <2>2 DEF ItemsIn
<1>2. /\ e.pos \in Nat /\ e.stripe \in Nat /\ b.pos \in Nat /\ b.stripe \in Nat
      /\ e = [name |-> e.name, stripe |-> e.stripe, pos |-> e.pos]
      /\ b = [name |-> b.name, stripe |-> b.stripe, pos |-> b.pos]
  BY <1>1 DEF Positions, Entries
<1>3. CASE e.name = b.name
  BY <1>1, <1>3 DEF Restorable, OneEntry
<1>4. CASE CellOf(e, per) = CellOf(b, per) /\ per = positions.per
  BY <1>1, <1>4 DEF SavedCells
<1>5. CASE CellOf(e, per) = CellOf(b, per) /\ ~Contested(e, per, source)
  <2>1. b.pos # per
    BY <1>1, <1>5 DEF Contested
  <2>2. b.pos < per /\ e.pos < per
    BY <1>1, <1>2, <2>1 DEF Restorable
  <2>3. e.stripe * per + e.pos = b.stripe * per + b.pos
    BY <1>5 DEF CellOf
  <2>4. e.stripe = b.stripe /\ e.pos = b.pos
    BY <1>2, <2>2, <2>3, CellsApart
  <2>5. CellOf(e, positions.per) = CellOf(b, positions.per)
    BY <2>4 DEF CellOf
  <2> QED BY <1>1, <2>5 DEF SavedCells
<1> QED BY <1>3, <1>4, <1>5 DEF Restorable

LEMMA ApplyPositionsRestores ==
  ASSUME Positions, SavedCells, NEW source, Listing(source),
         NEW st, NEW per \in Nat, ApplyPositions(st, per, source),
         NEW e \in positions.items, Restorable(e, per, source)
  PROVE  InPlace(e, maps', source, per)
<1>1. positions.items \subseteq Entries /\ positions.items # {}
  BY DEF Positions
<1>2. PICK M \in Placements(per, source) : \E f \in Fillings(M, per, source) :
         maps' = Arrangement(M, f, per, source)
  BY <1>1 DEF ApplyPositions
<1>3. PICK f \in Fillings(M, per, source) : maps' = Arrangement(M, f, per, source)
  BY <1>2
<1> DEFINE i == RowOf(source, e.name)
<1>4. i \in RowsOf(source) /\ source[i + 1] = e.name
  BY RowOfFacts DEF Restorable
<1>5. e \in Claims(per, source)
  <2>1. e.pos < per /\ e.pos \in Nat
    BY <1>1 DEF Restorable, Entries
  <2> HIDE DEF i
  <2>2. e.pos <= per
    BY <2>1
  <2> QED BY <1>4, <2>2 DEF Claims
<1> HIDE DEF i
<1>6. e \in M
  <2> SUFFICES ASSUME e \notin M PROVE FALSE
    OBVIOUS
  <2>1. M \subseteq Claims(per, source)
        /\ \A d \in Claims(per, source) \ M : \E b \in M : d.name = b.name \/ CellOf(d, per) = CellOf(b, per)
    BY DEF Placements
  <2>2. PICK b \in M : e.name = b.name \/ CellOf(e, per) = CellOf(b, per)
    BY <1>5, <2>1
  <2>3. b = e
    BY <2>1, <2>2, RestorableIsAlone
  <2> QED BY <2>3
<1> DEFINE m == Arrangement(M, f, per, source)
<1>7. /\ m.s2p \in [RowsOf(source) -> Nat]
      /\ \A d \in M, k \in RowsOf(source) : d.name = source[k + 1] => m.s2p[k] = CellOf(d, per)
  <2>2. /\ m.s2p \in [RowsOf(source) -> Nat]
        /\ \A k \in RowsOf(source), l \in RowsOf(source) : m.s2p[k] = m.s2p[l] => k = l
        /\ m.p2s = [c \in Cells(m.s2p) |-> CHOOSE k \in RowsOf(source) : m.s2p[k] = c]
        /\ \A d \in M, k \in RowsOf(source) : d.name = source[k + 1] => m.s2p[k] = CellOf(d, per)
    BY ArrangementFacts
  <2> QED BY <2>2
<1> QED BY <1>3, <1>4, <1>6, <1>7 DEF InPlace, i

\* Rows come: to a sized view without maps, or to one that has waited for them.
LEMMA InsertRestores ==
  ASSUME FolderInv, NEW at, NEW last, NEW source, Listing(source), SourceRowsInserted(at, last, source),
         \/ enabled /\ DOMAIN maps.s2p = {}
         \/ applying /\ ~applying',
         perStripe' > 0, NEW e \in positions.items, Restorable(e, perStripe', source)
  PROVE  InPlace(e, maps', source, perStripe')
<1>1. perStripe' = perStripe /\ Positions /\ SavedCells /\ perStripe \in Nat
  BY StripesAssumption DEF SourceRowsInserted, FolderInv, Types
<1>2. ASSUME NEW st, ApplyPositions(st, perStripe, source)
      PROVE  InPlace(e, maps', source, perStripe')
  BY <1>1, <1>2, ApplyPositionsRestores
<1>3. CASE enabled /\ DOMAIN maps.s2p = {}
  <2>1. RowsInserted(State(maps, shown, TRUE, broken), FALSE, source)
    BY <1>3 DEF SourceRowsInserted
  <2> DEFINE start == [State(maps, shown, TRUE, broken) EXCEPT !.shown = shown]
  <2>2. State(maps, shown, TRUE, broken).applying = TRUE
    BY DEF State
  <2>3. perStripe # 0
    BY <1>1
  <2>4. ApplyPositions(start, perStripe, source)
    BY <2>1, <2>2, <2>3 DEF RowsInserted
  <2> HIDE DEF start
  <2> QED BY <1>2, <2>4
<1>4. CASE applying /\ ~applying'
  <2>1. ASSUME NEW m, NEW count, NEW bad, NEW ignore, RowsInserted(State(m, count, TRUE, bad), ignore, source)
        PROVE  \E st : ApplyPositions(st, perStripe, source)
    BY <1>4, <2>1 DEF RowsInserted, State
  <2>2. applying = TRUE
    BY <1>4 DEF FolderInv, Types, StateType, NextState, State
  <2>3. \E m, count, bad, ignore : RowsInserted(State(m, count, TRUE, bad), ignore, source)
    BY <2>2 DEF SourceRowsInserted
  <2> QED BY <1>2, <2>1, <2>3
<1> QED BY <1>3, <1>4

\* Whenever applyPositions() places saved items, in a view of the size they were saved
\* for or of another, an item that is there, has no other entry and still fits its
\* stripe is in its cell, if no entry one position too far is for it
\* (positioner.cpp:613, 672).
THEOREM SavedPlacesAreRestored == Spec => SavedIsRestored
<1> DEFINE Step == Applies /\ perStripe' > 0 /\ rows' # <<>> =>
                     \A e \in positions.items :
                        Restorable(e, perStripe', rows') => InPlace(e, maps', rows', perStripe')
<1>1. FolderInv /\ [Next]_vars => Step
  <2> SUFFICES ASSUME FolderInv, [Next]_vars, Applies, perStripe' > 0, rows' # <<>>,
                      NEW e \in positions.items, Restorable(e, perStripe', rows')
               PROVE  InPlace(e, maps', rows', perStripe')
    OBVIOUS
  <2>1. Listing(rows')
    BY FolderStep DEF FolderInv, Types
  <2>2. ASSUME NEW at, NEW batch, InsertRows(at, batch) PROVE InPlace(e, maps', rows', perStripe')
    <3>1. SourceRowsInserted(at, at + Len(batch) - 1, rows')
      BY <2>2 DEF InsertRows
    <3>2. perStripe' = perStripe
      BY <3>1 DEF SourceRowsInserted
    <3> QED BY <2>1, <3>1, <3>2, InsertRestores DEF Applies
  <2>3. CASE ItemsArrive \/ FilterShows \/ SortedItemArrives
    <3>1. \E at, batch : InsertRows(at, batch)
      BY <2>3 DEF ItemsArrive, FilterShows, SortedItemArrives
    <3> QED BY <2>2, <3>1
  <2>4. CASE SizeChanges
    <3>1. PICK per \in Stripes : SetPerStripe(per)
      BY <2>4 DEF SizeChanges
    <3>2. perStripe' = per /\ rows' = rows
      BY <2>4, <3>1 DEF SetPerStripe, SizeChanges, folderVars
    <3>3. enabled /\ per > 0
      BY <3>1, <3>2 DEF SetPerStripe, Applies
    <3>4. ApplyPositions(State(maps, shown, applying, broken), per, rows')
      BY <3>1, <3>2, <3>3 DEF SetPerStripe
    <3>5. per \in Nat /\ Positions /\ SavedCells
      BY StripesAssumption DEF FolderInv, Types
    <3> DEFINE st == State(maps, shown, applying, broken)
    <3>6. ApplyPositions(st, per, rows')
      BY <3>4
    <3> HIDE DEF st
    <3> QED BY <2>1, <3>2, <3>5, <3>6, ApplyPositionsRestores
  <2>5. CASE ItemsLeave \/ SortModeChanges \/ DirectionChanges \/ Updates \/ DragStarts \/ Drop \/ MoveNext
             \/ DragEnds \/ UNCHANGED vars
    <3>1. UNCHANGED <<applying, perStripe>>
      BY <2>5 DEF ItemsLeave, SourceRowsRemoved, SortModeChanges, SetEnabled, DirectionChanges, Reset,
                  Updates, UpdatePositions, DragStarts, Drop, MoveNext, Move, DragEnds, vars, positionerVars
    <3>2. ~(enabled /\ enabled' /\ Len(rows') > Len(rows))
      <4>1. Listing(rows) /\ Len(rows) \in Nat
        BY DEF FolderInv, Types, Listing
      <4>2. CASE ItemsLeave
        <5>1. Listing(rows') /\ Len(rows') < Len(rows)
          BY <4>1, <4>2, LeaveFacts
        <5> QED BY <4>1, <5>1 DEF Listing
      <4>3. CASE SortModeChanges
        BY <4>3 DEF SortModeChanges, SetEnabled, FolderInv, Types, Flags
      <4>4. CASE UNCHANGED rows
        BY <4>1, <4>4
      <4> QED BY <2>5, <4>2, <4>3, <4>4
               DEF DirectionChanges, Updates, DragStarts, Drop, MoveNext, DragEnds, vars, folderVars
    <3> QED BY <3>1, <3>2 DEF Applies
  <2>6. CASE UrlChanges \/ Restart
    BY <2>6 DEF UrlChanges, Restart
  <2> QED BY <2>3, <2>4, <2>5, <2>6 DEF Next
<1>2. Step => (Applies /\ perStripe' > 0 /\ rows' # <<>> =>
                 \A e \in positions.items :
                   /\ e.name \in ItemsIn(rows') /\ OneEntry(e.name)
                   /\ e.pos < perStripe'
                   /\ ~Contested(e, perStripe', rows') \/ perStripe' = positions.per
                   => Placed(e.name)' /\ Cell(e.name)' = CellOf(e, perStripe'))
  BY DEF Restorable, InPlace, Placed, Cell
<1> HIDE DEF Step
<1> QED BY <1>1, <1>2, FolderInvariant, PTL DEF Spec, SavedIsRestored
=============================================================================
