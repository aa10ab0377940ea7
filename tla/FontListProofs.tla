--------------------------- MODULE FontListProofs ---------------------------
(***************************************************************************)
(* The font list and the groups, for every set of files and every bound.   *)
(***************************************************************************)
EXTENDS FontGroups, TLAPS

Kinds == {"add", "del"}
Bins == [Kinds -> [BOOLEAN -> SUBSET Files]]
\* What is held is held for its own folder.
HeldFiles == {h \in Bins : \A k \in Kinds, s \in BOOLEAN : \A f \in h[k][s] : f.sys = s}
Messages == [kind : {"add", "del", "list"}, files : SUBSET Files]
            \cup [kind : {"owner"}, files : {{}}]

\* The state of the list, as State makes it.
Copies(st) == st.list.files \subseteq Files /\ st.held \in HeldFiles

ListTypes ==
  /\ disk \subseteq Files /\ known \subseteq Files
  /\ alive \in BOOLEAN /\ calls \in Nat /\ wire \in Seq(Messages)
  /\ slow \in BOOLEAN
  /\ list.files \subseteq Files /\ held \in HeldFiles

-----------------------------------------------------------------------------
(* What the operators of the list keep.                                    *)

LEMMA AddedFiles ==
  ASSUME NEW l, NEW F
  PROVE  /\ AddFonts(l, F).files = l.files \cup F
         /\ RemoveFonts(l, F).files = l.files \ F
BY DEF AddFonts, RemoveFonts

LEMMA NothingHeld == Nothing \in HeldFiles /\ \A k \in Kinds, s \in BOOLEAN : Nothing[k][s] = {}
BY DEF Nothing, HeldFiles, Bins, Kinds

\* A folder that is replayed has nothing held any more; the other is as it was.
LEMMA ReplayedFiles ==
  ASSUME NEW st, Copies(st), NEW sys \in BOOLEAN
  PROVE  LET after == Replay(st, sys) IN
         /\ after.list.files = (st.list.files \cup st.held["add"][sys]) \ st.held["del"][sys]
         /\ Copies(after)
         /\ \A k \in Kinds : after.held[k][sys] = {}
         /\ \A k \in Kinds, s \in BOOLEAN : s # sys => after.held[k][s] = st.held[k][s]
<1> DEFINE after == Replay(st, sys)
<1>1. after.list.files = (st.list.files \cup st.held["add"][sys]) \ st.held["del"][sys]
  BY AddedFiles DEF Replay
<1>2. st.held \in HeldFiles /\ st.held["add"] \in [BOOLEAN -> SUBSET Files]
                            /\ st.held["del"] \in [BOOLEAN -> SUBSET Files]
  BY DEF Copies, HeldFiles, Bins, Kinds
<1>3. after.held = [st.held EXCEPT !["add"][sys] = {}, !["del"][sys] = {}]
  BY DEF Replay
<1>4. /\ after.held \in Bins
      /\ \A k \in Kinds : after.held[k][sys] = {}
      /\ \A k \in Kinds, s \in BOOLEAN : s # sys => after.held[k][s] = st.held[k][s]
  BY <1>2, <1>3 DEF HeldFiles, Bins, Kinds
<1>6. after.held \in HeldFiles
  BY <1>2, <1>4 DEF HeldFiles
<1>5. after.list.files \subseteq Files
  BY <1>1, <1>2 DEF Copies
<1> QED BY <1>1, <1>4, <1>5, <1>6 DEF Copies

\* What is stored joins what is held, of which a replay may have made an end.
LEMMA StoredFiles ==
  ASSUME NEW st, Copies(st), NEW sys \in BOOLEAN, NEW kind \in Kinds,
         NEW F, F \subseteq InFolder(Files, sys)
  PROVE  LET after == StoreSlowedMessage(st, kind, sys, F)
             played == IF TooMany(st.held, sys) THEN Replay(st, sys) ELSE st IN
         /\ Copies(after) /\ Copies(played)
         /\ after.list = played.list
         /\ after.held[kind][sys] = played.held[kind][sys] \cup F
         /\ \A k \in Kinds, s \in BOOLEAN :
              k # kind \/ s # sys => after.held[k][s] = played.held[k][s]
<1> DEFINE after == StoreSlowedMessage(st, kind, sys, F)
           played == IF TooMany(st.held, sys) THEN Replay(st, sys) ELSE st
<1>1. Copies(played)
  BY ReplayedFiles
<1>2. after.list = played.list /\ after.held = [played.held EXCEPT ![kind][sys] = @ \cup F]
  BY DEF StoreSlowedMessage
<1> HIDE DEF played, after
<1>3. played.held \in HeldFiles
  BY <1>1 DEF Copies
<1>4. played.held[kind] \in [BOOLEAN -> SUBSET Files]
  BY <1>3 DEF HeldFiles, Bins
<1>5. /\ after.held \in Bins
      /\ after.held[kind][sys] = played.held[kind][sys] \cup F
      /\ \A k \in Kinds, s \in BOOLEAN :
           k # kind \/ s # sys => after.held[k][s] = played.held[k][s]
  BY <1>2, <1>3, <1>4 DEF HeldFiles, Bins, InFolder
<1>7. after.held \in HeldFiles
  BY <1>3, <1>5 DEF HeldFiles, InFolder
<1>6. Copies(after)
  BY <1>1, <1>2, <1>7 DEF Copies
<1> QED BY <1>1, <1>2, <1>5, <1>6 DEF played, after

-----------------------------------------------------------------------------
(* Whether a file will be shown once what is held has been replayed.       *)

PresentIn(st, f) ==
  /\ f \notin st.held["del"][f.sys]
  /\ f \in st.list.files \/ f \in st.held["add"][f.sys]

\* A replay makes no difference to it.
LEMMA ReplayShowsSame ==
  ASSUME NEW st, Copies(st), NEW sys \in BOOLEAN, NEW f \in Files
  PROVE  PresentIn(Replay(st, sys), f) <=> PresentIn(st, f)
<1> DEFINE after == Replay(st, sys)
<1>1. f.sys \in BOOLEAN
  BY FontListAssumption
<1>2. /\ after.list.files = (st.list.files \cup st.held["add"][sys]) \ st.held["del"][sys]
      /\ \A k \in Kinds : after.held[k][sys] = {}
      /\ \A k \in Kinds, s \in BOOLEAN : s # sys => after.held[k][s] = st.held[k][s]
  BY ReplayedFiles
<1>3. f.sys # sys => f \notin st.held["add"][sys] /\ f \notin st.held["del"][sys]
  BY DEF Copies, HeldFiles, Kinds
<1>4. CASE f.sys = sys
  BY <1>2, <1>4 DEF PresentIn, Kinds
<1>5. CASE f.sys # sys
  <2>1. /\ after.held["add"][f.sys] = st.held["add"][f.sys]
        /\ after.held["del"][f.sys] = st.held["del"][f.sys]
    BY <1>1, <1>2, <1>5 DEF Kinds
  <2>2. f \in after.list.files <=> f \in st.list.files
    BY <1>2, <1>3, <1>5
  <2> QED BY <2>1, <2>2 DEF PresentIn
<1> QED BY <1>4, <1>5

\* A message of a folder that does not name it makes none either.
LEMMA StoredShowsSame ==
  ASSUME NEW st, Copies(st), NEW sys \in BOOLEAN, NEW kind \in Kinds,
         NEW F, F \subseteq InFolder(Files, sys), NEW f \in Files
  PROVE  LET after == StoreSlowedMessage(st, kind, sys, F) IN
         /\ f \notin F => (PresentIn(after, f) <=> PresentIn(st, f))
         /\ f \in F /\ kind = "del" => ~PresentIn(after, f)
         /\ f \in F /\ kind = "add" /\ f \notin st.held["del"][sys] => PresentIn(after, f)
<1> DEFINE after == StoreSlowedMessage(st, kind, sys, F)
           played == IF TooMany(st.held, sys) THEN Replay(st, sys) ELSE st
<1>1. /\ Copies(after) /\ Copies(played)
      /\ after.list = played.list
      /\ after.held[kind][sys] = played.held[kind][sys] \cup F
      /\ \A k \in Kinds, s \in BOOLEAN :
           k # kind \/ s # sys => after.held[k][s] = played.held[k][s]
  BY StoredFiles
<1>2. PresentIn(played, f) <=> PresentIn(st, f)
  BY ReplayShowsSame
<1>3. f \notin st.held["del"][sys] => f \notin played.held["del"][sys]
  BY ReplayedFiles DEF Kinds
<1>4. f.sys \in BOOLEAN /\ (f \in F => f.sys = sys)
  BY FontListAssumption DEF InFolder
<1> HIDE DEF after, played
<1>6. ASSUME f \notin F PROVE PresentIn(after, f) <=> PresentIn(played, f)
  <2>1. \A k \in Kinds : f \in after.held[k][f.sys] <=> f \in played.held[k][f.sys]
    BY <1>1, <1>4, <1>6
  <2> QED BY <1>1, <2>1 DEF PresentIn, Kinds
<1>7. ASSUME f \in F, kind = "del" PROVE ~PresentIn(after, f)
  BY <1>1, <1>4, <1>7 DEF PresentIn
<1>8. ASSUME f \in F, kind = "add", f \notin st.held["del"][sys] PROVE PresentIn(after, f)
  BY <1>1, <1>3, <1>4, <1>8 DEF PresentIn, Kinds
<1> QED BY <1>2, <1>6, <1>7, <1>8 DEF after

\* fontsAdded() and fontsRemoved(), whether they are slowed or not: what is held,
LEMMA ReceivedHeld ==
  ASSUME NEW st, Copies(st), NEW sys \in BOOLEAN, NEW kind \in Kinds,
         NEW F, F \subseteq InFolder(Files, sys)
  PROVE  LET after == Received(st, kind, sys, F) IN
         /\ Copies(after)
         /\ slow => F \subseteq after.held[kind][sys]
         /\ ~slow => after.held = st.held
         /\ \A k \in Kinds, s \in BOOLEAN : s # sys => after.held[k][s] = st.held[k][s]
<1>1. CASE slow
  BY <1>1, StoredFiles, ReplayedFiles DEF Received
<1>2. CASE ~slow
  <2> DEFINE after == Received(st, kind, sys, F)
  <2>1. /\ after.held = st.held
        /\ after.list.files = IF kind = "add" THEN st.list.files \cup F ELSE st.list.files \ F
    BY <1>2, AddedFiles DEF Received
  <2>2. Copies(after)
    BY <2>1 DEF Copies, InFolder
  <2> QED BY <1>2, <2>1, <2>2
<1> QED BY <1>1, <1>2

\* and what will be shown.
LEMMA ReceivedShows ==
  ASSUME NEW st, Copies(st), NEW sys \in BOOLEAN, NEW kind \in Kinds,
         NEW F, F \subseteq InFolder(Files, sys), NEW f \in Files
  PROVE  LET after == Received(st, kind, sys, F) IN
         /\ f \notin F => (PresentIn(after, f) <=> PresentIn(st, f))
         /\ f \in F /\ kind = "del" /\ (slow \/ st.held = Nothing) => ~PresentIn(after, f)
         /\ f \in F /\ kind = "add" /\ f \notin st.held["del"][sys] => PresentIn(after, f)
<1>1. CASE slow
  BY <1>1, StoredFiles, StoredShowsSame DEF Received
<1>2. CASE ~slow
  <2> DEFINE after == Received(st, kind, sys, F)
  <2>1. /\ after.held = st.held
        /\ after.list.files = IF kind = "add" THEN st.list.files \cup F ELSE st.list.files \ F
    BY <1>2, AddedFiles DEF Received
  <2>3. f.sys \in BOOLEAN /\ (f \in F => f.sys = sys)
    BY FontListAssumption DEF InFolder
  <2>4. st.held = Nothing => st.held["add"][f.sys] = {} /\ st.held["del"][f.sys] = {}
    BY <2>3, NothingHeld DEF Kinds
  <2> HIDE DEF after
  <2> QED BY <1>2, <2>1, <2>3, <2>4 DEF PresentIn, after, Kinds
<1> QED BY <1>1, <1>2

-----------------------------------------------------------------------------
(* The items and families of a list.                                       *)

LitOK(l) == \A i \in l.lit : Enabled(i, l.files)

StatsOK(l, folders) ==
  /\ DOMAIN l.stats = FamiliesOf(l.files)
  /\ \A fam \in FamiliesOf(l.files) : l.stats[fam] = FamilyStats(fam, l.files, l.lit, folders)

CopyOK(l, folders) == LitOK(l) /\ StatsOK(l, folders)

OfFamily(fam, F) == {i \in ItemsOf(F) : i[1] = fam}

\* A family's numbers depend on its own fonts only.
LEMMA SameStats ==
  ASSUME NEW fam, NEW F, NEW G, NEW lit, NEW lamp, NEW folders,
         OfFamily(fam, F) = OfFamily(fam, G),
         \A i \in OfFamily(fam, F) : i \in lit <=> i \in lamp
  PROVE  FamilyStats(fam, F, lit, folders) = FamilyStats(fam, G, lamp, folders)
<1> DEFINE all == OfFamily(fam, F)
           usable == {i \in all : i[3] \in folders}
<1>1. Status(all, lit) = Status(all, lamp)
  <2>1. (all \cap lit = {} <=> all \cap lamp = {}) /\ (all \subseteq lit <=> all \subseteq lamp)
    OBVIOUS
  <2> HIDE DEF all
  <2> QED BY <2>1 DEF Status
<1>2. Status(usable, lit) = Status(usable, lamp)
  <2>1. /\ usable \cap lit = {} <=> usable \cap lamp = {}
        /\ usable \subseteq lit <=> usable \subseteq lamp
    OBVIOUS
  <2> HIDE DEF usable
  <2> QED BY <2>1 DEF Status
<1>3. FamilyStats(fam, F, lit, folders) =
        [count |-> Cardinality(usable), status |-> Status(usable, lit),
         real |-> Status(all, lit), sys |-> \E i \in usable : i[3]]
  BY DEF FamilyStats, OfFamily
<1>4. FamilyStats(fam, G, lamp, folders) =
        [count |-> Cardinality(usable), status |-> Status(usable, lamp),
         real |-> Status(all, lamp), sys |-> \E i \in usable : i[3]]
  BY DEF FamilyStats, OfFamily
<1> HIDE DEF all, usable
<1> QED BY <1>1, <1>2, <1>3, <1>4

LEMMA ItemFacts ==
  ASSUME NEW f
  PROVE  ItemOf(f)[1] = f.family
BY DEF ItemOf

LEMMA AddedCopy ==
  ASSUME NEW l, CopyOK(l, allowed), NEW F
  PROVE  CopyOK(AddFonts(l, F), allowed)
<1> DEFINE m     == AddFonts(l, F)
           files == l.files \cup F
           new   == ItemsOf(F) \ ItemsOf(l.files)
           lit   == l.lit \cup {i \in new : Enabled(i, files)}
           fams  == {i[1] : i \in new}
<1>1. m.files = files /\ m.lit = lit /\ m.stats = Refreshed(l.stats, files, lit, allowed, fams)
  BY DEF AddFonts
<1>2. LitOK(m)
  <2>1. \A i \in l.lit : Enabled(i, files)
    BY DEF CopyOK, LitOK, Enabled, FilesOf
  <2> QED BY <1>1, <2>1 DEF LitOK
<1>3. DOMAIN m.stats = FamiliesOf(files)
  BY <1>1 DEF Refreshed
<1>4. ASSUME NEW fam \in FamiliesOf(files), fam \notin fams, fam \in DOMAIN l.stats
      PROVE  l.stats[fam] = FamilyStats(fam, files, lit, allowed)
  <2>1. l.stats[fam] = FamilyStats(fam, l.files, l.lit, allowed)
    BY <1>4 DEF CopyOK, StatsOK
  <2>2. \A i \in new : i[1] # fam
    BY <1>4
  <2>3. OfFamily(fam, l.files) = OfFamily(fam, files)
    BY <2>2 DEF OfFamily, ItemsOf
  <2>4. \A i \in OfFamily(fam, l.files) : i \in l.lit <=> i \in lit
    BY DEF OfFamily
  <2> HIDE DEF files, lit
  <2> QED BY <2>1, <2>3, <2>4, SameStats
<1>5. \A fam \in FamiliesOf(files) : m.stats[fam] = FamilyStats(fam, files, lit, allowed)
  <2> HIDE DEF files, lit, fams
  <2> QED BY <1>1, <1>4 DEF Refreshed
<1> QED BY <1>1, <1>2, <1>3, <1>5 DEF CopyOK, StatsOK

LEMMA RemovedCopy ==
  ASSUME NEW l, CopyOK(l, allowed), NEW F
  PROVE  CopyOK(RemoveFonts(l, F), allowed)
<1> DEFINE m       == RemoveFonts(l, F)
           files   == l.files \ F
           touched == ItemsOf(l.files \cap F)
           lit     == Relit(l.lit, files, touched)
           fams    == FamiliesOf(F)
<1>1. m.files = files /\ m.lit = lit /\ m.stats = Refreshed(l.stats, files, lit, allowed, fams)
  BY DEF RemoveFonts
<1>2. LitOK(m)
  <2>1. ASSUME NEW i \in l.lit \ touched PROVE Enabled(i, files)
    <3>1. PICK f \in l.files : ItemOf(f) = i /\ ~f.hidden
      BY <2>1 DEF CopyOK, LitOK, Enabled, FilesOf
    <3>2. f \notin F
      BY <2>1, <3>1 DEF ItemsOf
    <3> QED BY <3>1, <3>2 DEF Enabled, FilesOf
  <2> QED BY <1>1, <2>1 DEF LitOK, Relit
<1>3. DOMAIN m.stats = FamiliesOf(files)
  BY <1>1 DEF Refreshed
<1>4. ASSUME NEW fam \in FamiliesOf(files), fam \notin fams, fam \in DOMAIN l.stats
      PROVE  l.stats[fam] = FamilyStats(fam, files, lit, allowed)
  <2>1. l.stats[fam] = FamilyStats(fam, l.files, l.lit, allowed)
    BY <1>4 DEF CopyOK, StatsOK
  <2>2. \A f \in F : f.family # fam
    BY <1>4 DEF FamiliesOf
  <2>3. OfFamily(fam, l.files) = OfFamily(fam, files)
    BY <2>2, ItemFacts DEF OfFamily, ItemsOf
  <2>4. \A i \in touched : i[1] # fam
    BY <2>2, ItemFacts DEF ItemsOf
  <2>5. \A i \in OfFamily(fam, files) : i \in l.lit <=> i \in lit
    BY <2>4 DEF OfFamily, Relit
  <2> HIDE DEF files, lit
  <2> QED BY <2>1, <2>3, <2>5, SameStats
<1>5. \A fam \in FamiliesOf(files) : m.stats[fam] = FamilyStats(fam, files, lit, allowed)
  <2> HIDE DEF files, lit, fams
  <2> QED BY <1>1, <1>4 DEF Refreshed
<1> QED BY <1>1, <1>2, <1>3, <1>5 DEF CopyOK, StatsOK

LEMMA ReceivedCopy ==
  ASSUME NEW st, CopyOK(st.list, allowed), NEW sys, NEW kind, NEW F
  PROVE  /\ CopyOK(Replay(st, sys).list, allowed)
         /\ CopyOK(Received(st, kind, sys, F).list, allowed)
<1>1. CopyOK(Replay(st, sys).list, allowed)
  BY AddedCopy, RemovedCopy DEF Replay
<1>2. CopyOK(StoreSlowedMessage(st, kind, sys, F).list, allowed)
  BY <1>1 DEF StoreSlowedMessage
<1> QED BY <1>1, <1>2, AddedCopy, RemovedCopy DEF Received

-----------------------------------------------------------------------------
(* What a message and a replay do to the list of the module.               *)

\* An empty part is received, or is no part of the message.
PartOf(from, to, kind, sys, part) ==
  to = Received(from, kind, sys, part) \/ (part = {} /\ to = from)

LEMMA TwoFolders ==
  ASSUME NEW st, Copies(st), slow \/ st.held = Nothing,
         NEW a \in BOOLEAN, NEW b \in BOOLEAN, a # b, NEW kind \in Kinds,
         NEW F, F \subseteq Files, NEW first, NEW second,
         PartOf(st, first, kind, a, InFolder(F, a)),
         PartOf(first, second, kind, b, InFolder(F, b))
  PROVE  /\ Copies(second)
         /\ CopyOK(st.list, allowed) => CopyOK(second.list, allowed)
         /\ ~slow => second.held = st.held
         /\ slow /\ F # {} => second.held # Nothing
         /\ \A f \in Files :
              /\ f \notin F => (PresentIn(second, f) <=> PresentIn(st, f))
              /\ f \in F /\ kind = "del" => ~PresentIn(second, f)
              /\ f \in F /\ kind = "add" /\ f \notin st.held["del"][f.sys] => PresentIn(second, f)
<1> DEFINE part(s) == InFolder(F, s)
<1>0. /\ first = Received(st, kind, a, part(a)) \/ (part(a) = {} /\ first = st)
      /\ second = Received(first, kind, b, part(b)) \/ (part(b) = {} /\ second = first)
  BY DEF PartOf
<1>1. part(a) \subseteq InFolder(Files, a) /\ part(b) \subseteq InFolder(Files, b)
  BY DEF InFolder
<1>2. /\ Copies(first)
      /\ slow => part(a) \subseteq first.held[kind][a]
      /\ ~slow => first.held = st.held
      /\ \A k \in Kinds : first.held[k][b] = st.held[k][b]
  <2> HIDE DEF part
  <2>1. CASE first = Received(st, kind, a, part(a))
    BY <1>1, <2>1, ReceivedHeld
  <2> QED BY <1>0, <2>1
<1>3. /\ Copies(second)
      /\ slow => part(b) \subseteq second.held[kind][b]
      /\ ~slow => second.held = first.held
      /\ \A k \in Kinds : second.held[k][a] = first.held[k][a]
  <2> HIDE DEF part
  <2>1. CASE second = Received(first, kind, b, part(b))
    BY <1>1, <1>2, <2>1, ReceivedHeld
  <2> QED BY <1>0, <1>2, <2>1
<1>4. CopyOK(st.list, allowed) => CopyOK(second.list, allowed)
  <2>1. CopyOK(st.list, allowed) => CopyOK(first.list, allowed)
    BY <1>0, ReceivedCopy
  <2>2. CopyOK(first.list, allowed) => CopyOK(second.list, allowed)
    BY <1>0, ReceivedCopy
  <2> QED BY <2>1, <2>2
<1>5. \A f \in F : /\ f.sys = a \/ f.sys = b
                   /\ \A s \in BOOLEAN : f \in part(s) <=> f.sys = s
  BY FontListAssumption DEF InFolder
<1>6. slow /\ F # {} => second.held # Nothing
  <2>1. SUFFICES ASSUME slow, NEW f \in F PROVE second.held # Nothing
    OBVIOUS
  <2>2. f \in second.held[kind][a] \/ f \in second.held[kind][b]
    <3> HIDE DEF part
    <3> QED BY <1>2, <1>3, <1>5, <2>1
  <2> HIDE DEF part
  <2> QED BY <2>2, NothingHeld
<1>7. ASSUME NEW f \in Files
      PROVE  /\ f \notin F => (PresentIn(second, f) <=> PresentIn(st, f))
             /\ f \in F /\ kind = "del" => ~PresentIn(second, f)
             /\ f \in F /\ kind = "add" /\ f \notin st.held["del"][f.sys] => PresentIn(second, f)
  <2>1. /\ f \notin part(a) => (PresentIn(first, f) <=> PresentIn(st, f))
        /\ f \in part(a) /\ kind = "del" => ~PresentIn(first, f)
        /\ f \in part(a) /\ kind = "add" /\ f \notin st.held["del"][a] => PresentIn(first, f)
    <3> HIDE DEF part
    <3>1. CASE first = Received(st, kind, a, part(a))
      BY <1>1, <3>1, ReceivedShows
    <3> QED BY <1>0, <3>1
  <2>2. /\ f \notin part(b) => (PresentIn(second, f) <=> PresentIn(first, f))
        /\ f \in part(b) /\ kind = "del" => ~PresentIn(second, f)
        /\ f \in part(b) /\ kind = "add" /\ f \notin st.held["del"][b] => PresentIn(second, f)
    <3>1. slow \/ first.held = Nothing
      BY <1>2
    <3>2. first.held["del"][b] = st.held["del"][b]
      BY <1>2 DEF Kinds
    <3> HIDE DEF part
    <3>3. CASE second = Received(first, kind, b, part(b))
      BY <1>1, <1>2, <3>1, <3>2, <3>3, ReceivedShows
    <3> QED BY <1>0, <3>3
  <2>3. f \notin F => f \notin part(a) /\ f \notin part(b)
    BY DEF InFolder
  <2>4. f \in F => \/ f.sys = a /\ f \in part(a) /\ f \notin part(b)
                   \/ f.sys = b /\ f \in part(b) /\ f \notin part(a)
    <3> HIDE DEF part
    <3> QED BY <1>5
  <2> HIDE DEF part
  <2> QED BY <2>1, <2>2, <2>3, <2>4
<1> QED BY <1>3, <1>2, <1>4, <1>6, <1>7

LEMMA MessageShows ==
  ASSUME ListTypes, slow \/ held = Nothing, NEW m \in Messages, FontsReceived(m)
  PROVE  /\ list'.files \subseteq Files /\ held' \in HeldFiles
         /\ CopyOK(list, allowed) => CopyOK(list', allowed)
         /\ ~slow => held' = held
         /\ slow /\ m.files # {} => held' # Nothing
         /\ \A f \in Files :
              /\ f \notin m.files => (PresentIn(State', f) <=> PresentIn(State, f))
              /\ f \in m.files /\ m.kind = "del" => ~PresentIn(State', f)
              /\ f \in m.files /\ m.kind # "del" => PresentIn(State', f) \/ f \in readded'
<1> DEFINE kind == IF m.kind = "del" THEN "del" ELSE "add"
           part(s) == InFolder(m.files, s)
<1>1. kind \in Kinds /\ (m.kind = "del" <=> kind = "del") /\ m.files \subseteq Files
  BY DEF Kinds, Messages
<1>2. Copies(State) /\ State.held = held /\ State.list = list
  BY DEF ListTypes, Copies, State
<1>3. PICK a \in BOOLEAN, b \in BOOLEAN : a = TRUE /\ b = FALSE /\ a # b
  OBVIOUS
<1> DEFINE first  == Heard(State, m, a)
           second == Heard(first, m, b)
<1>4. list' = second.list /\ held' = second.held
  BY <1>3 DEF FontsReceived, SetState
<1>5. /\ PartOf(State, first, kind, a, part(a))
      /\ PartOf(first, second, kind, b, part(b))
  BY DEF PartOf, Heard
<1>6. /\ Copies(second)
      /\ CopyOK(list, allowed) => CopyOK(second.list, allowed)
      /\ ~slow => second.held = held
      /\ slow /\ m.files # {} => second.held # Nothing
      /\ \A f \in Files :
           /\ f \notin m.files => (PresentIn(second, f) <=> PresentIn(State, f))
           /\ f \in m.files /\ kind = "del" => ~PresentIn(second, f)
           /\ f \in m.files /\ kind = "add" /\ f \notin held["del"][f.sys] => PresentIn(second, f)
  <2>1. slow \/ State.held = Nothing
    BY <1>2
  <2>2. a # b
    BY <1>3
  <2> HIDE DEF kind, first, second
  <2> QED BY <1>1, <1>2, <1>5, <2>1, <2>2, TwoFolders
<1>7. ASSUME NEW f \in Files, f \in m.files, m.kind # "del", f \in held["del"][f.sys]
      PROVE  f \in readded'
  <2>1. f.sys \in BOOLEAN
    BY FontListAssumption
  <2>2. held # Nothing
    BY <1>7, <2>1, NothingHeld DEF Kinds
  <2>3. readded' = readded \cup (m.files \cap UNION {held["del"][s] : s \in BOOLEAN})
    BY <1>7, <2>2 DEF FontsReceived
  <2> QED BY <1>7, <2>1, <2>3
<1> HIDE DEF kind, second
<1>8. list'.files \subseteq Files /\ held' \in HeldFiles
  BY <1>4, <1>6 DEF Copies
<1>9. ASSUME NEW f \in Files
      PROVE  /\ f \notin m.files => (PresentIn(State', f) <=> PresentIn(State, f))
             /\ f \in m.files /\ m.kind = "del" => ~PresentIn(State', f)
             /\ f \in m.files /\ m.kind # "del" => PresentIn(State', f) \/ f \in readded'
  <2>1. m.kind # "del" => kind = "add"
    BY <1>1 DEF Kinds
  <2>2. PresentIn(State', f) <=> PresentIn(second, f)
    BY <1>4 DEF PresentIn, State
  <2>3. /\ f \notin m.files => (PresentIn(State', f) <=> PresentIn(State, f))
        /\ f \in m.files /\ m.kind = "del" => ~PresentIn(State', f)
    BY <1>1, <1>6, <2>2
  <2>4. f \in m.files /\ m.kind # "del" => PresentIn(State', f) \/ f \in readded'
    BY <1>6, <1>7, <2>1, <2>2
  <2> QED BY <2>3, <2>4
<1> QED BY <1>4, <1>6, <1>8, <1>9

\* setSlowUpdates(FALSE): nothing is held afterwards.
LEMMA ReplayAllShows ==
  ASSUME ListTypes, SetState(ReplayAll(State)), slow \/ held = Nothing
  PROVE  /\ list'.files \subseteq Files /\ held' = Nothing
         /\ CopyOK(list, allowed) => CopyOK(list', allowed)
         /\ \A f \in Files : PresentIn(State', f) <=> PresentIn(State, f)
<1>1. Copies(State) /\ State.held = held /\ State.list = list
  BY DEF ListTypes, Copies, State
<1>2. CASE ~slow
  BY <1>1, <1>2 DEF SetState, ReplayAll, PresentIn, Copies, State
<1>3. CASE slow
  <2> DEFINE first == Replay(State, FALSE)
             second == Replay(first, TRUE)
  <2>1. list' = second.list /\ held' = second.held
    BY <1>3 DEF SetState, ReplayAll
  <2>2. Copies(first) /\ \A k \in Kinds : first.held[k][FALSE] = {}
    BY <1>1, ReplayedFiles
  <2>3. /\ Copies(second)
        /\ \A k \in Kinds : second.held[k][TRUE] = {} /\ second.held[k][FALSE] = first.held[k][FALSE]
    <3> HIDE DEF first
    <3>1. /\ Copies(second)
          /\ \A k \in Kinds : second.held[k][TRUE] = {}
          /\ \A k \in Kinds, s \in BOOLEAN : s # TRUE => second.held[k][s] = first.held[k][s]
      BY <2>2, ReplayedFiles
    <3>2. \A k \in Kinds : second.held[k][FALSE] = first.held[k][FALSE]
      BY <3>1, Zenon
    <3> QED BY <3>1, <3>2
  <2>4. CopyOK(list, allowed) => CopyOK(list', allowed)
    <3>1. CopyOK(State.list, allowed) => CopyOK(first.list, allowed)
      BY ReceivedCopy
    <3>2. CopyOK(first.list, allowed) => CopyOK(second.list, allowed)
      BY ReceivedCopy
    <3> HIDE DEF first, second
    <3> QED BY <3>1, <3>2, <1>1, <2>1
  <2>5. ASSUME NEW f \in Files PROVE PresentIn(State', f) <=> PresentIn(State, f)
    <3>1. PresentIn(first, f) <=> PresentIn(State, f)
      BY <1>1, ReplayShowsSame
    <3>2. PresentIn(second, f) <=> PresentIn(first, f)
      <4> HIDE DEF first
      <4> QED BY <2>2, ReplayShowsSame
    <3> HIDE DEF first, second
    <3> QED BY <2>1, <3>1, <3>2 DEF PresentIn, State
  <2>6. second.held = Nothing
    <3> HIDE DEF first, second
    <3>1. second.held \in Bins /\ \A k \in Kinds : \A s \in BOOLEAN : second.held[k][s] = {}
      BY <2>2, <2>3 DEF Copies, HeldFiles
    <3>2. Nothing \in Bins /\ \A k \in Kinds : \A s \in BOOLEAN : Nothing[k][s] = {}
      BY NothingHeld DEF HeldFiles
    <3>3. ASSUME NEW k \in Kinds PROVE second.held[k] = Nothing[k]
      <4>1. second.held[k] = [s \in BOOLEAN |-> second.held[k][s]]
        BY <3>1 DEF Bins
      <4>2. Nothing[k] = [s \in BOOLEAN |-> Nothing[k][s]]
        BY <3>2 DEF Bins
      <4>3. \A s \in BOOLEAN : second.held[k][s] = Nothing[k][s]
        BY <3>1, <3>2
      <4> QED BY <4>1, <4>2, <4>3, Zenon
    <3> QED BY <3>1, <3>2, <3>3 DEF Bins
  <2> HIDE DEF first, second
  <2> QED BY <2>1, <2>3, <2>4, <2>5, <2>6 DEF Copies
<1> QED BY <1>2, <1>3

-----------------------------------------------------------------------------
(* The last word on a file among the messages on their way.                *)

LastWord(w, f, k) ==
  /\ k \in DOMAIN w /\ f \in w[k].files
  /\ \A l \in DOMAIN w : l > k => f \notin w[l].files /\ w[l].kind # "owner"

Kept(w, f)    == \E k \in DOMAIN w : LastWord(w, f, k) /\ w[k].kind # "del"
Gone(w, f)    == \E k \in DOMAIN w : LastWord(w, f, k) /\ w[k].kind = "del"
Unheard(w, f) == \A k \in DOMAIN w : f \notin w[k].files
NoOwner(w)    == \A k \in DOMAIN w : w[k].kind # "owner"

LEMMA SaidWords ==
  ASSUME NEW w \in Seq(Messages), NEW m \in Messages, NEW f
  PROVE  LET v == Append(w, m) IN
         /\ v \in Seq(Messages)
         /\ Kept(v, f) <=> IF f \in m.files THEN m.kind # "del" ELSE Kept(w, f) /\ m.kind # "owner"
         /\ Gone(v, f) <=> IF f \in m.files THEN m.kind = "del" ELSE Gone(w, f) /\ m.kind # "owner"
         /\ Unheard(v, f) <=> Unheard(w, f) /\ f \notin m.files
         /\ NoOwner(v) <=> NoOwner(w) /\ m.kind # "owner"
<1> DEFINE v == Append(w, m)
<1>1. /\ v \in Seq(Messages) /\ DOMAIN v = 1 .. Len(w) + 1 /\ DOMAIN w = 1 .. Len(w) /\ Len(w) \in Nat
      /\ v[Len(w) + 1] = m
      /\ \A k \in DOMAIN w : v[k] = w[k]
  OBVIOUS
<1> HIDE DEF v
<1>2. LastWord(v, f, Len(w) + 1) <=> f \in m.files
  BY <1>1 DEF LastWord
<1>3. \A k \in DOMAIN w :
        LastWord(v, f, k) <=> LastWord(w, f, k) /\ f \notin m.files /\ m.kind # "owner"
  BY <1>1 DEF LastWord
<1>4. \A k \in DOMAIN v : k = Len(w) + 1 \/ k \in DOMAIN w
  BY <1>1
<1>5. Len(w) + 1 \in DOMAIN v /\ \A k \in DOMAIN w : k \in DOMAIN v
  BY <1>1
<1>6. Kept(v, f) <=> IF f \in m.files THEN m.kind # "del" ELSE Kept(w, f) /\ m.kind # "owner"
  BY <1>1, <1>2, <1>3, <1>4, <1>5 DEF Kept
<1>7. Gone(v, f) <=> IF f \in m.files THEN m.kind = "del" ELSE Gone(w, f) /\ m.kind # "owner"
  BY <1>1, <1>2, <1>3, <1>4, <1>5 DEF Gone
<1>8. Unheard(v, f) <=> Unheard(w, f) /\ f \notin m.files
  BY <1>1, <1>4, <1>5 DEF Unheard
<1>9. NoOwner(v) <=> NoOwner(w) /\ m.kind # "owner"
  BY <1>1, <1>4, <1>5 DEF NoOwner
<1> QED BY <1>1, <1>6, <1>7, <1>8, <1>9 DEF v

LEMMA TailWords ==
  ASSUME NEW w \in Seq(Messages), w # <<>>, NEW f
  PROVE  LET v == Tail(w)
             m == Head(w) IN
         /\ v \in Seq(Messages) /\ m \in Messages
         /\ Kept(v, f) => Kept(w, f)
         /\ Gone(v, f) => Gone(w, f)
         /\ Unheard(v, f) /\ f \notin m.files => Unheard(w, f)
         /\ NoOwner(v) /\ m.kind # "owner" => NoOwner(w)
         /\ Unheard(v, f) /\ NoOwner(v) /\ f \in m.files =>
              IF m.kind = "del" THEN Gone(w, f) ELSE Kept(w, f)
<1> DEFINE v == Tail(w)
           m == Head(w)
<1>1. /\ v \in Seq(Messages) /\ m \in Messages
      /\ Len(w) \in Nat /\ Len(w) >= 1 /\ DOMAIN w = 1 .. Len(w) /\ DOMAIN v = 1 .. Len(w) - 1
      /\ w[1] = m
      /\ \A k \in DOMAIN v : v[k] = w[k + 1]
  OBVIOUS
<1> HIDE DEF v, m
<1>2. \A k \in DOMAIN w : k = 1 \/ (k - 1 \in DOMAIN v /\ w[k] = v[k - 1])
  BY <1>1
<1>3. ASSUME NEW k \in DOMAIN v, LastWord(v, f, k)
      PROVE  k + 1 \in DOMAIN w /\ LastWord(w, f, k + 1) /\ w[k + 1] = v[k]
  <2>1. k + 1 \in DOMAIN w /\ w[k + 1] = v[k] /\ f \in w[k + 1].files
    BY <1>1, <1>3 DEF LastWord
  <2>2. ASSUME NEW l \in DOMAIN w, l > k + 1
        PROVE  f \notin w[l].files /\ w[l].kind # "owner"
    <3>1. l - 1 \in DOMAIN v /\ l - 1 > k /\ w[l] = v[l - 1]
      BY <1>1, <1>2, <2>2
    <3> QED BY <1>3, <3>1 DEF LastWord
  <2> QED BY <2>1, <2>2 DEF LastWord
<1>4. Kept(v, f) => Kept(w, f)
  BY <1>3 DEF Kept
<1>5. Gone(v, f) => Gone(w, f)
  BY <1>3 DEF Gone
<1>6. Unheard(v, f) /\ f \notin m.files => Unheard(w, f)
  BY <1>1, <1>2 DEF Unheard
<1>7. NoOwner(v) /\ m.kind # "owner" => NoOwner(w)
  BY <1>1, <1>2 DEF NoOwner
<1>8. ASSUME Unheard(v, f), NoOwner(v), f \in m.files
      PROVE  IF m.kind = "del" THEN Gone(w, f) ELSE Kept(w, f)
  <2>1. 1 \in DOMAIN w
    BY <1>1
  <2>2. LastWord(w, f, 1)
    <3>1. ASSUME NEW l \in DOMAIN w, l > 1
          PROVE  f \notin w[l].files /\ w[l].kind # "owner"
      BY <1>2, <1>8, <3>1 DEF Unheard, NoOwner
    <3> QED BY <1>1, <1>8, <2>1, <3>1 DEF LastWord
  <2> QED BY <1>1, <2>1, <2>2 DEF Gone, Kept
<1> QED BY <1>1, <1>4, <1>5, <1>6, <1>7, <1>8 DEF v, m

\* A message that says something of other files.
LEMMA SaidSomething ==
  ASSUME NEW w \in Seq(Messages), NEW kind \in {"add", "del", "list"},
         NEW F, F \subseteq Files, NEW f
  PROVE  LET v == Said(w, kind, F) IN
         /\ v \in Seq(Messages)
         /\ Kept(v, f) <=> IF f \in F THEN kind # "del" ELSE Kept(w, f)
         /\ Gone(v, f) <=> IF f \in F THEN kind = "del" ELSE Gone(w, f)
         /\ Unheard(v, f) <=> Unheard(w, f) /\ f \notin F
         /\ NoOwner(v) <=> NoOwner(w)
<1>1. Message(kind, F) \in Messages /\ Message(kind, F).kind = kind /\ Message(kind, F).files = F
  BY DEF Message, Messages
<1> QED BY <1>1, SaidWords DEF Said

\* What was removed, and what was added and not removed: the last word is known.
LEMMA ToldWords ==
  ASSUME NEW w \in Seq(Messages), NEW added, added \subseteq Files,
         NEW removed, removed \subseteq Files, added \cap removed = {}, NEW f
  PROVE  LET v == Told(w, added, removed) IN
         /\ v \in Seq(Messages)
         /\ Kept(v, f) <=> f \in added \/ (f \notin removed /\ Kept(w, f))
         /\ Gone(v, f) <=> f \in removed \/ (f \notin added /\ Gone(w, f))
         /\ Unheard(v, f) <=> Unheard(w, f) /\ f \notin added /\ f \notin removed
         /\ NoOwner(v) <=> NoOwner(w)
<1> DEFINE u == Said(w, "add", added)
           v == Said(u, "del", removed)
<1>1. /\ u \in Seq(Messages)
      /\ Kept(u, f) <=> IF f \in added THEN TRUE ELSE Kept(w, f)
      /\ Gone(u, f) <=> IF f \in added THEN FALSE ELSE Gone(w, f)
      /\ Unheard(u, f) <=> Unheard(w, f) /\ f \notin added
      /\ NoOwner(u) <=> NoOwner(w)
  BY SaidSomething
<1> HIDE DEF u
<1>2. /\ v \in Seq(Messages)
      /\ Kept(v, f) <=> IF f \in removed THEN FALSE ELSE Kept(u, f)
      /\ Gone(v, f) <=> IF f \in removed THEN TRUE ELSE Gone(u, f)
      /\ Unheard(v, f) <=> Unheard(u, f) /\ f \notin removed
      /\ NoOwner(v) <=> NoOwner(u)
  BY <1>1, SaidSomething
<1>3. Told(w, added, removed) = v
  BY DEF Told, u
<1> HIDE DEF v
<1> QED BY <1>1, <1>2, <1>3

-----------------------------------------------------------------------------
(* The inductive invariant.                                                *)

\* What the messages and what is held will make of a file that is not there,
NoSurplus(f, w, st) == ~Kept(w, f) /\ (Unheard(w, f) /\ NoOwner(w) => ~PresentIn(st, f))

\* and of one that is.
NoLack(f, w, st) == ~Gone(w, f) /\ (Unheard(w, f) => PresentIn(st, f))

\* A file the daemon has not will not be shown; one it has will be, unless a list is
\* asked for, or will be when the message of the daemon's new owner comes.
Faithful ==
  alive =>
    \A f \in Files : f \notin missed =>
      /\ f \notin known => NoSurplus(f, wire, State)
      /\ f \in known /\ f \notin readded /\ calls = 0 /\ NoOwner(wire) => NoLack(f, wire, State)

ListInv ==
  /\ ListTypes
  /\ HeldOnlyWhileSlow
  /\ CopyOK(list, allowed)
  /\ Faithful

LEMMA ListInit == Init => ListInv
<1> SUFFICES ASSUME Init PROVE ListInv
  OBVIOUS
<1>1. wire = <<>> /\ calls = 1 /\ list = NoFonts /\ held = Nothing /\ ~slow /\ known = disk /\ disk \subseteq Files
  BY DEF Init
<1>2. ListTypes
  <2>1. alive \in BOOLEAN /\ slow \in BOOLEAN
    BY DEF Init
  <2>2. wire \in Seq(Messages) /\ calls \in Nat
    BY <1>1
  <2>3. list.files \subseteq Files
    BY <1>1 DEF NoFonts
  <2>4. held \in HeldFiles
    BY <1>1, NothingHeld
  <2> QED BY <1>1, <2>1, <2>2, <2>3, <2>4 DEF ListTypes
<1>3. HeldOnlyWhileSlow
  BY <1>1 DEF HeldOnlyWhileSlow
<1>4. CopyOK(list, allowed)
  BY <1>1 DEF CopyOK, LitOK, StatsOK, NoFonts, FamiliesOf
<1>5. \A f \in Files : NoSurplus(f, wire, State)
  BY <1>1, NothingHeld, FontListAssumption DEF NoSurplus, Kept, PresentIn, State, NoFonts, Kinds
<1> QED BY <1>1, <1>2, <1>3, <1>4, <1>5 DEF ListInv, Faithful

\* An empty list that waits for the daemon.
LEMMA LoadedInv ==
  ASSUME ListInv, LoadBody, wire' = wire \/ (wire # <<>> /\ wire' = Tail(wire)),
         UNCHANGED daemonVars
  PROVE  ListTypes' /\ HeldOnlyWhileSlow' /\ CopyOK(list', allowed') /\ Faithful'
<1>1. /\ held' = Nothing /\ slow' = FALSE /\ list' = NoFonts /\ calls' = calls + 1
      /\ missed' = missed \cap OnWire
  BY DEF LoadBody, Forgotten
<1>2. /\ disk \subseteq Files /\ known \subseteq Files /\ alive \in BOOLEAN /\ calls \in Nat
      /\ wire \in Seq(Messages)
  BY DEF ListInv, ListTypes
<1>3. disk' = disk /\ known' = known /\ alive' = alive
  BY DEF daemonVars
<1>4. wire' \in Seq(Messages)
  BY <1>2
<1>5. ListTypes'
  <2>1. list'.files \subseteq Files
    BY <1>1 DEF NoFonts
  <2>2. held' \in HeldFiles
    BY <1>1, NothingHeld
  <2>3. slow' \in BOOLEAN
    BY <1>1
  <2>4. calls' \in Nat
    BY <1>1, <1>2
  <2> QED BY <1>2, <1>3, <1>4, <2>1, <2>2, <2>3, <2>4 DEF ListTypes
<1>6. HeldOnlyWhileSlow'
  BY <1>1 DEF HeldOnlyWhileSlow
<1>7. CopyOK(list', allowed')
  BY <1>1 DEF CopyOK, LitOK, StatsOK, NoFonts, FamiliesOf
<1>8. ASSUME alive', NEW f \in Files, f \notin missed', f \notin known'
      PROVE  NoSurplus(f, wire', State')
  <2>1. ~PresentIn(State', f)
    BY <1>1, NothingHeld, FontListAssumption DEF PresentIn, State, NoFonts, Kinds
  <2>2. ~Kept(wire, f)
    <3>1. CASE f \notin missed
      BY <1>3, <1>8, <3>1 DEF ListInv, Faithful, NoSurplus
    <3>2. CASE f \notin OnWire
      BY <1>2, <3>2 DEF OnWire, Kept, LastWord
    <3> QED BY <1>1, <1>8, <3>1, <3>2
  <2>3. ~Kept(wire', f)
    BY <1>2, <2>2, TailWords
  <2> QED BY <2>1, <2>3 DEF NoSurplus
<1>9. calls' # 0
  BY <1>1, <1>2
<1>10. Faithful'
  BY <1>8, <1>9 DEF Faithful
<1> QED BY <1>5, <1>6, <1>7, <1>10

LEMMA ReloadInv ==
  ASSUME ListInv, Reload
  PROVE  ListInv'
BY LoadedInv DEF Reload, ListInv

LEMMA DeliverInv ==
  ASSUME ListInv, Deliver
  PROVE  ListInv'
<1> DEFINE m == Head(wire)
<1>1. /\ wire \in Seq(Messages) /\ wire # <<>> /\ wire' = Tail(wire)
      /\ m \in Messages /\ wire' \in Seq(Messages)
  <2>1. wire \in Seq(Messages) /\ wire # <<>> /\ wire' = Tail(wire)
    BY DEF Deliver, ListInv, ListTypes
  <2> QED BY <2>1
<1>2. UNCHANGED daemonVars /\ UNCHANGED allowed
  BY DEF Deliver
<1>3. CASE m.kind = "owner"
  <2>1. LoadBody
    BY <1>3 DEF Deliver, OwnerChanges
  <2> QED BY <1>1, <1>2, <2>1, LoadedInv DEF ListInv
<1>4. CASE m.kind # "owner"
  <2>1. FontsReceived(m)
    BY <1>4 DEF Deliver
  <2>2. ListTypes /\ (slow \/ held = Nothing)
    BY DEF ListInv, HeldOnlyWhileSlow
  <2> HIDE DEF m
  <2>3. /\ list'.files \subseteq Files /\ held' \in HeldFiles
        /\ CopyOK(list, allowed) => CopyOK(list', allowed)
        /\ ~slow => held' = held
    BY <1>1, <2>1, <2>2, MessageShows
  <2>4. calls' = calls /\ slow' = slow /\ missed' = missed /\ readded \subseteq readded'
    BY <2>1 DEF FontsReceived
  <2>5. known' = known /\ alive' = alive /\ disk' = disk
    BY <1>2 DEF daemonVars
  <2>6. ListTypes'
    BY <1>1, <2>2, <2>3, <2>4, <2>5 DEF ListTypes
  <2>7. HeldOnlyWhileSlow'
    BY <2>2, <2>3, <2>4 DEF HeldOnlyWhileSlow
  <2>8. CopyOK(list', allowed')
    BY <1>2, <2>3 DEF ListInv
  <2>9. ASSUME alive', NEW f \in Files, f \notin missed'
        PROVE  /\ f \notin known' => NoSurplus(f, wire', State')
               /\ f \in known' /\ f \notin readded' /\ calls' = 0 /\ NoOwner(wire')
                    => NoLack(f, wire', State')
    <3>1. /\ Kept(wire', f) => Kept(wire, f)
          /\ Gone(wire', f) => Gone(wire, f)
          /\ Unheard(wire', f) /\ f \notin m.files => Unheard(wire, f)
          /\ NoOwner(wire') => NoOwner(wire)
          /\ Unheard(wire', f) /\ NoOwner(wire') /\ f \in m.files =>
               IF m.kind = "del" THEN Gone(wire, f) ELSE Kept(wire, f)
      BY <1>1, <1>4, TailWords DEF m
    <3>2. /\ f \notin m.files => (PresentIn(State', f) <=> PresentIn(State, f))
          /\ f \in m.files /\ m.kind = "del" => ~PresentIn(State', f)
          /\ f \in m.files /\ m.kind # "del" => PresentIn(State', f) \/ f \in readded'
      BY <1>1, <2>1, <2>2, MessageShows
    <3>3. ASSUME f \notin known' PROVE NoSurplus(f, wire', State')
      <4>1. NoSurplus(f, wire, State)
        BY <2>4, <2>5, <2>9, <3>3 DEF ListInv, Faithful
      <4> QED BY <3>1, <3>2, <4>1 DEF NoSurplus
    <3>4. ASSUME f \in known', f \notin readded', calls' = 0, NoOwner(wire')
          PROVE  NoLack(f, wire', State')
      <4>1. NoLack(f, wire, State)
        BY <2>4, <2>5, <2>9, <3>1, <3>4 DEF ListInv, Faithful
      <4> QED BY <3>1, <3>2, <3>4, <4>1 DEF NoLack
    <3> QED BY <3>3, <3>4
  <2>10. Faithful'
    BY <2>9 DEF Faithful
  <2> QED BY <2>6, <2>7, <2>8, <2>10 DEF ListInv
<1> QED BY <1>3, <1>4

\* Of what the module does by itself, nothing changes what will be shown.
LEMMA SameShown ==
  ASSUME ListInv, UNCHANGED <<daemonVars, wire, calls, missed, readded>>,
         \A f \in Files : PresentIn(State', f) <=> PresentIn(State, f)
  PROVE  Faithful'
<1>1. /\ known' = known /\ alive' = alive /\ wire' = wire /\ calls' = calls
      /\ missed' = missed /\ readded' = readded
  BY DEF daemonVars
<1>2. ASSUME NEW f \in Files
      PROVE  /\ NoSurplus(f, wire, State) => NoSurplus(f, wire', State')
             /\ NoLack(f, wire, State) => NoLack(f, wire', State')
  BY <1>1 DEF NoSurplus, NoLack
<1> QED BY <1>1, <1>2 DEF ListInv, Faithful

LEMMA JobStartsInv ==
  ASSUME ListInv, JobStarts
  PROVE  ListInv'
<1>1. /\ slow' = TRUE /\ UNCHANGED <<daemonVars, wire, calls, list, allowed, held, waiting, missed, readded>>
  BY DEF JobStarts
<1>2. slow' \in BOOLEAN /\ HeldOnlyWhileSlow'
  BY <1>1 DEF HeldOnlyWhileSlow
<1>3. ListTypes'
  BY <1>1, <1>2 DEF ListInv, ListTypes, daemonVars
<1>4. State' = State
  BY <1>1 DEF State
<1>5. Faithful'
  BY <1>1, <1>4, SameShown
<1> QED BY <1>1, <1>2, <1>3, <1>5 DEF ListInv

LEMMA JobConfiguresInv ==
  ASSUME ListInv, JobConfigures
  PROVE  ListInv'
<1>1. /\ slow' = FALSE /\ SetState(ReplayAll(State))
      /\ UNCHANGED <<daemonVars, wire, calls, allowed, waiting, missed, readded>>
  BY DEF JobConfigures
<1>2. /\ list'.files \subseteq Files /\ held' = Nothing
      /\ CopyOK(list, allowed) => CopyOK(list', allowed)
      /\ \A f \in Files : PresentIn(State', f) <=> PresentIn(State, f)
  BY <1>1, ReplayAllShows DEF ListInv, HeldOnlyWhileSlow
<1>3. slow' \in BOOLEAN /\ HeldOnlyWhileSlow'
  BY <1>1, <1>2 DEF HeldOnlyWhileSlow
<1>4. ListTypes'
  BY <1>1, <1>2, <1>3, NothingHeld DEF ListInv, ListTypes, daemonVars
<1>5. Faithful'
  BY <1>1, <1>2, SameShown
<1> QED BY <1>1, <1>2, <1>3, <1>4, <1>5 DEF ListInv

LEMMA RefreshInv ==
  ASSUME ListInv, Refresh
  PROVE  ListInv'
<1>1. PICK folders \in {{TRUE}, {FALSE}, BOOLEAN} :
        /\ allowed' = folders
        /\ list' = [files |-> list.files, lit |-> list.lit,
                    stats |-> [fam \in FamiliesOf(list.files) |->
                                 FamilyStats(fam, list.files, list.lit, folders)]]
  BY DEF Refresh
<1>2. UNCHANGED <<daemonVars, wire, calls, slow, held, waiting, missed, readded>>
  BY DEF Refresh
<1> DEFINE now(fam) == FamilyStats(fam, list.files, list.lit, folders)
<1> HIDE DEF now
<1>3. /\ list'.files = list.files /\ list'.lit = list.lit
      /\ list'.stats = [fam \in FamiliesOf(list.files) |-> now(fam)]
  BY <1>1 DEF now
<1>4. CopyOK(list', allowed')
  <2>1. LitOK(list')
    BY <1>3 DEF ListInv, CopyOK, LitOK
  <2>2. \A fam : FamilyStats(fam, list'.files, list'.lit, folders) = now(fam)
    BY <1>3 DEF now
  <2>3. StatsOK(list', folders)
    BY <1>3, <2>2 DEF StatsOK
  <2> QED BY <1>1, <2>1, <2>3 DEF CopyOK
<1>5. ListTypes'
  BY <1>2, <1>3 DEF ListInv, ListTypes, daemonVars
<1>6. HeldOnlyWhileSlow'
  BY <1>2 DEF ListInv, HeldOnlyWhileSlow
<1>7. \A f \in Files : PresentIn(State', f) <=> PresentIn(State, f)
  BY <1>2, <1>3 DEF PresentIn, State
<1>8. Faithful'
  BY <1>2, <1>7, SameShown
<1> QED BY <1>4, <1>5, <1>6, <1>8 DEF ListInv

\* The daemon does not touch the list: what is left to show is what will be shown.
LEMMA DaemonStepInv ==
  ASSUME ListInv, UNCHANGED clientVars,
         disk' \subseteq Files, known' \subseteq Files, alive' \in BOOLEAN,
         calls' \in Nat, wire' \in Seq(Messages),
         alive' => \A f \in Files : f \notin missed' =>
                     /\ f \notin known' => NoSurplus(f, wire', State)
                     /\ f \in known' /\ f \notin readded /\ calls' = 0 /\ NoOwner(wire')
                          => NoLack(f, wire', State)
  PROVE  ListInv'
<1>1. /\ list' = list /\ allowed' = allowed /\ slow' = slow /\ held' = held
      /\ readded' = readded
  BY DEF clientVars
<1>2. State' = State
  BY <1>1 DEF State
<1>3. ListTypes'
  BY <1>1 DEF ListInv, ListTypes
<1>4. HeldOnlyWhileSlow' /\ CopyOK(list', allowed')
  BY <1>1 DEF ListInv, HeldOnlyWhileSlow
<1>5. Faithful'
  BY <1>1, <1>2 DEF Faithful
<1> QED BY <1>3, <1>4, <1>5 DEF ListInv

LEMMA DaemonChangesInv ==
  ASSUME ListInv, NEW added, NEW removed, DaemonChanges(added, removed),
         added \subseteq Files, removed \subseteq Files, added \cap removed = {}
  PROVE  ListInv'
<1>1. /\ alive /\ known' = (known \ removed) \cup added /\ disk' = (disk \ removed) \cup added
      /\ UNCHANGED <<alive, calls, crashes, clientVars, missed>>
      /\ wire' = Told(wire, added, removed)
  BY DEF DaemonChanges
<1>2. /\ disk \subseteq Files /\ known \subseteq Files /\ alive \in BOOLEAN /\ calls \in Nat
      /\ wire \in Seq(Messages)
  BY DEF ListInv, ListTypes
<1>3. ASSUME NEW f
      PROVE  /\ wire' \in Seq(Messages)
             /\ Kept(wire', f) <=> f \in added \/ (f \notin removed /\ Kept(wire, f))
             /\ Gone(wire', f) <=> f \in removed \/ (f \notin added /\ Gone(wire, f))
             /\ Unheard(wire', f) <=> Unheard(wire, f) /\ f \notin added /\ f \notin removed
             /\ NoOwner(wire') <=> NoOwner(wire)
  BY <1>1, <1>2, ToldWords
<1>4. ASSUME NEW f \in Files, f \notin missed
      PROVE  /\ f \notin known' => NoSurplus(f, wire', State)
             /\ f \in known' /\ f \notin readded /\ calls = 0 /\ NoOwner(wire')
                  => NoLack(f, wire', State)
  <2>1. /\ f \notin known => NoSurplus(f, wire, State)
        /\ f \in known /\ f \notin readded /\ calls = 0 /\ NoOwner(wire) => NoLack(f, wire, State)
    BY <1>1, <1>4 DEF ListInv, Faithful
  <2> QED BY <1>1, <1>3, <2>1 DEF NoSurplus, NoLack
<1>5. known' \subseteq Files /\ disk' \subseteq Files
  BY <1>1, <1>2
<1> QED BY <1>1, <1>2, <1>3, <1>4, <1>5, DaemonStepInv

LEMMA RescanInv ==
  ASSUME ListInv, Rescan
  PROVE  ListInv'
<1> DEFINE new(s)  == InFolder(disk \ known, s)
           old(s)  == InFolder(known \ disk, s)
           told(w, s) == Told(w, new(s), old(s))
<1>1. /\ alive /\ known' = disk
      /\ UNCHANGED <<disk, alive, calls, crashes, changes, clientVars, missed>>
  BY DEF Rescan
<1>2. /\ disk \subseteq Files /\ known \subseteq Files /\ alive \in BOOLEAN /\ calls \in Nat
      /\ wire \in Seq(Messages)
  BY DEF ListInv, ListTypes
<1>3. PICK a \in BOOLEAN, b \in BOOLEAN : a = TRUE /\ b = FALSE /\ a # b
  OBVIOUS
<1>4. wire' = told(told(wire, a), b)
  BY <1>3 DEF Rescan
<1>5. \A s : new(s) \subseteq Files /\ old(s) \subseteq Files /\ new(s) \cap old(s) = {}
  BY <1>2 DEF InFolder
<1>6. ASSUME NEW f \in Files
      PROVE  /\ (f \in new(a) \/ f \in new(b)) <=> (f \in disk /\ f \notin known)
             /\ (f \in old(a) \/ f \in old(b)) <=> (f \in known /\ f \notin disk)
  <2>1. f.sys = a \/ f.sys = b
    BY <1>3, FontListAssumption
  <2> QED BY <2>1 DEF InFolder
<1>7. ASSUME NEW w \in Seq(Messages), NEW s, NEW f
      PROVE  /\ told(w, s) \in Seq(Messages)
             /\ Kept(told(w, s), f) <=> f \in new(s) \/ (f \notin old(s) /\ Kept(w, f))
             /\ Gone(told(w, s), f) <=> f \in old(s) \/ (f \notin new(s) /\ Gone(w, f))
             /\ Unheard(told(w, s), f) <=> Unheard(w, f) /\ f \notin new(s) /\ f \notin old(s)
             /\ NoOwner(told(w, s)) <=> NoOwner(w)
  <2> HIDE DEF new, old
  <2> QED BY <1>5, ToldWords
<1> DEFINE v == told(wire, a)
<1> HIDE DEF told
<1>8. v \in Seq(Messages) /\ wire' \in Seq(Messages)
  BY <1>2, <1>4, <1>7
<1>9. ASSUME NEW f \in Files, f \notin missed
      PROVE  /\ f \notin known' => NoSurplus(f, wire', State)
             /\ f \in known' /\ f \notin readded /\ calls = 0 /\ NoOwner(wire')
                  => NoLack(f, wire', State)
  <2>1. /\ Kept(v, f) <=> f \in new(a) \/ (f \notin old(a) /\ Kept(wire, f))
        /\ Gone(v, f) <=> f \in old(a) \/ (f \notin new(a) /\ Gone(wire, f))
        /\ Unheard(v, f) <=> Unheard(wire, f) /\ f \notin new(a) /\ f \notin old(a)
        /\ NoOwner(v) <=> NoOwner(wire)
    BY <1>2, <1>7
  <2>2. /\ Kept(wire', f) <=> f \in new(b) \/ (f \notin old(b) /\ Kept(v, f))
        /\ Gone(wire', f) <=> f \in old(b) \/ (f \notin new(b) /\ Gone(v, f))
        /\ Unheard(wire', f) <=> Unheard(v, f) /\ f \notin new(b) /\ f \notin old(b)
        /\ NoOwner(wire') <=> NoOwner(v)
    <3> HIDE DEF v
    <3> QED BY <1>4, <1>7, <1>8 DEF v
  <2>3. /\ f \notin known => NoSurplus(f, wire, State)
        /\ f \in known /\ f \notin readded /\ calls = 0 /\ NoOwner(wire) => NoLack(f, wire, State)
    BY <1>1, <1>9 DEF ListInv, Faithful
  <2>4. /\ (f \in new(a) \/ f \in new(b)) <=> (f \in disk /\ f \notin known)
        /\ (f \in old(a) \/ f \in old(b)) <=> (f \in known /\ f \notin disk)
    BY <1>6
  <2> HIDE DEF new, old, v
  <2> QED BY <1>1, <2>1, <2>2, <2>3, <2>4 DEF NoSurplus, NoLack
<1>10. known' \subseteq Files /\ disk' \subseteq Files
  BY <1>1, <1>2
<1> QED BY <1>1, <1>2, <1>8, <1>9, <1>10, DaemonStepInv

LEMMA FolderChangesInv ==
  ASSUME ListInv, FolderChanges
  PROVE  ListInv'
<1>1. UNCHANGED <<known, alive, wire, calls, crashes, clientVars, missed>>
  BY DEF FolderChanges
<1>2. disk' \subseteq Files
  BY DEF FolderChanges, ListInv, ListTypes
<1> QED BY <1>1, <1>2, DaemonStepInv DEF ListInv, ListTypes, Faithful

LEMMA AnswerInv ==
  ASSUME ListInv, Answer
  PROVE  ListInv'
<1> DEFINE m == Message("list", known')
<1>1. /\ alive /\ calls > 0 /\ calls' = calls - 1 /\ known' \in {known, disk}
      /\ wire' = Append(wire, m) /\ missed' = missed \cup (known \ known')
      /\ UNCHANGED <<disk, alive, crashes, changes, clientVars>>
  BY DEF Answer
<1>2. /\ disk \subseteq Files /\ known \subseteq Files /\ alive \in BOOLEAN /\ calls \in Nat
      /\ wire \in Seq(Messages)
  BY DEF ListInv, ListTypes
<1>3. known' \subseteq Files /\ disk' \subseteq Files /\ calls' \in Nat
  BY <1>1, <1>2
<1>4. m \in Messages /\ m.kind = "list" /\ m.files = known'
  BY <1>3 DEF Message, Messages
<1> HIDE DEF m
<1>5. ASSUME NEW f
      PROVE  /\ wire' \in Seq(Messages)
             /\ Kept(wire', f) <=> f \in known' \/ Kept(wire, f)
             /\ Gone(wire', f) <=> f \notin known' /\ Gone(wire, f)
             /\ Unheard(wire', f) <=> Unheard(wire, f) /\ f \notin known'
             /\ NoOwner(wire') <=> NoOwner(wire)
  BY <1>1, <1>2, <1>4, SaidWords
<1>6. ASSUME NEW f \in Files, f \notin missed'
      PROVE  /\ f \notin known' => NoSurplus(f, wire', State)
             /\ f \in known' => NoLack(f, wire', State)
  <2>1. f \notin known => NoSurplus(f, wire, State)
    BY <1>1, <1>6 DEF ListInv, Faithful
  <2>2. f \notin known' => f \notin known
    BY <1>1, <1>6
  <2> QED BY <1>5, <2>1, <2>2 DEF NoSurplus, NoLack
<1> QED BY <1>1, <1>2, <1>3, <1>5, <1>6, DaemonStepInv

LEMMA AnswerOtherInv ==
  ASSUME ListInv, AnswerOther
  PROVE  ListInv'
<1>1. /\ alive /\ known' = disk /\ missed' = missed \cup (known \ disk) \cup (disk \ known)
      /\ UNCHANGED <<disk, alive, wire, calls, crashes, changes, clientVars>>
  BY DEF AnswerOther
<1>2. /\ disk' \subseteq Files /\ known' \subseteq Files /\ alive' \in BOOLEAN /\ calls' \in Nat
      /\ wire' \in Seq(Messages)
  BY <1>1 DEF ListInv, ListTypes
<1>3. ASSUME NEW f \in Files, f \notin missed'
      PROVE  /\ f \notin known' => NoSurplus(f, wire', State)
             /\ f \in known' /\ f \notin readded /\ calls' = 0 /\ NoOwner(wire')
                  => NoLack(f, wire', State)
  <2>1. f \notin missed /\ (f \in known' <=> f \in known)
    BY <1>1, <1>3
  <2> QED BY <1>1, <2>1 DEF ListInv, Faithful
<1> QED BY <1>1, <1>2, <1>3, DaemonStepInv

LEMMA CrashInv ==
  ASSUME ListInv, Crash
  PROVE  ListInv'
<1>1. /\ alive' = FALSE /\ calls' = 0 /\ wire' = Append(wire, Message("owner", {}))
      /\ UNCHANGED <<disk, known, changes, clientVars, missed>>
  BY DEF Crash
<1>2. Message("owner", {}) \in Messages
  BY DEF Message, Messages
<1>3. /\ disk' \subseteq Files /\ known' \subseteq Files /\ wire' \in Seq(Messages)
  BY <1>1, <1>2 DEF ListInv, ListTypes
<1>4. ~alive' /\ alive' \in BOOLEAN
  BY <1>1
<1> QED BY <1>1, <1>3, <1>4, DaemonStepInv

LEMMA RegisterInv ==
  ASSUME ListInv, Register
  PROVE  ListInv'
<1> DEFINE m == Message("owner", {})
<1>1. /\ alive' = TRUE /\ known' = disk /\ wire' = Append(wire, m)
      /\ UNCHANGED <<disk, calls, crashes, changes, clientVars, missed>>
  BY DEF Register
<1>2. m \in Messages /\ m.kind = "owner" /\ m.files = {}
  BY DEF Message, Messages
<1> HIDE DEF m
<1>3. disk \subseteq Files /\ calls \in Nat /\ wire \in Seq(Messages)
  BY DEF ListInv, ListTypes
<1>4. ASSUME NEW f
      PROVE  ~Kept(wire', f) /\ ~NoOwner(wire')
  BY <1>1, <1>2, <1>3, SaidWords
<1>5. /\ disk' \subseteq Files /\ known' \subseteq Files /\ wire' \in Seq(Messages) /\ calls' \in Nat
  BY <1>1, <1>2, <1>3
<1>6. alive' \in BOOLEAN
  BY <1>1
<1>7. ASSUME NEW f \in Files
      PROVE  NoSurplus(f, wire', State) /\ ~NoOwner(wire')
  BY <1>4 DEF NoSurplus
<1> QED BY <1>1, <1>5, <1>6, <1>7, DaemonStepInv

\* A change made through the daemon.
LEMMA ChangeInv ==
  ASSUME ListInv, Install \/ Uninstall \/ Toggle
  PROVE  ListInv'
<1>1. disk \subseteq Files /\ known \subseteq Files
  BY DEF ListInv, ListTypes
<1>2. CASE Install
  BY <1>2, DaemonChangesInv DEF Install
<1>3. CASE Uninstall
  <2>1. PICK i \in ItemsOf(known) : DaemonChanges({}, FilesOf(i, known))
    BY <1>3 DEF Uninstall
  <2>2. FilesOf(i, known) \subseteq Files
    BY <1>1 DEF FilesOf
  <2> QED BY <2>1, <2>2, DaemonChangesInv
<1>4. CASE Toggle
  <2>1. PICK i \in ItemsOf(known), hide \in BOOLEAN :
          LET F  == FilesOf(i, known)
              to == {[f EXCEPT !.hidden = hide] : f \in {g \in F : g.hidden # hide}}
          IN  to \subseteq Files \ known /\ DaemonChanges(to, F)
    BY <1>4 DEF Toggle
  <2> DEFINE F  == FilesOf(i, known)
             to == {[f EXCEPT !.hidden = hide] : f \in {g \in F : g.hidden # hide}}
  <2>2. F \subseteq known
    BY DEF FilesOf
  <2>3. to \subseteq Files \ known /\ DaemonChanges(to, F)
    BY <2>1
  <2> HIDE DEF F, to
  <2> QED BY <1>1, <2>2, <2>3, DaemonChangesInv
<1> QED BY <1>2, <1>3, <1>4

LEMMA ListStep ==
  ASSUME ListInv, [Next]_listVars
  PROVE  ListInv'
<1>1. CASE Reload
  BY <1>1, ReloadInv
<1>2. CASE Deliver
  BY <1>2, DeliverInv
<1>3. CASE JobStarts
  BY <1>3, JobStartsInv
<1>4. CASE JobConfigures
  BY <1>4, JobConfiguresInv
<1>5. CASE Refresh
  BY <1>5, RefreshInv
<1>6. CASE Install \/ Uninstall \/ Toggle
  BY <1>6, ChangeInv
<1>7. CASE FolderChanges
  BY <1>7, FolderChangesInv
<1>8. CASE Rescan
  BY <1>8, RescanInv
<1>9. CASE Answer
  BY <1>9, AnswerInv
<1>10. CASE AnswerOther
  BY <1>10, AnswerOtherInv
<1>11. CASE Crash
  BY <1>11, CrashInv
<1>12. CASE Register
  BY <1>12, RegisterInv
<1>13. CASE UNCHANGED listVars
  <2>1. State' = State
    BY <1>13 DEF listVars, State
  <2> QED BY <1>13, <2>1 DEF listVars, ListInv, ListTypes, HeldOnlyWhileSlow, Faithful
<1> QED BY <1>1, <1>2, <1>3, <1>4, <1>5, <1>6, <1>7, <1>8, <1>9, <1>10, <1>11, <1>12, <1>13 DEF Next

-----------------------------------------------------------------------------
(* The properties of the font list.                                        *)

\* What the messages on their way, the held updates and the items of the list will
\* come to is what the daemon has (FontList.cpp:283, 493, 532, 810).
THEOREM ListInvariant == Spec => []ListInv
<1>1. Init => ListInv
  BY ListInit
<1>2. ListInv /\ [Next]_listVars => ListInv'
  BY ListStep
<1> QED BY <1>1, <1>2, PTL DEF Spec

LEMMA QuietIsFaithful ==
  ASSUME ListInv
  PROVE  ShowsWhatIsKnown
<1> SUFFICES ASSUME Quiet
             PROVE  /\ list.files \ known \subseteq missed
                    /\ known \ list.files \subseteq missed \cup readded
  BY DEF ShowsWhatIsKnown
<1>1. wire = <<>> /\ calls = 0 /\ held = Nothing /\ alive
  BY DEF Quiet
<1>2. \A f : Unheard(wire, f) /\ NoOwner(wire)
  BY <1>1 DEF Unheard, NoOwner
<1>3. \A f \in Files : PresentIn(State, f) <=> f \in list.files
  BY <1>1, NothingHeld, FontListAssumption DEF PresentIn, State, Kinds
<1>4. list.files \subseteq Files /\ known \subseteq Files
  BY DEF ListInv, ListTypes
<1>5. ASSUME NEW f \in Files, f \notin missed
      PROVE  /\ f \notin known => f \notin list.files
             /\ f \in known /\ f \notin readded => f \in list.files
  BY <1>1, <1>2, <1>3, <1>5 DEF ListInv, Faithful, NoSurplus, NoLack
<1> QED BY <1>4, <1>5

\* When nothing is held or on its way, the list shows what the daemon has, but for
\* the files it is told nothing of and those removed and added again while updates
\* were slowed (FontList.cpp:493, 810).
THEOREM ListIsFaithful == Spec => []ShowsWhatIsKnown
<1>1. ListInv => ShowsWhatIsKnown
  BY QuietIsFaithful
<1> QED BY <1>1, ListInvariant, PTL

\* Updates are held only while they are slowed (FontList.cpp:532).
THEOREM HeldByJobsOnly == Spec => []HeldOnlyWhileSlow
<1>1. ListInv => HeldOnlyWhileSlow
  BY DEF ListInv
<1> QED BY <1>1, ListInvariant, PTL

\* A font shown as enabled has a file that is not hidden (FontList.cpp:283).
THEOREM EnabledFontsHaveFiles == Spec => []EnabledHasFile
<1>1. ListInv => EnabledHasFile
  BY DEF ListInv, CopyOK, LitOK, EnabledHasFile
<1> QED BY <1>1, ListInvariant, PTL

\* The families' status and count are those of their fonts (FontList.cpp:358).
THEOREM FamiliesAreCurrent == Spec => []StatsCurrent
<1>1. ListInv => StatsCurrent
  BY DEF ListInv, CopyOK, StatsOK, StatsCurrent
<1> QED BY <1>1, ListInvariant, PTL

-----------------------------------------------------------------------------
(* The groups and their file.                                              *)

IsMap(g) == g = [n \in DOMAIN g |-> g[n]]

\* SavedUnlessModified is inductive once groups are known to be functions.
GroupsInv == IsMap(groups) /\ IsMap(file) /\ SavedUnlessModified

LEMMA SetAndSaveInv ==
  ASSUME GroupsInv, NEW g, IsMap(g), SetAndSave(g)
  PROVE  GroupsInv'
<1> PICK how \in {"ok"} \cup Failures :
      LET s == Saved(g, how) IN
      /\ file' = s.file /\ modified' = s.modified /\ lost' = s.lost
      /\ foreign' = (foreign /\ how # "ok")
  BY DEF SetAndSave
<1>1. /\ groups' = g /\ file' = IF how = "ok" THEN g ELSE file
      /\ modified' = (how = "open")
      /\ lost' = ((lost /\ how # "ok") \/ how = "finalize")
      /\ foreign' = (foreign /\ how # "ok")
  BY DEF SetAndSave, Saved
<1>2. how \in {"ok", "open", "finalize"}
  BY GroupsAssumption
<1>3. IsMap(groups') /\ IsMap(file')
  BY <1>1 DEF GroupsInv
<1>4. CASE how = "ok"
  BY <1>1, <1>3, <1>4 DEF GroupsInv, SavedUnlessModified
<1>5. CASE how = "open"
  <2>1. modified'
    BY <1>1, <1>5
  <2> QED BY <1>3, <2>1 DEF GroupsInv, SavedUnlessModified
<1>6. CASE how = "finalize"
  <2>1. lost'
    BY <1>1, <1>6
  <2> QED BY <1>3, <2>1 DEF GroupsInv, SavedUnlessModified
<1> QED BY <1>2, <1>4, <1>5, <1>6

\* Families leave groups in memory, and the flag is set when one does.
LEMMA TakenInv ==
  ASSUME GroupsInv, FileStays, IsMap(groups'), groups' = groups \/ modified', modified => modified'
  PROVE  GroupsInv'
BY DEF GroupsInv, SavedUnlessModified, FileStays

LEMMA RemoveDeletedInv ==
  ASSUME GroupsInv, NEW l, RemoveDeletedFontsFromGroups(l)
  PROVE  GroupsInv'
<1> DEFINE gone == Deleted(deletedFonts, l)
<1>1. /\ groups' = [n \in DOMAIN groups |-> groups[n] \ gone]
      /\ modified' = (modified \/ \E n \in DOMAIN groups : groups[n] \cap gone # {})
      /\ FileStays
  BY DEF RemoveDeletedFontsFromGroups
<1> HIDE DEF gone
<1>2. IsMap(groups') /\ (modified => modified')
  BY <1>1 DEF IsMap
<1>3. CASE \E n \in DOMAIN groups : groups[n] \cap gone # {}
  BY <1>1, <1>2, <1>3, TakenInv
<1>4. CASE \A n \in DOMAIN groups : groups[n] \cap gone = {}
  <2>1. \A n \in DOMAIN groups : groups[n] \ gone = groups[n]
    BY <1>4
  <2>2. groups = [n \in DOMAIN groups |-> groups[n]]
    BY DEF GroupsInv, IsMap
  <2>3. groups' = groups
    BY <1>1, <2>1, <2>2
  <2> QED BY <1>1, <1>2, <2>3, TakenInv
<1> QED BY <1>3, <1>4

LEMMA SameGroups ==
  ASSUME GroupsInv, UNCHANGED <<groups, modified, file, lost, foreign>>
  PROVE  GroupsInv'
BY DEF GroupsInv, SavedUnlessModified

LEMMA GroupsStep ==
  ASSUME GroupsInv, [GroupsNext]_allVars
  PROVE  GroupsInv'
<1>1. CASE CreateGroup
  <2>1. PICK n \in Names \ DOMAIN groups :
          SetAndSave([m \in DOMAIN groups \cup {n} |-> IF m = n THEN {} ELSE groups[m]])
    BY <1>1 DEF CreateGroup
  <2>2. IsMap([m \in DOMAIN groups \cup {n} |-> IF m = n THEN {} ELSE groups[m]])
    BY DEF IsMap
  <2> QED BY <2>1, <2>2, SetAndSaveInv
<1>2. CASE RemoveGroup
  <2>1. PICK n \in DOMAIN groups : SetAndSave([m \in DOMAIN groups \ {n} |-> groups[m]])
    BY <1>2 DEF RemoveGroup
  <2>2. IsMap([m \in DOMAIN groups \ {n} |-> groups[m]])
    BY DEF IsMap
  <2> QED BY <2>1, <2>2, SetAndSaveInv
<1>3. CASE RenameGroup
  <2>1. PICK n \in DOMAIN groups, to \in Names \ DOMAIN groups :
          SetAndSave([m \in (DOMAIN groups \ {n}) \cup {to} |->
                        IF m = to THEN groups[n] ELSE groups[m]])
    BY <1>3 DEF RenameGroup
  <2>2. IsMap([m \in (DOMAIN groups \ {n}) \cup {to} |-> IF m = to THEN groups[n] ELSE groups[m]])
    BY DEF IsMap
  <2> QED BY <2>1, <2>2, SetAndSaveInv
<1>4. CASE AddToGroup \/ RemoveFromGroup
  <2>1. IsMap(groups') /\ modified' /\ FileStays
    BY <1>4 DEF AddToGroup, RemoveFromGroup, IsMap
  <2> QED BY <2>1, TakenInv
<1>5. CASE SelectGroup
  <2>1. PICK n \in DOMAIN groups :
          LET gone == {fam \in groups[n] : ~HasFamily(fam, list)} IN
          /\ groups' = [groups EXCEPT ![n] = @ \ gone]
          /\ modified' = (modified \/ gone # {})
    BY <1>5 DEF SelectGroup
  <2> DEFINE gone == {fam \in groups[n] : ~HasFamily(fam, list)}
  <2>2. groups' = [groups EXCEPT ![n] = @ \ gone] /\ modified' = (modified \/ gone # {})
    BY <2>1
  <2>3. FileStays
    BY <1>5 DEF SelectGroup
  <2> HIDE DEF gone
  <2>4. IsMap(groups') /\ (modified => modified') /\ (gone # {} => modified')
    BY <2>2 DEF IsMap
  <2>5. gone = {} => groups' = groups
    <3>1. groups = [m \in DOMAIN groups |-> groups[m]]
      BY DEF GroupsInv, IsMap
    <3>2. groups[n] \ {} = groups[n]
      OBVIOUS
    <3> QED BY <2>2, <3>1, <3>2
  <2> QED BY <2>3, <2>4, <2>5, TakenInv
<1>6. CASE AskToDelete \/ JobBegins \/ JobGoesOn \/ OtherMessageComes \/ DaemonActs \/ PageReloads
  <2>1. UNCHANGED <<groups, modified, file, lost, foreign>>
    BY <1>6 DEF AskToDelete, JobBegins, JobGoesOn, OtherMessageComes, DaemonActs, PageReloads,
       groupVars, FileStays
  <2> QED BY <2>1, SameGroups
<1>7. CASE JobEnds \/ ListComes
  <2>1. RemoveDeletedFontsFromGroups(list')
    BY <1>7 DEF JobEnds, ListComes
  <2> QED BY <2>1, RemoveDeletedInv
<1>8. CASE CloseAndOpen \/ KillAndOpen
  <2>1. groups' = file' /\ file' \in {groups, file}
    BY <1>8 DEF CloseAndOpen, KillAndOpen, Closing, Opened
  <2> QED BY <2>1 DEF GroupsInv, SavedUnlessModified
<1>9. CASE OtherWrites
  <2>1. groups' = groups /\ file' = NoGroups /\ foreign'
    BY <1>9 DEF OtherWrites
  <2>2. IsMap(NoGroups)
    BY DEF IsMap, NoGroups
  <2> QED BY <2>1, <2>2 DEF GroupsInv, SavedUnlessModified
<1>10. CASE UNCHANGED allVars
  BY <1>10, SameGroups DEF allVars, groupVars
<1> QED BY <1>1, <1>2, <1>3, <1>4, <1>5, <1>6, <1>7, <1>8, <1>9, <1>10 DEF GroupsNext

\* What is not modified is what the file holds, unless a save failed unnoticed or
\* another program has written the file since (GroupList.cpp:511).
THEOREM UnmodifiedIsSaved == GroupsSpec => []SavedUnlessModified
<1>1. GroupsInit => GroupsInv
  BY DEF GroupsInit, GroupsInv, SavedUnlessModified, IsMap, NoGroups
<1>2. GroupsInv /\ [GroupsNext]_allVars => GroupsInv'
  BY GroupsStep
<1>3. GroupsInv => SavedUnlessModified
  BY DEF GroupsInv
<1> QED BY <1>1, <1>2, <1>3, PTL DEF GroupsSpec

-----------------------------------------------------------------------------
(* The page's cleaning of the groups.                                      *)

\* Of the list, the page does what the font list may do, or opens it anew.
LEMMA GroupsListStep ==
  ASSUME [GroupsNext]_allVars
  PROVE  [Next]_listVars \/ Opened
<1>1. CASE CreateGroup \/ RemoveGroup \/ RenameGroup \/ AddToGroup \/ RemoveFromGroup
           \/ SelectGroup \/ AskToDelete \/ OtherWrites
  <2>1. UNCHANGED listVars
    BY <1>1 DEF CreateGroup, RemoveGroup, RenameGroup, AddToGroup, RemoveFromGroup, SelectGroup,
       AskToDelete, OtherWrites
  <2> QED BY <2>1
<1>2. CASE JobBegins
  BY <1>2 DEF JobBegins, Next
<1>3. CASE JobGoesOn
  BY <1>3 DEF JobGoesOn, Next
<1>4. CASE JobEnds
  <2>1. JobConfigures \/ UNCHANGED listVars
    BY <1>4 DEF JobEnds
  <2> QED BY <2>1 DEF Next
<1>5. CASE ListComes \/ OtherMessageComes
  BY <1>5 DEF ListComes, OtherMessageComes, Next
<1>6. CASE DaemonActs
  BY <1>6 DEF DaemonActs, Next
<1>7. CASE PageReloads
  BY <1>7 DEF PageReloads, Next
<1>8. CASE CloseAndOpen \/ KillAndOpen
  BY <1>8 DEF CloseAndOpen, KillAndOpen
<1>9. CASE UNCHANGED allVars
  BY <1>9 DEF allVars
<1> QED BY <1>1, <1>2, <1>3, <1>4, <1>5, <1>6, <1>7, <1>8, <1>9 DEF GroupsNext

LEMMA OpenedInv ==
  ASSUME ListInv, Opened
  PROVE  ListInv'
<1>1. /\ wire' = <<>> /\ calls' = 1 /\ list' = NoFonts /\ held' = Nothing /\ slow' = FALSE
      /\ known' = known /\ disk' = disk /\ alive' = alive
  BY DEF Opened, daemonVars
<1>2. ListTypes'
  <2>1. alive' \in BOOLEAN /\ disk' \subseteq Files /\ known' \subseteq Files
    BY <1>1 DEF ListInv, ListTypes
  <2>2. wire' \in Seq(Messages) /\ calls' \in Nat
    BY <1>1
  <2>3. list'.files \subseteq Files
    BY <1>1 DEF NoFonts
  <2>4. held' \in HeldFiles
    BY <1>1, NothingHeld
  <2>5. slow' \in BOOLEAN
    BY <1>1
  <2> QED BY <2>1, <2>2, <2>3, <2>4, <2>5 DEF ListTypes
<1>3. HeldOnlyWhileSlow'
  BY <1>1 DEF HeldOnlyWhileSlow
<1>4. CopyOK(list', allowed')
  BY <1>1 DEF CopyOK, LitOK, StatsOK, NoFonts, FamiliesOf
<1>5. ASSUME NEW f \in Files PROVE NoSurplus(f, wire', State')
  BY <1>1, NothingHeld, FontListAssumption DEF NoSurplus, Kept, PresentIn, State, NoFonts, Kinds
<1>6. Faithful'
  BY <1>1, <1>5 DEF Faithful
<1> QED BY <1>2, <1>3, <1>4, <1>6 DEF ListInv

\* The list of the page is as faithful as the list alone.
LEMMA GroupsList == GroupsSpec => []ListInv
<1>1. GroupsInit => ListInv
  BY ListInit DEF GroupsInit
<1>2. ASSUME ListInv, [GroupsNext]_allVars PROVE ListInv'
  BY <1>2, GroupsListStep, ListStep, OpenedInv
<1> QED BY <1>1, <1>2, PTL DEF GroupsSpec

\* A family the list does not have is not installed, but for what it is wrong about.
LEMMA NotListed ==
  ASSUME ListInv, Quiet, NEW f \in known, ~HasFamily(f.family, list)
  PROVE  f \in missed \cup readded
<1>1. f \notin list.files
  BY DEF HasFamily, FamiliesOf
<1> QED BY <1>1, QuietIsFaithful DEF ShowsWhatIsKnown

LEMMA NextQuietIsFaithful == ListInv' => ShowsWhatIsKnown'
<1>1. ListInv => ShowsWhatIsKnown
  BY QuietIsFaithful
<1> QED BY <1>1, PTL

\* What the page takes out of the groups when a list comes, or a job ends, in the
\* quiet: the list of the step before would have been right to.
LEMMA TakenIsGone ==
  ASSUME ListInv', Quiet', RemoveDeletedFontsFromGroups(list'), known' = known,
         missed' = missed, readded' = readded,
         NEW n \in DOMAIN groups, NEW f \in known, f.family \in Removed(n)
  PROVE  f \in missed \cup readded
<1>1. ~HasFamily(f.family, list')
  BY DEF RemoveDeletedFontsFromGroups, Removed, Deleted
<1>2. f \notin list'.files
  BY <1>1 DEF HasFamily, FamiliesOf
<1> QED BY <1>2, NextQuietIsFaithful DEF ShowsWhatIsKnown

\* A message that leaves nothing held has added nothing to what was held.
LEMMA QuietMessage ==
  ASSUME ListInv, Deliver, Head(wire).kind = "list", Quiet'
  PROVE  known' = known /\ missed' = missed /\ readded' = readded
<1> DEFINE m == Head(wire)
<1>1. m \in Messages
  BY DEF Deliver, ListInv, ListTypes
<1>2. FontsReceived(m) /\ known' = known
  BY DEF Deliver, daemonVars
<1> HIDE DEF m
<1>3. slow /\ m.files # {} => held' # Nothing
  BY <1>1, <1>2, MessageShows DEF ListInv, HeldOnlyWhileSlow
<1>4. ~slow \/ m.files = {}
  BY <1>3 DEF Quiet
<1> QED BY <1>2, <1>4 DEF FontsReceived

\* The page by itself takes only families out of a group that are not installed any
\* more, when the list is complete; but for the files it is wrong about
\* (KCmFontInst.cpp:1118).
THEOREM PageKeepsInstalled == GroupsSpec => GroupsKeepInstalled
<1> DEFINE Step ==
      PageRemoves /\ DOMAIN groups' = DOMAIN groups /\ Quiet' =>
        \A n \in DOMAIN groups : \A f \in known :
          f.family \in Removed(n) => f \in missed \cup readded
<1>1. ASSUME ListInv, ListInv', [GroupsNext]_allVars PROVE [Step]_allVars
  <2> SUFFICES ASSUME PageRemoves, DOMAIN groups' = DOMAIN groups, Quiet',
                      NEW n \in DOMAIN groups, NEW f \in known, f.family \in Removed(n)
               PROVE  f \in missed \cup readded
    OBVIOUS
  <2>1. CASE CreateGroup \/ RemoveGroup \/ RenameGroup
    <3>1. DOMAIN groups' # DOMAIN groups
      BY <2>1 DEF CreateGroup, RemoveGroup, RenameGroup, SetAndSave
    <3> QED BY <3>1
  <2>2. CASE AddToGroup \/ RemoveFromGroup
    <3>1. UNCHANGED <<validated, job, wire>>
      BY <2>2 DEF AddToGroup, RemoveFromGroup, listVars
    <3> QED BY <3>1 DEF PageRemoves
  <2>3. CASE SelectGroup
    <3>1. ~HasFamily(f.family, list)
      BY <2>3 DEF SelectGroup, Removed
    <3>2. Quiet
      BY <2>3 DEF SelectGroup, Quiet, listVars
    <3> QED BY <1>1, <3>1, <3>2, NotListed
  <2>4. CASE JobEnds
    <3>1. RemoveDeletedFontsFromGroups(list')
      BY <2>4 DEF JobEnds
    <3>2. known' = known /\ missed' = missed /\ readded' = readded
      BY <2>4 DEF JobEnds, JobConfigures, listVars, daemonVars
    <3> QED BY <1>1, <3>1, <3>2, TakenIsGone
  <2>5. CASE ListComes
    <3>1. RemoveDeletedFontsFromGroups(list')
      BY <2>5 DEF ListComes
    <3>2. known' = known /\ missed' = missed /\ readded' = readded
      BY <1>1, <2>5, QuietMessage DEF ListComes
    <3> QED BY <1>1, <3>1, <3>2, TakenIsGone
  <2>6. CASE CloseAndOpen \/ KillAndOpen
    <3>1. calls' = 1
      BY <2>6 DEF CloseAndOpen, KillAndOpen, Opened
    <3> QED BY <3>1 DEF Quiet
  <2>7. CASE \/ AskToDelete \/ JobBegins \/ JobGoesOn \/ OtherMessageComes \/ DaemonActs
             \/ PageReloads \/ OtherWrites \/ UNCHANGED allVars
    <3>1. groups' = groups
      BY <2>7 DEF AskToDelete, JobBegins, JobGoesOn, OtherMessageComes, DaemonActs, PageReloads,
         OtherWrites, allVars, groupVars
    <3> QED BY <3>1 DEF PageRemoves
  <2> QED BY <1>1, <2>1, <2>2, <2>3, <2>4, <2>5, <2>6, <2>7 DEF GroupsNext
<1>2. GroupsSpec => [][Step]_allVars
  BY <1>1, GroupsList, PTL DEF GroupsSpec
<1> QED BY <1>2 DEF GroupsKeepInstalled

=============================================================================
