--------------------------- MODULE FileIndex_proofs ---------------------------
(***************************************************************************)
(* The filesystem index says nothing false and hides nothing that is       *)
(* dirty, and what a save names is there, for every directory tree, any    *)
(* number of changes, kills and lost objects.                              *)
(***************************************************************************)
EXTENDS FileIndex, FiniteSetTheorems, TLAPS

\* Paths that the command has been at.
Visited(p) == \E i \in 1..(pos - 1) : Order[i] = p

-----------------------------------------------------------------------------
(***************************************************************************)
(* What the index says of a file                                           *)
(***************************************************************************)

\* What is above an entry has an entry, too.
EntriesAbove ==
    \A p \in Paths : IsEntry(ix[p]) => \A d \in Above[p] : IsEntry(ix[d])

\* New entries have no hash.
NewAreInvalid ==
    \A p \in Paths : IsEntry(fresh[p]) =>
        fresh[p].exists /\ ~fresh[p].valid /\ fresh[p].sha = None

\* A time that was recorded is no later than the file's.
StampsArePast ==
    \A f \in Files :
        /\ IsEntry(ix[f]) => ix[f].stat.stamp <= stamp[f]
        /\ IsEntry(fresh[f]) => fresh[f].stat.stamp <= stamp[f]
        /\ pst[f] # None => pst[f].stamp <= stamp[f]

\* What save skipped last accounts for all that is not valid where it has
\* been.
SkipsAreKnown ==
    pc = "save" =>
        \A i \in 1..(pos - 1) :
            IsThere(ix[Order[i]]) /\ ~IsValid(ix[Order[i]]) =>
                \E k \in 1..(pos - 1) :
                    /\ lastskip = Order[k]
                    /\ k >= i \/ lastskip = Order[i] \/ IsBelow(lastskip, Order[i])

-----------------------------------------------------------------------------
(***************************************************************************)
(* What a save names is there                                              *)
(***************************************************************************)

\* The hash of a file is its contents', the hash of a directory that of
\* items below it.
HashesInPlace ==
    \A p \in Paths : IsEntry(ix[p]) /\ ix[p].sha # None =>
        \/ p \in Files /\ ix[p].sha \in Contents
        \/ p \in Dirs /\ ix[p].sha \subseteq Items /\ \A j \in ix[p].sha : IsBelow(j[1], p)

\* The items on the stack: in their place, visited, and nothing of a
\* directory that is yet to be visited but in what is on the stack for it or
\* below it.
Gathered ==
    pc = "save" =>
        \A d \in Dirs \cup {Root} : \A j \in tree[d] :
            /\ Visited(j[1])
            /\ d # Root => IsBelow(j[1], d)
            /\ \A e \in Above[j[1]] : Visited(e) \/ e = d \/ (d # Root /\ IsBelow(d, e))

NamesExist ==
    pc = "save" =>
        /\ Closed(stored \cup written)
        /\ \A d \in Dirs \cup {Root} : Named(tree[d]) \subseteq stored \cup written

StoredIsClosed == Closed(stored)

-----------------------------------------------------------------------------
(***************************************************************************)
(* Paths and their order                                                   *)
(***************************************************************************)

\* Order is a sequence of all the paths.
LEMMA OrderIs ==
    /\ Len(Order) \in Nat
    /\ DOMAIN Order = 1..Len(Order)
    /\ \A i \in 1..Len(Order) : Order[i] \in Paths
<1>1. Cardinality(Paths) \in Nat
  BY FileIndexParameters, FS_CardinalityType
<1>2. Order \in [1..Cardinality(Paths) -> Paths]
  BY OrderDescends
<1>3. Order \in Seq(Paths) /\ Len(Order) = Cardinality(Paths)
  BY <1>1, <1>2
<1>4. QED
  BY <1>1, <1>2, <1>3

\* Each path has its place, and what is below a directory comes before it, in
\* one run.
LEMMA Places ==
    /\ \A p \in Paths : \E i \in 1..Len(Order) : Order[i] = p
    /\ \A i, j \in 1..Len(Order) : Order[i] = Order[j] => i = j
    /\ \A i, j \in 1..Len(Order) : IsBelow(Order[i], Order[j]) => i < j
    /\ \A i, j \in 1..Len(Order) : IsBelow(Order[i], Order[j]) =>
           \A k \in i..(j - 1) : IsBelow(Order[k], Order[j])
  BY OrderIs, OrderDescends

\* Files and directories are paths and differ, and nothing is None.
LEMMA PathKinds ==
    /\ Files \subseteq Paths /\ Dirs \subseteq Paths /\ Files \cap Dirs = {}
    /\ Paths \subseteq Files \cup Dirs
    /\ Root \notin Paths /\ None \notin Paths /\ None \notin Contents
    /\ Top \in Dirs /\ None \notin Entries /\ None \notin Stats
  BY FileIndexParameters, NoneIsNone DEF Paths

\* What is above a path.
LEMMA AboveIs ==
    /\ \A p \in Paths : Above[p] \subseteq Dirs /\ p \notin Above[p]
    /\ \A p \in Paths : \A d \in Above[p] : Above[d] \subseteq Above[p]
    /\ \A p \in Paths : \A d, e \in Above[p] : d = e \/ IsBelow(d, e) \/ IsBelow(e, d)
  BY FileIndexParameters

\* A path but Top is in a directory, and that is below all others above it.
LEMMA ParentIs ==
    ASSUME NEW p \in Paths
    PROVE  /\ p = Top => Parent(p) = Root /\ Above[p] = {}
           /\ p # Top => /\ Parent(p) \in Dirs /\ Parent(p) \in Above[p]
                        /\ Above[p] = Above[Parent(p)] \cup {Parent(p)}
<1>1. CASE p = Top
  BY <1>1, FileIndexParameters DEF Parent
<1>2. CASE p # Top
  <2>1. \E d \in Above[p] : Above[p] = Above[d] \cup {d}
    BY <1>2, FileIndexParameters
  <2>2. Parent(p) = CHOOSE d \in Above[p] : Above[p] = Above[d] \cup {d}
    BY <1>2 DEF Parent
  <2>3. Parent(p) \in Above[p] /\ Above[p] = Above[Parent(p)] \cup {Parent(p)}
    BY <2>1, <2>2
  <2>4. QED
    BY <1>2, <2>3, AboveIs
<1>3. QED
  BY <1>1, <1>2

-----------------------------------------------------------------------------
(***************************************************************************)
(* Entries                                                                 *)
(***************************************************************************)

\* The entry of p becomes e.
Replaced(p, e) == IsEntry(ix[p]) /\ ix' = Repack(p, e)

\* repack changes one entry, and the flag of those above it.
LEMMA RepackIs ==
    ASSUME TypeOK, EntriesAbove, NEW p \in Paths, IsEntry(ix[p]), NEW e \in Entries
    PROVE  /\ Repack(p, e) \in [Paths -> {None} \cup Entries]
           /\ Repack(p, e)[p] = e
           /\ \A q \in Paths : q # p =>
                 /\ IsEntry(Repack(p, e)[q]) <=> IsEntry(ix[q])
                 /\ IsEntry(ix[q]) =>
                       /\ Repack(p, e)[q].stat = ix[q].stat
                       /\ Repack(p, e)[q].sha = ix[q].sha
                       /\ Repack(p, e)[q].exists = ix[q].exists
                 /\ IsBelow(p, q) /\ ~IsValid(e) => ~IsValid(Repack(p, e)[q])
                 /\ ~(IsBelow(p, q) /\ ~IsValid(e)) => Repack(p, e)[q] = ix[q]
<1> DEFINE new == Repack(p, e)
<1>1. \A q \in Paths : new[q] = IF q = p THEN e
                                ELSE IF IsBelow(p, q) /\ ~IsValid(e)
                                     THEN [ix[q] EXCEPT !.valid = FALSE] ELSE ix[q]
  BY DEF Repack
<1>2. \A q \in Paths : ix[q] \in {None} \cup Entries
  BY DEF TypeOK
<1>3. \A q \in Paths : IsBelow(p, q) => ix[q] \in Entries
  BY <1>2, AboveIs DEF EntriesAbove, IsBelow, IsEntry
<1>4. \A q \in Paths : IsBelow(p, q) =>
        /\ [ix[q] EXCEPT !.valid = FALSE] \in Entries
        /\ [ix[q] EXCEPT !.valid = FALSE].stat = ix[q].stat
        /\ [ix[q] EXCEPT !.valid = FALSE].sha = ix[q].sha
        /\ [ix[q] EXCEPT !.valid = FALSE].exists = ix[q].exists
        /\ [ix[q] EXCEPT !.valid = FALSE].valid = FALSE
  BY <1>3 DEF Entries
<1>5. \A q \in Paths : new[q] \in {None} \cup Entries
  BY <1>1, <1>2, <1>4
<1>6. new \in [Paths -> {None} \cup Entries]
  BY <1>5 DEF Repack
<1>7. new[p] = e
  BY <1>1
<1>8. ASSUME NEW q \in Paths, q # p
      PROVE  /\ IsEntry(new[q]) <=> IsEntry(ix[q])
             /\ IsEntry(ix[q]) =>
                   /\ new[q].stat = ix[q].stat
                   /\ new[q].sha = ix[q].sha
                   /\ new[q].exists = ix[q].exists
             /\ IsBelow(p, q) /\ ~IsValid(e) => ~IsValid(new[q])
             /\ ~(IsBelow(p, q) /\ ~IsValid(e)) => new[q] = ix[q]
  <2>1. CASE IsBelow(p, q) /\ ~IsValid(e)
    <3>1. new[q] = [ix[q] EXCEPT !.valid = FALSE] /\ new[q] \in Entries /\ ix[q] \in Entries
      BY <1>1, <1>3, <1>4, <1>8, <2>1
    <3>2. IsEntry(new[q]) /\ IsEntry(ix[q])
      BY <3>1, PathKinds DEF IsEntry
    <3>3. QED
      BY <1>4, <2>1, <3>1, <3>2 DEF IsValid
  <2>2. CASE ~(IsBelow(p, q) /\ ~IsValid(e))
    BY <1>1, <1>8, <2>2
  <2>3. QED
    BY <2>1, <2>2
<1> HIDE DEF new
<1>9. QED
  BY <1>6, <1>7, <1>8 DEF new

\* bup index at a path that is gone,
LEMMA IxDeletedIs ==
    ASSUME TypeOK, NEW p \in Paths, IxDeleted(p)
    PROVE  \/ ix' = ix /\ ~IsThere(ix[p])
           \/ \E e \in Entries :
                 /\ Replaced(p, e)
                 /\ ~e.exists /\ ~e.valid /\ e.stat = ix[p].stat /\ e.sha = ix[p].sha
<1>1. CASE IsThere(ix[p])
  <2> DEFINE e == [ix[p] EXCEPT !.exists = FALSE, !.valid = FALSE]
  <2>1. ix' = Repack(p, e) /\ IsEntry(ix[p])
    BY <1>1 DEF IxDeleted, IsThere
  <2>2. ix[p] \in Entries
    BY <2>1 DEF TypeOK, IsEntry
  <2>3. e \in Entries /\ ~e.exists /\ ~e.valid /\ e.stat = ix[p].stat /\ e.sha = ix[p].sha
    BY <2>2 DEF Entries
  <2> HIDE DEF e
  <2>4. QED
    BY <2>1, <2>3 DEF Replaced
<1>2. CASE ~IsThere(ix[p])
  BY <1>2 DEF IxDeleted
<1>3. QED
  BY <1>1, <1>2

\* and at one it has an entry for, which it leaves as it is only if nothing
\* changed.
LEMMA IxKnownIs ==
    ASSUME TypeOK, NEW p \in Paths, IxKnown(p)
    PROVE  \/ ix' = ix /\ ~Stale(ix[p], pst[p])
           \/ \E e \in Entries :
                 /\ Replaced(p, e)
                 /\ e.exists /\ ~e.valid /\ e.stat = pst[p] /\ e.sha = ix[p].sha
<1>1. IsEntry(ix[p]) /\ ix[p] \in Entries /\ pst[p] \in Stats
  BY DEF IxKnown, TypeOK, IsEntry
<1>2. CASE Stale(ix[p], pst[p])
  <2> DEFINE u == UpdateFromStat(ix[p], pst[p])
             e == [u EXCEPT !.valid = FALSE]
  <2>1. ix' = Repack(p, e)
    BY <1>2 DEF IxKnown
  <2>2. u \in Entries /\ u.exists /\ u.stat = pst[p] /\ u.sha = ix[p].sha
    BY <1>1 DEF Entries, UpdateFromStat
  <2> HIDE DEF u
  <2>3. e \in Entries /\ e.exists /\ ~e.valid /\ e.stat = pst[p] /\ e.sha = ix[p].sha
    BY <2>2 DEF Entries
  <2> HIDE DEF e
  <2>4. QED
    BY <1>1, <2>1, <2>3 DEF Replaced
<1>3. CASE ~Stale(ix[p], pst[p]) /\ invalid
  <2> DEFINE e == [ix[p] EXCEPT !.valid = FALSE]
  <2>1. ix' = Repack(p, e)
    BY <1>3 DEF IxKnown
  <2>2. e \in Entries /\ e.exists /\ ~e.valid /\ e.stat = pst[p] /\ e.sha = ix[p].sha
    BY <1>1, <1>3 DEF Entries, Stale
  <2> HIDE DEF e
  <2>3. QED
    BY <1>1, <2>1, <2>2 DEF Replaced
<1>4. CASE ~Stale(ix[p], pst[p]) /\ ~invalid
  BY <1>4 DEF IxKnown
<1>5. QED
  BY <1>2, <1>3, <1>4

\* save at a file that it reads,
LEMMA SaveFileIs ==
    ASSUME TypeOK, NEW f \in Files, SaveFile(f)
    PROVE  /\ IsThere(ix[f]) /\ fs[f] \in Contents
           /\ \E e \in Entries :
                 /\ Replaced(f, e)
                 /\ e.exists /\ e.valid /\ e.stat = ix[f].stat /\ e.sha = fs[f]
<1>1. IsThere(ix[f]) /\ fs[f] # None /\ f \in Paths
  BY PathKinds DEF SaveFile, Saves, Absent, Readable
<1>2. ix[f] \in Entries /\ fs[f] \in Contents /\ ix[f].exists
  BY <1>1 DEF TypeOK, IsThere, IsEntry
<1> DEFINE e == [ix[f] EXCEPT !.sha = fs[f], !.valid = TRUE]
<1>3. e \in Entries /\ e.exists /\ e.valid /\ e.stat = ix[f].stat /\ e.sha = fs[f]
  BY <1>2 DEF Entries, Objects
<1>4. ix' = [ix EXCEPT ![f] = e]
  BY <1>1, <1>2 DEF SaveFile, TypeOK, Entries
<1>5. IsValid(e)
  BY <1>3, PathKinds DEF IsValid, IsThere, IsEntry
<1> HIDE DEF e
<1>6. ix' = [q \in Paths |-> IF q = f THEN e ELSE ix[q]]
  BY <1>1, <1>4 DEF TypeOK
<1>7. ix' = Repack(f, e)
  BY <1>5, <1>6 DEF Repack
<1>8. QED
  BY <1>1, <1>2, <1>3, <1>7 DEF Replaced, IsThere

\* and at a directory.
LEMMA SaveDirIs ==
    ASSUME TypeOK, NEW d \in Dirs, SaveDir(d)
    PROVE  /\ IsThere(ix[d])
           /\ \/ AlreadySaved(ix[d]) /\ ix' = ix
              \/ /\ ~AlreadySaved(ix[d])
                 /\ \E e \in Entries :
                       /\ Replaced(d, e)
                       /\ e.exists /\ e.stat = ix[d].stat
                       /\ IF Skipped(d) THEN ~e.valid /\ e.sha = ix[d].sha
                          ELSE e.valid /\ e.sha = tree[d]
<1>1. IsThere(ix[d]) /\ d \in Paths
  BY PathKinds DEF SaveDir, Saves, Absent
<1>2. ix[d] \in Entries /\ ix[d].exists /\ tree[d] \in SUBSET Items
  BY <1>1 DEF TypeOK, IsThere, IsEntry
<1>3. CASE AlreadySaved(ix[d])
  BY <1>1, <1>3 DEF SaveDir
<1>4. CASE ~AlreadySaved(ix[d]) /\ Skipped(d)
  <2> DEFINE e == [ix[d] EXCEPT !.valid = FALSE]
  <2>1. e \in Entries /\ e.exists /\ ~e.valid /\ e.stat = ix[d].stat /\ e.sha = ix[d].sha
    BY <1>2 DEF Entries
  <2>2. ix' = Repack(d, e)
    BY <1>4 DEF SaveDir
  <2> HIDE DEF e
  <2>3. QED
    BY <1>1, <1>4, <2>1, <2>2 DEF Replaced, IsThere
<1>5. CASE ~AlreadySaved(ix[d]) /\ ~Skipped(d)
  <2> DEFINE e == [ix[d] EXCEPT !.sha = tree[d], !.valid = TRUE]
  <2>1. e \in Entries /\ e.exists /\ e.valid /\ e.stat = ix[d].stat /\ e.sha = tree[d]
    BY <1>2 DEF Entries, Objects
  <2>2. ix' = Repack(d, e)
    BY <1>5 DEF SaveDir
  <2> HIDE DEF e
  <2>3. QED
    BY <1>1, <1>5, <2>1, <2>2 DEF Replaced, IsThere
<1>6. QED
  BY <1>1, <1>3, <1>4, <1>5

\* The merge takes the new entries, keeps the old ones or puts a blank one for
\* a directory above a new one.
LEMMA MergedIs ==
    ASSUME TypeOK
    PROVE  /\ Merged \in [Paths -> {None} \cup Entries]
           /\ \A p \in Paths :
                 \/ IsEntry(fresh[p]) /\ Merged[p] = fresh[p]
                 \/ /\ ~IsEntry(fresh[p]) /\ Merged[p] = BlankNewEntry /\ p \in Dirs
                    /\ IsEntry(ix[p]) => IsValid(ix[p])
                 \/ /\ ~IsEntry(fresh[p]) /\ Merged[p] = ix[p]
                    /\ \/ IsEntry(ix[p]) /\ ~IsValid(ix[p])
                       \/ \A q \in Paths : IsBelow(q, p) => ~IsEntry(fresh[q])
           /\ BlankNewEntry \in Entries
<1>1. BlankNewEntry \in Entries
  <2>1. -1 \in -1..MaxTime
    BY FileIndexParameters
  <2>2. BlankNewEntry.stat \in Stats
    BY <2>1 DEF BlankNewEntry, Stats
  <2>3. QED
    BY <2>2 DEF BlankNewEntry, Entries
<1>2. \A p \in Paths : fresh[p] \in {None} \cup Entries /\ ix[p] \in {None} \cup Entries
  BY DEF TypeOK
<1>3. ASSUME NEW p \in Paths
      PROVE  \/ IsEntry(fresh[p]) /\ Merged[p] = fresh[p]
             \/ /\ ~IsEntry(fresh[p]) /\ Merged[p] = BlankNewEntry /\ p \in Dirs
                /\ IsEntry(ix[p]) => IsValid(ix[p])
             \/ /\ ~IsEntry(fresh[p]) /\ Merged[p] = ix[p]
                /\ \/ IsEntry(ix[p]) /\ ~IsValid(ix[p])
                   \/ \A q \in Paths : IsBelow(q, p) => ~IsEntry(fresh[q])
  <2>1. Merged[p] = IF IsEntry(fresh[p]) THEN fresh[p]
                    ELSE IF /\ IsEntry(ix[p]) => IsValid(ix[p])
                            /\ \E q \in Paths : IsBelow(q, p) /\ IsEntry(fresh[q])
                    THEN BlankNewEntry ELSE ix[p]
    BY DEF Merged
  <2>2. (\E q \in Paths : IsBelow(q, p)) => p \in Dirs
    BY AboveIs DEF IsBelow
  <2>3. QED
    BY <2>1, <2>2
<1>4. Merged \in [Paths -> {None} \cup Entries]
  BY <1>1, <1>2, <1>3 DEF Merged
<1>5. QED
  BY <1>1, <1>3, <1>4

\* What lstat says.
LEMMA StatIs ==
    ASSUME TypeOK, NEW p \in Paths
    PROVE  /\ Stat(p) \in Stats /\ Stat(p).stamp = stamp[p]
           /\ p \in Dirs => Stat(p).kind = "dir" /\ Stat(p).large = (p \in Large)
           /\ p \in Files => Stat(p).large = (fs[p] \in Large)
<1>1. stamp[p] \in -1..MaxTime
  BY FileIndexParameters DEF TypeOK
<1>2. (p \in Large) \in BOOLEAN /\ (fs[p] \in Large) \in BOOLEAN
  OBVIOUS
<1>3. QED
  BY <1>1, <1>2, PathKinds DEF Stat, Stats

-----------------------------------------------------------------------------
(***************************************************************************)
(* Types                                                                   *)
(***************************************************************************)

\* A change of one entry keeps the entries entries.
LEMMA ReplacedIs ==
    ASSUME TypeOK, EntriesAbove, NEW p \in Paths, NEW e \in Entries, Replaced(p, e),
           e.valid => e.sha # None
    PROVE  /\ ix' \in [Paths -> {None} \cup Entries]
           /\ \A q \in Paths : IsValid(ix'[q]) => ix'[q].sha # None
           /\ EntriesAbove'
<1>1. IsEntry(ix[p]) /\ ix' = Repack(p, e)
  BY DEF Replaced
<1>2. ix' \in [Paths -> {None} \cup Entries]
  BY <1>1, RepackIs
<1>3. ASSUME NEW q \in Paths, IsValid(ix'[q])
      PROVE  ix'[q].sha # None
  <2>1. CASE q = p
    BY <1>1, <1>3, <2>1, RepackIs DEF IsValid
  <2>2. CASE q # p /\ IsBelow(p, q) /\ ~IsValid(e)
    BY <1>1, <1>3, <2>2, RepackIs
  <2>3. CASE q # p /\ ~(IsBelow(p, q) /\ ~IsValid(e))
    <3>1. ix'[q] = ix[q]
      BY <1>1, <2>3, RepackIs
    <3>2. QED
      BY <1>3, <3>1 DEF TypeOK
  <2>4. QED
    BY <2>1, <2>2, <2>3
<1>4. \A q \in Paths : IsEntry(ix'[q]) <=> IsEntry(ix[q])
  <2>1. IsEntry(e)
    BY PathKinds DEF IsEntry
  <2>2. QED
    BY <1>1, <2>1, RepackIs
<1>5. EntriesAbove'
  BY <1>4, AboveIs, PathKinds DEF EntriesAbove
<1>6. QED
  BY <1>2, <1>3, <1>5

\* The entries are entries after every step.
LEMMA EntriesStep ==
    ASSUME TypeOK, EntriesAbove, NewAreInvalid, [Next]_vars
    PROVE  /\ ix' \in [Paths -> {None} \cup Entries]
           /\ \A q \in Paths : IsValid(ix'[q]) => ix'[q].sha # None
           /\ EntriesAbove'
<1> DEFINE Goal == /\ ix' \in [Paths -> {None} \cup Entries]
                   /\ \A q \in Paths : IsValid(ix'[q]) => ix'[q].sha # None
                   /\ EntriesAbove'
<1>1. CASE ix' = ix
  BY <1>1 DEF TypeOK, EntriesAbove
<1>2. ASSUME NEW p \in Paths, IxDeleted(p)
      PROVE  Goal
  <2>1. ASSUME NEW e \in Entries, Replaced(p, e), ~e.valid
        PROVE  Goal
    BY <2>1, ReplacedIs
  <2>2. QED
    BY <1>1, <1>2, <2>1, IxDeletedIs
<1>3. ASSUME NEW p \in Paths, IxKnown(p)
      PROVE  Goal
  <2>1. ASSUME NEW e \in Entries, Replaced(p, e), ~e.valid
        PROVE  Goal
    BY <2>1, ReplacedIs
  <2>2. QED
    BY <1>1, <1>3, <2>1, IxKnownIs
<1>4. ASSUME NEW f \in Files, SaveFile(f)
      PROVE  Goal
  <2>1. PICK e \in Entries : Replaced(f, e) /\ e.sha = fs[f] /\ fs[f] \in Contents
    BY <1>4, SaveFileIs
  <2>2. QED
    BY <2>1, ReplacedIs, PathKinds
<1>5. ASSUME NEW d \in Dirs, SaveDir(d)
      PROVE  Goal
  <2>1. ASSUME NEW e \in Entries, Replaced(d, e), ~e.valid \/ e.sha = tree[d]
        PROVE  Goal
    <3>1. tree[d] \in SUBSET Items
      BY DEF TypeOK
    <3>2. e.valid => e.sha # None
      BY <2>1, <3>1, NoTreeIsContents
    <3>3. QED
      BY <2>1, <3>2, ReplacedIs, PathKinds
  <2>2. QED
    BY <1>1, <1>5, <2>1, SaveDirIs
<1>6. CASE IndexEnd
  <2>1. ix' = Merged
    BY <1>6 DEF IndexEnd
  <2>2. ix' \in [Paths -> {None} \cup Entries]
    BY <2>1, MergedIs
  <2>3. ASSUME NEW q \in Paths, IsValid(ix'[q])
        PROVE  ix'[q].sha # None
    <3>1. ix'[q] = ix[q]
      BY <2>1, <2>3, MergedIs DEF NewAreInvalid, IsValid, BlankNewEntry
    <3>2. QED
      BY <2>3, <3>1 DEF TypeOK
  <2>4. ASSUME NEW p \in Paths, IsEntry(ix'[p]), NEW d \in Above[p]
        PROVE  IsEntry(ix'[d])
    <3>0. d \in Paths /\ IsEntry(BlankNewEntry) /\ d \in Dirs
      BY AboveIs, PathKinds, MergedIs DEF IsEntry
    <3>1. CASE IsEntry(ix[p])
      <4>1. IsEntry(ix[d])
        BY <3>1 DEF EntriesAbove
      <4>2. QED
        BY <2>1, <3>0, <4>1, MergedIs
    <3>2. CASE ~IsEntry(ix[p])
      <4>1. \E q \in Paths : IsBelow(q, d) /\ IsEntry(fresh[q])
        <5>1. IsEntry(fresh[p]) \/ \E q \in Paths : IsBelow(q, p) /\ IsEntry(fresh[q])
          BY <2>1, <2>4, <3>2 DEF Merged
        <5>2. QED
          BY <5>1, AboveIs, PathKinds DEF IsBelow
      <4>2. QED
        BY <2>1, <3>0, <4>1, MergedIs
    <3>3. QED
      BY <3>1, <3>2
  <2>5. EntriesAbove'
    BY <2>4 DEF EntriesAbove
  <2>6. QED
    BY <2>2, <2>3, <2>5
<1>7. QED
  BY <1>1, <1>2, <1>3, <1>4, <1>5, <1>6
     DEF Next, IndexNext, SaveNext, vars, Tick, Change, IndexBegin, SaveBegin, ListDir, IxNew, IxError,
         SavePass, SaveTooLarge, SaveKnown, SaveChanged, SaveEnd, IndexKilled, SaveKilled,
         SaveReadError, Lose

\* At first everything has its type,
LEMMA TypeInit == Init => TypeOK
<1> SUFFICES ASSUME Init
             PROVE  TypeOK
  OBVIOUS
<1>1. Len(Order) \in Nat /\ {MaxTime, MaxEvents, MaxFaults} \subseteq Nat
  BY OrderIs, FileIndexParameters
<1>2. ix \in [Paths -> {None} \cup Entries] /\ fresh \in [Paths -> {None} \cup Entries]
      /\ pst \in [Paths -> Stats \cup {None}]
  BY DEF Init, NoEntries
<1>3. tree \in [Dirs \cup {Root} -> SUBSET Items]
  BY DEF Init, NoItems
<1>4. \A p \in Paths : ~IsValid(ix[p])
  BY DEF Init, NoEntries, IsValid, IsThere, IsEntry
<1>5. fs \in [Files -> Contents \cup {None}]
  BY FileIndexParameters DEF Init
<1>6. stamp \in [Paths -> 0..MaxTime] /\ now \in 0..MaxTime /\ tmax \in -1..MaxTime
      /\ pos \in 1..(Len(Order) + 1) /\ changes \in 0..MaxEvents /\ faults \in 0..MaxFaults
  BY <1>1 DEF Init
<1>7. QED
  BY <1>2, <1>3, <1>4, <1>5, <1>6 DEF Init, TypeOK

\* and keeps it.
LEMMA TypeStep ==
    TypeOK /\ EntriesAbove /\ NewAreInvalid /\ HashesInPlace /\ [Next]_vars => TypeOK'
<1> SUFFICES ASSUME TypeOK, EntriesAbove, NewAreInvalid, HashesInPlace, [Next]_vars
             PROVE  TypeOK'
  OBVIOUS
<1>1. Len(Order) \in Nat /\ {MaxTime, MaxEvents, MaxFaults} \subseteq Nat
  BY OrderIs, FileIndexParameters
<1>2. /\ ix' \in [Paths -> {None} \cup Entries]
      /\ \A q \in Paths : IsValid(ix'[q]) => ix'[q].sha # None
  BY EntriesStep
<1>3. \A p \in Paths : IsValid(ix[p])' => ix'[p].sha # None
  BY <1>2 DEF IsValid, IsThere, IsEntry
<1>4. \A p \in Paths : Stat(p) \in Stats
  BY StatIs
<1>5. NoEntries \in [Paths -> {None} \cup Entries] /\ NoEntries \in [Paths -> Stats \cup {None}]
      /\ NoItems \in [Dirs \cup {Root} -> SUBSET Items]
  BY DEF NoEntries, NoItems
<1>6. CASE UNCHANGED vars
  BY <1>6 DEF vars, files, indexing, saving, user, TypeOK, IsValid, IsThere, IsEntry, IsObject
<1>7. CASE Tick
  BY <1>1, <1>2, <1>3, <1>7 DEF Tick, vars, files, indexing, saving, user, TypeOK
<1>8. ASSUME NEW f \in Files, NEW c \in Contents \cup {None}, Change(f, c)
      PROVE  TypeOK'
  <2>1. stamp' \in [Paths -> 0..MaxTime]
    BY <1>1, <1>8 DEF Change, TypeOK
  <2>2. fs' \in [Files -> Contents \cup {None}] /\ changes' \in 0..MaxEvents
    BY <1>1, <1>8 DEF Change, TypeOK
  <2>3. QED
    BY <1>2, <1>3, <1>8, <2>1, <2>2 DEF Change, indexing, saving, TypeOK
<1>9. ASSUME NEW b \in BOOLEAN, IndexBegin(b)
      PROVE  TypeOK'
  <2>1. pst' \in [Paths -> Stats \cup {None}]
    BY <1>4, <1>5, <1>9 DEF IndexBegin
  <2>2. tmax' \in -1..MaxTime /\ pos' \in 1..(Len(Order) + 1)
    BY <1>1, <1>9 DEF IndexBegin, TypeOK
  <2>3. \A o \in stored \cup written' : IsObject(o)
    BY <1>9 DEF IndexBegin, SaveOver, TypeOK
  <2>4. QED
    BY <1>2, <1>3, <1>5, <1>9, <2>1, <2>2, <2>3
       DEF IndexBegin, SaveOver, files, indexing, saving, user, TypeOK
<1>10. ASSUME NEW b \in BOOLEAN, SaveBegin(b)
       PROVE  TypeOK'
  <2>1. pos' \in 1..(Len(Order) + 1)
    BY <1>1, <1>10 DEF SaveBegin
  <2>2. \A o \in stored \cup written' : IsObject(o)
    BY <1>10 DEF SaveBegin, TypeOK
  <2>3. QED
    BY <1>2, <1>3, <1>5, <1>10, <2>1, <2>2
       DEF SaveBegin, files, indexing, saving, user, TypeOK
<1>11. ASSUME NEW d \in Dirs, ListDir(d)
       PROVE  TypeOK'
  <2>1. pst' \in [Paths -> Stats \cup {None}]
    BY <1>4, <1>11 DEF ListDir, TypeOK
  <2>2. QED
    BY <1>2, <1>3, <1>11, <2>1 DEF ListDir, files, indexing, saving, user, TypeOK
<1>12. ASSUME NEW p \in Paths, Visiting(p), fresh' \in [Paths -> {None} \cup Entries]
       PROVE  TypeOK'
  <2>1. pos' \in 1..(Len(Order) + 1)
    BY <1>1, <1>12 DEF Visiting, TypeOK
  <2>2. QED
    BY <1>2, <1>3, <1>12, <2>1 DEF Visiting, files, indexing, saving, user, TypeOK
<1>13. ASSUME NEW p \in Paths, IxDeleted(p) \/ IxKnown(p) \/ IxError(p)
       PROVE  TypeOK'
  BY <1>12, <1>13 DEF IxDeleted, IxKnown, IxError, TypeOK
<1>14. ASSUME NEW p \in Paths, IxNew(p)
       PROVE  TypeOK'
  <2>1. pst[p] \in Stats /\ tmax \in -1..MaxTime
    BY <1>14 DEF IxNew, TypeOK
  <2>2. Fixup(pst[p]) \in Stats
    BY <2>1 DEF Fixup, Stats
  <2>3. NewEntry(pst[p]) \in Entries
    BY <2>2 DEF NewEntry, Entries
  <2>4. fresh' \in [Paths -> {None} \cup Entries]
    BY <1>14, <2>3 DEF IxNew, TypeOK
  <2>5. QED
    BY <1>12, <1>14, <2>4 DEF IxNew
<1>15. CASE IndexEnd
  <2>1. tmax' \in -1..MaxTime /\ pos' \in 1..(Len(Order) + 1)
    BY <1>1, <1>15 DEF IndexEnd, IndexOver
  <2>2. calm' \in {"no", "indexing", "yes"}
    BY <1>15 DEF IndexEnd
  <2>3. QED
    BY <1>2, <1>3, <1>5, <1>15, <2>1, <2>2
       DEF IndexEnd, IndexOver, files, indexing, saving, user, TypeOK
<1>16. CASE IndexKilled
  <2>1. tmax' \in -1..MaxTime /\ pos' \in 1..(Len(Order) + 1) /\ faults' \in 0..MaxFaults
    BY <1>1, <1>16 DEF IndexKilled, IndexOver, Fault, TypeOK
  <2>2. QED
    BY <1>2, <1>3, <1>5, <1>16, <2>1
       DEF IndexKilled, IndexOver, files, indexing, saving, user, TypeOK
<1>17. \A p \in Paths : AtEntry(p) => pos' \in 1..(Len(Order) + 1)
  BY <1>1 DEF AtEntry, TypeOK
<1>18. ASSUME NEW p \in Paths, AtEntry(p),
              opened' \subseteq Dirs, tree' \in [Dirs \cup {Root} -> SUBSET Items],
              lastskip' \in Paths \cup {None}, \A o \in written' : IsObject(o),
              failed' \in BOOLEAN, faults' \in 0..MaxFaults
       PROVE  TypeOK'
  <2>1. \A o \in stored' \cup written' : IsObject(o)
    BY <1>18 DEF AtEntry, TypeOK
  <2>2. pos' \in 1..(Len(Order) + 1)
    BY <1>17, <1>18
  <2>3. QED
    BY <1>2, <1>3, <1>18, <2>1, <2>2 DEF AtEntry, files, indexing, TypeOK
<1>19. \A d \in Dirs, t \in SUBSET Items : PopInto(d, t) \in [Dirs \cup {Root} -> SUBSET Items]
  <2> TAKE d \in Dirs, t \in SUBSET Items
  <2>1. <<d, "dir">> \in Items
    BY DEF Items
  <2>2. QED
    BY <2>1 DEF PopInto, TypeOK
<1>20. \A p \in Paths : opened \cup Above[p] \subseteq Dirs
  BY AboveIs DEF TypeOK
<1>21. ASSUME NEW p \in Paths, SavePass(p)
       PROVE  TypeOK'
  BY <1>18, <1>21 DEF SavePass, TypeOK
<1>22. ASSUME NEW p \in Paths, SaveTooLarge(p)
       PROVE  TypeOK'
  <2>1. p \in opened => p \in Dirs /\ tree[p] \in SUBSET Items
    BY DEF TypeOK
  <2>2. \A o \in written' : IsObject(o)
    BY <1>22, <2>1 DEF SaveTooLarge, TypeOK, IsObject
  <2>3. tree' \in [Dirs \cup {Root} -> SUBSET Items]
    BY <1>19, <1>22, <2>1 DEF SaveTooLarge, TypeOK
  <2>4. QED
    BY <1>18, <1>22, <2>2, <2>3 DEF SaveTooLarge, TypeOK
<1>23. ASSUME NEW f \in Files, NEW c \in Contents, tree' = [tree EXCEPT ![Parent(f)] = @ \cup {<<f, c>>}]
       PROVE  tree' \in [Dirs \cup {Root} -> SUBSET Items]
  <2>1. <<f, c>> \in Items
    BY DEF Items
  <2>2. QED
    BY <1>23, <2>1 DEF TypeOK
<1>24. ASSUME NEW f \in Files, SaveKnown(f)
       PROVE  TypeOK'
  <2>1. f \in Paths /\ IsEntry(ix[f]) /\ ix[f].sha # None
    BY <1>24, PathKinds DEF SaveKnown, AlreadySaved, IsValid, IsThere, TypeOK
  <2>2. ix[f].sha \in Contents
    BY <2>1, PathKinds DEF HashesInPlace
  <2>3. tree' \in [Dirs \cup {Root} -> SUBSET Items]
    BY <1>23, <1>24, <2>2 DEF SaveKnown
  <2>4. QED
    BY <1>18, <1>20, <1>24, <2>1, <2>3 DEF SaveKnown, Saves, TypeOK
<1>25. ASSUME NEW f \in Files, SaveChanged(f) \/ SaveReadError(f)
       PROVE  TypeOK'
  <2>1. faults' \in 0..MaxFaults
    BY <1>1, <1>25 DEF SaveChanged, SaveReadError, Fault, TypeOK
  <2>2. AtEntry(f) /\ f \in Paths /\ opened' = opened \cup Above[f] /\ lastskip' = f
        /\ UNCHANGED <<tree, written>> /\ failed' \in BOOLEAN
    BY <1>25, PathKinds DEF SaveChanged, SaveReadError, Saves, TypeOK
  <2>3. QED
    BY <1>18, <1>20, <2>1, <2>2 DEF TypeOK
<1>26. ASSUME NEW f \in Files, SaveFile(f)
       PROVE  TypeOK'
  <2>1. f \in Paths /\ fs[f] \in Contents
    BY <1>26, PathKinds, SaveFileIs
  <2>2. tree' \in [Dirs \cup {Root} -> SUBSET Items]
    BY <1>23, <1>26, <2>1 DEF SaveFile
  <2>3. \A o \in written' : IsObject(o)
    BY <1>26, <2>1 DEF SaveFile, TypeOK, IsObject
  <2>4. QED
    BY <1>18, <1>20, <1>26, <2>1, <2>2, <2>3 DEF SaveFile, Saves, TypeOK
<1>27. ASSUME NEW d \in Dirs, SaveDir(d)
       PROVE  TypeOK'
  <2>1. d \in Paths /\ tree[d] \in SUBSET Items
    BY PathKinds DEF TypeOK
  <2>2. AlreadySaved(ix[d]) => ix[d].sha \in SUBSET Items
    BY <2>1, PathKinds DEF HashesInPlace, AlreadySaved, IsValid, IsThere, TypeOK
  <2>3. tree' \in [Dirs \cup {Root} -> SUBSET Items]
    BY <1>19, <1>27, <2>1, <2>2 DEF SaveDir
  <2>4. \A o \in written' : IsObject(o)
    BY <1>27, <2>1 DEF SaveDir, TypeOK, IsObject
  <2>5. QED
    BY <1>18, <1>20, <1>27, <2>1, <2>3, <2>4 DEF SaveDir, Saves, TypeOK
<1>28. CASE SaveEnd
  <2>1. pos' \in 1..(Len(Order) + 1) /\ stored' \cup written' \subseteq stored \cup written
    BY <1>1, <1>28 DEF SaveEnd
  <2>2. QED
    BY <1>2, <1>3, <1>28, <2>1 DEF SaveEnd, files, indexing, user, TypeOK
<1>29. CASE SaveKilled \/ Lose
  <2>1. pos' \in 1..(Len(Order) + 1) /\ stored' \subseteq stored \cup written /\ written' = {}
        /\ faults' \in 0..MaxFaults /\ pc' = "idle"
    <3>1. stored' \subseteq stored \cup written
      BY <1>29 DEF SaveKilled, Lose
    <3>2. faults' \in 0..MaxFaults
      BY <1>1, <1>29 DEF SaveKilled, Lose, Fault, TypeOK
    <3>3. pos' = 1 \/ pos' = pos
      BY <1>29 DEF SaveKilled, Lose
    <3>4. QED
      BY <1>1, <1>29, <3>1, <3>2, <3>3 DEF SaveKilled, Lose, SaveOver, TypeOK
  <2>2. QED
    BY <1>2, <1>3, <1>5, <1>29, <2>1
       DEF SaveKilled, Lose, SaveOver, files, indexing, user, TypeOK
<1>30. QED
  BY <1>6, <1>7, <1>8, <1>9, <1>10, <1>11, <1>13, <1>14, <1>15, <1>16, <1>21, <1>22, <1>24, <1>25,
     <1>26, <1>27, <1>28, <1>29 DEF Next, IndexNext, SaveNext

\* New entries are not valid.
LEMMA NewStep == TypeOK /\ NewAreInvalid /\ [Next]_vars => NewAreInvalid'
<1> SUFFICES ASSUME TypeOK, NewAreInvalid, [Next]_vars
             PROVE  NewAreInvalid'
  OBVIOUS
<1>1. CASE fresh' = fresh
  BY <1>1 DEF NewAreInvalid
<1>2. CASE fresh' = NoEntries
  BY <1>2 DEF NewAreInvalid, NoEntries, IsEntry
<1>3. ASSUME NEW p \in Paths, IxNew(p)
      PROVE  NewAreInvalid'
  <2>1. NewEntry(pst[p]).exists /\ ~NewEntry(pst[p]).valid /\ NewEntry(pst[p]).sha = None
    BY DEF NewEntry
  <2>2. fresh' = [fresh EXCEPT ![p] = NewEntry(pst[p])]
    BY <1>3 DEF IxNew
  <2>3. \A q \in Paths : fresh'[q] = fresh[q] \/ fresh'[q] = NewEntry(pst[p])
    BY <2>2 DEF TypeOK
  <2>4. QED
    BY <2>1, <2>3 DEF NewAreInvalid
<1>4. QED
  BY <1>1, <1>2, <1>3
     DEF Next, IndexNext, SaveNext, vars, Tick, Change, IndexBegin, SaveBegin, ListDir, IxNew, IxError,
         IxDeleted, IxKnown, Visiting, IndexEnd, IndexOver, SaveFile, SaveDir, Saves, AtEntry,
         SavePass, SaveTooLarge, SaveKnown, SaveChanged, SaveEnd, IndexKilled, SaveKilled,
         SaveReadError, Lose, indexing

-----------------------------------------------------------------------------
(***************************************************************************)
(* What a step does to an entry                                            *)
(***************************************************************************)

\* A file's entry is changed by the visit of the file or by the merge alone.
LEMMA FileEntryStep ==
    ASSUME TypeOK, EntriesAbove, [Next]_vars, NEW f \in Files
    PROVE  \/ ix'[f] = ix[f]
           \/ IndexEnd /\ IsEntry(fresh[f]) /\ ix'[f] = fresh[f]
           \/ /\ IxDeleted(f) /\ IsEntry(ix[f]) /\ ix'[f] \in Entries
              /\ ~ix'[f].exists /\ ~ix'[f].valid
              /\ ix'[f].stat = ix[f].stat /\ ix'[f].sha = ix[f].sha
              /\ \A d \in Above[f] : ~IsValid(ix'[d])
           \/ /\ IxKnown(f) /\ IsEntry(ix[f]) /\ ix'[f] \in Entries
              /\ ix'[f].exists /\ ~ix'[f].valid
              /\ ix'[f].stat = pst[f] /\ ix'[f].sha = ix[f].sha
              /\ \A d \in Above[f] : ~IsValid(ix'[d])
           \/ /\ SaveFile(f) /\ IsThere(ix[f]) /\ ix'[f] \in Entries
              /\ ix'[f].exists /\ ix'[f].valid
              /\ ix'[f].stat = ix[f].stat /\ ix'[f].sha = fs[f]
<1>0. f \in Paths /\ f \notin Dirs
  BY PathKinds
<1>1. \A p \in Paths, e \in Entries : Replaced(p, e) /\ p # f => ix'[f] = ix[f]
  BY <1>0, RepackIs, AboveIs DEF Replaced, IsBelow
<1>2. \A e \in Entries : Replaced(f, e) => ix'[f] = e /\ IsEntry(ix[f])
  BY <1>0, RepackIs DEF Replaced
<1>10. \A e \in Entries : Replaced(f, e) /\ ~IsValid(e) => \A d \in Above[f] : ~IsValid(ix'[d])
  <2> SUFFICES ASSUME NEW e \in Entries, Replaced(f, e), ~IsValid(e), NEW d \in Above[f]
               PROVE  ~IsValid(ix'[d])
    OBVIOUS
  <2>1. d \in Paths /\ d # f
    BY <1>0, AboveIs, PathKinds
  <2>2. QED
    BY <1>0, <2>1, RepackIs DEF Replaced, IsBelow
<1>3. ASSUME NEW p \in Paths, IxDeleted(p)
      PROVE  \/ ix'[f] = ix[f]
             \/ /\ IxDeleted(f) /\ IsEntry(ix[f]) /\ ix'[f] \in Entries
                /\ ~ix'[f].exists /\ ~ix'[f].valid
                /\ ix'[f].stat = ix[f].stat /\ ix'[f].sha = ix[f].sha
                /\ \A d \in Above[f] : ~IsValid(ix'[d])
  <2>1. ASSUME NEW e \in Entries, Replaced(p, e), ~e.exists, ~e.valid, e.stat = ix[p].stat,
               e.sha = ix[p].sha
        PROVE  \/ ix'[f] = ix[f]
               \/ /\ p = f /\ IsEntry(ix[f]) /\ ix'[f] \in Entries
                  /\ ~ix'[f].exists /\ ~ix'[f].valid
                  /\ ix'[f].stat = ix[f].stat /\ ix'[f].sha = ix[f].sha
                  /\ \A d \in Above[f] : ~IsValid(ix'[d])
    BY <1>1, <1>2, <1>10, <2>1 DEF IsValid, IsThere
  <2>2. QED
    BY <1>3, <2>1, IxDeletedIs
<1>4. ASSUME NEW p \in Paths, IxKnown(p)
      PROVE  \/ ix'[f] = ix[f]
             \/ /\ IxKnown(f) /\ IsEntry(ix[f]) /\ ix'[f] \in Entries
                /\ ix'[f].exists /\ ~ix'[f].valid
                /\ ix'[f].stat = pst[f] /\ ix'[f].sha = ix[f].sha
                /\ \A d \in Above[f] : ~IsValid(ix'[d])
  <2>1. ASSUME NEW e \in Entries, Replaced(p, e), e.exists, ~e.valid, e.stat = pst[p],
               e.sha = ix[p].sha
        PROVE  \/ ix'[f] = ix[f]
               \/ /\ p = f /\ IsEntry(ix[f]) /\ ix'[f] \in Entries
                  /\ ix'[f].exists /\ ~ix'[f].valid
                  /\ ix'[f].stat = pst[f] /\ ix'[f].sha = ix[f].sha
                  /\ \A d \in Above[f] : ~IsValid(ix'[d])
    BY <1>1, <1>2, <1>10, <2>1 DEF IsValid
  <2>2. QED
    BY <1>4, <2>1, IxKnownIs
<1>5. ASSUME NEW g \in Files, SaveFile(g)
      PROVE  \/ ix'[f] = ix[f]
             \/ /\ SaveFile(f) /\ IsThere(ix[f]) /\ ix'[f] \in Entries
                /\ ix'[f].exists /\ ix'[f].valid
                /\ ix'[f].stat = ix[f].stat /\ ix'[f].sha = fs[f]
  <2>1. PICK e \in Entries : Replaced(g, e) /\ e.exists /\ e.valid /\ e.stat = ix[g].stat
                             /\ e.sha = fs[g] /\ IsThere(ix[g])
    BY <1>5, SaveFileIs
  <2>2. CASE g = f
    BY <1>2, <1>5, <2>1, <2>2
  <2>3. CASE g # f
    BY <1>1, <2>1, <2>3, PathKinds
  <2>4. QED
    BY <2>2, <2>3
<1>6. ASSUME NEW d \in Dirs, SaveDir(d)
      PROVE  ix'[f] = ix[f]
  <2>1. d \in Paths /\ d # f
    BY <1>0, PathKinds
  <2>2. QED
    BY <1>1, <1>6, <2>1, SaveDirIs
<1>7. CASE IndexEnd
  <2>1. ix' = Merged
    BY <1>7 DEF IndexEnd
  <2>2. QED
    BY <1>0, <1>7, <2>1, MergedIs
<1>8. CASE ix' = ix
  BY <1>8
<1>9. QED
  BY <1>3, <1>4, <1>5, <1>6, <1>7, <1>8
     DEF Next, IndexNext, SaveNext, vars, Tick, Change, IndexBegin, SaveBegin, ListDir, IxNew, IxError,
         SavePass, SaveTooLarge, SaveKnown, SaveChanged, SaveEnd, IndexKilled, SaveKilled,
         SaveReadError, Lose

-----------------------------------------------------------------------------
(***************************************************************************)
(* A valid entry is true                                                   *)
(***************************************************************************)

\* A file changes at a time later than its own, if times are not coarse.
LEMMA ChangeIs ==
    ASSUME ~Coarse, TypeOK, [Next]_vars, NEW f \in Files
    PROVE  \/ fs'[f] = fs[f] /\ stamp'[f] = stamp[f] /\ Stat(f)' = Stat(f)
           \/ stamp[f] < stamp'[f] /\ Stat(f)'.stamp = stamp'[f] /\ UNCHANGED ix
<1>0. f \in Paths /\ f \notin Dirs
  BY PathKinds
<1>1. ASSUME NEW g \in Files, NEW c \in Contents \cup {None}, Change(g, c)
      PROVE  \/ fs'[f] = fs[f] /\ stamp'[f] = stamp[f]
             \/ stamp[f] < stamp'[f] /\ UNCHANGED ix
  <2>1. stamp[f] < now /\ UNCHANGED ix
    BY <1>0, <1>1 DEF Change, NothingYet
  <2>2. stamp'[f] = now \/ (stamp'[f] = stamp[f] /\ f # g)
    BY <1>0, <1>1 DEF Change
  <2>3. f # g => fs'[f] = fs[f]
    BY <1>1 DEF Change, TypeOK
  <2>4. QED
    BY <2>1, <2>2, <2>3
<1>2. UNCHANGED <<fs, stamp>> \/ \E g \in Files, c \in Contents \cup {None} : Change(g, c)
  BY DEF Next, IndexNext, SaveNext, vars, Tick, IndexBegin, SaveBegin, ListDir, IxNew, IxError, Visiting,
         IxDeleted, IxKnown, IndexEnd, SaveFile, SaveDir, Saves, AtEntry,
         SavePass, SaveTooLarge, SaveKnown, SaveChanged, SaveEnd, IndexKilled, SaveKilled,
         SaveReadError, Lose, files
<1>3. Stat(f)' = [stamp |-> stamp'[f], large |-> fs'[f] \in Large,
                  kind |-> IF fs'[f] \in Links THEN "link" ELSE "file"]
      /\ Stat(f) = [stamp |-> stamp[f], large |-> fs[f] \in Large,
                    kind |-> IF fs[f] \in Links THEN "link" ELSE "file"]
  BY <1>0 DEF Stat
<1>4. QED
  BY <1>1, <1>2, <1>3

\* What bup index has read of a path is what it had read or what it reads.
LEMMA PstIs ==
    ASSUME TypeOK, [Next]_vars, NEW p \in Paths
    PROVE  pst'[p] \in {pst[p], Stat(p), None}
<1>1. ASSUME NEW b \in BOOLEAN, IndexBegin(b)
      PROVE  pst'[p] \in {pst[p], Stat(p), None}
  BY <1>1 DEF IndexBegin, NoEntries
<1>2. ASSUME NEW d \in Dirs, ListDir(d)
      PROVE  pst'[p] \in {pst[p], Stat(p), None}
  BY <1>2 DEF ListDir
<1>3. CASE pst' = pst \/ pst' = NoEntries
  BY <1>3 DEF NoEntries
<1>4. QED
  BY <1>1, <1>2, <1>3
     DEF Next, IndexNext, SaveNext, vars, Tick, Change, SaveBegin, IxNew, IxError, Visiting,
         IxDeleted, IxKnown, IndexEnd, IndexOver, SaveFile, SaveDir, Saves, AtEntry,
         SavePass, SaveTooLarge, SaveKnown, SaveChanged, SaveEnd, IndexKilled, SaveKilled,
         SaveReadError, Lose, indexing

\* A new entry is made by the visit of the path.
LEMMA FreshIs ==
    ASSUME TypeOK, [Next]_vars, NEW p \in Paths
    PROVE  \/ fresh'[p] = fresh[p] \/ fresh'[p] = None
           \/ IxNew(p) /\ pst[p] # None /\ ~IsEntry(ix[p]) /\ fresh'[p] = NewEntry(pst[p])
<1>1. ASSUME NEW q \in Paths, IxNew(q)
      PROVE  \/ fresh'[p] = fresh[p]
             \/ IxNew(p) /\ pst[p] # None /\ ~IsEntry(ix[p]) /\ fresh'[p] = NewEntry(pst[p])
  <2>1. fresh' = [fresh EXCEPT ![q] = NewEntry(pst[q])]
    BY <1>1 DEF IxNew
  <2>2. CASE p = q
    BY <1>1, <2>1, <2>2 DEF IxNew, TypeOK
  <2>3. CASE p # q
    BY <2>1, <2>3 DEF TypeOK
  <2>4. QED
    BY <2>2, <2>3
<1>2. CASE fresh' = fresh \/ fresh' = NoEntries
  BY <1>2 DEF NoEntries
<1>3. QED
  BY <1>1, <1>2
     DEF Next, IndexNext, SaveNext, vars, Tick, Change, IndexBegin, SaveBegin, ListDir, IxError,
         IxDeleted, IxKnown, Visiting, IndexEnd, IndexOver, SaveFile, SaveDir, Saves, AtEntry,
         SavePass, SaveTooLarge, SaveKnown, SaveChanged, SaveEnd, IndexKilled, SaveKilled,
         SaveReadError, Lose, indexing

\* What bup index has read of a file is no later than the file.
LEMMA PstStep ==
    ASSUME ~Coarse, TypeOK, TypeOK', StampsArePast, [Next]_vars, NEW f \in Files, pst'[f] # None
    PROVE  pst'[f].stamp <= stamp'[f]
<1>1. f \in Paths /\ stamp[f] \in Int /\ stamp'[f] \in Int /\ stamp[f] <= stamp'[f]
  <2>1. f \in Paths
    BY PathKinds
  <2>2. stamp[f] \in Int /\ stamp'[f] \in Int
    BY <2>1 DEF TypeOK
  <2>3. stamp'[f] = stamp[f] \/ stamp[f] < stamp'[f]
    BY ChangeIs
  <2>4. QED
    BY <2>1, <2>2, <2>3
<1>2. CASE pst'[f] = pst[f]
  <2>1. pst[f].stamp \in Int /\ pst[f].stamp <= stamp[f]
    BY <1>1, <1>2 DEF StampsArePast, TypeOK, Stats
  <2>2. QED
    BY <1>1, <1>2, <2>1
<1>3. CASE pst'[f] = Stat(f)
  BY <1>1, <1>3, StatIs
<1>4. pst'[f] \in {pst[f], Stat(f), None}
  BY <1>1, PstIs
<1>5. QED
  BY <1>2, <1>3, <1>4

\* So are the times in the index and in new entries.
LEMMA StampsStep ==
    ASSUME ~Coarse, TypeOK, TypeOK', EntriesAbove, StampsArePast, [Next]_vars
    PROVE  StampsArePast'
<1> SUFFICES ASSUME NEW f \in Files
             PROVE  /\ IsEntry(ix'[f]) => ix'[f].stat.stamp <= stamp'[f]
                    /\ IsEntry(fresh'[f]) => fresh'[f].stat.stamp <= stamp'[f]
                    /\ pst'[f] # None => pst'[f].stamp <= stamp'[f]
  BY DEF StampsArePast, IsEntry
<1>1. f \in Paths
  BY PathKinds
<1>2. stamp[f] \in Int /\ stamp'[f] \in Int /\ tmax \in Int
  BY <1>1 DEF TypeOK
<1>3. stamp[f] <= stamp'[f]
  BY <1>2, ChangeIs
<1>4. /\ IsEntry(ix[f]) => ix[f].stat.stamp \in Int /\ ix[f].stat.stamp <= stamp[f]
      /\ IsEntry(fresh[f]) => fresh[f].stat.stamp \in Int /\ fresh[f].stat.stamp <= stamp[f]
      /\ pst[f] # None => pst[f].stamp \in Int /\ pst[f].stamp <= stamp[f]
  <2>1. /\ ix[f] \in {None} \cup Entries /\ fresh[f] \in {None} \cup Entries
        /\ pst[f] \in Stats \cup {None}
    BY <1>1 DEF TypeOK
  <2>2. \A e \in Entries : e.stat \in Stats
    BY DEF Entries
  <2>3. \A st \in Stats : st.stamp \in Int
    BY DEF Stats
  <2>4. QED
    BY <2>1, <2>2, <2>3 DEF StampsArePast, IsEntry
<1>5. pst'[f] # None => pst'[f].stamp <= stamp'[f]
  BY PstStep
<1>6. IsEntry(fresh'[f]) => fresh'[f].stat.stamp <= stamp'[f]
  <2>1. CASE fresh'[f] = fresh[f]
    BY <1>2, <1>3, <1>4, <2>1
  <2>2. CASE fresh'[f] = None
    BY <2>2 DEF IsEntry
  <2>3. CASE pst[f] # None /\ fresh'[f] = NewEntry(pst[f])
    <3>1. fresh'[f].stat = Fixup(pst[f])
      BY <2>3 DEF NewEntry
    <3>2. pst[f] \in Stats
      BY <1>1, <2>3 DEF TypeOK
    <3>3. Fixup(pst[f]).stamp \in Int /\ Fixup(pst[f]).stamp <= pst[f].stamp
      BY <1>2, <3>2 DEF Fixup, Stats
    <3>4. QED
      BY <1>2, <1>3, <1>4, <2>3, <3>1, <3>3
  <2>4. QED
    BY <1>1, <2>1, <2>2, <2>3, FreshIs
<1>7. IsEntry(ix'[f]) => ix'[f].stat.stamp <= stamp'[f]
  <2>1. CASE ix'[f] = ix[f]
    BY <1>2, <1>3, <1>4, <2>1
  <2>2. CASE IsEntry(fresh[f]) /\ ix'[f] = fresh[f]
    BY <1>2, <1>3, <1>4, <2>2
  <2>3. CASE IsEntry(ix[f]) /\ ix'[f].stat = ix[f].stat
    BY <1>2, <1>3, <1>4, <2>3
  <2>4. CASE IxKnown(f) /\ ix'[f].stat = pst[f]
    BY <1>2, <1>3, <1>4, <2>4 DEF IxKnown
  <2>5. QED
    BY <2>1, <2>2, <2>3, <2>4, FileEntryStep DEF IsThere
<1>8. QED
  BY <1>5, <1>6, <1>7

\* A valid entry stays true: when the file changes it gets a later time than
\* the entry has.
LEMMA TrueStep ==
    ASSUME ~Coarse, TypeOK, TypeOK', EntriesAbove, NewAreInvalid, StampsArePast, ValidIsTrue, [Next]_vars
    PROVE  ValidIsTrue'
<1> SUFFICES ASSUME NEW f \in Files, IsValid(ix'[f]), fs'[f] # None, ix'[f].stat = Stat(f)'
             PROVE  ix'[f].sha = fs'[f]
  BY PathKinds DEF ValidIsTrue, IsValid, IsThere, IsEntry, Present
<1>1. f \in Paths /\ f \notin Dirs
  BY PathKinds
<1>2. CASE fs'[f] = fs[f] /\ Stat(f)' = Stat(f)
  <2>1. CASE ix'[f] = ix[f]
    BY <1>1, <1>2, <2>1 DEF ValidIsTrue, Present
  <2>2. CASE IsEntry(fresh[f]) /\ ix'[f] = fresh[f]
    BY <1>1, <2>2 DEF NewAreInvalid, IsValid
  <2>3. CASE ~ix'[f].valid
    BY <2>3 DEF IsValid
  <2>4. CASE ix'[f].sha = fs[f]
    BY <1>2, <2>4
  <2>5. QED
    BY <2>1, <2>2, <2>3, <2>4, FileEntryStep
<1>3. CASE stamp[f] < stamp'[f] /\ Stat(f)'.stamp = stamp'[f] /\ UNCHANGED ix
  <2>1. ix[f].stat.stamp \in Int /\ ix[f].stat.stamp <= stamp[f] /\ stamp[f] \in Int /\ stamp'[f] \in Int
    BY <1>1, <1>3 DEF StampsArePast, TypeOK, Entries, Stats, IsEntry, IsValid, IsThere
  <2>2. ix[f].stat.stamp = stamp'[f]
    BY <1>3
  <2>3. QED
    BY <1>3, <2>1, <2>2
<1>4. QED
  BY <1>2, <1>3, ChangeIs

-----------------------------------------------------------------------------
(***************************************************************************)
(* A valid directory hides nothing                                         *)
(***************************************************************************)

\* repack keeps what is above an invalid entry invalid.
LEMMA RepackHides ==
    ASSUME TypeOK, EntriesAbove, ValidHidesNothing, NEW p \in Paths, NEW e \in Entries,
           Replaced(p, e), e.exists,
           e.valid => \A q \in Paths : IsBelow(q, p) /\ IsThere(ix[q]) => IsValid(ix[q])
    PROVE  ValidHidesNothing'
<1>1. IsEntry(ix[p]) /\ ix' = Repack(p, e) /\ IsEntry(e)
  BY PathKinds DEF Replaced, IsEntry
<1> SUFFICES ASSUME NEW q \in Paths, NEW d \in Dirs, IsBelow(q, d), IsValid(ix'[d]), IsThere(ix'[q])
             PROVE  IsValid(ix'[q])
  BY DEF ValidHidesNothing, IsValid, IsThere, IsEntry
<1>2. d \in Paths /\ q # d
  BY PathKinds, AboveIs DEF IsBelow
<1>3. CASE d = p
  <2>1. e.valid /\ IsValid(e)
    BY <1>1, <1>3, RepackIs DEF IsValid
  <2>2. ix'[q] = ix[q]
    BY <1>1, <1>2, <1>3, <2>1, RepackIs
  <2>3. QED
    BY <1>3, <2>1, <2>2
<1>4. CASE d # p /\ q = p
  <2>1. IsValid(e)
    BY <1>1, <1>2, <1>4, RepackIs
  <2>2. QED
    BY <1>1, <1>4, <2>1, RepackIs
<1>5. CASE d # p /\ q # p
  <2>1. ~(IsBelow(p, d) /\ ~IsValid(e))
    BY <1>1, <1>2, <1>5, RepackIs
  <2>2. IsValid(ix[d])
    BY <1>1, <1>2, <1>5, <2>1, RepackIs
  <2>3. IsThere(ix[q])
    BY <1>1, <1>5, RepackIs DEF IsThere
  <2>4. IsValid(ix[q])
    BY <2>2, <2>3 DEF ValidHidesNothing
  <2>5. ~(IsBelow(p, q) /\ ~IsValid(e))
    BY <2>1, <1>2, AboveIs DEF IsBelow
  <2>6. QED
    BY <1>1, <1>5, <2>4, <2>5, RepackIs
<1>6. QED
  BY <1>3, <1>4, <1>5

\* So it does when an entry goes away.
LEMMA DeletedHides ==
    ASSUME TypeOK, EntriesAbove, ValidHidesNothing, NEW p \in Paths, NEW e \in Entries,
           Replaced(p, e), ~e.exists
    PROVE  ValidHidesNothing'
<1>1. IsEntry(ix[p]) /\ ix' = Repack(p, e) /\ IsEntry(e) /\ ~IsThere(e) /\ ~IsValid(e)
  BY PathKinds DEF Replaced, IsEntry, IsThere, IsValid
<1> SUFFICES ASSUME NEW q \in Paths, NEW d \in Dirs, IsBelow(q, d), IsValid(ix'[d]), IsThere(ix'[q])
             PROVE  IsValid(ix'[q])
  BY DEF ValidHidesNothing, IsValid, IsThere, IsEntry
<1>2. d \in Paths /\ q # d /\ d # p /\ q # p
  BY <1>1, PathKinds, AboveIs, RepackIs DEF IsBelow
<1>3. ~IsBelow(p, d)
  BY <1>1, <1>2, RepackIs
<1>4. IsValid(ix[d])
  BY <1>1, <1>2, <1>3, RepackIs
<1>5. IsThere(ix[q])
  BY <1>1, <1>2, RepackIs DEF IsThere
<1>6. IsValid(ix[q])
  BY <1>4, <1>5 DEF ValidHidesNothing
<1>7. ~IsBelow(p, q)
  BY <1>3, <1>2, AboveIs DEF IsBelow
<1>8. QED
  BY <1>1, <1>2, <1>6, <1>7, RepackIs

\* What lies below a directory was visited before it; if not all of it is
\* valid, what was skipped last is in the directory.
LEMMA SkippedBelow ==
    ASSUME TypeOK, SkipsAreKnown, NEW d \in Dirs, AtEntry(d), NEW q \in Paths, IsBelow(q, d),
           IsThere(ix[q]), ~IsValid(ix[q])
    PROVE  Skipped(d)
<1>1. pc = "save" /\ pos \in 1..Len(Order) /\ d = Order[pos] /\ Len(Order) \in Nat
  BY OrderIs DEF AtEntry, TypeOK
<1>2. PICK i \in 1..Len(Order) : Order[i] = q
  BY Places
<1>3. i < pos /\ \A k \in i..(pos - 1) : IsBelow(Order[k], d)
  BY <1>1, <1>2, Places
<1>4. i \in 1..(pos - 1)
  BY <1>1, <1>3
<1>5. PICK k \in 1..(pos - 1) :
        /\ lastskip = Order[k]
        /\ k >= i \/ lastskip = q \/ IsBelow(lastskip, q)
  BY <1>1, <1>2, <1>4 DEF SkipsAreKnown
<1>6. lastskip \in Paths /\ lastskip # None
  <2>1. k \in 1..Len(Order)
    BY <1>1
  <2>2. QED
    BY <1>5, <2>1, OrderIs, PathKinds
<1>7. IsBelow(lastskip, d)
  <2>1. CASE k >= i
    BY <1>1, <1>3, <1>5, <2>1
  <2>2. CASE lastskip = q
    BY <2>2
  <2>3. CASE IsBelow(lastskip, q)
    <3>1. q \in Above[lastskip] /\ d \in Above[q]
      BY <2>3 DEF IsBelow
    <3>2. QED
      BY <1>6, <3>1, AboveIs DEF IsBelow
  <2>4. QED
    BY <1>5, <2>1, <2>2, <2>3
<1>8. QED
  BY <1>6, <1>7 DEF Skipped

\* The flag of a directory is set by save only, and only if nothing below was
\* skipped.
LEMMA HidesStep ==
    ASSUME TypeOK, EntriesAbove, NewAreInvalid, SkipsAreKnown, ValidHidesNothing, [Next]_vars
    PROVE  ValidHidesNothing'
<1>1. CASE ix' = ix
  BY <1>1 DEF ValidHidesNothing
<1>2. ASSUME NEW p \in Paths, IxDeleted(p)
      PROVE  ValidHidesNothing'
  BY <1>1, <1>2, IxDeletedIs, DeletedHides
<1>3. ASSUME NEW p \in Paths, IxKnown(p)
      PROVE  ValidHidesNothing'
  BY <1>1, <1>3, IxKnownIs, RepackHides
<1>4. ASSUME NEW f \in Files, SaveFile(f)
      PROVE  ValidHidesNothing'
  <2>1. PICK e \in Entries : Replaced(f, e) /\ e.exists
    BY <1>4, SaveFileIs
  <2>2. f \in Paths /\ \A q \in Paths : ~IsBelow(q, f)
    BY PathKinds, AboveIs DEF IsBelow
  <2>3. QED
    BY <2>1, <2>2, RepackHides
<1>5. ASSUME NEW d \in Dirs, SaveDir(d)
      PROVE  ValidHidesNothing'
  <2>1. CASE ~AlreadySaved(ix[d])
    <3>1. PICK e \in Entries : Replaced(d, e) /\ e.exists /\ (e.valid => ~Skipped(d))
      BY <1>5, <2>1, SaveDirIs
    <3>2. AtEntry(d) /\ d \in Paths
      BY <1>5, PathKinds DEF SaveDir, Saves
    <3>3. e.valid => \A q \in Paths : IsBelow(q, d) /\ IsThere(ix[q]) => IsValid(ix[q])
      BY <3>1, <3>2, SkippedBelow
    <3>4. QED
      BY <3>1, <3>2, <3>3, RepackHides
  <2>2. QED
    BY <1>1, <1>5, <2>1, SaveDirIs
<1>6. CASE IndexEnd
  <2>0. ix' = Merged
    BY <1>6 DEF IndexEnd
  <2> SUFFICES ASSUME NEW q \in Paths, NEW d \in Dirs, IsBelow(q, d), IsValid(ix'[d]), IsThere(ix'[q])
               PROVE  IsValid(ix'[q])
    BY DEF ValidHidesNothing, IsValid, IsThere, IsEntry
  <2>1. d \in Paths /\ \A r \in Paths : IsBelow(r, q) => IsBelow(r, d)
    BY PathKinds, AboveIs DEF IsBelow
  <2>2. ix'[d] = ix[d] /\ \A r \in Paths : IsBelow(r, d) => ~IsEntry(fresh[r])
    BY <2>0, <2>1, MergedIs DEF NewAreInvalid, IsValid, BlankNewEntry
  <2>3. ix'[q] = ix[q]
    BY <2>0, <2>1, <2>2 DEF Merged
  <2>4. QED
    BY <2>2, <2>3 DEF ValidHidesNothing
<1>7. QED
  BY <1>1, <1>2, <1>3, <1>4, <1>5, <1>6
     DEF Next, IndexNext, SaveNext, vars, Tick, Change, IndexBegin, SaveBegin, ListDir, IxNew, IxError,
         SavePass, SaveTooLarge, SaveKnown, SaveChanged, SaveEnd, IndexKilled, SaveKilled,
         SaveReadError, Lose

\* A step of save leaves what is known of what it skipped.
LEMMA SkipsStep ==
    ASSUME TypeOK, EntriesAbove, ValidHidesNothing, SkipsAreKnown, [Next]_vars
    PROVE  SkipsAreKnown'
<1> SUFFICES ASSUME pc' = "save"
             PROVE  SkipsAreKnown'
  BY DEF SkipsAreKnown
<1>1. CASE pc = "save" /\ UNCHANGED <<ix, pos, lastskip>>
  BY <1>1 DEF SkipsAreKnown, IsValid, IsThere, IsEntry
<1>2. CASE pos' = 1
  BY <1>2 DEF SkipsAreKnown
<1>3. ASSUME NEW p \in Paths, AtEntry(p)
      PROVE  /\ pc = "save" /\ pos \in 1..Len(Order) /\ Order[pos] = p /\ pos' = pos + 1
             /\ \A i \in 1..(pos' - 1) : i = pos \/ i \in 1..(pos - 1)
             /\ \A i \in 1..(pos - 1) : i \in 1..(pos' - 1)
             /\ \A i \in 1..(pos - 1) : i \in 1..Len(Order) /\ Order[i] # p /\ ~IsBelow(p, Order[i])
  <2>1. pc = "save" /\ pos \in 1..Len(Order) /\ Order[pos] = p /\ pos' = pos + 1 /\ Len(Order) \in Nat
    BY <1>3, OrderIs DEF AtEntry, TypeOK
  <2>2. /\ \A i \in 1..(pos' - 1) : i = pos \/ i \in 1..(pos - 1)
        /\ \A i \in 1..(pos - 1) : i \in 1..(pos' - 1) /\ i \in 1..Len(Order) /\ i < pos
    BY <2>1
  <2>3. \A i \in 1..(pos - 1) : i # pos /\ ~(pos < i)
    BY <2>1
  <2>4. \A i \in 1..(pos - 1) : Order[i] # p /\ ~IsBelow(p, Order[i])
    BY <2>1, <2>2, <2>3, Places
  <2>5. QED
    BY <2>1, <2>2, <2>4
<1>4. ASSUME NEW p \in Paths, AtEntry(p), lastskip' = p
      PROVE  SkipsAreKnown'
  <2>1. pos \in 1..(pos' - 1) /\ Order[pos] = p /\ \A i \in 1..(pos' - 1) : pos >= i
    BY <1>3, <1>4
  <2>2. QED
    BY <1>4, <2>1 DEF SkipsAreKnown
<1>5. ASSUME NEW p \in Paths, AtEntry(p), lastskip' = lastskip,
             \A i \in 1..(pos - 1) : ix'[Order[i]] = ix[Order[i]],
             IsThere(ix'[p]) /\ ~IsValid(ix'[p]) => lastskip = p \/ (IsBelow(lastskip, p) /\ lastskip \in Paths)
      PROVE  SkipsAreKnown'
  <2> SUFFICES ASSUME NEW i \in 1..(pos' - 1), IsThere(ix'[Order[i]]), ~IsValid(ix'[Order[i]])
               PROVE  \E k \in 1..(pos' - 1) :
                         /\ lastskip' = Order[k]
                         /\ k >= i \/ lastskip' = Order[i] \/ IsBelow(lastskip', Order[i])
    BY DEF SkipsAreKnown, IsThere, IsValid, IsEntry
  <2>1. CASE i \in 1..(pos - 1)
    <3>1. \E k \in 1..(pos - 1) :
            /\ lastskip = Order[k]
            /\ k >= i \/ lastskip = Order[i] \/ IsBelow(lastskip, Order[i])
      BY <1>3, <1>5, <2>1 DEF SkipsAreKnown
    <3>2. QED
      BY <1>3, <1>5, <3>1
  <2>2. CASE i = pos /\ lastskip = p
    BY <1>3, <1>5, <2>2
  <2>3. CASE i = pos /\ IsBelow(lastskip, p) /\ lastskip \in Paths
    <3>1. PICK k \in 1..Len(Order) : Order[k] = lastskip
      BY <2>3, Places
    <3>2. k < pos
      BY <1>3, <1>5, <2>3, <3>1, Places
    <3>3. k \in 1..(pos' - 1)
      BY <1>3, <1>5, <3>2
    <3>4. QED
      BY <1>3, <1>5, <2>3, <3>1, <3>3
  <2>4. QED
    BY <1>3, <1>5, <2>1, <2>2, <2>3
<1>6. ASSUME NEW p \in Paths, AtEntry(p), lastskip' = lastskip, ix' = ix,
             IsThere(ix[p]) => IsValid(ix[p])
      PROVE  SkipsAreKnown'
  BY <1>5, <1>6
<1>7. ASSUME NEW p \in Paths, SavePass(p)
      PROVE  SkipsAreKnown'
  <2>1. IsThere(ix[p]) => IsValid(ix[p])
    BY <1>7, AboveIs DEF SavePass, Absent, Hidden, AlreadySaved, ValidHidesNothing, IsBelow
  <2>2. QED
    BY <1>6, <1>7, <2>1 DEF SavePass
<1>8. ASSUME NEW p \in Paths, SaveTooLarge(p)
      PROVE  SkipsAreKnown'
  BY <1>4, <1>6, <1>8 DEF SaveTooLarge, AlreadySaved
<1>9. ASSUME NEW f \in Files, SaveKnown(f)
      PROVE  SkipsAreKnown'
  BY <1>6, <1>9, PathKinds DEF SaveKnown, Saves, AlreadySaved
<1>10. ASSUME NEW f \in Files, SaveChanged(f) \/ SaveReadError(f)
       PROVE  SkipsAreKnown'
  BY <1>4, <1>10, PathKinds DEF SaveChanged, SaveReadError, Saves
<1>11. ASSUME NEW p \in Paths, AtEntry(p), lastskip' = lastskip, NEW e \in Entries, Replaced(p, e),
              IsValid(e) \/ Skipped(p)
       PROVE  SkipsAreKnown'
  <2>1. IsEntry(ix[p]) /\ ix' = Repack(p, e)
    BY <1>11 DEF Replaced
  <2>2. \A i \in 1..(pos - 1) : ix'[Order[i]] = ix[Order[i]]
    BY <1>3, <1>11, <2>1, OrderIs, RepackIs
  <2>3. ix'[p] = e
    BY <2>1, RepackIs
  <2>4. Skipped(p) => lastskip = p \/ (IsBelow(lastskip, p) /\ lastskip \in Paths)
    BY DEF Skipped, TypeOK
  <2>5. QED
    BY <1>5, <1>11, <2>2, <2>3, <2>4
<1>12. ASSUME NEW f \in Files, SaveFile(f)
       PROVE  SkipsAreKnown'
  <2>1. PICK e \in Entries : Replaced(f, e) /\ e.exists /\ e.valid
    BY <1>12, SaveFileIs
  <2>2. IsValid(e) /\ f \in Paths /\ AtEntry(f) /\ lastskip' = lastskip
    BY <1>12, <2>1, PathKinds DEF IsValid, IsThere, IsEntry, SaveFile, Saves
  <2>3. QED
    BY <1>11, <2>1, <2>2
<1>13. ASSUME NEW d \in Dirs, SaveDir(d)
       PROVE  SkipsAreKnown'
  <2>1. d \in Paths /\ AtEntry(d) /\ lastskip' = lastskip
    BY <1>13, PathKinds DEF SaveDir, Saves
  <2>2. CASE AlreadySaved(ix[d]) /\ ix' = ix
    BY <1>6, <2>1, <2>2 DEF AlreadySaved
  <2>3. ASSUME NEW e \in Entries, Replaced(d, e), e.exists, e.valid \/ Skipped(d)
        PROVE  SkipsAreKnown'
    <3>1. IsValid(e) \/ Skipped(d)
      BY <2>3, PathKinds DEF IsValid, IsThere, IsEntry
    <3>2. QED
      BY <1>11, <2>1, <2>3, <3>1
  <2>4. QED
    BY <1>13, <2>2, <2>3, SaveDirIs
<1>14. QED
  BY <1>1, <1>2, <1>7, <1>8, <1>9, <1>10, <1>12, <1>13
     DEF Next, IndexNext, SaveNext, vars, Tick, Change, IndexBegin, SaveBegin, ListDir, IxNew, IxError,
         IxDeleted, IxKnown, Visiting, SaveEnd, IndexEnd, IndexKilled, SaveKilled, Lose, saving

-----------------------------------------------------------------------------
(***************************************************************************)
(* What a save names is there                                              *)
(***************************************************************************)

\* A directory's entry loses its flag when one below it does; otherwise it
\* is changed by the visit of the directory or by the merge.
LEMMA DirEntryStep ==
    ASSUME TypeOK, EntriesAbove, [Next]_vars, NEW d \in Dirs
    PROVE  \/ ix'[d] = ix[d]
           \/ /\ IsEntry(ix[d]) /\ IsEntry(ix'[d]) /\ ~IsValid(ix'[d])
              /\ ix'[d].stat = ix[d].stat /\ ix'[d].sha = ix[d].sha /\ ix'[d].exists = ix[d].exists
           \/ IndexEnd /\ IsEntry(fresh[d]) /\ ix'[d] = fresh[d]
           \/ IndexEnd /\ ix'[d] = BlankNewEntry
           \/ /\ IxDeleted(d) /\ IsEntry(ix[d]) /\ IsEntry(ix'[d]) /\ ~ix'[d].exists
              /\ ix'[d].stat = ix[d].stat /\ ix'[d].sha = ix[d].sha
           \/ /\ IxKnown(d) /\ IsEntry(ix[d]) /\ IsEntry(ix'[d]) /\ ix'[d].exists /\ ~ix'[d].valid
              /\ ix'[d].stat = pst[d] /\ ix'[d].sha = ix[d].sha
           \/ /\ SaveDir(d) /\ ~AlreadySaved(ix[d]) /\ ~Skipped(d) /\ IsThere(ix[d])
              /\ IsEntry(ix'[d]) /\ ix'[d].exists /\ ix'[d].valid
              /\ ix'[d].stat = ix[d].stat /\ ix'[d].sha = tree[d]
<1>0. d \in Paths
  BY PathKinds
<1> DEFINE Dirty == /\ IsEntry(ix[d]) /\ IsEntry(ix'[d]) /\ ~IsValid(ix'[d])
                    /\ ix'[d].stat = ix[d].stat /\ ix'[d].sha = ix[d].sha
                    /\ ix'[d].exists = ix[d].exists
<1>1. \A p \in Paths, e \in Entries : Replaced(p, e) /\ p # d => ix'[d] = ix[d] \/ Dirty
  <2> SUFFICES ASSUME NEW p \in Paths, NEW e \in Entries, Replaced(p, e), p # d
               PROVE  ix'[d] = ix[d] \/ Dirty
    OBVIOUS
  <2>1. IsEntry(ix[p]) /\ ix' = Repack(p, e)
    BY DEF Replaced
  <2>2. CASE IsBelow(p, d) /\ ~IsValid(e)
    <3>1. IsEntry(ix[d])
      BY <2>1, <2>2 DEF EntriesAbove, IsBelow
    <3>2. QED
      BY <1>0, <2>1, <2>2, <3>1, RepackIs
  <2>3. CASE ~(IsBelow(p, d) /\ ~IsValid(e))
    BY <1>0, <2>1, <2>3, RepackIs
  <2>4. QED
    BY <2>2, <2>3
<1>2. \A e \in Entries : Replaced(d, e) => ix'[d] = e /\ IsEntry(ix[d]) /\ IsEntry(e)
  BY <1>0, RepackIs, PathKinds DEF Replaced, IsEntry
<1>3. ASSUME NEW p \in Paths, IxDeleted(p)
      PROVE  \/ ix'[d] = ix[d] \/ Dirty
             \/ /\ IxDeleted(d) /\ IsEntry(ix[d]) /\ IsEntry(ix'[d]) /\ ~ix'[d].exists
                /\ ix'[d].stat = ix[d].stat /\ ix'[d].sha = ix[d].sha
  <2>1. ASSUME NEW e \in Entries, Replaced(p, e), ~e.exists, e.stat = ix[p].stat, e.sha = ix[p].sha
        PROVE  \/ ix'[d] = ix[d] \/ Dirty
               \/ /\ p = d /\ IsEntry(ix[d]) /\ IsEntry(ix'[d]) /\ ~ix'[d].exists
                  /\ ix'[d].stat = ix[d].stat /\ ix'[d].sha = ix[d].sha
    <3>1. CASE p = d
      BY <1>2, <2>1, <3>1
    <3>2. CASE p # d
      BY <1>1, <2>1, <3>2
    <3>3. QED
      BY <3>1, <3>2
  <2> HIDE DEF Dirty
  <2>2. QED
    BY <1>3, <2>1, IxDeletedIs
<1>4. ASSUME NEW p \in Paths, IxKnown(p)
      PROVE  \/ ix'[d] = ix[d] \/ Dirty
             \/ /\ IxKnown(d) /\ IsEntry(ix[d]) /\ IsEntry(ix'[d]) /\ ix'[d].exists /\ ~ix'[d].valid
                /\ ix'[d].stat = pst[d] /\ ix'[d].sha = ix[d].sha
  <2>1. ASSUME NEW e \in Entries, Replaced(p, e), e.exists, ~e.valid, e.stat = pst[p],
               e.sha = ix[p].sha
        PROVE  \/ ix'[d] = ix[d] \/ Dirty
               \/ /\ p = d /\ IsEntry(ix[d]) /\ IsEntry(ix'[d]) /\ ix'[d].exists /\ ~ix'[d].valid
                  /\ ix'[d].stat = pst[d] /\ ix'[d].sha = ix[d].sha
    <3>1. CASE p = d
      BY <1>2, <2>1, <3>1
    <3>2. CASE p # d
      BY <1>1, <2>1, <3>2
    <3>3. QED
      BY <3>1, <3>2
  <2> HIDE DEF Dirty
  <2>2. QED
    BY <1>4, <2>1, IxKnownIs
<1>5. ASSUME NEW g \in Files, SaveFile(g)
      PROVE  ix'[d] = ix[d] \/ Dirty
  <2>1. g \in Paths /\ g # d
    BY PathKinds
  <2>2. PICK e \in Entries : Replaced(g, e)
    BY <1>5, SaveFileIs
  <2>3. QED
    BY <1>1, <2>1, <2>2
<1>6. ASSUME NEW c \in Dirs, SaveDir(c)
      PROVE  \/ ix'[d] = ix[d] \/ Dirty
             \/ /\ SaveDir(d) /\ ~AlreadySaved(ix[d]) /\ ~Skipped(d) /\ IsThere(ix[d])
                /\ IsEntry(ix'[d]) /\ ix'[d].exists /\ ix'[d].valid
                /\ ix'[d].stat = ix[d].stat /\ ix'[d].sha = tree[d]
  <2>1. CASE c = d /\ AlreadySaved(ix[d])
    BY <1>6, <2>1, SaveDirIs
  <2>2. CASE c = d /\ ~AlreadySaved(ix[d])
    <3>1. PICK e \in Entries :
             /\ Replaced(d, e)
             /\ e.exists /\ e.stat = ix[d].stat
             /\ IF Skipped(d) THEN ~e.valid /\ e.sha = ix[d].sha
                ELSE e.valid /\ e.sha = tree[d]
      BY <1>6, <2>2, SaveDirIs
    <3>2. IsThere(ix[d]) /\ ix'[d] = e /\ IsEntry(e)
      BY <1>2, <1>6, <2>2, <3>1, SaveDirIs
    <3>3. CASE Skipped(d)
      <4>1. e.sha = ix[d].sha /\ ~IsValid(e) /\ e.stat = ix[d].stat
        BY <3>1, <3>3 DEF IsValid
      <4>2. IsEntry(ix[d]) /\ e.exists = ix[d].exists
        <5>1. IsEntry(ix[d]) /\ ix[d].exists /\ e.exists /\ ix[d] \in Entries
          BY <1>0, <3>1, <3>2 DEF IsThere, TypeOK, IsEntry
        <5>2. ix[d].exists = TRUE /\ e.exists = TRUE
          BY <5>1 DEF Entries
        <5>3. QED
          BY <5>1, <5>2
      <4>3. QED
        BY <3>2, <4>1, <4>2
    <3>4. CASE ~Skipped(d)
      <4>1. SaveDir(d) /\ e.exists /\ e.valid /\ e.stat = ix[d].stat /\ e.sha = tree[d]
        BY <1>6, <2>2, <3>1, <3>4
      <4> HIDE DEF Dirty
      <4>2. QED
        BY <2>2, <3>2, <3>4, <4>1
    <3>5. QED
      BY <3>3, <3>4
  <2>3. CASE c # d
    <3>1. c \in Paths
      BY PathKinds
    <3>2. ASSUME NEW e \in Entries, Replaced(c, e)
          PROVE  ix'[d] = ix[d] \/ Dirty
      BY <1>1, <2>3, <3>1, <3>2
    <3> HIDE DEF Dirty
    <3>3. QED
      BY <1>6, <3>2, SaveDirIs
  <2>4. QED
    BY <2>1, <2>2, <2>3
<1>7. ASSUME IndexEnd
      PROVE  \/ ix'[d] = ix[d] \/ ix'[d] = BlankNewEntry
             \/ IsEntry(fresh[d]) /\ ix'[d] = fresh[d]
  <2>1. ix' = Merged
    BY <1>7 DEF IndexEnd
  <2>2. QED
    BY <1>0, <1>7, <2>1, MergedIs
<1> HIDE DEF Dirty
<1> DEFINE Deleted == /\ IxDeleted(d) /\ IsEntry(ix[d]) /\ IsEntry(ix'[d]) /\ ~ix'[d].exists
                      /\ ix'[d].stat = ix[d].stat /\ ix'[d].sha = ix[d].sha
           Updated == /\ IxKnown(d) /\ IsEntry(ix[d]) /\ IsEntry(ix'[d]) /\ ix'[d].exists /\ ~ix'[d].valid
                      /\ ix'[d].stat = pst[d] /\ ix'[d].sha = ix[d].sha
           Saved == /\ SaveDir(d) /\ ~AlreadySaved(ix[d]) /\ ~Skipped(d) /\ IsThere(ix[d])
                    /\ IsEntry(ix'[d]) /\ ix'[d].exists /\ ix'[d].valid
                    /\ ix'[d].stat = ix[d].stat /\ ix'[d].sha = tree[d]
           Merge == IndexEnd /\ (ix'[d] = ix[d] \/ (IsEntry(fresh[d]) /\ ix'[d] = fresh[d])
                                 \/ ix'[d] = BlankNewEntry)
           Same == ix'[d] = ix[d]
<1>9. \A p \in Paths : IxDeleted(p) => Same \/ Dirty \/ Deleted
  BY <1>3
<1>10. \A p \in Paths : IxKnown(p) => Same \/ Dirty \/ Updated
  BY <1>4
<1>11. \A g \in Files : SaveFile(g) => Same \/ Dirty
  BY <1>5
<1>12. \A c \in Dirs : SaveDir(c) => Same \/ Dirty \/ Saved
  BY <1>6
<1>13. IndexEnd => Merge
  BY <1>7
<1>8. ix' = ix => Same
  OBVIOUS
<1> HIDE DEF Deleted, Updated, Saved, Merge, Same
<1>14. Same \/ Dirty \/ Deleted \/ Updated \/ Saved \/ Merge
  BY <1>8, <1>9, <1>10, <1>11, <1>12, <1>13
     DEF Next, IndexNext, SaveNext, vars, Tick, Change, IndexBegin, SaveBegin, ListDir, IxNew, IxError,
         SavePass, SaveTooLarge, SaveKnown, SaveChanged, SaveEnd, IndexKilled, SaveKilled,
         SaveReadError, Lose
<1>15. QED
  BY <1>14 DEF Same, Dirty, Deleted, Updated, Saved, Merge

\* Hashes stay in place: save gives a directory the items it collected below
\* it.
LEMMA InPlaceStep ==
    ASSUME TypeOK, EntriesAbove, NewAreInvalid, HashesInPlace, Gathered, [Next]_vars
    PROVE  HashesInPlace'
<1>1. ASSUME NEW f \in Files, IsEntry(ix'[f]), ix'[f].sha # None
      PROVE  ix'[f].sha \in Contents
  <2>1. f \in Paths /\ f \notin Dirs
    BY PathKinds
  <2>2. IsEntry(ix[f]) /\ ix[f].sha # None => ix[f].sha \in Contents
    BY <2>1 DEF HashesInPlace
  <2>3. CASE IsEntry(ix[f]) /\ ix'[f].sha = ix[f].sha
    BY <1>1, <2>2, <2>3
  <2>4. CASE IsEntry(fresh[f]) /\ ix'[f] = fresh[f]
    BY <1>1, <2>1, <2>4 DEF NewAreInvalid
  <2>5. CASE SaveFile(f) /\ ix'[f].sha = fs[f]
    BY <2>5, SaveFileIs
  <2>6. CASE ix'[f] = ix[f]
    BY <1>1, <2>2, <2>6
  <2>7. QED
    BY <2>3, <2>4, <2>5, <2>6, FileEntryStep
<1>2. ASSUME NEW d \in Dirs, IsEntry(ix'[d]), ix'[d].sha # None
      PROVE  ix'[d].sha \subseteq Items /\ \A j \in ix'[d].sha : IsBelow(j[1], d)
  <2>1. d \in Paths /\ d \notin Files
    BY PathKinds
  <2>2. IsEntry(ix[d]) /\ ix[d].sha # None =>
           ix[d].sha \subseteq Items /\ \A j \in ix[d].sha : IsBelow(j[1], d)
    BY <2>1 DEF HashesInPlace
  <2>3. CASE IsEntry(ix[d]) /\ ix'[d].sha = ix[d].sha
    BY <1>2, <2>2, <2>3
  <2>4. CASE (IsEntry(fresh[d]) /\ ix'[d] = fresh[d]) \/ ix'[d] = BlankNewEntry
    BY <1>2, <2>1, <2>4 DEF NewAreInvalid, BlankNewEntry
  <2>5. CASE SaveDir(d) /\ ix'[d].sha = tree[d]
    <3>1. pc = "save" /\ d # Root /\ tree[d] \in SUBSET Items
      BY <2>1, <2>5, PathKinds DEF SaveDir, Saves, AtEntry, TypeOK
    <3>2. QED
      BY <2>5, <3>1 DEF Gathered
  <2>6. CASE ix'[d] = ix[d]
    BY <1>2, <2>2, <2>6
  <2>7. QED
    BY <2>3, <2>4, <2>5, <2>6, DirEntryStep
<1>3. QED
  BY <1>1, <1>2, PathKinds DEF HashesInPlace, IsEntry

\* An item is a file with its contents or a directory.
LEMMA ItemsAre ==
    ASSUME NEW j \in Items
    PROVE  /\ j[1] \in Paths /\ j = <<j[1], j[2]>>
           /\ j[1] \in Files => j[2] \in Contents
  BY PathKinds DEF Items

\* What a command knows where it is at p: what is below p was visited, and
\* what is above is yet to be.
LEMMA Around ==
    ASSUME TypeOK, NEW p \in Paths, pos <= Len(Order), p = Order[pos], pos' = pos + 1
    PROVE  /\ \A q \in Paths : IsBelow(q, p) => Visited(q)
           /\ \A q \in Paths : IsBelow(p, q) => ~Visited(q)
           /\ ~Visited(p)
           /\ \A q \in Paths : Visited(q)' <=> Visited(q) \/ q = p
<1>1. pos \in 1..Len(Order) /\ Order[pos] = p /\ pos' = pos + 1 /\ Len(Order) \in Nat
  BY OrderIs DEF TypeOK
<1>2. \A i \in 1..(pos - 1) : i \in 1..Len(Order) /\ i < pos /\ ~(pos < i) /\ i # pos
  BY <1>1
<1>3. ASSUME NEW q \in Paths, IsBelow(q, p)
      PROVE  Visited(q)
  <2>1. PICK i \in 1..Len(Order) : Order[i] = q
    BY Places
  <2>2. i < pos
    BY <1>1, <1>3, <2>1, Places
  <2>3. i \in 1..(pos - 1)
    BY <1>1, <2>2
  <2>4. QED
    BY <2>1, <2>3 DEF Visited
<1>4. ASSUME NEW q \in Paths, IsBelow(p, q), Visited(q)
      PROVE  FALSE
  BY <1>1, <1>2, <1>4, Places DEF Visited
<1>5. ~Visited(p)
  BY <1>1, <1>2, Places DEF Visited
<1>6. ASSUME NEW q \in Paths
      PROVE  Visited(q)' <=> Visited(q) \/ q = p
  <2>1. \A i : i \in 1..(pos' - 1) <=> i \in 1..(pos - 1) \/ i = pos
    BY <1>1
  <2>2. QED
    BY <1>1, <2>1 DEF Visited
<1>7. QED
  BY <1>1, <1>3, <1>4, <1>5, <1>6

\* So for save.
LEMMA AtIs ==
    ASSUME TypeOK, NEW p \in Paths, AtEntry(p)
    PROVE  /\ pc = "save" /\ pc' = "save"
           /\ \A q \in Paths : IsBelow(q, p) => Visited(q)
           /\ \A q \in Paths : IsBelow(p, q) => ~Visited(q)
           /\ ~Visited(p)
           /\ \A q \in Paths : Visited(q)' <=> Visited(q) \/ q = p
<1>1. pc = "save" /\ pc' = "save" /\ pos <= Len(Order) /\ p = Order[pos] /\ pos' = pos + 1
  BY DEF AtEntry
<1>2. QED
  BY <1>1, Around

\* The item of a file joins those of its directory.
LEMMA GatherFile ==
    ASSUME TypeOK, Gathered, NEW f \in Files, AtEntry(f), NEW c,
           tree' = [tree EXCEPT ![Parent(f)] = @ \cup {<<f, c>>}]
    PROVE  Gathered'
<1>1. f \in Paths /\ f # Top
  BY PathKinds
<1>2. Parent(f) \in Dirs /\ Parent(f) \in Above[f] /\ Above[f] = Above[Parent(f)] \cup {Parent(f)}
      /\ Parent(f) # Root
  BY <1>1, ParentIs, PathKinds
<1>3. \A q \in Paths : Visited(q)' <=> Visited(q) \/ q = f
  BY <1>1, AtIs
<1>4. pc = "save"
  BY <1>1, AtIs
<1> SUFFICES ASSUME NEW d \in Dirs \cup {Root}, NEW j \in tree'[d]
             PROVE  /\ Visited(j[1])'
                    /\ d # Root => IsBelow(j[1], d)
                    /\ \A e \in Above[j[1]] : Visited(e)' \/ e = d \/ (d # Root /\ IsBelow(d, e))
  BY DEF Gathered
<1>5. CASE j \in tree[d]
  <2>1. j[1] \in Paths
    BY <1>5, ItemsAre DEF TypeOK
  <2>2. \A e \in Above[j[1]] : e \in Paths
    BY <2>1, AboveIs, PathKinds
  <2>3. QED
    BY <1>3, <1>4, <1>5, <2>1, <2>2 DEF Gathered
<1>6. CASE j \notin tree[d]
  <2>1. d = Parent(f) /\ j = <<f, c>>
    BY <1>2, <1>6 DEF TypeOK
  <2>2. QED
    BY <1>1, <1>2, <1>3, <2>1 DEF IsBelow
<1>7. QED
  BY <1>5, <1>6

\* A directory that is left joins them with all that is below it.
LEMMA GatherPop ==
    ASSUME TypeOK, Gathered, NEW d \in Dirs, AtEntry(d), NEW t \in SUBSET Items,
           \A j \in t : IsBelow(j[1], d), tree' = PopInto(d, t)
    PROVE  Gathered'
<1>1. d \in Paths
  BY PathKinds
<1>2. /\ d = Top => Parent(d) = Root /\ Above[d] = {}
      /\ d # Top => /\ Parent(d) \in Dirs /\ Parent(d) \in Above[d] /\ Parent(d) # Root
                    /\ Above[d] = Above[Parent(d)] \cup {Parent(d)}
  BY <1>1, ParentIs, PathKinds
<1>3. \A q \in Paths : Visited(q)' <=> Visited(q) \/ q = d
  BY <1>1, AtIs
<1>4. pc = "save" /\ \A q \in Paths : IsBelow(q, d) => Visited(q)
  BY <1>1, AtIs
<1> SUFFICES ASSUME NEW c \in Dirs \cup {Root}, NEW j \in tree'[c]
             PROVE  /\ Visited(j[1])'
                    /\ c # Root => IsBelow(j[1], c)
                    /\ \A e \in Above[j[1]] : Visited(e)' \/ e = c \/ (c # Root /\ IsBelow(c, e))
  BY DEF Gathered
<1>5. CASE j \in tree[c]
  <2>1. j[1] \in Paths
    BY <1>5, ItemsAre DEF TypeOK
  <2>2. \A e \in Above[j[1]] : e \in Paths
    BY <2>1, AboveIs, PathKinds
  <2>3. QED
    BY <1>3, <1>4, <1>5, <2>1, <2>2 DEF Gathered
<1>6. CASE j \notin tree[c]
  <2>1. c = Parent(d) /\ (j \in t \/ j = <<d, "dir">>)
    BY <1>2, <1>6 DEF TypeOK, PopInto
  <2>2. CASE j = <<d, "dir">>
    BY <1>1, <1>2, <1>3, <2>1, <2>2 DEF IsBelow
  <2>3. CASE j \in t
    <3>1. j[1] \in Paths /\ IsBelow(j[1], d)
      BY <2>3, ItemsAre
    <3>2. Visited(j[1])'
      BY <1>3, <1>4, <3>1
    <3>3. c # Root => IsBelow(j[1], c)
      BY <1>2, <2>1, <3>1, AboveIs DEF IsBelow
    <3>4. ASSUME NEW e \in Above[j[1]]
          PROVE  Visited(e)' \/ e = c \/ (c # Root /\ IsBelow(c, e))
      <4>1. e \in Paths /\ (e = d \/ IsBelow(e, d) \/ IsBelow(d, e))
        BY <3>1, AboveIs, PathKinds DEF IsBelow
      <4>2. QED
        BY <1>1, <1>2, <1>3, <1>4, <2>1, <4>1 DEF IsBelow
    <3>5. QED
      BY <3>2, <3>3, <3>4
  <2>4. QED
    BY <2>1, <2>2, <2>3
<1>7. QED
  BY <1>5, <1>6

\* What save pops: the items a directory has collected or those it is known
\* for.
LEMMA PopIs ==
    ASSUME TypeOK, HashesInPlace, Gathered, NEW d \in Dirs, pc = "save"
    PROVE  /\ tree[d] \in SUBSET Items /\ \A j \in tree[d] : IsBelow(j[1], d)
           /\ AlreadySaved(ix[d]) =>
                 ix[d].sha \in SUBSET Items /\ \A j \in ix[d].sha : IsBelow(j[1], d)
<1>1. d \in Paths /\ d \notin Files /\ d # Root
  BY PathKinds
<1>2. tree[d] \in SUBSET Items /\ \A j \in tree[d] : IsBelow(j[1], d)
  BY <1>1 DEF Gathered, TypeOK
<1>3. AlreadySaved(ix[d]) => IsEntry(ix[d]) /\ ix[d].sha # None
  BY <1>1 DEF AlreadySaved, IsValid, IsThere, TypeOK
<1>4. QED
  BY <1>1, <1>2, <1>3 DEF HashesInPlace

\* Steps of save and their items.
LEMMA SaveStepIs ==
    ASSUME TypeOK, HashesInPlace, Gathered, [Next]_vars, pc = "save", pc' = "save"
    PROVE  \/ UNCHANGED <<tree, stored, written, pos>>
           \/ \E p \in Paths : AtEntry(p) /\ UNCHANGED <<tree, stored, written>>
           \/ \E f \in Files, c \in Contents :
                 /\ AtEntry(f) /\ ~Hidden(f) /\ tree' = [tree EXCEPT ![Parent(f)] = @ \cup {<<f, c>>}]
                 /\ stored' = stored /\ written \subseteq written'
                 /\ written' \subseteq written \cup {c} /\ c \in stored' \cup written'
           \/ \E d \in Dirs, t \in SUBSET Items :
                 /\ AtEntry(d) /\ ~Hidden(d) /\ tree' = PopInto(d, t) /\ \A j \in t : IsBelow(j[1], d)
                 /\ stored' = stored
                 /\ \/ t = tree[d] /\ written' = written \cup {t}
                    \/ t = ix[d].sha /\ AlreadySaved(ix[d]) /\ written' = written
<1>1. ASSUME NEW p \in Paths, SavePass(p) \/ SaveChanged(p) \/ SaveReadError(p)
      PROVE  AtEntry(p) /\ UNCHANGED <<tree, stored, written>>
  BY <1>1 DEF SavePass, SaveChanged, SaveReadError, Saves, AtEntry
<1>2. ASSUME NEW p \in Paths, SaveTooLarge(p), p \notin opened
      PROVE  AtEntry(p) /\ UNCHANGED <<tree, stored, written>>
  BY <1>2 DEF SaveTooLarge, AtEntry
<1>3. ASSUME NEW p \in Paths, SaveTooLarge(p), p \in opened
      PROVE  /\ p \in Dirs /\ AtEntry(p) /\ ~Hidden(p) /\ tree' = PopInto(p, tree[p]) /\ stored' = stored
             /\ tree[p] \in SUBSET Items /\ \A j \in tree[p] : IsBelow(j[1], p)
             /\ written' = written \cup {tree[p]}
  <2>1. p \in Dirs
    BY <1>3 DEF TypeOK
  <2>2. QED
    BY <1>3, <2>1, PopIs DEF SaveTooLarge, AtEntry, Absent
<1>4. ASSUME NEW f \in Files, SaveKnown(f)
      PROVE  /\ AtEntry(f) /\ ~Hidden(f) /\ ix[f].sha \in Contents /\ stored' = stored
             /\ tree' = [tree EXCEPT ![Parent(f)] = @ \cup {<<f, ix[f].sha>>}]
             /\ written' = written /\ ix[f].sha \in stored' \cup written'
  <2>1. f \in Paths /\ IsEntry(ix[f]) /\ ix[f].sha # None /\ ix[f].sha \in stored \cup written
    BY <1>4, PathKinds DEF SaveKnown, AlreadySaved, Exists, IsValid, IsThere, TypeOK
  <2>2. ix[f].sha \in Contents
    BY <2>1, PathKinds DEF HashesInPlace
  <2>3. QED
    BY <1>4, <2>1, <2>2 DEF SaveKnown, Saves, Absent, AtEntry
<1>5. ASSUME NEW f \in Files, SaveFile(f)
      PROVE  /\ AtEntry(f) /\ ~Hidden(f) /\ fs[f] \in Contents /\ stored' = stored
             /\ tree' = [tree EXCEPT ![Parent(f)] = @ \cup {<<f, fs[f]>>}]
             /\ written' = written \cup {fs[f]}
  BY <1>5, SaveFileIs DEF SaveFile, Saves, Absent, AtEntry
<1>6. ASSUME NEW d \in Dirs, SaveDir(d), AlreadySaved(ix[d])
      PROVE  /\ AtEntry(d) /\ ~Hidden(d) /\ tree' = PopInto(d, ix[d].sha) /\ stored' = stored
             /\ ix[d].sha \in SUBSET Items /\ \A j \in ix[d].sha : IsBelow(j[1], d)
             /\ written' = written
  BY <1>6, PopIs DEF SaveDir, Saves, Absent, AtEntry
<1>7. ASSUME NEW d \in Dirs, SaveDir(d), ~AlreadySaved(ix[d])
      PROVE  /\ AtEntry(d) /\ ~Hidden(d) /\ tree' = PopInto(d, tree[d]) /\ stored' = stored
             /\ tree[d] \in SUBSET Items /\ \A j \in tree[d] : IsBelow(j[1], d)
             /\ written' = written \cup {tree[d]}
  BY <1>7, PopIs DEF SaveDir, Saves, Absent, AtEntry
<1> DEFINE Pass == \E p \in Paths : AtEntry(p) /\ UNCHANGED <<tree, stored, written>>
           AddFile == \E f \in Files, c \in Contents :
                         /\ AtEntry(f) /\ ~Hidden(f) /\ tree' = [tree EXCEPT ![Parent(f)] = @ \cup {<<f, c>>}]
                         /\ stored' = stored /\ written \subseteq written'
                         /\ written' \subseteq written \cup {c} /\ c \in stored' \cup written'
           Pop == \E d \in Dirs, t \in SUBSET Items :
                     /\ AtEntry(d) /\ ~Hidden(d) /\ tree' = PopInto(d, t) /\ \A j \in t : IsBelow(j[1], d)
                     /\ stored' = stored
                     /\ \/ t = tree[d] /\ written' = written \cup {t}
                        \/ t = ix[d].sha /\ AlreadySaved(ix[d]) /\ written' = written
           Same == UNCHANGED <<tree, stored, written, pos>>
<1>8. \A p \in Paths : SavePass(p) => Pass
  BY <1>1
<1>9. \A f \in Files : SaveChanged(f) \/ SaveReadError(f) => Pass
  BY <1>1, PathKinds
<1>10. \A p \in Paths : SaveTooLarge(p) => Pass \/ Pop
  <2> SUFFICES ASSUME NEW p \in Paths, SaveTooLarge(p)
               PROVE  Pass \/ Pop
    OBVIOUS
  <2>1. CASE p \notin opened
    BY <1>2, <2>1
  <2>2. CASE p \in opened
    BY <1>3, <2>2
  <2>3. QED
    BY <2>1, <2>2
<1>11. \A f \in Files : SaveKnown(f) => AddFile
  BY <1>4
<1>12. \A f \in Files : SaveFile(f) => AddFile
  BY <1>5
<1>13. \A d \in Dirs : SaveDir(d) => Pop
  <2> SUFFICES ASSUME NEW d \in Dirs, SaveDir(d)
               PROVE  Pop
    OBVIOUS
  <2>1. CASE AlreadySaved(ix[d])
    BY <1>6, <2>1
  <2>2. CASE ~AlreadySaved(ix[d])
    BY <1>7, <2>2
  <2>3. QED
    BY <2>1, <2>2
<1>14. Tick \/ (\E f \in Files, c \in Contents \cup {None} : Change(f, c)) \/ UNCHANGED vars => Same
  BY DEF Tick, Change, vars, saving, Same
<1> HIDE DEF Pass, AddFile, Pop, Same
<1>15. Same \/ Pass \/ AddFile \/ Pop
  BY <1>8, <1>9, <1>10, <1>11, <1>12, <1>13, <1>14
     DEF Next, IndexNext, SaveNext, IndexBegin, SaveBegin, Idle, ListDir, IxNew, IxError, IxDeleted, IxKnown,
         Visiting, IndexEnd, IndexKilled, SaveEnd, SaveKilled, Lose
<1>16. QED
  BY <1>15 DEF Pass, AddFile, Pop, Same

\* The items on the stack stay where they belong.
LEMMA GatheredStep ==
    ASSUME TypeOK, HashesInPlace, Gathered, [Next]_vars
    PROVE  Gathered'
<1>1. CASE pc' # "save"
  BY <1>1 DEF Gathered
<1>2. CASE pc' = "save" /\ pc # "save"
  <2>1. tree' = NoItems
    BY <1>2 DEF Next, IndexNext, SaveNext, vars, Tick, Change, IndexBegin, SaveBegin, ListDir, IxNew, IxError,
         IxDeleted, IxKnown, Visiting, IndexEnd, IndexKilled, SaveFile, SaveDir, Saves, AtEntry,
         SavePass, SaveTooLarge, SaveKnown, SaveChanged, SaveEnd, SaveKilled, SaveReadError, Lose
  <2>2. \A d \in Dirs \cup {Root} : tree'[d] = {}
    BY <2>1 DEF NoItems
  <2>3. QED
    BY <2>2 DEF Gathered
<1>3. CASE pc' = "save" /\ pc = "save"
  <2>1. CASE UNCHANGED <<tree, stored, written, pos>>
    BY <1>3, <2>1 DEF Gathered, Visited
  <2>2. ASSUME NEW p \in Paths, AtEntry(p), UNCHANGED <<tree, stored, written>>
        PROVE  Gathered'
    <3>1. \A q \in Paths : Visited(q)' <=> Visited(q) \/ q = p
      BY <2>2, AtIs
    <3>2. ASSUME NEW d \in Dirs \cup {Root}, NEW j \in tree[d]
          PROVE  /\ Visited(j[1])'
                 /\ d # Root => IsBelow(j[1], d)
                 /\ \A e \in Above[j[1]] : Visited(e)' \/ e = d \/ (d # Root /\ IsBelow(d, e))
      <4>1. j[1] \in Paths
        BY ItemsAre DEF TypeOK
      <4>2. \A e \in Above[j[1]] : e \in Paths
        BY <4>1, AboveIs, PathKinds
      <4>3. QED
        BY <1>3, <3>1, <4>1, <4>2 DEF Gathered
    <3>3. QED
      BY <2>2, <3>2 DEF Gathered
  <2>3. QED
    BY <1>3, <2>1, <2>2, GatherFile, GatherPop, SaveStepIs
<1>4. QED
  BY <1>1, <1>2, <1>3

\* A file's item adds its contents to what is named.
LEMMA NamedFile ==
    ASSUME NEW T \in SUBSET Items, NEW f \in Files, NEW c \in Contents, NEW R,
           Named(T) \subseteq R, c \in R,
           \A j \in T : j[1] \in Dirs => ~IsBelow(f, j[1])
    PROVE  Named(T \cup {<<f, c>>}) \subseteq R
<1> DEFINE U == T \cup {<<f, c>>}
<1> SUFFICES ASSUME NEW o \in Named(U)
             PROVE  o \in R
  OBVIOUS
<1>0. \A o1 \in Named(U) : \/ \E j \in U : j[1] \in Files /\ o1 = j[2]
                           \/ \E i \in U : i[1] \in Dirs /\ o1 = {j \in U : IsBelow(j[1], i[1])}
  BY DEF Named
<1>1. /\ \A j \in T : j[1] \in Files => j[2] \in Named(T)
      /\ \A i \in T : i[1] \in Dirs => {j \in T : IsBelow(j[1], i[1])} \in Named(T)
  BY DEF Named
<1>2. CASE \E j \in U : j[1] \in Files /\ o = j[2]
  BY <1>1, <1>2
<1>3. CASE \E i \in U : i[1] \in Dirs /\ o = {j \in U : IsBelow(j[1], i[1])}
  <2>1. PICK i \in U : i[1] \in Dirs /\ o = {j \in U : IsBelow(j[1], i[1])}
    BY <1>3
  <2>2. i \in T
    BY <2>1, PathKinds
  <2>3. o = {j \in T : IsBelow(j[1], i[1])}
    BY <2>1, <2>2
  <2>4. QED
    BY <1>1, <2>1, <2>2, <2>3
<1>4. QED
  BY <1>0, <1>2, <1>3

\* The items of a directory that is left, and its own, add its tree.
LEMMA NamedPop ==
    ASSUME NEW T \in SUBSET Items, NEW t \in SUBSET Items, NEW d \in Dirs, NEW R,
           Named(T) \subseteq R, Named(t) \subseteq R, t \in R,
           \A j \in t : IsBelow(j[1], d),
           \A j \in T : ~IsBelow(j[1], d),
           \A j \in T : j[1] \in Dirs => ~IsBelow(d, j[1])
    PROVE  Named(T \cup t \cup {<<d, "dir">>}) \subseteq R
<1> DEFINE U == T \cup t \cup {<<d, "dir">>}
<1> SUFFICES ASSUME NEW o \in Named(U)
             PROVE  o \in R
  OBVIOUS
<1>0. \A o1 \in Named(U) : \/ \E j \in U : j[1] \in Files /\ o1 = j[2]
                           \/ \E i \in U : i[1] \in Dirs /\ o1 = {j \in U : IsBelow(j[1], i[1])}
  BY DEF Named
<1>1. /\ \A j \in T : j[1] \in Files => j[2] \in Named(T)
      /\ \A i \in T : i[1] \in Dirs => {j \in T : IsBelow(j[1], i[1])} \in Named(T)
      /\ \A j \in t : j[1] \in Files => j[2] \in Named(t)
      /\ \A i \in t : i[1] \in Dirs => {j \in t : IsBelow(j[1], i[1])} \in Named(t)
  BY DEF Named
<1>2. CASE \E j \in U : j[1] \in Files /\ o = j[2]
  BY <1>1, <1>2, PathKinds
<1>3. CASE \E i \in U : i[1] \in Dirs /\ o = {j \in U : IsBelow(j[1], i[1])}
  <2>1. PICK i \in U : i[1] \in Dirs /\ o = {j \in U : IsBelow(j[1], i[1])}
    BY <1>3
  <2>2. d \in Paths /\ ~IsBelow(d, d) /\ \A j \in Items : j[1] \in Paths
    BY PathKinds, AboveIs, ItemsAre DEF IsBelow
  <2>3. CASE i[1] = d
    <3>1. o = t
      BY <2>1, <2>2, <2>3
    <3>2. QED
      BY <3>1
  <2>4. CASE i[1] # d /\ i \in T
    <3>1. ~IsBelow(d, i[1])
      BY <2>1, <2>4
    <3>2. \A j \in t : ~IsBelow(j[1], i[1])
      <4> SUFFICES ASSUME NEW j \in t, IsBelow(j[1], i[1])
                   PROVE  FALSE
        OBVIOUS
      <4>1. j[1] \in Paths /\ d \in Above[j[1]] /\ i[1] \in Above[j[1]]
        BY <2>2 DEF IsBelow
      <4>2. d = i[1] \/ IsBelow(d, i[1]) \/ IsBelow(i[1], d)
        BY <4>1, AboveIs
      <4>3. QED
        BY <2>4, <3>1, <4>2
    <3>3. o = {j \in T : IsBelow(j[1], i[1])}
      BY <2>1, <3>1, <3>2
    <3>4. QED
      BY <1>1, <2>1, <2>4, <3>3
  <2>5. CASE i[1] # d /\ i \in t
    <3>1. IsBelow(i[1], d) /\ i[1] \in Paths
      BY <2>2, <2>5
    <3>2. ~IsBelow(d, i[1])
      BY <2>2, <3>1, AboveIs DEF IsBelow
    <3>3. \A j \in T : ~IsBelow(j[1], i[1])
      BY <2>2, <3>1, AboveIs DEF IsBelow
    <3>4. o = {j \in t : IsBelow(j[1], i[1])}
      BY <2>1, <3>2, <3>3
    <3>5. QED
      BY <1>1, <2>1, <2>5, <3>4
  <2>6. QED
    BY <2>1, <2>3, <2>4, <2>5
<1>4. QED
  BY <1>0, <1>2, <1>3

\* Before save is at p no directory on the stack but those above p has
\* anything below p, and no directory that was left is above p.
LEMMA NothingEarly ==
    ASSUME TypeOK, Gathered, NEW p \in Paths, AtEntry(p), NEW j \in tree[Parent(p)],
           Parent(p) \in Dirs \cup {Root}
    PROVE  ~IsBelow(j[1], p) /\ ~IsBelow(p, j[1]) /\ j[1] # p
<1>1. pc = "save" /\ ~Visited(p) /\ \A q \in Paths : IsBelow(p, q) => ~Visited(q)
  BY AtIs
<1>2. Visited(j[1]) /\ j[1] \in Paths
  BY <1>1, ItemsAre DEF Gathered, TypeOK
<1>3. ~IsBelow(p, j[1]) /\ j[1] # p
  BY <1>1, <1>2
<1>4. ASSUME IsBelow(j[1], p)
      PROVE  FALSE
  <2>1. p = Parent(p) \/ (Parent(p) # Root /\ IsBelow(Parent(p), p))
    BY <1>1, <1>4 DEF Gathered, IsBelow
  <2>2. p # Top /\ Parent(p) \in Paths /\ Parent(p) \in Above[p]
    BY <2>1, ParentIs, PathKinds
  <2>3. QED
    BY <2>1, <2>2, AboveIs DEF IsBelow
<1>5. QED
  BY <1>3, <1>4

\* What is on the stack is in the repository or written, and so is all that
\* it names.
LEMMA NamesStep ==
    ASSUME TypeOK, HashesInPlace, Gathered, StoredIsClosed, NamesExist, [Next]_vars
    PROVE  NamesExist'
<1> SUFFICES ASSUME pc' = "save"
             PROVE  /\ Closed(stored' \cup written')
                    /\ \A d \in Dirs \cup {Root} : Named(tree'[d]) \subseteq stored' \cup written'
  BY DEF NamesExist, Closed, Named
<1>1. CASE pc # "save"
  <2>1. tree' = NoItems /\ written' = {} /\ stored' = stored
    BY <1>1 DEF Next, IndexNext, SaveNext, vars, Tick, Change, IndexBegin, SaveBegin, ListDir, IxNew, IxError,
         IxDeleted, IxKnown, Visiting, IndexEnd, IndexKilled, SaveFile, SaveDir, Saves, AtEntry,
         SavePass, SaveTooLarge, SaveKnown, SaveChanged, SaveEnd, SaveKilled, SaveReadError, Lose
  <2>2. \A d \in Dirs \cup {Root} : tree'[d] = {}
    BY <2>1 DEF NoItems
  <2>3. Named({}) = {}
    BY DEF Named
  <2>4. QED
    BY <2>1, <2>2, <2>3 DEF StoredIsClosed
<1>2. CASE pc = "save"
  <2> DEFINE R == stored \cup written
  <2>1. Closed(R) /\ \A d \in Dirs \cup {Root} : Named(tree[d]) \subseteq R
    BY <1>2 DEF NamesExist
  <2>2. CASE UNCHANGED <<tree, stored, written>>
    BY <2>1, <2>2
  <2>3. ASSUME NEW f \in Files, NEW c \in Contents,
               AtEntry(f), tree' = [tree EXCEPT ![Parent(f)] = @ \cup {<<f, c>>}],
               stored' = stored, written \subseteq written',
               written' \subseteq written \cup {c}, c \in stored' \cup written'
        PROVE  /\ Closed(stored' \cup written')
               /\ \A d \in Dirs \cup {Root} : Named(tree'[d]) \subseteq stored' \cup written'
    <3>1. f \in Paths /\ f # Top /\ Parent(f) \in Dirs
      BY PathKinds, ParentIs
    <3>2. R \subseteq stored' \cup written' /\ (stored' \cup written') \ Contents \subseteq R
      BY <2>3
    <3>3. Closed(stored' \cup written')
      BY <2>1, <3>2 DEF Closed
    <3>4. ASSUME NEW d \in Dirs \cup {Root}
          PROVE  Named(tree'[d]) \subseteq stored' \cup written'
      <4>1. CASE d # Parent(f)
        <5>1. tree'[d] = tree[d]
          BY <2>3, <4>1 DEF TypeOK
        <5>2. QED
          BY <2>1, <3>2, <5>1
      <4>2. CASE d = Parent(f)
        <5>1. tree'[d] = tree[d] \cup {<<f, c>>} /\ tree[d] \in SUBSET Items
          BY <2>3, <4>2 DEF TypeOK
        <5>2. \A j \in tree[d] : ~IsBelow(f, j[1])
          BY <2>3, <3>1, <4>2, NothingEarly
        <5>3. Named(tree[d]) \subseteq stored' \cup written'
          BY <2>1, <3>2
        <5>4. QED
          BY <2>3, <5>1, <5>2, <5>3, NamedFile
      <4>3. QED
        BY <4>1, <4>2
    <3>5. QED
      BY <3>3, <3>4
  <2>4. ASSUME NEW d \in Dirs, NEW t \in SUBSET Items,
               AtEntry(d), tree' = PopInto(d, t), \A j \in t : IsBelow(j[1], d),
               stored' = stored,
               \/ t = tree[d] /\ written' = written \cup {t}
               \/ t = ix[d].sha /\ AlreadySaved(ix[d]) /\ written' = written
        PROVE  /\ Closed(stored' \cup written')
               /\ \A c \in Dirs \cup {Root} : Named(tree'[c]) \subseteq stored' \cup written'
    <3>1. d \in Paths /\ Parent(d) \in Dirs \cup {Root}
      BY PathKinds, ParentIs
    <3>2. R \subseteq stored' \cup written' /\ stored' \cup written' \subseteq R \cup {t}
      BY <2>4
    <3>3. t \in stored' \cup written' /\ Named(t) \subseteq R
      <4>1. CASE t = tree[d] /\ written' = written \cup {t}
        BY <2>1, <4>1
      <4>2. CASE t = ix[d].sha /\ AlreadySaved(ix[d]) /\ written' = written
        <5>1. t \in R
          BY <4>2 DEF AlreadySaved, Exists
        <5>2. t \in R \ Contents
          BY <5>1, NoTreeIsContents
        <5>3. QED
          BY <2>1, <2>4, <4>2, <5>1, <5>2 DEF Closed
      <4>3. QED
        BY <2>4, <4>1, <4>2
    <3>4. Closed(stored' \cup written')
      BY <2>1, <3>2, <3>3 DEF Closed
    <3>5. ASSUME NEW c \in Dirs \cup {Root}
          PROVE  Named(tree'[c]) \subseteq stored' \cup written'
      <4>1. CASE c # Parent(d)
        <5>1. tree'[c] = tree[c]
          BY <2>4, <4>1 DEF TypeOK, PopInto
        <5>2. QED
          BY <2>1, <3>2, <5>1
      <4>2. CASE c = Parent(d)
        <5>1. tree'[c] = tree[c] \cup t \cup {<<d, "dir">>} /\ tree[c] \in SUBSET Items
          BY <2>4, <4>2 DEF TypeOK, PopInto
        <5>2. \A j \in tree[c] : ~IsBelow(d, j[1]) /\ ~IsBelow(j[1], d)
          BY <2>4, <3>1, <4>2, NothingEarly
        <5>3. Named(tree[c]) \subseteq stored' \cup written' /\ Named(t) \subseteq stored' \cup written'
          BY <2>1, <3>2, <3>3
        <5>4. QED
          BY <2>4, <3>3, <5>1, <5>2, <5>3, NamedPop
      <4>3. QED
        BY <4>1, <4>2
    <3>6. QED
      BY <3>4, <3>5
  <2>5. QED
    BY <1>2, <2>2, <2>3, <2>4, SaveStepIs
<1>3. QED
  BY <1>1, <1>2

\* The repository stays closed, also when packs are lost, and a save that is
\* over names what is there.
LEMMA StoredStep ==
    ASSUME TypeOK, StoredIsClosed, NamesExist, SaveIsStored, [Next]_vars
    PROVE  StoredIsClosed' /\ SaveIsStored'
<1>1. CASE stored' = stored
  <2>1. StoredIsClosed'
    BY <1>1 DEF StoredIsClosed, Closed, Named
  <2>2. CASE pc' = "saved" /\ pc # "saved"
    <3>1. SaveEnd
      BY <2>2 DEF Next, IndexNext, SaveNext, vars, Tick, Change, IndexBegin, SaveBegin, ListDir, IxNew, IxError,
         IxDeleted, IxKnown, Visiting, IndexEnd, IndexKilled, SaveFile, SaveDir, Saves, AtEntry,
         SavePass, SaveTooLarge, SaveKnown, SaveChanged, SaveKilled, SaveReadError, Lose
    <3>2. QED
      BY <2>1, <3>1 DEF SaveEnd, NamesExist, SaveIsStored, Closed, Named, StoredIsClosed
  <2>3. CASE pc' = "saved" /\ pc = "saved"
    <3>1. tree' = tree
      BY <2>3 DEF Next, IndexNext, SaveNext, vars, Tick, Change, IndexBegin, SaveBegin, ListDir, IxNew, IxError,
         IxDeleted, IxKnown, Visiting, IndexEnd, IndexKilled, SaveFile, SaveDir, Saves, AtEntry, SaveEnd,
         SavePass, SaveTooLarge, SaveKnown, SaveChanged, SaveKilled, SaveReadError, Lose, saving
    <3>2. QED
      BY <1>1, <2>1, <2>3, <3>1 DEF SaveIsStored, Closed, Named
  <2>4. QED
    BY <2>1, <2>2, <2>3 DEF SaveIsStored
<1>2. CASE SaveEnd
  <2>1. stored' = stored \cup written /\ tree' = tree /\ pc = "save"
    BY <1>2 DEF SaveEnd
  <2>2. Closed(stored \cup written) /\ Named(tree[Root]) \subseteq stored \cup written
    BY <2>1 DEF NamesExist
  <2>3. StoredIsClosed'
    BY <2>1, <2>2 DEF StoredIsClosed, Closed, Named
  <2>4. SaveIsStored'
    BY <2>1, <2>2 DEF SaveIsStored, Closed, Named
  <2>5. QED
    BY <2>3, <2>4
<1>3. CASE SaveKilled \/ Lose
  <2>1. Closed(stored') /\ pc' = "idle"
    BY <1>3 DEF SaveKilled, Lose
  <2>2. QED
    BY <2>1 DEF StoredIsClosed, SaveIsStored, Closed, Named
<1>4. QED
  BY <1>1, <1>2, <1>3
     DEF Next, IndexNext, SaveNext, vars, Tick, Change, IndexBegin, SaveBegin, ListDir, IxNew, IxError,
         IxDeleted, IxKnown, Visiting, IndexEnd, IndexKilled, SaveFile, SaveDir, Saves, AtEntry,
         SavePass, SaveTooLarge, SaveKnown, SaveChanged, SaveReadError

-----------------------------------------------------------------------------
(***************************************************************************)
(* The theorems                                                            *)
(***************************************************************************)

\* What no step breaks, however coarse the times are.
IndexInv ==
    /\ TypeOK /\ EntriesAbove /\ NewAreInvalid /\ HashesInPlace
    /\ SkipsAreKnown /\ ValidHidesNothing
    /\ Gathered /\ NamesExist /\ StoredIsClosed /\ SaveIsStored

\* At first there is nothing that could be wrong,
LEMMA IndexInit == Init => IndexInv /\ StampsArePast /\ ValidIsTrue
<1> SUFFICES ASSUME Init
             PROVE  IndexInv /\ StampsArePast /\ ValidIsTrue
  OBVIOUS
<1>1. \A p \in Paths : ~IsEntry(ix[p]) /\ ~IsEntry(fresh[p]) /\ pst[p] = None
  BY DEF Init, NoEntries, IsEntry
<1>2. EntriesAbove /\ NewAreInvalid /\ HashesInPlace /\ ValidHidesNothing /\ ValidIsTrue /\ StampsArePast
  BY <1>1, PathKinds
     DEF EntriesAbove, NewAreInvalid, HashesInPlace, ValidHidesNothing, ValidIsTrue, StampsArePast, IsValid,
         IsThere
<1>3. SkipsAreKnown /\ Gathered /\ NamesExist /\ SaveIsStored
  BY DEF Init, SkipsAreKnown, Gathered, NamesExist, SaveIsStored
<1>4. StoredIsClosed
  BY DEF Init, StoredIsClosed, Closed
<1>5. QED
  BY <1>2, <1>3, <1>4, TypeInit DEF IndexInv

\* and no step makes it so.
LEMMA IndexStep == IndexInv /\ [Next]_vars => IndexInv'
<1> SUFFICES ASSUME IndexInv, [Next]_vars
             PROVE  IndexInv'
  OBVIOUS
<1>1. TypeOK /\ EntriesAbove /\ NewAreInvalid /\ HashesInPlace /\ SkipsAreKnown /\ ValidHidesNothing
      /\ Gathered /\ NamesExist /\ StoredIsClosed /\ SaveIsStored
  BY DEF IndexInv
<1>2. TypeOK'
  BY <1>1, TypeStep
<1>3. EntriesAbove'
  BY <1>1, EntriesStep
<1>4. NewAreInvalid'
  BY <1>1, NewStep
<1>5. HashesInPlace'
  BY <1>1, InPlaceStep
<1>6. SkipsAreKnown' /\ ValidHidesNothing'
  BY <1>1, SkipsStep, HidesStep
<1>7. Gathered' /\ NamesExist'
  BY <1>1, GatheredStep, NamesStep
<1>8. StoredIsClosed' /\ SaveIsStored'
  BY <1>1, StoredStep
<1>9. QED
  BY <1>2, <1>3, <1>4, <1>5, <1>6, <1>7, <1>8 DEF IndexInv

\* IndexInv holds always.
THEOREM IndexAlways == Spec => []IndexInv
<1>1. Init => IndexInv
  BY IndexInit
<1>2. IndexInv /\ [Next]_vars => IndexInv'
  BY IndexStep
<1>3. QED
  BY <1>1, <1>2, PTL DEF Spec

\* The index, the repository and the state of bup index and bup save have
\* their types.
THEOREM TypeCorrect == Spec => []TypeOK
<1>1. IndexInv => TypeOK
  BY DEF IndexInv
<1>2. QED
  BY <1>1, IndexAlways, PTL

\* Nothing below a valid directory is dirty, so already_saved may stop there.
THEOREM HidesNothing == Spec => []ValidHidesNothing
<1>1. IndexInv => ValidHidesNothing
  BY DEF IndexInv
<1>2. QED
  BY <1>1, IndexAlways, PTL

\* What a save names is in the repository, with all that is below it.
THEOREM SavedIsStored == Spec => []SaveIsStored
<1>1. IndexInv => SaveIsStored
  BY DEF IndexInv
<1>2. QED
  BY <1>1, IndexAlways, PTL

\* IndexInv and what the index says of times hold always, if two changes of a
\* file never have the same time.
THEOREM TrueAlways ==
    ASSUME ~Coarse
    PROVE  Spec => [](IndexInv /\ StampsArePast /\ ValidIsTrue)
<1> DEFINE Inv == IndexInv /\ StampsArePast /\ ValidIsTrue
<1>1. Init => Inv
  BY IndexInit
<1>2. Inv /\ [Next]_vars => Inv'
  <2> SUFFICES ASSUME Inv, [Next]_vars
               PROVE  Inv'
    OBVIOUS
  <2>1. IndexInv'
    BY IndexStep
  <2>2. TypeOK /\ TypeOK' /\ EntriesAbove /\ NewAreInvalid
    BY <2>1 DEF IndexInv
  <2>3. StampsArePast'
    BY <2>2, StampsStep
  <2>4. ValidIsTrue'
    BY <2>2, TrueStep
  <2>5. QED
    BY <2>1, <2>3, <2>4
<1> HIDE DEF Inv
<1>3. Spec => []Inv
  BY <1>1, <1>2, PTL DEF Spec
<1>4. QED
  BY <1>3 DEF Inv

\* A valid entry with the file's times has the file's contents, if two changes
\* of a file never have the same time.
THEOREM ValidIsTrueAlways ==
    ASSUME ~Coarse
    PROVE  Spec => []ValidIsTrue
<1>1. Spec => [](IndexInv /\ StampsArePast /\ ValidIsTrue)
  BY TrueAlways
<1>2. QED
  BY <1>1, PTL

===============================================================================
