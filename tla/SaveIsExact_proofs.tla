------------------------- MODULE SaveIsExact_proofs -------------------------
(***************************************************************************)
(* A save after a complete index has the files as they are, for every      *)
(* directory tree and whatever happened before, if two changes of a file   *)
(* never have the same time.                                               *)
(***************************************************************************)
EXTENDS FileIndex_proofs

-----------------------------------------------------------------------------
(***************************************************************************)
(* A save has the files as they are                                        *)
(***************************************************************************)

LargeAbove(f) == habit = "smaller" /\ \E d \in Above[f] : d \in Large

\* Left out by --smaller?
LeftOut(f) == LargeAbove(f) \/ (habit = "smaller" /\ IsThere(ix[f]) /\ ix[f].stat.large)

\* What the index knows of a file, as an item.
Known(f) == IF IsThere(ix[f]) THEN {<<f, ix[f].sha>>} ELSE {}

Of(f, t) == {j \in t : j[1] = f}

\* The option is used by who has the habit.
SmallerWhen == smaller => habit = "smaller"

\* bup index, once it has been at a path: what it lstat'ed ...
Listed(p) == p = Top \/ Parent(p) \in listed

DirsAreThere ==
    /\ \A d \in Dirs : IsEntry(ix[d]) => ix[d].exists
    /\ pc = "index" => \A d \in Dirs : Listed(d) => pst[d] # None

LargeIsLarge ==
    \A d \in Dirs :
        /\ IsEntry(ix[d]) /\ ix[d].stat.large => d \in Large
        /\ IsEntry(fresh[d]) /\ fresh[d].stat.large => d \in Large
        /\ pst[d] # None /\ pst[d].large => d \in Large

FreshAreNew ==
    \A p \in Paths : IsEntry(fresh[p]) => pc = "index" /\ ~IsEntry(ix[p]) /\ Visited(p)

CalmWhen ==
    /\ calm = "indexing" => pc = "index"
    /\ pc = "index" => calm # "yes"

\* ... and what it wrote down.
IndexedSoFar ==
    calm = "indexing" =>
        /\ \A p \in Paths : stamp[p] <= tmax
        /\ \A p \in Paths : Listed(p) => pst[p] = IF Present(p) THEN Stat(p) ELSE None
        /\ \A d \in Dirs : Visited(d) => IsEntry(ix[d]) \/ IsEntry(fresh[d])
        /\ \A f \in Files : Visited(f) =>
              IF fs[f] = None THEN ~IsThere(ix[f]) /\ ~IsEntry(fresh[f])
              ELSE \/ IsEntry(fresh[f]) /\ fresh[f].stat = Stat(f)
                   \/ IsThere(ix[f]) /\ ix[f].stat = Stat(f)

\* After a complete index nothing is missing and nothing is wrong.
IndexIsTrue ==
    calm = "yes" =>
        /\ \A d \in Dirs : IsThere(ix[d])
        /\ \A f \in Files :
              IF fs[f] = None THEN ~IsThere(ix[f])
              ELSE /\ IsThere(ix[f])
                   /\ ix[f].stat = Stat(f)
                   /\ IsValid(ix[f]) => ix[f].sha = fs[f]

\* Has the file changed since it was indexed?
Outdated(f) == IsThere(ix[f]) /\ (fs[f] = None \/ ix[f].stat # Stat(f))

\* The hash of a valid directory stands for what the index has below it.
HashesAgree ==
    \A d \in Dirs, f \in Files :
        IsBelow(f, d) /\ IsValid(ix[d]) =>
            Of(f, ix[d].sha) = Known(f) \/ LeftOut(f) \/ Outdated(f)

\* Where the item of a visited file is: with the lowest directory above it
\* that is yet to be visited.
Holds(d, f) ==
    /\ IF d = Root THEN TRUE ELSE d \in Above[f] /\ ~Visited(d)
    /\ \A e \in Above[f] : Visited(e) \/ e = d \/ (d # Root /\ IsBelow(d, e))

\* A directory above that is saved already and will be an item.
Awaits(f) == \E d \in Above[f] : ~Visited(d) /\ AlreadySaved(ix[d])

Held(f) == \A d \in Dirs \cup {Root} : Holds(d, f) => Of(f, tree[d]) = Known(f)

\* Was a file, or something after it, skipped?
SkippedSince(f) ==
    \E i, k \in 1..(pos - 1) : i <= k /\ Order[i] = f /\ lastskip = Order[k]

Unchanged == calm = "yes" /\ ~failed

\* Why a visited file is not missed.
Accounted(f) ==
    \/ LeftOut(f) \/ Awaits(f) \/ Outdated(f) \/ Held(f)
    \/ SkippedSince(f) /\ ~Unchanged

SavedSoFar ==
    pc = "save" => \A f \in Files : Visited(f) => Accounted(f)

\* Nothing was skipped that was read as it is.
NothingSkipped ==
    pc = "save" /\ Unchanged =>
        \A f \in Files : Visited(f) /\ IsThere(ix[f]) => IsValid(ix[f]) \/ LeftOut(f)

-----------------------------------------------------------------------------
(***************************************************************************)
(* bup index                                                               *)
(***************************************************************************)

\* The user keeps his habit, and a complete index is one that ends.
LEMMA HabitStep ==
    ASSUME SmallerWhen, CalmWhen, [Next]_vars
    PROVE  habit' = habit /\ SmallerWhen' /\ CalmWhen'
<1>1. habit' = habit
  BY DEF Next, IndexNext, SaveNext, vars, Tick, Change, IndexBegin, SaveBegin, ListDir, IxNew, IxError,
         IxDeleted, IxKnown, Visiting, IndexEnd, IndexKilled, SaveFile, SaveDir, Saves, AtEntry,
         SavePass, SaveTooLarge, SaveKnown, SaveChanged, SaveEnd, SaveKilled, SaveReadError, Lose, user
<1>2. smaller' = smaller \/ smaller' = FALSE \/ habit = "smaller"
  BY DEF Next, IndexNext, SaveNext, vars, Tick, Change, IndexBegin, SaveBegin, ListDir, IxNew, IxError,
         IxDeleted, IxKnown, Visiting, IndexEnd, IndexKilled, SaveFile, SaveDir, Saves, AtEntry, SaveOver,
         SavePass, SaveTooLarge, SaveKnown, SaveChanged, SaveEnd, SaveKilled, SaveReadError, Lose, saving
<1>3. \/ calm' = calm /\ pc' = pc
      \/ calm' = "no"
      \/ calm' = "indexing" /\ pc' = "index"
      \/ calm' = "yes" /\ pc' = "idle"
      \/ calm' = calm /\ pc \in {"idle", "saved", "save"} /\ pc' \in {"idle", "saved", "save"}
  BY DEF Next, IndexNext, SaveNext, vars, Tick, Change, IndexBegin, SaveBegin, ListDir, IxNew, IxError,
         IxDeleted, IxKnown, Visiting, IndexEnd, IndexKilled, SaveFile, SaveDir, Saves, AtEntry, Idle,
         SavePass, SaveTooLarge, SaveKnown, SaveChanged, SaveEnd, SaveKilled, SaveReadError, Lose
<1>4. CalmWhen'
  BY <1>3 DEF CalmWhen
<1>5. QED
  BY <1>1, <1>2, <1>4 DEF SmallerWhen

\* Where bup index is, the directory was listed.
LEMMA ThereIs ==
    ASSUME TypeOK, NEW p \in Paths, Visiting(p)
    PROVE  /\ Listed(p) /\ pc = "index" /\ pc' = "index"
           /\ ~Visited(p) /\ \A q \in Paths : Visited(q)' <=> Visited(q) \/ q = p
<1>1. p = Top \/ Parent(p) \in Above[p]
  BY ParentIs
<1>2. Listed(p)
  BY <1>1 DEF Listed, Visiting
<1>3. pos <= Len(Order) /\ p = Order[pos] /\ pos' = pos + 1 /\ pc = "index" /\ pc' = "index"
  BY DEF Visiting
<1>4. QED
  BY <1>2, <1>3, Around

\* What a directory listing makes of what is listed.
LEMMA ListStep ==
    ASSUME TypeOK, [Next]_vars, NEW p \in Paths, pc' = "index", Listed(p)'
    PROVE  \/ pc = "index" /\ Listed(p) /\ pst'[p] = pst[p]
           \/ /\ pst'[p] = IF Present(p) THEN Stat(p) ELSE None
              /\ UNCHANGED <<fs, stamp>>
<1>1. ASSUME NEW b \in BOOLEAN, IndexBegin(b)
      PROVE  pst'[p] = Stat(p) /\ p \in Dirs /\ UNCHANGED <<fs, stamp>>
  <2>1. p = Top
    BY <1>1 DEF IndexBegin, Listed
  <2>2. QED
    BY <1>1, <2>1, PathKinds DEF IndexBegin, NoEntries, files
<1>2. ASSUME NEW d \in Dirs, ListDir(d)
      PROVE  \/ pc = "index" /\ Listed(p) /\ pst'[p] = pst[p]
             \/ /\ pst'[p] = IF Present(p) THEN Stat(p) ELSE None
                /\ UNCHANGED <<fs, stamp>>
  <2>1. CASE p # Top /\ Parent(p) = d
    BY <1>2, <2>1 DEF ListDir, files
  <2>2. CASE p = Top \/ Parent(p) # d
    <3>1. pst'[p] = pst[p] /\ pc = "index" /\ listed' = listed \cup {d}
      BY <1>2, <2>2 DEF ListDir
    <3>2. QED
      BY <2>2, <3>1 DEF Listed
  <2>3. QED
    BY <2>1, <2>2
<1>3. CASE pc = "index" /\ UNCHANGED <<listed, pst>>
  BY <1>3 DEF Listed
<1>4. QED
  BY <1>1, <1>2, <1>3
     DEF Next, IndexNext, SaveNext, vars, Tick, Change, SaveBegin, IxNew, IxError, Visiting,
         IxDeleted, IxKnown, IndexEnd, IndexOver, SaveFile, SaveDir, Saves, AtEntry,
         SavePass, SaveTooLarge, SaveKnown, SaveChanged, SaveEnd, IndexKilled, SaveKilled,
         SaveReadError, Lose, indexing, Present

\* Directories do not go away.
LEMMA DirsStep ==
    ASSUME TypeOK, EntriesAbove, NewAreInvalid, DirsAreThere, [Next]_vars
    PROVE  DirsAreThere'
<1>1. ASSUME NEW d \in Dirs, IsEntry(ix'[d])
      PROVE  ix'[d].exists
  <2>1. d \in Paths /\ (IsEntry(ix[d]) => ix[d].exists)
    BY PathKinds DEF DirsAreThere
  <2>2. ~IxDeleted(d)
    <3>1. IxDeleted(d) => Visiting(d) /\ pst[d] = None
      BY DEF IxDeleted
    <3>2. Visiting(d) => pst[d] # None
      BY <2>1, ThereIs DEF DirsAreThere
    <3>3. QED
      BY <3>1, <3>2
  <2>3. CASE ix'[d] = ix[d]
    BY <1>1, <2>1, <2>3
  <2>4. CASE ix'[d] = BlankNewEntry
    BY <2>4 DEF BlankNewEntry
  <2>5. CASE IsEntry(fresh[d]) /\ ix'[d] = fresh[d]
    BY <2>1, <2>5 DEF NewAreInvalid
  <2>6. CASE IsEntry(ix[d]) /\ ix'[d].exists = ix[d].exists
    BY <2>1, <2>6
  <2>7. QED
    BY <2>2, <2>3, <2>4, <2>5, <2>6, DirEntryStep
<1>2. ASSUME pc' = "index", NEW d \in Dirs, Listed(d)'
      PROVE  pst'[d] # None
  <2>1. d \in Paths
    BY PathKinds
  <2>2. Stat(d) # None
    BY <2>1, StatIs, PathKinds
  <2>3. QED
    BY <1>2, <2>1, <2>2, ListStep DEF DirsAreThere, Present
<1>3. QED
  BY <1>1, <1>2 DEF DirsAreThere, IsEntry

\* A directory does not become too large.
LEMMA LargeStep ==
    ASSUME TypeOK, EntriesAbove, LargeIsLarge, [Next]_vars
    PROVE  LargeIsLarge'
<1> SUFFICES ASSUME NEW d \in Dirs
             PROVE  /\ IsEntry(ix'[d]) /\ ix'[d].stat.large => d \in Large
                    /\ IsEntry(fresh'[d]) /\ fresh'[d].stat.large => d \in Large
                    /\ pst'[d] # None /\ pst'[d].large => d \in Large
  BY DEF LargeIsLarge, IsEntry
<1>1. d \in Paths
  BY PathKinds
<1>2. /\ IsEntry(ix[d]) /\ ix[d].stat.large => d \in Large
      /\ IsEntry(fresh[d]) /\ fresh[d].stat.large => d \in Large
      /\ pst[d] # None /\ pst[d].large => d \in Large
  BY DEF LargeIsLarge
<1>3. pst'[d] # None /\ pst'[d].large => d \in Large
  BY <1>1, <1>2, PstIs, StatIs
<1>4. IsEntry(fresh'[d]) /\ fresh'[d].stat.large => d \in Large
  <2>1. pst[d] # None => NewEntry(pst[d]).stat.large = pst[d].large
    <3>1. pst[d] # None => pst[d] \in Stats
      BY <1>1 DEF TypeOK
    <3>2. QED
      BY <3>1 DEF NewEntry, Fixup, Stats
  <2>2. QED
    BY <1>1, <1>2, <2>1, FreshIs DEF IsEntry
<1>5. IsEntry(ix'[d]) /\ ix'[d].stat.large => d \in Large
  <2>1. ~BlankNewEntry.stat.large
    BY DEF BlankNewEntry
  <2>2. IxKnown(d) => pst[d] # None
    BY DEF IxKnown
  <2>3. QED
    BY <1>2, <2>1, <2>2, DirEntryStep DEF IsThere
<1>6. QED
  BY <1>3, <1>4, <1>5

\* Only the merge makes entries.
LEMMA EntriesStay ==
    ASSUME TypeOK, EntriesAbove, [Next]_vars, ~IndexEnd, NEW p \in Paths, IsEntry(ix'[p])
    PROVE  IsEntry(ix[p])
<1>1. CASE p \in Files
  BY <1>1, FileEntryStep DEF IsThere
<1>2. CASE p \in Dirs
  BY <1>2, DirEntryStep DEF IsThere
<1>3. QED
  BY <1>1, <1>2, PathKinds

\* New entries are for visited paths that had none.
LEMMA FreshStep ==
    ASSUME TypeOK, EntriesAbove, FreshAreNew, [Next]_vars
    PROVE  FreshAreNew'
<1> SUFFICES ASSUME NEW p \in Paths, IsEntry(fresh'[p])
             PROVE  pc' = "index" /\ ~IsEntry(ix'[p]) /\ Visited(p)'
  BY DEF FreshAreNew, IsEntry
<1>1. ~IndexEnd
  BY DEF IndexEnd, IndexOver, NoEntries, IsEntry
<1>2. CASE IxNew(p) /\ ~IsEntry(ix[p])
  BY <1>1, <1>2, EntriesStay, ThereIs DEF IxNew
<1>3. CASE fresh'[p] = fresh[p]
  <2>1. pc = "index" /\ ~IsEntry(ix[p]) /\ Visited(p)
    BY <1>3 DEF FreshAreNew
  <2>2. ~IsEntry(ix'[p])
    BY <1>1, <2>1, EntriesStay
  <2>3. ASSUME NEW q \in Paths, Visiting(q)
        PROVE  pc' = "index" /\ Visited(p)'
    BY <2>1, <2>3, ThereIs
  <2>4. ASSUME pc' = pc, pos' = pos
        PROVE  pc' = "index" /\ Visited(p)'
    <3>1. Visited(p)' <=> Visited(p)
      BY <2>4 DEF Visited
    <3>2. QED
      BY <2>1, <2>4, <3>1
  <2>5. pc' = "index" /\ Visited(p)'
    BY <1>1, <2>1, <2>3, <2>4
       DEF Next, IndexNext, SaveNext, vars, Tick, Change, IndexBegin, SaveBegin, ListDir, IxNew, IxError,
         IxDeleted, IxKnown, IndexKilled, IndexOver, NoEntries, SaveFile, SaveDir, Saves, AtEntry, IsEntry,
         SavePass, SaveTooLarge, SaveKnown, SaveChanged, SaveEnd, SaveKilled, SaveReadError, Lose, Idle
  <2>6. QED
    BY <2>2, <2>5
<1>4. QED
  BY <1>2, <1>3, FreshIs DEF IsEntry

\* Which steps keep an index that is being made complete.
LEMMA StillIndexing ==
    ASSUME CalmWhen, [Next]_vars, calm = "indexing", calm' = "indexing", ~\E b \in BOOLEAN : IndexBegin(b)
    PROVE  /\ pc = "index" /\ UNCHANGED <<fs, stamp, tmax>> /\ ~IndexEnd
           /\ \/ UNCHANGED <<ix, pos, fresh>> /\ (UNCHANGED <<pst, listed>> \/ \E d \in Dirs : ListDir(d))
              \/ \E p \in Paths : IxDeleted(p) \/ IxKnown(p) \/ IxNew(p) \/ IxError(p)
<1>1. pc = "index"
  BY DEF CalmWhen
<1>2. QED
  BY <1>1 DEF Next, IndexNext, SaveNext, vars, Tick, Change, SaveBegin, ListDir, IxNew, IxError,
         IxDeleted, IxKnown, Visiting, IndexEnd, IndexKilled, SaveFile, SaveDir, Saves, AtEntry, Idle,
         SavePass, SaveTooLarge, SaveKnown, SaveChanged, SaveEnd, SaveKilled, SaveReadError, Lose, files,
         indexing

\* What the visit of a path does when nothing has changed since the index
\* began.
LEMMA VisitIs ==
    ASSUME TypeOK, TypeOK', EntriesAbove, FreshAreNew, DirsAreThere, IndexedSoFar, calm = "indexing",
           [Next]_vars, NEW p \in Paths, IxDeleted(p) \/ IxKnown(p) \/ IxNew(p) \/ IxError(p)
    PROVE  /\ p \in Dirs => IsEntry(ix'[p]) \/ IsEntry(fresh'[p])
           /\ p \in Files =>
                 IF fs[p] = None THEN ~IsThere(ix'[p]) /\ ~IsEntry(fresh'[p])
                 ELSE \/ IsEntry(fresh'[p]) /\ fresh'[p].stat = Stat(p)
                      \/ IsThere(ix'[p]) /\ ix'[p].stat = Stat(p)
<1>1. Listed(p) /\ pc = "index" /\ ~Visited(p)
  <2>1. Visiting(p)
    BY DEF IxDeleted, IxKnown, IxNew, IxError
  <2>2. QED
    BY <2>1, ThereIs
<1>2. pst[p] = IF Present(p) THEN Stat(p) ELSE None
  BY <1>1 DEF IndexedSoFar
<1>3. Stat(p) \in Stats /\ Stat(p) # None /\ Stat(p).stamp <= tmax /\ tmax \in Int
  <2>1. stamp[p] <= tmax
    BY DEF IndexedSoFar
  <2>2. tmax \in Int
    BY DEF TypeOK
  <2>3. QED
    BY <2>1, <2>2, StatIs, PathKinds
<1>4. p \in Dirs => Present(p)
  BY DEF Present
<1>5. p \in Files => (Present(p) <=> fs[p] # None)
  BY PathKinds DEF Present
<1>6. ~IsEntry(fresh[p])
  BY <1>1 DEF FreshAreNew
<1>7. CASE IxDeleted(p)
  <2>1. pst[p] = None /\ fresh' = fresh
    BY <1>7 DEF IxDeleted
  <2>2. ~Present(p)
    BY <1>2, <1>3, <2>1
  <2>3. ~IsThere(ix'[p])
    <3>1. ASSUME NEW e \in Entries, Replaced(p, e), ~e.exists
          PROVE  ~IsThere(ix'[p])
      BY <3>1, RepackIs DEF Replaced, IsThere
    <3>2. QED
      BY <1>7, <3>1, IxDeletedIs
  <2>4. QED
    BY <1>4, <1>5, <1>6, <2>1, <2>2, <2>3
<1>8. CASE IxKnown(p)
  <2>1. pst[p] # None /\ fresh' = fresh /\ IsEntry(ix[p])
    BY <1>8 DEF IxKnown
  <2>2. Present(p) /\ pst[p] = Stat(p)
    BY <1>2, <2>1
  <2>3. IsThere(ix'[p]) /\ ix'[p].stat = pst[p]
    <3>1. ASSUME NEW e \in Entries, Replaced(p, e), e.exists, e.stat = pst[p]
          PROVE  IsThere(ix'[p]) /\ ix'[p].stat = pst[p]
      BY <3>1, RepackIs, PathKinds DEF Replaced, IsThere, IsEntry
    <3>2. ASSUME ix' = ix, ~Stale(ix[p], pst[p])
          PROVE  IsThere(ix'[p]) /\ ix'[p].stat = pst[p]
      BY <2>1, <3>2 DEF Stale, IsThere
    <3>3. QED
      BY <1>8, <3>1, <3>2, IxKnownIs
  <2>4. QED
    BY <1>4, <1>5, <2>2, <2>3 DEF IsThere
<1>9. CASE IxNew(p)
  <2>1. pst[p] # None /\ fresh'[p] = NewEntry(pst[p])
    BY <1>9 DEF IxNew, TypeOK
  <2>2. Present(p) /\ pst[p] = Stat(p)
    BY <1>2, <2>1
  <2>3. Fixup(pst[p]) = Stat(p)
    BY <1>3, <2>2 DEF Fixup, Stats
  <2>4. fresh'[p].stat = Stat(p)
    BY <2>1, <2>3 DEF NewEntry
  <2>5. IsEntry(fresh'[p])
    <3>1. fresh'[p] \in {None} \cup Entries
      BY DEF TypeOK
    <3>2. NewEntry(pst[p]) \in Entries
      BY <1>3, <2>2, <2>3 DEF NewEntry, Entries
    <3>3. QED
      BY <2>1, <3>2, PathKinds DEF IsEntry
  <2>6. QED
    BY <1>4, <1>5, <2>2, <2>4, <2>5
<1>10. CASE IxError(p)
  BY <1>2, <1>10 DEF IxError
<1>11. QED
  BY <1>7, <1>8, <1>9, <1>10

\* While nothing changes, bup index writes down what there is.
LEMMA IndexedStep ==
    ASSUME TypeOK, TypeOK', EntriesAbove, FreshAreNew, DirsAreThere, CalmWhen, IndexedSoFar, [Next]_vars
    PROVE  IndexedSoFar'
<1> SUFFICES ASSUME calm' = "indexing"
             PROVE  /\ \A p \in Paths : stamp'[p] <= tmax'
                    /\ \A p \in Paths : Listed(p)' => pst'[p] = IF Present(p)' THEN Stat(p)' ELSE None
                    /\ \A d \in Dirs : Visited(d)' => IsEntry(ix'[d]) \/ IsEntry(fresh'[d])
                    /\ \A f \in Files : Visited(f)' =>
                          IF fs'[f] = None THEN ~IsThere(ix'[f]) /\ ~IsEntry(fresh'[f])
                          ELSE \/ IsEntry(fresh'[f]) /\ fresh'[f].stat = Stat(f)'
                               \/ IsThere(ix'[f]) /\ ix'[f].stat = Stat(f)'
  BY DEF IndexedSoFar, IsEntry, IsThere
<1>1. UNCHANGED <<fs, stamp>> => \A p \in Paths : Stat(p)' = Stat(p) /\ (Present(p)' <=> Present(p))
  BY DEF Stat, Present
<1>2. ASSUME NEW b \in BOOLEAN, IndexBegin(b)
      PROVE  /\ \A p \in Paths : stamp'[p] <= tmax'
             /\ \A p \in Paths : ~Visited(p)'
             /\ pc' = "index" /\ UNCHANGED <<fs, stamp>> /\ \A p \in Paths : Listed(p)' => p = Top
             /\ pst'[Top] = Stat(Top)
  <2>1. \A p \in Paths : stamp[p] \in Int /\ now \in Int
    BY DEF TypeOK
  <2>2. NothingYet /\ tmax' = now - 1 /\ stamp' = stamp /\ fs' = fs /\ pos' = 1 /\ pc' = "index"
        /\ pst' = [NoEntries EXCEPT ![Top] = Stat(Top)] /\ listed' = {}
    BY <1>2 DEF IndexBegin, files
  <2>3. \A p \in Paths : stamp'[p] <= tmax'
    BY <2>1, <2>2 DEF NothingYet
  <2>4. \A p \in Paths : ~Visited(p)'
    BY <2>2 DEF Visited
  <2>5. QED
    BY <2>2, <2>3, <2>4, PathKinds DEF Listed, NoEntries
<1>3. CASE \E b \in BOOLEAN : IndexBegin(b)
  <2>1. Top \in Paths /\ Present(Top)
    BY PathKinds DEF Present
  <2>2. QED
    BY <1>1, <1>2, <1>3, <2>1, PathKinds
<1>4. CASE ~\E b \in BOOLEAN : IndexBegin(b)
  <2>1. calm = "indexing"
    BY <1>4 DEF Next, IndexNext, SaveNext, vars, Tick, Change, SaveBegin, ListDir, IxNew, IxError,
         IxDeleted, IxKnown, Visiting, IndexEnd, IndexKilled, SaveFile, SaveDir, Saves, AtEntry, Idle,
         SavePass, SaveTooLarge, SaveKnown, SaveChanged, SaveEnd, SaveKilled, SaveReadError, Lose
  <2>2. pc = "index" /\ UNCHANGED <<fs, stamp, tmax>> /\ ~IndexEnd
        /\ \/ UNCHANGED <<ix, pos, fresh>> /\ (UNCHANGED <<pst, listed>> \/ \E d \in Dirs : ListDir(d))
           \/ \E p \in Paths : IxDeleted(p) \/ IxKnown(p) \/ IxNew(p) \/ IxError(p)
    BY <1>4, <2>1, StillIndexing
  <2>3. \A p \in Paths : Stat(p)' = Stat(p) /\ (Present(p)' <=> Present(p))
    BY <1>1, <2>2
  <2>4. \A p \in Paths : stamp'[p] <= tmax'
    BY <2>1, <2>2 DEF IndexedSoFar
  <2>5. pc' = "index"
    BY <2>2 DEF Next, IndexNext, SaveNext, vars, Tick, Change, SaveBegin, ListDir, IxNew, IxError,
         IxDeleted, IxKnown, Visiting, SaveFile, SaveDir, Saves, AtEntry, Idle, IndexBegin, IndexKilled,
         SavePass, SaveTooLarge, SaveKnown, SaveChanged, SaveEnd, SaveKilled, SaveReadError, Lose
  <2>6. ASSUME NEW p \in Paths, Listed(p)'
        PROVE  pst'[p] = IF Present(p)' THEN Stat(p)' ELSE None
    BY <2>1, <2>3, <2>5, <2>6, ListStep DEF IndexedSoFar
  <2>7. ASSUME UNCHANGED <<ix, pos, fresh>>
        PROVE  /\ \A d \in Dirs : Visited(d)' => IsEntry(ix'[d]) \/ IsEntry(fresh'[d])
               /\ \A f \in Files : Visited(f)' =>
                     IF fs'[f] = None THEN ~IsThere(ix'[f]) /\ ~IsEntry(fresh'[f])
                     ELSE \/ IsEntry(fresh'[f]) /\ fresh'[f].stat = Stat(f)'
                          \/ IsThere(ix'[f]) /\ ix'[f].stat = Stat(f)'
    <3>1. \A p \in Paths : Visited(p)' <=> Visited(p)
      BY <2>7 DEF Visited
    <3>2. QED
      BY <2>1, <2>2, <2>3, <2>7, <3>1, PathKinds DEF IndexedSoFar
  <2>8. ASSUME NEW p \in Paths, IxDeleted(p) \/ IxKnown(p) \/ IxNew(p) \/ IxError(p)
        PROVE  /\ \A d \in Dirs : Visited(d)' => IsEntry(ix'[d]) \/ IsEntry(fresh'[d])
               /\ \A f \in Files : Visited(f)' =>
                     IF fs'[f] = None THEN ~IsThere(ix'[f]) /\ ~IsEntry(fresh'[f])
                     ELSE \/ IsEntry(fresh'[f]) /\ fresh'[f].stat = Stat(f)'
                          \/ IsThere(ix'[f]) /\ ix'[f].stat = Stat(f)'
    <3>1. Visiting(p)
      BY <2>8 DEF IxDeleted, IxKnown, IxNew, IxError
    <3>2. \A q \in Paths : Visited(q)' <=> Visited(q) \/ q = p
      BY <3>1, ThereIs
    <3>3. \A q \in Paths : Visiting(q) => q = p
      BY <3>1 DEF Visiting
    <3>4. \A q \in Paths : q # p => fresh'[q] = fresh[q]
      BY <2>8 DEF IxDeleted, IxKnown, IxNew, IxError, TypeOK
    <3>5. ASSUME NEW f \in Files, f # p
          PROVE  ix'[f] = ix[f]
      <4>1. pc = "index" /\ ~Visiting(f) /\ ~IndexEnd
        BY <2>2, <3>3, <3>5, PathKinds
      <4>2. QED
        BY <4>1, FileEntryStep DEF IxDeleted, IxKnown, SaveFile, Saves, AtEntry
    <3>6. ASSUME NEW d \in Dirs, IsEntry(ix[d])
          PROVE  IsEntry(ix'[d])
      BY <2>2, <3>6, DirEntryStep DEF IsEntry
    <3>7. ASSUME NEW d \in Dirs, Visited(d)'
          PROVE  IsEntry(ix'[d]) \/ IsEntry(fresh'[d])
      <4>1. CASE d = p
        BY <2>1, <2>8, <4>1, VisitIs
      <4>2. CASE d # p
        <5>1. Visited(d) /\ d \in Paths
          BY <3>2, <3>7, <4>2, PathKinds
        <5>2. QED
          BY <2>1, <3>4, <3>6, <4>2, <5>1 DEF IndexedSoFar
      <4>3. QED
        BY <4>1, <4>2
    <3>8. ASSUME NEW f \in Files, Visited(f)'
          PROVE  IF fs'[f] = None THEN ~IsThere(ix'[f]) /\ ~IsEntry(fresh'[f])
                 ELSE \/ IsEntry(fresh'[f]) /\ fresh'[f].stat = Stat(f)'
                      \/ IsThere(ix'[f]) /\ ix'[f].stat = Stat(f)'
      <4>0. f \in Paths /\ fs'[f] = fs[f] /\ Stat(f)' = Stat(f)
        BY <2>2, <2>3, PathKinds
      <4>1. CASE f = p
        BY <2>1, <2>8, <4>0, <4>1, VisitIs
      <4>2. CASE f # p
        <5>1. Visited(f) /\ ix'[f] = ix[f] /\ fresh'[f] = fresh[f]
          BY <3>2, <3>4, <3>5, <3>8, <4>0, <4>2
        <5>2. QED
          BY <2>1, <4>0, <5>1 DEF IndexedSoFar
      <4>3. QED
        BY <4>1, <4>2
    <3>9. QED
      BY <3>7, <3>8
  <2>9. QED
    BY <2>2, <2>4, <2>6, <2>7, <2>8
<1>5. QED
  BY <1>3, <1>4

\* At the end of a command all paths were visited.
LEMMA AllVisited ==
    ASSUME TypeOK, pos > Len(Order), NEW p \in Paths
    PROVE  Visited(p)
<1>1. pos = Len(Order) + 1 /\ Len(Order) \in Nat
  BY OrderIs DEF TypeOK
<1>2. PICK i \in 1..Len(Order) : Order[i] = p
  BY Places
<1>3. i \in 1..(pos - 1)
  BY <1>1
<1>4. QED
  BY <1>2, <1>3 DEF Visited

\* Which steps keep the files as they were indexed.
LEMMA StillCalm ==
    ASSUME CalmWhen, [Next]_vars, calm = "yes", calm' = "yes"
    PROVE  /\ UNCHANGED <<fs, stamp>> /\ pc # "index" /\ pc' # "index" /\ ~IndexEnd
           /\ \A p \in Paths : Stat(p)' = Stat(p)
<1>1. pc # "index"
  BY DEF CalmWhen
<1>2. UNCHANGED <<fs, stamp>> /\ pc' # "index" /\ ~IndexEnd
  BY <1>1 DEF Next, IndexNext, SaveNext, vars, Tick, Change, SaveBegin, ListDir, IxNew, IxError, IndexBegin,
         IxDeleted, IxKnown, Visiting, IndexEnd, IndexKilled, SaveFile, SaveDir, Saves, AtEntry, Idle,
         SavePass, SaveTooLarge, SaveKnown, SaveChanged, SaveEnd, SaveKilled, SaveReadError, Lose, files
<1>3. QED
  BY <1>1, <1>2 DEF Stat

\* The end of an undisturbed index makes it complete, and it stays so while
\* the files keep still.
LEMMA CompleteStep ==
    ASSUME TypeOK, EntriesAbove, NewAreInvalid, FreshAreNew, DirsAreThere, CalmWhen, IndexedSoFar,
           ValidIsTrue, IndexIsTrue, [Next]_vars
    PROVE  IndexIsTrue'
<1> SUFFICES ASSUME calm' = "yes"
             PROVE  /\ \A d \in Dirs : IsThere(ix'[d])
                    /\ \A f \in Files :
                          IF fs'[f] = None THEN ~IsThere(ix'[f])
                          ELSE /\ IsThere(ix'[f])
                               /\ ix'[f].stat = Stat(f)'
                               /\ IsValid(ix'[f]) => ix'[f].sha = fs'[f]
  BY DEF IndexIsTrue, IsThere, IsEntry, IsValid
<1>1. CASE calm = "yes"
  <2>1. UNCHANGED <<fs, stamp>> /\ pc # "index" /\ ~IndexEnd /\ \A p \in Paths : Stat(p)' = Stat(p)
    BY <1>1, StillCalm
  <2>2. \A p \in Paths : ~IxDeleted(p) /\ ~IxKnown(p)
    BY <2>1 DEF IxDeleted, IxKnown, Visiting
  <2>3. ASSUME NEW d \in Dirs
        PROVE  IsThere(ix'[d])
    <3>1. IsThere(ix[d])
      BY <1>1 DEF IndexIsTrue
    <3>2. QED
      BY <2>1, <2>2, <3>1, PathKinds, DirEntryStep DEF IsThere
  <2>4. ASSUME NEW f \in Files
        PROVE  IF fs'[f] = None THEN ~IsThere(ix'[f])
               ELSE /\ IsThere(ix'[f])
                    /\ ix'[f].stat = Stat(f)'
                    /\ IsValid(ix'[f]) => ix'[f].sha = fs'[f]
    <3>0. f \in Paths /\ fs'[f] = fs[f] /\ Stat(f)' = Stat(f)
      BY <2>1, PathKinds
    <3>1. CASE ix'[f] = ix[f]
      BY <1>1, <3>0, <3>1 DEF IndexIsTrue
    <3>2. CASE SaveFile(f) /\ IsThere(ix[f]) /\ ix'[f] \in Entries
               /\ ix'[f].exists /\ ix'[f].valid
               /\ ix'[f].stat = ix[f].stat /\ ix'[f].sha = fs[f]
      <4>1. fs[f] # None
        BY <3>2, SaveFileIs, PathKinds
      <4>2. IsThere(ix'[f])
        BY <3>2, PathKinds DEF IsThere, IsEntry
      <4>3. QED
        BY <1>1, <3>0, <3>2, <4>1, <4>2 DEF IndexIsTrue
    <3>3. QED
      BY <2>1, <2>2, <3>0, <3>1, <3>2, FileEntryStep
  <2>5. QED
    BY <2>3, <2>4
<1>2. CASE calm # "yes"
  <2>1. IndexEnd /\ calm = "indexing"
    BY <1>2 DEF Next, IndexNext, SaveNext, vars, Tick, Change, SaveBegin, ListDir, IxNew, IxError, IndexBegin,
         IxDeleted, IxKnown, Visiting, IndexEnd, IndexKilled, SaveFile, SaveDir, Saves, AtEntry, Idle,
         SavePass, SaveTooLarge, SaveKnown, SaveChanged, SaveEnd, SaveKilled, SaveReadError, Lose
  <2>2. ix' = Merged /\ UNCHANGED <<fs, stamp>> /\ pos > Len(Order)
    BY <2>1 DEF IndexEnd, files
  <2>3. \A p \in Paths : Visited(p)
    BY <2>2, AllVisited
  <2>4. ASSUME NEW d \in Dirs
        PROVE  IsThere(ix'[d])
    <3>1. d \in Paths /\ (IsEntry(ix[d]) \/ IsEntry(fresh[d]))
      BY <2>1, <2>3, PathKinds DEF IndexedSoFar
    <3>2. IsEntry(BlankNewEntry) /\ BlankNewEntry.exists
      BY MergedIs, PathKinds DEF IsEntry, BlankNewEntry
    <3>3. IsEntry(fresh[d]) => fresh[d].exists
      BY <3>1 DEF NewAreInvalid
    <3>4. IsEntry(ix[d]) => ix[d].exists
      BY DEF DirsAreThere
    <3>5. QED
      BY <2>2, <3>1, <3>2, <3>3, <3>4, MergedIs DEF IsThere
  <2>5. ASSUME NEW f \in Files
        PROVE  IF fs'[f] = None THEN ~IsThere(ix'[f])
               ELSE /\ IsThere(ix'[f])
                    /\ ix'[f].stat = Stat(f)'
                    /\ IsValid(ix'[f]) => ix'[f].sha = fs'[f]
    <3>0. f \in Paths /\ f \notin Dirs /\ fs'[f] = fs[f] /\ Stat(f)' = Stat(f) /\ (Present(f) <=> fs[f] # None)
      BY <2>2, PathKinds DEF Stat, Present
    <3>1. IF fs[f] = None THEN ~IsThere(ix[f]) /\ ~IsEntry(fresh[f])
          ELSE \/ IsEntry(fresh[f]) /\ fresh[f].stat = Stat(f)
               \/ IsThere(ix[f]) /\ ix[f].stat = Stat(f)
      BY <2>1, <2>3, <3>0 DEF IndexedSoFar
    <3>2. CASE IsEntry(fresh[f])
      <4>1. ix'[f] = fresh[f]
        BY <2>2, <3>0, <3>2, MergedIs
      <4>2. fresh[f].exists /\ ~fresh[f].valid /\ ~IsEntry(ix[f])
        BY <3>0, <3>2 DEF NewAreInvalid, FreshAreNew
      <4>3. QED
        BY <3>0, <3>1, <3>2, <4>1, <4>2 DEF IsThere, IsValid
    <3>3. CASE ~IsEntry(fresh[f])
      <4>1. ix'[f] = ix[f]
        BY <2>2, <3>0, <3>3, MergedIs
      <4>2. QED
        BY <3>0, <3>1, <3>3, <4>1 DEF ValidIsTrue
    <3>4. QED
      BY <3>2, <3>3
  <2>6. QED
    BY <2>4, <2>5
<1>3. QED
  BY <1>1, <1>2

-----------------------------------------------------------------------------
(***************************************************************************)
(* What stays true of a file                                               *)
(***************************************************************************)

\* A file whose entry does not change stays what it was, or is outdated now.
LEMMA FileStays ==
    ASSUME ~Coarse, TypeOK, TypeOK', StampsArePast, habit' = habit, [Next]_vars,
           NEW f \in Files, ix'[f] = ix[f]
    PROVE  /\ Known(f)' = Known(f)
           /\ LeftOut(f) => LeftOut(f)'
           /\ Outdated(f) => Outdated(f)'
<1>1. Known(f)' = Known(f) /\ (IsThere(ix[f])' <=> IsThere(ix[f]))
  BY DEF Known, IsThere, IsEntry
<1>2. LeftOut(f) => LeftOut(f)'
  BY <1>1 DEF LeftOut, LargeAbove
<1>3. ASSUME Outdated(f)
      PROVE  Outdated(f)'
  <2>1. CASE fs'[f] = fs[f] /\ Stat(f)' = Stat(f)
    BY <1>1, <1>3, <2>1 DEF Outdated
  <2>2. CASE stamp[f] < stamp'[f] /\ Stat(f)'.stamp = stamp'[f]
    <3>1. IsThere(ix[f]) /\ f \in Paths
      BY <1>3, PathKinds DEF Outdated
    <3>2. ix[f].stat.stamp \in Int /\ ix[f].stat.stamp <= stamp[f] /\ stamp[f] \in Int /\ stamp'[f] \in Int
      BY <3>1 DEF StampsArePast, TypeOK, Entries, Stats, IsEntry, IsThere
    <3>3. ix'[f].stat # Stat(f)'
      BY <2>2, <3>2
    <3>4. QED
      BY <1>1, <3>1, <3>3 DEF Outdated
  <2>3. QED
    BY <2>1, <2>2, ChangeIs
<1>4. QED
  BY <1>1, <1>2, <1>3

\* What save writes down of a file it knows to be valid was known, unless the
\* file was changed.
LEMMA FileSaved ==
    ASSUME TypeOK, EntriesAbove, ValidIsTrue, habit' = habit, [Next]_vars,
           NEW f \in Files, SaveFile(f), IsValid(ix[f])
    PROVE  /\ LeftOut(f) => LeftOut(f)'
           /\ Known(f)' = Known(f) \/ Outdated(f)'
           /\ Outdated(f) => Outdated(f)'
<1>0. f \in Paths /\ f \notin Dirs /\ pc = "save"
  BY PathKinds DEF SaveFile, Saves, AtEntry
<1>1. UNCHANGED <<fs, stamp>> /\ fs[f] # None /\ IsThere(ix[f])
  BY SaveFileIs, PathKinds DEF SaveFile, Saves, AtEntry, files
<1>2. PICK e \in Entries : Replaced(f, e) /\ e.exists /\ e.valid /\ e.stat = ix[f].stat /\ e.sha = fs[f]
  BY SaveFileIs
<1>3. ix'[f] = e /\ IsThere(e)
  BY <1>0, <1>2, RepackIs, PathKinds DEF Replaced, IsThere, IsEntry
<1>4. Stat(f)' = Stat(f)
  BY <1>1 DEF Stat
<1>5. LeftOut(f) => LeftOut(f)'
  BY <1>1, <1>2, <1>3 DEF LeftOut, LargeAbove
<1>6. Outdated(f) <=> Outdated(f)'
  BY <1>1, <1>2, <1>3, <1>4 DEF Outdated
<1>7. CASE ix[f].stat = Stat(f)
  <2>1. ix[f].sha = fs[f]
    BY <1>0, <1>1, <1>7 DEF ValidIsTrue, Present
  <2>2. Known(f)' = Known(f)
    BY <1>1, <1>2, <1>3, <2>1 DEF Known
  <2>3. QED
    BY <1>5, <1>6, <2>2
<1>8. CASE ix[f].stat # Stat(f)
  BY <1>1, <1>5, <1>6, <1>8 DEF Outdated
<1>9. QED
  BY <1>7, <1>8

\* Where save is at a directory that it has yet to make an item of, the items
\* of the files below are those of the directory.
LEMMA HeldHere ==
    ASSUME TypeOK, NEW d \in Dirs, AtEntry(d), NEW f \in Files, IsBelow(f, d), Held(f)
    PROVE  Of(f, tree[d]) = Known(f)
<1>1. d \in Paths /\ f \in Paths /\ d # Root
  BY PathKinds
<1>2. ~Visited(d) /\ \A q \in Paths : IsBelow(q, d) => Visited(q)
  BY <1>1, AtIs
<1>3. ASSUME NEW e \in Above[f]
      PROVE  Visited(e) \/ e = d \/ IsBelow(d, e)
  <2>1. e \in Paths /\ (e = d \/ IsBelow(d, e) \/ IsBelow(e, d))
    BY <1>1, AboveIs, PathKinds DEF IsBelow
  <2>2. QED
    BY <1>2, <2>1
<1>4. Holds(d, f)
  BY <1>1, <1>2, <1>3 DEF Holds, IsBelow
<1>5. QED
  BY <1>4 DEF Held

\* A directory that gets a hash is known by what it collected.
LEMMA CollectedIs ==
    ASSUME TypeOK, SavedSoFar, NEW d \in Dirs, AtEntry(d), ~Hidden(d), ~AlreadySaved(ix[d]), ~Skipped(d),
           NEW f \in Files, IsBelow(f, d)
    PROVE  Of(f, tree[d]) = Known(f) \/ LeftOut(f) \/ Outdated(f)
<1>1. d \in Paths /\ f \in Paths
  BY PathKinds
<1>2. pc = "save" /\ Visited(f) /\ \A q \in Paths : IsBelow(q, d) => Visited(q)
  BY <1>1, AtIs
<1>3. ~Awaits(f)
  <2> SUFFICES ASSUME NEW c \in Above[f], ~Visited(c), AlreadySaved(ix[c])
               PROVE  FALSE
    BY DEF Awaits
  <2>1. c \in Paths /\ (c = d \/ IsBelow(d, c) \/ IsBelow(c, d))
    BY <1>1, AboveIs, PathKinds DEF IsBelow
  <2>2. QED
    BY <1>2, <2>1 DEF Hidden, IsBelow
<1>4. ~SkippedSince(f)
  <2> SUFFICES ASSUME NEW i \in 1..(pos - 1), NEW k \in 1..(pos - 1), i <= k, Order[i] = f, lastskip = Order[k]
               PROVE  FALSE
    BY DEF SkippedSince
  <2>1. pos \in 1..Len(Order) /\ Order[pos] = d /\ Len(Order) \in Nat
    BY OrderIs DEF AtEntry, TypeOK
  <2>2. i \in 1..Len(Order) /\ k \in 1..Len(Order) /\ k \in i..(pos - 1)
    BY <2>1
  <2>3. IsBelow(Order[k], d) /\ Order[k] \in Paths
    BY <2>1, <2>2, Places, OrderIs
  <2>4. QED
    BY <2>3, PathKinds DEF Skipped
<1>5. QED
  BY <1>2, <1>3, <1>4, HeldHere DEF SavedSoFar, Accounted

\* The hash of a valid directory stays the one of what the index has below
\* it.
LEMMA AgreeStep ==
    ASSUME ~Coarse, TypeOK, TypeOK', EntriesAbove, NewAreInvalid, StampsArePast, ValidIsTrue, ValidHidesNothing,
           SavedSoFar, HashesAgree, habit' = habit, [Next]_vars
    PROVE  HashesAgree'
<1> SUFFICES ASSUME NEW d \in Dirs, NEW f \in Files, IsBelow(f, d), IsValid(ix'[d])
             PROVE  Of(f, ix'[d].sha) = Known(f)' \/ LeftOut(f)' \/ Outdated(f)'
  BY DEF HashesAgree, Of, IsBelow, IsValid, IsThere, IsEntry
<1>0. d \in Paths /\ f \in Paths /\ d \in Above[f]
  BY PathKinds DEF IsBelow
<1>1. ASSUME ix'[d] = ix[d]
      PROVE  Of(f, ix'[d].sha) = Known(f)' \/ LeftOut(f)' \/ Outdated(f)'
  <2>1. Of(f, ix[d].sha) = Known(f) \/ LeftOut(f) \/ Outdated(f)
    BY <1>1 DEF HashesAgree
  <2>2. CASE ix'[f] = ix[f]
    BY <1>1, <2>1, <2>2, FileStays
  <2>3. CASE IndexEnd /\ IsEntry(fresh[f])
    <3>1. ix' = Merged
      BY <2>3 DEF IndexEnd
    <3>2. QED
      BY <1>0, <1>1, <2>3, <3>1, MergedIs DEF NewAreInvalid, IsValid, BlankNewEntry
  <2>4. CASE \A c \in Above[f] : ~IsValid(ix'[c])
    BY <1>0, <2>4
  <2>5. CASE SaveFile(f) /\ IsThere(ix[f])
    <3>1. IsValid(ix[f])
      BY <1>0, <1>1, <2>5 DEF ValidHidesNothing
    <3>2. QED
      BY <1>1, <2>1, <2>5, <3>1, FileSaved
  <2>6. QED
    BY <2>2, <2>3, <2>4, <2>5, FileEntryStep
<1>2. ASSUME SaveDir(d), ~AlreadySaved(ix[d]), ~Skipped(d), ix'[d].sha = tree[d]
      PROVE  Of(f, ix'[d].sha) = Known(f)' \/ LeftOut(f)' \/ Outdated(f)'
  <2>1. AtEntry(d) /\ ~Hidden(d) /\ pc = "save"
    BY <1>2 DEF SaveDir, Saves, Absent, AtEntry
  <2>2. ix'[f] = ix[f]
    <3>1. ~AtEntry(f)
      BY <2>1, PathKinds DEF AtEntry
    <3>2. QED
      BY <2>1, <3>1, FileEntryStep DEF IndexEnd, IxDeleted, IxKnown, Visiting, SaveFile, Saves
  <2>3. QED
    BY <1>2, <2>1, <2>2, CollectedIs, FileStays
<1>3. CASE IsEntry(fresh[d]) /\ ix'[d] = fresh[d]
  BY <1>0, <1>3 DEF NewAreInvalid, IsValid
<1>4. CASE ix'[d] = BlankNewEntry
  BY <1>4 DEF BlankNewEntry, IsValid
<1>5. CASE ~ix'[d].exists \/ ~ix'[d].valid
  BY <1>5 DEF IsValid, IsThere
<1>6. QED
  BY <1>1, <1>2, <1>3, <1>4, <1>5, DirEntryStep

-----------------------------------------------------------------------------
(***************************************************************************)
(* Where the items are                                                     *)
(***************************************************************************)

\* What save does at a path.
LEMMA AtStepIs ==
    ASSUME TypeOK, [Next]_vars, NEW p \in Paths, AtEntry(p)
    PROVE  \/ SavePass(p) \/ SaveTooLarge(p)
           \/ p \in Files /\ (SaveKnown(p) \/ SaveChanged(p) \/ SaveFile(p) \/ SaveReadError(p))
           \/ p \in Dirs /\ SaveDir(p)
<1>1. pc = "save" /\ pc' = "save" /\ pos <= Len(Order) /\ p = Order[pos] /\ pos' # pos
      /\ ~(pos > Len(Order))
  BY OrderIs DEF AtEntry, TypeOK
<1>2. \A q \in Paths : AtEntry(q) => q = p
  BY <1>1 DEF AtEntry
<1>3. \A q \in Paths : SavePass(q) \/ SaveTooLarge(q) => q = p
  BY <1>2 DEF SavePass, SaveTooLarge
<1>4. \A q \in Files : SaveKnown(q) \/ SaveChanged(q) \/ SaveFile(q) \/ SaveReadError(q) => q = p
  BY <1>2, PathKinds DEF SaveKnown, SaveChanged, SaveFile, SaveReadError, Saves
<1>5. \A q \in Dirs : SaveDir(q) => q = p
  BY <1>2, PathKinds DEF SaveDir, Saves
<1>6. QED
  BY <1>1, <1>3, <1>4, <1>5
     DEF Next, IndexNext, SaveNext, vars, Tick, Change, IndexBegin, SaveBegin, Idle, ListDir, IxNew, IxError,
         IxDeleted, IxKnown, Visiting, IndexEnd, IndexKilled, SaveEnd, SaveKilled, Lose

\* A directory that is saved already and has not been visited stays so: what
\* is below it is passed.
LEMMA SavedStays ==
    ASSUME TypeOK, EntriesAbove, [Next]_vars, NEW p \in Paths, AtEntry(p),
           NEW d \in Dirs, d # p, AlreadySaved(ix[d])
    PROVE  ix'[d] = ix[d] /\ AlreadySaved(ix[d])'
<1>0. d \in Paths
  BY PathKinds
<1>1. stored' = stored /\ written \subseteq written'
  BY AtStepIs DEF AtEntry, SavePass, SaveTooLarge, SaveKnown, SaveChanged, SaveFile, SaveReadError, SaveDir
<1>2. CASE ix' = ix
  BY <1>1, <1>2 DEF AlreadySaved, Exists, IsValid, IsThere, IsEntry
<1>3. ASSUME NEW e \in Entries, Replaced(p, e), ~Hidden(p)
      PROVE  ix'[d] = ix[d]
  <2>1. ~IsBelow(p, d)
    BY <1>3 DEF Hidden, IsBelow
  <2>2. QED
    BY <1>0, <1>3, <2>1, RepackIs DEF Replaced
<1>4. ix'[d] = ix[d]
  <2>1. CASE p \in Files /\ SaveFile(p)
    BY <1>3, <2>1, SaveFileIs DEF SaveFile, Saves, Absent
  <2>2. CASE p \in Dirs /\ SaveDir(p)
    <3>1. ~Hidden(p)
      BY <2>2 DEF SaveDir, Saves, Absent
    <3>2. QED
      BY <1>2, <1>3, <2>2, <3>1, SaveDirIs
  <2>3. CASE ix' = ix
    BY <2>3
  <2>4. QED
    BY <2>1, <2>2, <2>3, AtStepIs DEF SavePass, SaveTooLarge, SaveKnown, SaveChanged, SaveReadError
<1>5. QED
  BY <1>1, <1>4 DEF AlreadySaved, Exists, IsValid, IsThere, IsEntry

\* Once save is past a file or a directory above it, its item is with what
\* that is in.
LEMMA HoldsIs ==
    ASSUME TypeOK, NEW p \in Paths, AtEntry(p), NEW f \in Files, p = f \/ p \in Above[f],
           NEW d \in Dirs \cup {Root}, Holds(d, f)'
    PROVE  d = Parent(p)
<1>0. f \in Paths /\ f # Top
  BY PathKinds
<1>1. /\ \A q \in Paths : IsBelow(q, p) => Visited(q)
      /\ \A q \in Paths : IsBelow(p, q) => ~Visited(q)
      /\ \A q \in Paths : Visited(q)' <=> Visited(q) \/ q = p
  BY AtIs
<1>2. /\ IF d = Root THEN TRUE ELSE d \in Above[f] /\ ~Visited(d)'
      /\ \A e \in Above[f] : Visited(e)' \/ e = d \/ (d # Root /\ IsBelow(d, e))
  BY DEF Holds
<1>3. d # Root => d \in Paths /\ d # p /\ ~IsBelow(d, p)
  BY <1>1, <1>2, PathKinds
<1>4. CASE p = Top
  <2>1. d # Root => IsBelow(d, Top)
    BY <1>3, <1>4, FileIndexParameters DEF IsBelow
  <2>2. QED
    BY <1>3, <1>4, <2>1, ParentIs
<1>5. CASE p # Top
  <2> DEFINE up == Parent(p)
  <2>1. up \in Dirs /\ up \in Paths /\ up \in Above[p] /\ Above[p] = Above[up] \cup {up}
    BY <1>5, ParentIs, PathKinds
  <2>2. up \in Above[f] /\ Above[p] \subseteq Above[f]
    BY <1>0, <2>1, AboveIs
  <2>3. ~Visited(up)'
    BY <1>1, <2>1, AboveIs DEF IsBelow
  <2>4. up = d \/ (d # Root /\ IsBelow(d, up))
    BY <1>2, <2>2, <2>3
  <2>5. CASE d # Root /\ IsBelow(d, up)
    <3>1. d \in Above[f] /\ d \in Paths
      BY <1>2, <1>3, <2>5
    <3>2. d \in Above[p]
      BY <1>0, <1>3, <2>5, <3>1, AboveIs DEF IsBelow
    <3>3. d = up \/ IsBelow(up, d)
      BY <2>1, <3>2 DEF IsBelow
    <3>4. d # up /\ ~IsBelow(up, d)
      BY <2>1, <2>5, <3>1, AboveIs DEF IsBelow
    <3>5. QED
      BY <3>3, <3>4
  <2>6. QED
    BY <2>4, <2>5
<1>6. QED
  BY <1>4, <1>5

\* Before that, nothing is there.
LEMMA NoneEarly ==
    ASSUME TypeOK, Gathered, NEW p \in Paths, AtEntry(p), NEW f \in Files, p = f \/ p \in Above[f]
    PROVE  Of(f, tree[Parent(p)]) = {} /\ Parent(p) \in Dirs \cup {Root}
<1>1. Parent(p) \in Dirs \cup {Root}
  BY ParentIs
<1>2. \A j \in tree[Parent(p)] : ~IsBelow(j[1], p) /\ j[1] # p
  BY <1>1, NothingEarly
<1>3. QED
  BY <1>1, <1>2 DEF Of, IsBelow

\* Of other files no item is moved.
LEMMA OfSame ==
    ASSUME TypeOK, HashesInPlace, Gathered, [Next]_vars, NEW p \in Paths, AtEntry(p),
           NEW f \in Files, f # p, ~IsBelow(f, p), NEW d \in Dirs \cup {Root}
    PROVE  Of(f, tree'[d]) = Of(f, tree[d])
<1>1. pc = "save" /\ pc' = "save" /\ pos' # pos /\ \A q \in Paths : AtEntry(q) => q = p
  BY DEF AtEntry, TypeOK
<1>2. CASE tree' = tree
  BY <1>2
<1>3. ASSUME NEW c, p \in Files, tree' = [tree EXCEPT ![Parent(p)] = @ \cup {<<p, c>>}]
      PROVE  Of(f, tree'[d]) = Of(f, tree[d])
  <2>1. tree'[d] = tree[d] \/ tree'[d] = tree[d] \cup {<<p, c>>}
    BY <1>3 DEF TypeOK
  <2>2. QED
    BY <2>1 DEF Of
<1>4. ASSUME NEW t \in SUBSET Items, \A j \in t : IsBelow(j[1], p), tree' = PopInto(p, t)
      PROVE  Of(f, tree'[d]) = Of(f, tree[d])
  <2>1. tree'[d] = tree[d] \/ tree'[d] = tree[d] \cup t \cup {<<p, "dir">>}
    BY <1>4 DEF TypeOK, PopInto
  <2>2. \A j \in t \cup {<<p, "dir">>} : j[1] # f
    BY <1>4
  <2>3. QED
    BY <2>1, <2>2 DEF Of
<1>5. QED
  BY <1>1, <1>2, <1>3, <1>4, SaveStepIs, PathKinds

-----------------------------------------------------------------------------
(***************************************************************************)
(* Every file that save has been at is accounted for                       *)
(***************************************************************************)

\* The item of a file is where it is to be, once it is with what save is at.
LEMMA NowHeld ==
    ASSUME TypeOK, NEW p \in Paths, AtEntry(p), NEW f \in Files, p = f \/ p \in Above[f],
           Of(f, tree'[Parent(p)]) = Known(f)'
    PROVE  Accounted(f)'
<1>1. \A d \in Dirs \cup {Root} : Holds(d, f)' => d = Parent(p)
  BY HoldsIs
<1>2. Held(f)'
  BY <1>1 DEF Held, Of, Known
<1>3. QED
  BY <1>2 DEF Accounted

\* A directory above that is saved already is yet to come.
LEMMA StillAwaits ==
    ASSUME TypeOK, EntriesAbove, [Next]_vars, NEW p \in Paths, AtEntry(p), NEW f \in Files,
           NEW d \in Above[f], d # p, ~Visited(d), AlreadySaved(ix[d])
    PROVE  Accounted(f)'
<1>1. d \in Dirs /\ d \in Paths
  BY AboveIs, PathKinds
<1>2. AlreadySaved(ix[d])'
  BY <1>1, SavedStays
<1>3. ~Visited(d)'
  BY <1>1, AtIs
<1>4. Awaits(f)'
  BY <1>2, <1>3 DEF Awaits, AlreadySaved, IsValid, IsThere, IsEntry, Exists
<1>5. QED
  BY <1>4 DEF Accounted

\* So is one above what save passes.
LEMMA HiddenAwaits ==
    ASSUME TypeOK, EntriesAbove, [Next]_vars, NEW p \in Paths, AtEntry(p), NEW f \in Files,
           p = f \/ p \in Above[f], Hidden(p)
    PROVE  Accounted(f)'
<1>1. PICK d \in Above[p] : AlreadySaved(ix[d])
  BY DEF Hidden
<1>2. d \in Above[f] /\ d \in Paths /\ d # p
  BY AboveIs, PathKinds
<1>3. ~Visited(d)
  BY <1>2, AtIs DEF IsBelow
<1>4. QED
  BY <1>1, <1>2, <1>3, StillAwaits

\* What was skipped was skipped before.
LEMMA StillSkipped ==
    ASSUME TypeOK, [Next]_vars, NEW p \in Paths, AtEntry(p), NEW f \in Files, SkippedSince(f)
    PROVE  SkippedSince(f)'
<1>1. pos \in 1..Len(Order) /\ Order[pos] = p /\ pos' = pos + 1 /\ Len(Order) \in Nat
  BY OrderIs DEF AtEntry, TypeOK
<1>2. PICK i \in 1..(pos - 1), k \in 1..(pos - 1) : i <= k /\ Order[i] = f /\ lastskip = Order[k]
  BY DEF SkippedSince
<1>3. i \in 1..(pos' - 1) /\ k \in 1..(pos' - 1) /\ pos \in 1..(pos' - 1) /\ i <= pos
  BY <1>1, <1>2
<1>4. lastskip' = lastskip \/ lastskip' = Order[pos]
  BY <1>1, AtStepIs DEF SavePass, SaveTooLarge, SaveKnown, SaveChanged, SaveFile, SaveReadError, SaveDir
<1>5. QED
  BY <1>2, <1>3, <1>4 DEF SkippedSince

\* Save starts no new excuse.
LEMMA StillChanged ==
    ASSUME TypeOK, [Next]_vars, NEW p \in Paths, AtEntry(p), ~Unchanged
    PROVE  ~Unchanged'
<1>1. calm' = calm /\ (failed' = failed \/ failed')
  BY AtStepIs DEF AtEntry, SavePass, SaveTooLarge, SaveKnown, SaveChanged, SaveFile, SaveReadError, SaveDir
<1>2. QED
  BY <1>1 DEF Unchanged

\* Save is at a path that the file is not below.
LEMMA ElsewhereStep ==
    ASSUME ~Coarse, TypeOK, TypeOK', EntriesAbove, StampsArePast, HashesInPlace, Gathered,
           habit' = habit, [Next]_vars, NEW p \in Paths, AtEntry(p), NEW f \in Files, f # p, ~IsBelow(f, p),
           Accounted(f)
    PROVE  Accounted(f)'
<1>0. f \in Paths /\ \A q \in Paths : AtEntry(q) => q = p
  BY PathKinds DEF AtEntry
<1>1. ix'[f] = ix[f]
  BY <1>0, FileEntryStep DEF AtEntry, IndexEnd, IxDeleted, IxKnown, Visiting, SaveFile, Saves
<1>2. Known(f)' = Known(f) /\ (LeftOut(f) => LeftOut(f)') /\ (Outdated(f) => Outdated(f)')
  BY <1>1, FileStays
<1>3. CASE LeftOut(f) \/ Outdated(f)
  BY <1>2, <1>3 DEF Accounted
<1>4. CASE Awaits(f)
  <2>1. PICK d \in Above[f] : ~Visited(d) /\ AlreadySaved(ix[d])
    BY <1>4 DEF Awaits
  <2>2. QED
    BY <2>1, StillAwaits DEF IsBelow
<1>5. CASE Held(f)
  <2>1. \A q \in Paths : Visited(q)' <=> Visited(q) \/ q = p
    BY AtIs
  <2>2. ASSUME NEW d \in Dirs \cup {Root}, Holds(d, f)'
        PROVE  Of(f, tree'[d]) = Known(f)'
    <3>1. \A e \in Above[f] : Visited(e)' <=> Visited(e)
      BY <1>0, <2>1, AboveIs, PathKinds DEF IsBelow
    <3>2. Holds(d, f)
      BY <2>2, <3>1 DEF Holds
    <3>3. Of(f, tree[d]) = Known(f)
      BY <1>5, <3>2 DEF Held
    <3>4. QED
      BY <1>2, <3>3, OfSame
  <2>3. Held(f)'
    BY <2>2 DEF Held, Of, Known
  <2>4. QED
    BY <2>3 DEF Accounted
<1>6. CASE SkippedSince(f) /\ ~Unchanged
  BY <1>6, StillSkipped, StillChanged DEF Accounted
<1>7. QED
  BY <1>3, <1>4, <1>5, <1>6 DEF Accounted

\* Save is at a directory that the file is below.
LEMMA AboveStep ==
    ASSUME ~Coarse, TypeOK, TypeOK', EntriesAbove, StampsArePast, HashesInPlace, Gathered, DirsAreThere,
           LargeIsLarge, SmallerWhen, HashesAgree,
           habit' = habit, [Next]_vars, NEW p \in Dirs, AtEntry(p), NEW f \in Files, IsBelow(f, p),
           Accounted(f)
    PROVE  Accounted(f)'
<1>0. f \in Paths /\ p \in Paths /\ p # f /\ p \in Above[f] /\ \A q \in Paths : AtEntry(q) => q = p
  BY PathKinds DEF AtEntry, IsBelow
<1>1. ix'[f] = ix[f]
  BY <1>0, FileEntryStep DEF AtEntry, IndexEnd, IxDeleted, IxKnown, Visiting, SaveFile, Saves
<1>2. Known(f)' = Known(f) /\ (LeftOut(f) => LeftOut(f)') /\ (Outdated(f) => Outdated(f)')
  BY <1>1, FileStays
<1>3. Of(f, tree[Parent(p)]) = {} /\ Parent(p) \in Dirs \cup {Root}
  BY <1>0, NoneEarly
<1>4. CASE LeftOut(f) \/ Outdated(f)
  BY <1>2, <1>4 DEF Accounted
<1>5. CASE SkippedSince(f) /\ ~Unchanged
  BY <1>0, <1>5, StillSkipped, StillChanged DEF Accounted
<1>6. CASE Hidden(p)
  BY <1>0, <1>6, HiddenAwaits
<1>7. CASE SaveTooLarge(p)
  <2>1. smaller /\ IsEntry(ix[p]) /\ ix[p].stat.large
    BY <1>7 DEF SaveTooLarge, TooLarge, Absent, IsThere
  <2>2. p \in Large /\ habit = "smaller"
    BY <2>1 DEF LargeIsLarge, SmallerWhen
  <2>3. LeftOut(f)
    BY <1>0, <2>2 DEF LeftOut, LargeAbove
  <2>4. QED
    BY <1>2, <2>3 DEF Accounted
<1>8. CASE SavePass(p) /\ ~Hidden(p)
  <2>1. ~IsThere(ix[p]) /\ tree' = tree
    BY <1>8 DEF SavePass, Absent
  <2>2. ~IsEntry(ix[p])
    BY <2>1 DEF DirsAreThere, IsThere
  <2>3. Known(f) = {}
    BY <1>0, <2>2 DEF EntriesAbove, Known, IsThere
  <2>4. QED
    BY <1>0, <1>2, <1>3, <2>1, <2>3, NowHeld
<1>9. ASSUME NEW t \in SUBSET Items, tree' = PopInto(p, t), Of(f, t) = Known(f)
      PROVE  Accounted(f)'
  <2>1. tree'[Parent(p)] = tree[Parent(p)] \cup t \cup {<<p, "dir">>}
    BY <1>3, <1>9 DEF TypeOK, PopInto
  <2>2. Of(f, tree'[Parent(p)]) = Of(f, t)
    BY <1>0, <1>3, <2>1 DEF Of
  <2>3. QED
    BY <1>0, <1>2, <1>9, <2>2, NowHeld
<1>10. CASE SaveDir(p) /\ AlreadySaved(ix[p])
  <2>1. tree' = PopInto(p, ix[p].sha) /\ pc = "save"
    BY <1>10 DEF SaveDir, Saves, AtEntry
  <2>2. ix[p].sha \in SUBSET Items
    BY <1>10, <2>1, PopIs
  <2>3. Of(f, ix[p].sha) = Known(f) \/ LeftOut(f) \/ Outdated(f)
    BY <1>10 DEF HashesAgree, AlreadySaved
  <2>4. QED
    BY <1>4, <1>9, <2>1, <2>2, <2>3
<1>11. CASE SaveDir(p) /\ ~AlreadySaved(ix[p]) /\ Awaits(f)
  <2>1. PICK d \in Above[f] : ~Visited(d) /\ AlreadySaved(ix[d])
    BY <1>11 DEF Awaits
  <2>2. QED
    BY <1>0, <1>11, <2>1, StillAwaits
<1>12. CASE SaveDir(p) /\ ~AlreadySaved(ix[p]) /\ Held(f)
  <2>1. tree' = PopInto(p, tree[p]) /\ tree[p] \in SUBSET Items
    BY <1>12 DEF SaveDir, TypeOK
  <2>2. Of(f, tree[p]) = Known(f)
    BY <1>12, HeldHere
  <2>3. QED
    BY <1>9, <2>1, <2>2
<1>13. QED
  BY <1>0, <1>4, <1>5, <1>6, <1>7, <1>8, <1>10, <1>11, <1>12, AtStepIs, PathKinds DEF Accounted

\* Save is at the file.
LEMMA HereStep ==
    ASSUME TypeOK, TypeOK', EntriesAbove, HashesInPlace, Gathered, SmallerWhen, IndexIsTrue,
           habit' = habit, [Next]_vars, NEW f \in Files, AtEntry(f)
    PROVE  Accounted(f)'
<1>0. f \in Paths /\ f \notin Dirs
  BY PathKinds
<1>1. Of(f, tree[Parent(f)]) = {} /\ Parent(f) \in Dirs \cup {Root}
  BY <1>0, NoneEarly
<1>2. pos \in 1..(pos' - 1) /\ Order[pos] = f
  BY <1>0, OrderIs DEF AtEntry, TypeOK
<1>3. lastskip' = f => SkippedSince(f)'
  <2>1. lastskip' = f => \E i, k \in 1..(pos' - 1) : i <= k /\ Order[i] = f /\ lastskip' = Order[k]
    BY <1>2
  <2>2. QED
    BY <2>1 DEF SkippedSince
<1>4. CASE SavePass(f) /\ Hidden(f)
  BY <1>0, <1>4, HiddenAwaits
<1>5. CASE SavePass(f) /\ ~Hidden(f)
  <2>1. ~IsThere(ix'[f]) /\ tree' = tree
    BY <1>5 DEF SavePass, Absent
  <2>2. Known(f)' = {}
    BY <2>1 DEF Known, IsThere, IsEntry
  <2>3. QED
    BY <1>0, <1>1, <2>1, <2>2, NowHeld
<1>6. CASE SaveTooLarge(f)
  <2>1. IsThere(ix'[f]) /\ ix'[f].stat.large /\ habit' = "smaller"
    BY <1>6 DEF SaveTooLarge, TooLarge, Absent, SmallerWhen
  <2>2. LeftOut(f)'
    BY <2>1 DEF LeftOut, IsThere, IsEntry
  <2>3. QED
    BY <2>2 DEF Accounted
<1>7. ASSUME NEW c, tree' = [tree EXCEPT ![Parent(f)] = @ \cup {<<f, c>>}], Known(f)' = {<<f, c>>}
      PROVE  Accounted(f)'
  <2>1. tree'[Parent(f)] = tree[Parent(f)] \cup {<<f, c>>}
    BY <1>1, <1>7 DEF TypeOK
  <2>2. Of(f, tree'[Parent(f)]) = {<<f, c>>}
    BY <1>1, <2>1 DEF Of
  <2>3. QED
    BY <1>0, <1>7, <2>2, NowHeld
<1>8. CASE SaveKnown(f)
  <2>1. tree' = [tree EXCEPT ![Parent(f)] = @ \cup {<<f, ix[f].sha>>}] /\ ix' = ix /\ IsThere(ix[f])
    BY <1>8 DEF SaveKnown, Saves, Absent
  <2>2. Known(f)' = {<<f, ix[f].sha>>}
    BY <2>1 DEF Known, IsThere, IsEntry
  <2>3. QED
    BY <1>7, <2>1, <2>2
<1>9. CASE SaveFile(f)
  <2>1. tree' = [tree EXCEPT ![Parent(f)] = @ \cup {<<f, fs[f]>>}]
    BY <1>9 DEF SaveFile
  <2>2. PICK e \in Entries : Replaced(f, e) /\ e.exists /\ e.sha = fs[f]
    BY <1>9, SaveFileIs
  <2>3. ix'[f] = e /\ IsThere(ix'[f])
    BY <1>0, <2>2, RepackIs, PathKinds DEF Replaced, IsThere, IsEntry
  <2>4. Known(f)' = {<<f, fs[f]>>}
    BY <2>2, <2>3 DEF Known, IsThere, IsEntry
  <2>5. QED
    BY <1>7, <2>1, <2>4
<1>10. CASE SaveChanged(f)
  <2>1. IsThere(ix[f]) /\ (fs[f] = None \/ Stat(f).kind # ix[f].stat.kind) /\ lastskip' = f /\ calm' = calm
    BY <1>10 DEF SaveChanged, Saves, Absent, AtEntry
  <2>2. calm # "yes"
    BY <2>1 DEF IndexIsTrue
  <2>3. QED
    BY <1>3, <2>1, <2>2 DEF Accounted, Unchanged
<1>11. CASE SaveReadError(f)
  BY <1>3, <1>11 DEF SaveReadError, Accounted, Unchanged
<1>12. QED
  BY <1>0, <1>4, <1>5, <1>6, <1>8, <1>9, <1>10, <1>11, AtStepIs

\* A step of the running save, or one that changes nothing of it.
LEMMA SaveMoves ==
    ASSUME TypeOK, [Next]_vars, pc' = "save"
    PROVE  \/ pos' = 1
           \/ pc = "save" /\ \E p \in Paths : AtEntry(p)
           \/ /\ pc = "save" /\ UNCHANGED <<ix, pos, saving, stored>> /\ calm' \in {calm, "no"}
<1> DEFINE At == \E p \in Paths : AtEntry(p)
           Still == pc = "save" /\ UNCHANGED <<ix, pos, saving, stored>> /\ calm' \in {calm, "no"}
<1>1. \A p \in Paths : SavePass(p) \/ SaveTooLarge(p) => At
  BY DEF SavePass, SaveTooLarge
<1>2. \A f \in Files : SaveKnown(f) \/ SaveChanged(f) \/ SaveFile(f) \/ SaveReadError(f) => At
  BY PathKinds DEF SaveKnown, SaveChanged, SaveFile, SaveReadError, Saves
<1>3. \A d \in Dirs : SaveDir(d) => At
  BY PathKinds DEF SaveDir, Saves
<1>4. At => pc = "save"
  BY DEF AtEntry
<1>5. Tick \/ UNCHANGED vars \/ (\E f \in Files, c \in Contents \cup {None} : Change(f, c)) => Still
  BY DEF Tick, vars, Change
<1> HIDE DEF At, Still
<1>6. At \/ Still \/ pos' = 1
  BY <1>1, <1>2, <1>3, <1>5
     DEF Next, IndexNext, SaveNext, IndexBegin, SaveBegin, ListDir, IxNew, IxError, IxDeleted, IxKnown,
         Visiting, IndexEnd, IndexKilled, SaveEnd, SaveKilled, Lose
<1>7. QED
  BY <1>4, <1>6 DEF At, Still

\* Every visited file is accounted for after every step.
LEMMA SavedStep ==
    ASSUME ~Coarse, TypeOK, TypeOK', EntriesAbove, StampsArePast, HashesInPlace, Gathered, DirsAreThere,
           LargeIsLarge, SmallerWhen, HashesAgree, IndexIsTrue, SavedSoFar, habit' = habit, [Next]_vars
    PROVE  SavedSoFar'
<1> SUFFICES ASSUME pc' = "save", NEW f \in Files, Visited(f)'
             PROVE  Accounted(f)'
  BY DEF SavedSoFar
<1>0. f \in Paths
  BY PathKinds
<1>1. CASE pos' = 1
  BY <1>1 DEF Visited
<1>2. ASSUME pc = "save", NEW p \in Paths, AtEntry(p)
      PROVE  Accounted(f)'
  <2>1. Visited(f) \/ f = p
    BY <1>0, <1>2, AtIs
  <2>2. CASE f = p
    BY <1>2, <2>2, HereStep
  <2>3. CASE f # p /\ IsBelow(f, p)
    <3>1. p \in Dirs /\ Accounted(f)
      BY <1>0, <1>2, <2>1, <2>3, AboveIs DEF SavedSoFar, IsBelow
    <3>2. QED
      BY <1>2, <2>3, <3>1, AboveStep
  <2>4. CASE f # p /\ ~IsBelow(f, p)
    <3>1. Accounted(f)
      BY <1>2, <2>1, <2>4 DEF SavedSoFar
    <3>2. QED
      BY <1>2, <2>4, <3>1, ElsewhereStep
  <2>5. QED
    BY <2>2, <2>3, <2>4
<1>3. CASE pc = "save" /\ UNCHANGED <<ix, pos, saving, stored>> /\ calm' \in {calm, "no"}
  <2>1. UNCHANGED <<tree, lastskip, written, failed>>
    BY <1>3 DEF saving
  <2>2. /\ Visited(f)' <=> Visited(f)
        /\ \A d \in Above[f] : (Visited(d)' <=> Visited(d)) /\ (AlreadySaved(ix[d])' <=> AlreadySaved(ix[d]))
    BY <1>3, <2>1 DEF Visited, AlreadySaved, Exists, IsValid, IsThere, IsEntry
  <2>3. Accounted(f)
    BY <1>3, <2>2 DEF SavedSoFar
  <2>4. Known(f)' = Known(f) /\ (LeftOut(f) => LeftOut(f)') /\ (Outdated(f) => Outdated(f)')
    BY <1>3, FileStays
  <2>5. Awaits(f) => Awaits(f)'
    BY <2>2 DEF Awaits
  <2>6. Held(f) => Held(f)'
    <3>1. \A d \in Dirs \cup {Root} : Holds(d, f)' => Holds(d, f)
      BY <2>2 DEF Holds
    <3>2. QED
      BY <2>1, <2>4, <3>1 DEF Held, Of, Known
  <2>7. SkippedSince(f) => SkippedSince(f)'
    BY <1>3, <2>1 DEF SkippedSince
  <2>8. ~Unchanged => ~Unchanged'
    BY <1>3, <2>1 DEF Unchanged
  <2>9. QED
    BY <2>3, <2>4, <2>5, <2>6, <2>7, <2>8 DEF Accounted
<1>4. QED
  BY <1>1, <1>2, <1>3, SaveMoves

\* What is on the way to a quiet save was read as it is.
LEMMA SkippedStep ==
    ASSUME ~Coarse, TypeOK, TypeOK', EntriesAbove, StampsArePast, ValidHidesNothing, SmallerWhen, IndexIsTrue,
           NothingSkipped, habit' = habit, [Next]_vars
    PROVE  NothingSkipped'
<1> SUFFICES ASSUME pc' = "save", Unchanged', NEW f \in Files, Visited(f)', IsThere(ix'[f])
             PROVE  IsValid(ix'[f]) \/ LeftOut(f)'
  BY DEF NothingSkipped, IsThere, IsEntry, IsValid
<1>0. f \in Paths /\ f \notin Dirs
  BY PathKinds
<1>1. CASE pos' = 1
  BY <1>1 DEF Visited
<1>2. ASSUME ix'[f] = ix[f], Visited(f), pc = "save", Unchanged
      PROVE  IsValid(ix'[f]) \/ LeftOut(f)'
  BY <1>2, FileStays DEF NothingSkipped
<1>3. ASSUME pc = "save", NEW p \in Paths, AtEntry(p)
      PROVE  IsValid(ix'[f]) \/ LeftOut(f)'
  <2>1. Unchanged
    BY <1>3, StillChanged
  <2>2. Visited(f) \/ f = p
    BY <1>0, <1>3, AtIs
  <2>3. CASE f # p
    <3>1. \A q \in Paths : AtEntry(q) => q = p
      BY <1>3 DEF AtEntry
    <3>2. ix'[f] = ix[f]
      BY <1>0, <1>3, <2>3, <3>1, FileEntryStep
         DEF AtEntry, IndexEnd, IxDeleted, IxKnown, Visiting, SaveFile, Saves
    <3>3. QED
      BY <1>2, <1>3, <2>1, <2>2, <2>3, <3>2
  <2>4. CASE f = p
    <3>1. CASE SavePass(f)
      <4>1. ix' = ix /\ Hidden(f)
        BY <3>1 DEF SavePass, Absent
      <4>2. IsValid(ix[f])
        BY <1>0, <4>1, AboveIs DEF Hidden, AlreadySaved, ValidHidesNothing, IsBelow
      <4>3. QED
        BY <4>1, <4>2
    <3>2. CASE SaveTooLarge(f)
      <4>1. ix'[f].stat.large /\ habit' = "smaller"
        BY <3>2 DEF SaveTooLarge, TooLarge, SmallerWhen
      <4>2. QED
        BY <4>1 DEF LeftOut, IsThere, IsEntry
    <3>3. CASE SaveKnown(f)
      BY <3>3 DEF SaveKnown, AlreadySaved
    <3>4. CASE SaveChanged(f)
      <4>1. IsThere(ix[f]) /\ (fs[f] = None \/ Stat(f).kind # ix[f].stat.kind)
        BY <3>4 DEF SaveChanged, Saves, Absent
      <4>2. QED
        BY <2>1, <4>1 DEF IndexIsTrue, Unchanged
    <3>5. CASE SaveReadError(f)
      BY <3>5 DEF SaveReadError, Unchanged
    <3>6. CASE SaveFile(f)
      <4>1. PICK e \in Entries : Replaced(f, e) /\ e.exists /\ e.valid
        BY <3>6, SaveFileIs
      <4>2. QED
        BY <1>0, <4>1, RepackIs, PathKinds DEF Replaced, IsValid, IsThere, IsEntry
    <3>7. QED
      BY <1>0, <1>3, <2>4, <3>1, <3>2, <3>3, <3>4, <3>5, <3>6, AtStepIs
  <2>5. QED
    BY <2>3, <2>4
<1>4. CASE pc = "save" /\ UNCHANGED <<ix, pos, saving, stored>> /\ calm' \in {calm, "no"}
  <2>1. Unchanged /\ (Visited(f)' <=> Visited(f))
    BY <1>4 DEF Unchanged, saving, Visited
  <2>2. QED
    BY <1>2, <1>4, <2>1
<1>5. QED
  BY <1>1, <1>3, <1>4, SaveMoves

-----------------------------------------------------------------------------
(***************************************************************************)
(* The theorem                                                             *)
(***************************************************************************)

\* At the end of a quiet save each file is as it is or left out.
LEMMA EndIsExact ==
    ASSUME TypeOK, IndexIsTrue, SavedSoFar, NothingSkipped, pc = "save", Unchanged, pos > Len(Order),
           NEW f \in Files
    PROVE  \/ SavedAsIs(f)
           \/ habit = "smaller" /\ (fs[f] \in Large \/ \E d \in Above[f] : d \in Large)
<1>0. f \in Paths /\ calm = "yes" /\ ~failed
  BY PathKinds DEF Unchanged
<1>1. Visited(f) /\ \A d \in Above[f] : Visited(d)
  BY <1>0, AllVisited, AboveIs, PathKinds
<1>2. IF fs[f] = None THEN ~IsThere(ix[f])
      ELSE /\ IsThere(ix[f])
           /\ ix[f].stat = Stat(f)
           /\ IsValid(ix[f]) => ix[f].sha = fs[f]
  BY <1>0 DEF IndexIsTrue
<1>3. CASE LeftOut(f)
  <2>1. CASE LargeAbove(f)
    BY <2>1 DEF LargeAbove
  <2>2. CASE habit = "smaller" /\ IsThere(ix[f]) /\ ix[f].stat.large
    <3>1. Stat(f).large = (fs[f] \in Large) /\ ix[f].stat = Stat(f)
      BY <1>0, <1>2, <2>2, StatIs
    <3>2. QED
      BY <2>2, <3>1
  <2>3. QED
    BY <1>3, <2>1, <2>2 DEF LeftOut
<1>4. CASE Held(f) /\ ~LeftOut(f)
  <2>1. Holds(Root, f)
    BY <1>1 DEF Holds
  <2>2. InSave(f) = Known(f)
    BY <1>4, <2>1 DEF Held, InSave, Of
  <2>3. IsThere(ix[f]) => IsValid(ix[f])
    BY <1>1, <1>4 DEF NothingSkipped
  <2>4. QED
    BY <1>2, <2>2, <2>3 DEF SavedAsIs, Known
<1>5. ~Awaits(f) /\ ~Outdated(f)
  BY <1>1, <1>2 DEF Awaits, Outdated
<1>6. QED
  BY <1>1, <1>3, <1>4, <1>5 DEF SavedSoFar, Accounted

\* A save that is over stays what it is.
LEMMA ExactStep ==
    ASSUME TypeOK, CalmWhen, IndexIsTrue, SavedSoFar, NothingSkipped, SaveIsExact, habit' = habit, [Next]_vars
    PROVE  SaveIsExact'
<1> SUFFICES ASSUME QuietSave', NEW f \in Files
             PROVE  \/ SavedAsIs(f)'
                    \/ habit' = "smaller" /\ (fs'[f] \in Large \/ \E d \in Above[f] : d \in Large)
  BY DEF SaveIsExact, SavedAsIs, InSave
<1>1. pc' = "saved" /\ calm' = "yes" /\ ~failed'
  BY DEF QuietSave
<1>2. \/ SaveEnd
      \/ pc = "saved" /\ UNCHANGED <<fs, tree, failed, calm>>
  BY <1>1 DEF Next, IndexNext, SaveNext, vars, Tick, Change, IndexBegin, SaveBegin, ListDir, IxNew, IxError,
         IxDeleted, IxKnown, Visiting, IndexEnd, IndexKilled, SaveFile, SaveDir, Saves, AtEntry, Idle,
         SavePass, SaveTooLarge, SaveKnown, SaveChanged, SaveKilled, SaveReadError, Lose, files, saving
<1>3. ASSUME UNCHANGED <<fs, tree>>
      PROVE  SavedAsIs(f)' <=> SavedAsIs(f)
  BY <1>3 DEF SavedAsIs, InSave
<1>4. CASE SaveEnd
  <2>1. pc = "save" /\ pos > Len(Order) /\ UNCHANGED <<fs, tree, failed, calm>>
    BY <1>4 DEF SaveEnd, files
  <2>2. Unchanged
    BY <1>1, <2>1 DEF Unchanged
  <2>3. QED
    BY <1>3, <2>1, <2>2, EndIsExact
<1>5. CASE pc = "saved" /\ UNCHANGED <<fs, tree, failed, calm>>
  <2>1. QuietSave
    BY <1>1, <1>5 DEF QuietSave
  <2>2. QED
    BY <1>3, <1>5, <2>1 DEF SaveIsExact
<1>6. QED
  BY <1>2, <1>4, <1>5

\* What no step breaks, if two changes of a file never have the same time.
ExactInv ==
    /\ IndexInv /\ StampsArePast /\ ValidIsTrue
    /\ SmallerWhen /\ CalmWhen /\ DirsAreThere /\ LargeIsLarge /\ FreshAreNew
    /\ IndexedSoFar /\ IndexIsTrue
    /\ HashesAgree /\ SavedSoFar /\ NothingSkipped /\ SaveIsExact

\* At first there is no entry, no command and no complete index,
LEMMA ExactInit == Init => ExactInv
<1> SUFFICES ASSUME Init
             PROVE  ExactInv
  OBVIOUS
<1>1. \A p \in Paths : ~IsEntry(ix[p]) /\ ~IsEntry(fresh[p]) /\ pst[p] = None
  BY DEF Init, NoEntries, IsEntry
<1>2. IndexInv /\ StampsArePast /\ ValidIsTrue
  BY IndexInit
<1>3. pc = "idle" /\ calm = "no" /\ smaller = FALSE
  BY DEF Init
<1>4. SmallerWhen /\ CalmWhen /\ IndexedSoFar /\ IndexIsTrue /\ SavedSoFar /\ NothingSkipped /\ SaveIsExact
  BY <1>3 DEF SmallerWhen, CalmWhen, IndexedSoFar, IndexIsTrue, SavedSoFar, NothingSkipped, SaveIsExact,
              QuietSave
<1>5. DirsAreThere /\ LargeIsLarge /\ FreshAreNew /\ HashesAgree
  BY <1>1, <1>3, PathKinds DEF DirsAreThere, LargeIsLarge, FreshAreNew, HashesAgree, IsValid, IsThere
<1>6. QED
  BY <1>2, <1>4, <1>5 DEF ExactInv

\* and every step keeps all of it.
LEMMA ExactKept ==
    ASSUME ~Coarse, ExactInv, [Next]_vars
    PROVE  ExactInv'
<1>1. /\ TypeOK /\ EntriesAbove /\ NewAreInvalid /\ HashesInPlace /\ ValidHidesNothing /\ Gathered
      /\ StampsArePast /\ ValidIsTrue
      /\ SmallerWhen /\ CalmWhen /\ DirsAreThere /\ LargeIsLarge /\ FreshAreNew
      /\ IndexedSoFar /\ IndexIsTrue
      /\ HashesAgree /\ SavedSoFar /\ NothingSkipped /\ SaveIsExact
  BY DEF ExactInv, IndexInv
<1>2. IndexInv'
  BY IndexStep DEF ExactInv
<1>3. TypeOK'
  BY <1>2 DEF IndexInv
<1>4. StampsArePast' /\ ValidIsTrue'
  BY <1>1, <1>3, StampsStep, TrueStep
<1>5. habit' = habit /\ SmallerWhen' /\ CalmWhen'
  BY <1>1, HabitStep
<1>6. DirsAreThere' /\ LargeIsLarge' /\ FreshAreNew'
  BY <1>1, DirsStep, LargeStep, FreshStep
<1>7. IndexedSoFar' /\ IndexIsTrue'
  BY <1>1, <1>3, IndexedStep, CompleteStep
<1>8. HashesAgree'
  BY <1>1, <1>3, <1>5, AgreeStep
<1>9. SavedSoFar'
  BY <1>1, <1>3, <1>5, SavedStep
<1>10. NothingSkipped'
  BY <1>1, <1>3, <1>5, SkippedStep
<1>11. SaveIsExact'
  BY <1>1, <1>5, ExactStep
<1>12. QED
  BY <1>2, <1>4, <1>5, <1>6, <1>7, <1>8, <1>9, <1>10, <1>11 DEF ExactInv

\* A save after an index has the files as they are, if they did not change
\* since the index began: save.py leaves out what the index calls valid and
\* the repository has, and nothing else.
THEOREM SaveIsExactAlways ==
    ASSUME ~Coarse
    PROVE  Spec => []SaveIsExact
<1>1. Init => ExactInv
  BY ExactInit
<1>2. ExactInv /\ [Next]_vars => ExactInv'
  BY ExactKept
<1>3. ExactInv => SaveIsExact
  BY DEF ExactInv
<1>4. QED
  BY <1>1, <1>2, <1>3, PTL DEF Spec

===============================================================================
