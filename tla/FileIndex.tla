----------------------------- MODULE FileIndex ------------------------------
(***************************************************************************)
(* The filesystem index (bupindex): bup index compares it with the files   *)
(* and bup save decides with it what need not be read, while the files     *)
(* change and either command may be killed.                                *)
(*                                                                         *)
(* The index and the directory listings are visited in the same order,     *)
(* names descending: a directory follows everything below it.  A tree is   *)
(* named by a hash over all that is below it, so it is represented by the  *)
(* set of the paths below it with their contents.  A file's metadata is    *)
(* part of its contents.                                                   *)
(***************************************************************************)
EXTENDS Integers, Sequences, FiniteSets

CONSTANTS
    Files, Dirs,
    Top,        \* the directory that is indexed and saved
    Above,      \* the directories a path is below, up to Top
    Order,      \* the paths, names descending
    Contents,
    MayBe,      \* the contents a file may get
    FirstFiles, \* what there may be at first
    Large,      \* contents, and directories, not below --smaller
    Links,      \* contents that are a symlink's
    None,       \* no file, no entry, EMPTY_SHA
    Root,       \* what Top is in, in a save
    Coarse,     \* may two changes have the same time?
    MaxTime, MaxEvents, MaxFaults       \* bounds

Paths == Files \cup Dirs
IsBelow(p, d) == d \in Above[p]

ASSUME FileIndexParameters ==
    /\ IsFiniteSet(Paths)
    /\ Files \cap Dirs = {} /\ Top \in Dirs /\ Root \notin Paths
    /\ Links \subseteq Contents
    /\ MayBe \in [Files -> SUBSET Contents]
    /\ FirstFiles \subseteq [Files -> Contents \cup {None}]
    /\ None \notin Contents \cup Paths \cup {Root}
    /\ Above \in [Paths -> SUBSET Dirs]
    /\ Above[Top] = {} /\ \A p \in Paths \ {Top} : Top \in Above[p]
    /\ \A p \in Paths : p \notin Above[p]
    /\ \A p \in Paths : \A d \in Above[p] : Above[d] \subseteq Above[p]
    /\ \A p \in Paths : \A d, e \in Above[p] : d = e \/ IsBelow(d, e) \/ IsBelow(e, d)
    /\ \A p \in Paths \ {Top} : \E d \in Above[p] : Above[p] = Above[d] \cup {d}
    /\ Coarse \in BOOLEAN
    /\ {MaxTime, MaxEvents, MaxFaults} \subseteq Nat

ASSUME OrderDescends ==
    /\ Order \in [1..Cardinality(Paths) -> Paths]
    /\ \A p \in Paths : \E i \in DOMAIN Order : Order[i] = p
    /\ \A i, j \in DOMAIN Order : Order[i] = Order[j] => i = j
    /\ \A i, j \in DOMAIN Order :
         IsBelow(Order[i], Order[j]) =>
             i < j /\ \A k \in i..(j - 1) : IsBelow(Order[k], Order[j])

VARIABLES
    \* the file system
    fs,         \* contents of the files
    stamp,      \* mtime and ctime, in the file system's granularity
    now,
    \* the index on disk
    ix,
    \* the repository
    stored,
    \* the command that runs
    pc,         \* "idle", "index", "save", "saved"
    pos,        \* in Order
    \* bup index
    tmax,
    listed,     \* directories whose entries were listed
    pst,        \* what lstat said
    fresh,      \* the new index: entries for new paths
    invalid,    \* --fake-invalid
    \* bup save
    smaller,    \* --smaller
    opened,     \* the directories on the stack
    tree,       \* their items
    lastskip,   \* lastskip_name
    written,
    failed,     \* was there a read error?
    \* what the user does
    habit,      \* the option he uses now and then
    calm,       \* did the files keep still since the last complete index?
    changes, faults

files == <<fs, stamp, now>>
indexing == <<tmax, listed, pst, fresh, invalid>>
saving == <<smaller, opened, tree, lastskip, written, failed>>
user == <<habit, changes, faults>>
vars == <<files, ix, stored, pc, pos, indexing, saving, user, calm>>

Stat(p) ==
    IF p \in Dirs
    THEN [stamp |-> stamp[p], large |-> p \in Large, kind |-> "dir"]
    ELSE [stamp |-> stamp[p], large |-> fs[p] \in Large,
          kind |-> IF fs[p] \in Links THEN "link" ELSE "file"]

Stats == [stamp : -1..MaxTime, large : BOOLEAN, kind : {"dir", "link", "file", "none"}]

\* A directory's items, and those of the directories in it.
Items == {<<p, c>> : p \in Files, c \in Contents} \cup {<<d, "dir">> : d \in Dirs}
Objects == Contents \cup SUBSET Items

Entries == [stat : Stats, sha : {None} \cup Objects, exists : BOOLEAN, valid : BOOLEAN]

ASSUME NoneIsNone == None \notin Entries \cup Stats

ASSUME NoTreeIsContents == \A t \in SUBSET Items : t \notin Contents \cup {None}

IsEntry(e) == e # None
IsThere(e) == IsEntry(e) /\ e.exists
IsValid(e) == IsThere(e) /\ e.valid

IsObject(o) == o \in Contents \/ o \subseteq Items

TypeOK ==
    /\ fs \in [Files -> Contents \cup {None}]
    /\ stamp \in [Paths -> 0..MaxTime] /\ now \in 0..MaxTime
    /\ ix \in [Paths -> {None} \cup Entries]
    /\ fresh \in [Paths -> {None} \cup Entries]
    /\ \A p \in Paths : IsValid(ix[p]) => ix[p].sha # None
    /\ \A o \in stored \cup written : IsObject(o)
    /\ pc \in {"idle", "index", "save", "saved"}
    /\ pos \in 1..(Len(Order) + 1)
    /\ tmax \in -1..MaxTime
    /\ listed \subseteq Dirs /\ opened \subseteq Dirs
    /\ pst \in [Paths -> Stats \cup {None}]
    /\ {invalid, smaller, failed} \subseteq BOOLEAN
    /\ habit \in {"none", "smaller", "fake-invalid"}
    /\ tree \in [Dirs \cup {Root} -> SUBSET Items]
    /\ lastskip \in Paths \cup {None}
    /\ calm \in {"no", "indexing", "yes"}
    /\ changes \in 0..MaxEvents /\ faults \in 0..MaxFaults

NoEntries == [p \in Paths |-> None]
NoItems == [d \in Dirs \cup {Root} |-> {}]

Init ==
    /\ fs \in FirstFiles
    /\ stamp = [p \in Paths |-> 0] /\ now = 0
    /\ ix = NoEntries /\ stored = {}
    /\ pc = "idle" /\ pos = 1
    /\ tmax = 0 /\ listed = {} /\ pst = NoEntries /\ fresh = NoEntries
    /\ invalid = FALSE
    /\ smaller = FALSE /\ opened = {} /\ tree = NoItems
    /\ lastskip = None /\ written = {} /\ failed = FALSE
    /\ habit \in {"none", "smaller", "fake-invalid"}
    /\ calm = "no" /\ changes = 0 /\ faults = 0

-----------------------------------------------------------------------------
(***************************************************************************)
(* The file system                                                         *)
(***************************************************************************)

NothingYet == \A p \in Paths : stamp[p] < now

\* Instants in which no file changed are not told apart.
Tick ==
    /\ now < MaxTime
    /\ ~NothingYet
    /\ now' = now + 1
    /\ UNCHANGED <<fs, stamp, ix, stored, pc, pos, indexing, saving, user, calm>>

Parent(p) == IF p = Top THEN Root
             ELSE CHOOSE d \in Above[p] : Above[p] = Above[d] \cup {d}

\* A file is written, created, replaced or removed; the last three change
\* its directory.
Change(f, c) ==
    /\ changes + faults < MaxEvents
    /\ changes' = changes + 1
    /\ Coarse \/ NothingYet
    /\ c # fs[f]
    /\ c \in MayBe[f] \cup {None}
    /\ fs' = [fs EXCEPT ![f] = c]
    /\ stamp' = [p \in Paths |->
                    IF p = f \/ (p = Parent(f) /\ None \in {c, fs[f]})
                    THEN now ELSE stamp[p]]
    /\ calm' = "no"
    /\ UNCHANGED <<now, ix, stored, pc, pos, indexing, saving, habit, faults>>

-----------------------------------------------------------------------------
(***************************************************************************)
(* bup index                                                               *)
(***************************************************************************)

Idle == pc \in {"idle", "saved"}

\* The variables of a command that is over.
IndexOver ==
    /\ tmax' = 0 /\ listed' = {} /\ pst' = NoEntries /\ fresh' = NoEntries
    /\ invalid' = FALSE

SaveOver ==
    /\ smaller' = FALSE /\ opened' = {} /\ tree' = NoItems
    /\ lastskip' = None /\ written' = {} /\ failed' = FALSE

\* main sleeps until a second begins.
IndexBegin(inv) ==
    /\ Idle
    /\ NothingYet
    /\ inv => habit = "fake-invalid"
    /\ pc' = "index" /\ pos' = 1
    /\ tmax' = now - 1
    /\ listed' = {} /\ fresh' = NoEntries
    /\ pst' = [NoEntries EXCEPT ![Top] = Stat(Top)]
    /\ invalid' = inv
    /\ calm' = "indexing"
    /\ SaveOver
    /\ UNCHANGED <<files, ix, stored, user>>

Present(p) == p \in Dirs \/ fs[p] # None

\* _dirlist of a directory, with the stat of all that is in it, just before
\* the first of it is visited.
ListDir(d) ==
    /\ pc = "index" /\ pos <= Len(Order)
    /\ IsBelow(Order[pos], d) /\ d \notin listed /\ Above[d] \subseteq listed
    /\ listed' = listed \cup {d}
    /\ pst' = [p \in Paths |->
                  IF p # Top /\ Parent(p) = d
                  THEN IF Present(p) THEN Stat(p) ELSE None
                  ELSE pst[p]]
    /\ UNCHANGED <<files, ix, stored, pc, pos, tmax, fresh, invalid, saving, user,
                   calm>>

Visiting(p) ==
    /\ pc = "index" /\ pos <= Len(Order)
    /\ p = Order[pos]
    /\ Above[p] \subseteq listed
    /\ pos' = pos + 1
    /\ UNCHANGED <<files, stored, pc, tmax, listed, pst, invalid, saving, user, calm>>

\* ExistingEntry.repack: what is above an invalid entry becomes invalid.
Repack(p, e) ==
    [q \in Paths |->
        IF q = p THEN e
        ELSE IF IsBelow(p, q) /\ ~IsValid(e) THEN [ix[q] EXCEPT !.valid = FALSE]
        ELSE ix[q]]

\* In a new entry times after tmax become tmax: it will be stale.
Fixup(st) == IF st.stamp > tmax THEN [st EXCEPT !.stamp = tmax] ELSE st

\* An entry read from the index has no tmax.
UpdateFromStat(e, st) == [e EXCEPT !.stat = st, !.exists = TRUE]

Stale(e, st) == e.stat # st \/ e.sha = None \/ ~e.exists

\* A path that is gone.
IxDeleted(p) ==
    /\ Visiting(p)
    /\ pst[p] = None
    /\ ix' = IF IsThere(ix[p])
             THEN Repack(p, [ix[p] EXCEPT !.exists = FALSE, !.valid = FALSE])
             ELSE ix
    /\ UNCHANGED fresh

\* MISTAKE: a changed file's entry is updated and stays valid.
IxKnownStillValid(p) ==
    /\ Visiting(p)
    /\ pst[p] # None /\ IsEntry(ix[p])
    /\ ix' = IF Stale(ix[p], pst[p]) THEN Repack(p, UpdateFromStat(ix[p], pst[p]))
             ELSE ix
    /\ UNCHANGED fresh

IxKnown(p) ==
    /\ Visiting(p)
    /\ pst[p] # None /\ IsEntry(ix[p])
    /\ ix' = IF Stale(ix[p], pst[p])
             THEN Repack(p, [UpdateFromStat(ix[p], pst[p]) EXCEPT !.valid = FALSE])
             ELSE IF invalid THEN Repack(p, [ix[p] EXCEPT !.valid = FALSE])
             ELSE ix
    /\ UNCHANGED fresh

NewEntry(st) == [stat |-> Fixup(st), sha |-> None, exists |-> TRUE, valid |-> FALSE]

IxNew(p) ==
    /\ Visiting(p)
    /\ pst[p] # None /\ ~IsEntry(ix[p])
    /\ fresh' = [fresh EXCEPT ![p] = NewEntry(pst[p])]
    /\ UNCHANGED ix

\* metadata.from_path: the file is gone already.
IxError(p) ==
    /\ Visiting(p)
    /\ pst[p] # None /\ ~Present(p)
    /\ IsEntry(ix[p]) => Stale(ix[p], pst[p])
    /\ UNCHANGED <<ix, fresh>>

BlankNewEntry == [stat |-> [stamp |-> -1, large |-> FALSE, kind |-> "none"],
                  sha |-> None, exists |-> TRUE, valid |-> FALSE]

\* MISTAKE: the entries of the old index win.
MergedKeepOld == [p \in Paths |-> IF IsEntry(fresh[p]) THEN fresh[p] ELSE ix[p]]

\* The new index has blank entries for the directories above its own; of two
\* entries for a path, merge takes the invalid one first, then the real one.
Merged ==
    [p \in Paths |->
        IF IsEntry(fresh[p]) THEN fresh[p]
        ELSE IF /\ IsEntry(ix[p]) => IsValid(ix[p])
                /\ \E q \in Paths : IsBelow(q, p) /\ IsEntry(fresh[q])
        THEN BlankNewEntry
        ELSE ix[p]]

IndexEnd ==
    /\ pc = "index" /\ pos > Len(Order)
    /\ ix' = Merged
    /\ pc' = "idle" /\ pos' = 1
    /\ IndexOver
    /\ calm' = IF calm = "indexing" THEN "yes" ELSE "no"
    /\ UNCHANGED <<files, stored, saving, user>>

Fault ==
    /\ faults < MaxFaults
    /\ changes + faults < MaxEvents
    /\ faults' = faults + 1

\* The old index was changed in place; the new one is lost.
IndexKilled ==
    /\ pc = "index"
    /\ Fault
    /\ pc' = "idle" /\ pos' = 1
    /\ IndexOver
    /\ calm' = "no"
    /\ UNCHANGED <<files, ix, stored, saving, habit, changes>>

-----------------------------------------------------------------------------
(***************************************************************************)
(* bup save                                                                *)
(***************************************************************************)

SaveBegin(sm) ==
    /\ Idle
    /\ IsEntry(ix[Top])
    /\ sm => habit = "smaller"
    /\ pc' = "save" /\ pos' = 1
    /\ smaller' = sm
    /\ opened' = {} /\ tree' = NoItems
    /\ lastskip' = None /\ written' = {} /\ failed' = FALSE
    /\ UNCHANGED <<files, ix, stored, indexing, user, calm>>

Exists(o) == o \in stored \cup written

\* MISTAKE: what is valid is in every repository.
AlreadySavedAnywhere(e) == IsValid(e)

AlreadySaved(e) == IsValid(e) /\ Exists(e.sha)

\* wantrecurse_during
Hidden(p) == \E d \in Above[p] : AlreadySaved(ix[d])

AtEntry(p) ==
    /\ pc = "save" /\ pos <= Len(Order)
    /\ p = Order[pos]
    /\ pos' = pos + 1
    /\ UNCHANGED <<files, stored, pc, indexing, smaller, habit, changes, calm>>

Absent(p) == Hidden(p) \/ ~IsThere(ix[p])

SavePass(p) ==
    /\ AtEntry(p)
    /\ Absent(p)
    /\ UNCHANGED <<ix, opened, tree, lastskip, written, failed, faults>>

TooLarge(p) == smaller /\ ix[p].stat.large

\* stack.pop of a directory: it is an item of the one it is in.
PopInto(d, t) == [tree EXCEPT ![Parent(d)] = @ \cup t \cup {<<d, "dir">>}]

\* A directory that is too large is left when the next path is elsewhere.
SaveTooLarge(p) ==
    /\ AtEntry(p)
    /\ ~Absent(p) /\ TooLarge(p)
    /\ lastskip' = IF AlreadySaved(ix[p]) THEN lastskip ELSE p
    /\ IF p \in opened
       THEN /\ tree' = PopInto(p, tree[p])
            /\ written' = written \cup {tree[p]}
       ELSE UNCHANGED <<tree, written>>
    /\ UNCHANGED <<ix, opened, failed, faults>>

Saves(p) == AtEntry(p) /\ ~Absent(p) /\ ~TooLarge(p)

SaveKnown(f) ==
    /\ Saves(f)
    /\ f \in Files
    /\ AlreadySaved(ix[f])
    /\ opened' = opened \cup Above[f]
    /\ tree' = [tree EXCEPT ![Parent(f)] = @ \cup {<<f, ix[f].sha>>}]
    /\ UNCHANGED <<ix, lastskip, written, failed, faults>>

\* Gone, or of another kind than it was: "mode changed since indexing".
SaveChanged(f) ==
    /\ Saves(f)
    /\ f \in Files
    /\ ~AlreadySaved(ix[f])
    /\ fs[f] = None \/ Stat(f).kind # ix[f].stat.kind
    /\ opened' = opened \cup Above[f]
    /\ lastskip' = f
    /\ UNCHANGED <<ix, tree, written, failed, faults>>

Readable(f) == f \in Files /\ fs[f] # None /\ Stat(f).kind = ix[f].stat.kind

SaveReadError(f) ==
    /\ Saves(f)
    /\ ~AlreadySaved(ix[f])
    /\ Readable(f)
    /\ Fault
    /\ failed' = TRUE
    /\ opened' = opened \cup Above[f]
    /\ lastskip' = f
    /\ UNCHANGED <<ix, tree, written>>

SaveFile(f) ==
    /\ Saves(f)
    /\ ~AlreadySaved(ix[f])
    /\ Readable(f)
    /\ written' = written \cup {fs[f]}
    /\ ix' = [ix EXCEPT ![f].sha = fs[f], ![f].valid = TRUE]
    /\ opened' = opened \cup Above[f]
    /\ tree' = [tree EXCEPT ![Parent(f)] = @ \cup {<<f, fs[f]>>}]
    /\ UNCHANGED <<lastskip, failed, faults>>

\* MISTAKE: a directory is valid whatever was skipped in it.
SkippedNever(d) == FALSE

Skipped(d) == lastskip # None /\ (lastskip = d \/ IsBelow(lastskip, d))

\* A directory: what is known of it, or what was collected.
SaveDir(d) ==
    /\ Saves(d)
    /\ d \in Dirs
    /\ opened' = opened \cup Above[d]
    /\ IF AlreadySaved(ix[d])
       THEN /\ tree' = PopInto(d, ix[d].sha)
            /\ UNCHANGED <<ix, written>>
       ELSE /\ tree' = PopInto(d, tree[d])
            /\ written' = written \cup {tree[d]}
            /\ ix' = IF Skipped(d) THEN Repack(d, [ix[d] EXCEPT !.valid = FALSE])
                     ELSE Repack(d, [ix[d] EXCEPT !.sha = tree[d], !.valid = TRUE])
    /\ UNCHANGED <<lastskip, failed, faults>>

SaveEnd ==
    /\ pc = "save" /\ pos > Len(Order)
    /\ pc' = "saved" /\ pos' = 1
    /\ stored' = stored \cup written
    /\ written' = {} /\ opened' = {} /\ lastskip' = None
    /\ UNCHANGED <<files, ix, indexing, smaller, tree, failed, user, calm>>

\* The objects a tree names.
Named(t) ==
    {i[2] : i \in {j \in t : j[1] \in Files}} \cup
    {{j \in t : IsBelow(j[1], i[1])} : i \in {j \in t : j[1] \in Dirs}}

Closed(S) == \A t \in S \ Contents : Named(t) \subseteq S

\* Some of the packs are finished; the index has what was put into it.
SaveKilled ==
    /\ pc = "save"
    /\ Fault
    /\ pc' = "idle" /\ pos' = 1
    /\ \E S \in SUBSET written :
          /\ Closed(stored \cup S)
          /\ stored' = stored \cup S
    /\ SaveOver
    /\ UNCHANGED <<files, ix, indexing, habit, changes, calm>>

\* A collection, or a save to a repository that has less.
Lose ==
    /\ Idle
    /\ Fault
    /\ \E S \in SUBSET stored : Closed(S) /\ stored' = S
    /\ pc' = "idle"
    /\ SaveOver
    /\ UNCHANGED <<files, ix, pos, indexing, habit, changes, calm>>

IndexNext ==
    \/ \E d \in Dirs : ListDir(d)
    \/ \E p \in Paths : IxDeleted(p) \/ IxKnown(p) \/ IxNew(p) \/ IxError(p)
    \/ IndexEnd

SaveNext ==
    \/ \E p \in Paths : SavePass(p) \/ SaveTooLarge(p)
    \/ \E f \in Files : SaveKnown(f) \/ SaveChanged(f) \/ SaveFile(f)
    \/ \E d \in Dirs : SaveDir(d)
    \/ SaveEnd

Next ==
    \/ Tick
    \/ \E f \in Files, c \in Contents \cup {None} : Change(f, c)
    \/ \E b \in BOOLEAN : IndexBegin(b) \/ SaveBegin(b)
    \/ IndexNext \/ SaveNext
    \/ IndexKilled \/ SaveKilled
    \/ \E f \in Files : SaveReadError(f)
    \/ Lose

Spec == Init /\ [][Next]_vars

-----------------------------------------------------------------------------
\* The heart of the index: a valid entry that has the file's present times has
\* its present contents, whenever the file changed relative to bup index and
\* bup save.
ValidIsTrue ==
    \A f \in Files :
        IsValid(ix[f]) /\ Present(f) /\ ix[f].stat = Stat(f) => ix[f].sha = fs[f]

\* already_saved stops at a valid directory, so nothing in it may be dirty.
ValidHidesNothing ==
    \A p \in Paths, d \in Dirs :
        IsBelow(p, d) /\ IsValid(ix[d]) /\ IsThere(ix[p]) => IsValid(ix[p])

InSave(f) == {i \in tree[Root] : i[1] = f}

SavedAsIs(f) == InSave(f) = IF fs[f] = None THEN {} ELSE {<<f, fs[f]>>}

QuietSave == pc = "saved" /\ calm = "yes" /\ ~failed

\* A save after an index has the files as they are, if they did not change
\* since the index began, whatever happened before: changes at any moment,
\* commands killed halfway, objects lost.  It is so for files too large for
\* --smaller, and in directories too large for it, if the option is never used;
\* a save with it makes their directory valid without them, which hides them
\* from later saves, too.
SaveIsExact ==
    QuietSave => \A f \in Files :
        \/ SavedAsIs(f)
        \/ habit = "smaller" /\ (fs[f] \in Large \/ \E d \in Above[f] : d \in Large)

\* What a save names is in the repository, with all that is below it, also
\* when a command was killed after it had put hashes into the index, or the
\* objects of an earlier save are lost.
SaveIsStored ==
    pc = "saved" => Named(tree[Root]) \subseteq stored /\ Closed(stored)
=============================================================================
