----------------------------- MODULE IndexCache -----------------------------
(***************************************************************************)
(* A directory of .idx files with the caches bup keeps beside them, the    *)
(* .midx files and bup.bloom, and a process that looks objects up in it    *)
(* (PackIdxList).  The directory is objects/pack of a repository, where    *)
(* several writers add indexes, or a client's copy of its server's         *)
(* indexes, where one process adds and removes them.  Whoever changed      *)
(* the directory runs bup midx --auto and bup bloom (auto_midx).           *)
(***************************************************************************)
EXTENDS Integers, Sequences, FiniteSets, FiniteSetsExt, SequencesExt

CONSTANTS
    Idx,            \* the names of .idx files
    Contents,       \* [Idx -> objects]
    Writers,        \* processes that change the directory
    Kinds,          \* which directories: "repo", "client"
    Hwm, Lwm,       \* desired_hwm, desired_lwm
    Few, Enough,    \* midx --auto leaves few files with few objects alone
    MaxFiles,       \* how many files are merged at once
    None,
    MaxFaults,      \* bound: how many times a process is killed or fails
    MaxRemovals     \* bound: how often indexes are removed

ASSUME IndexCacheParameters ==
    /\ IsFiniteSet(Idx) /\ Writers # {}
    /\ \A i \in Idx : IsFiniteSet(Contents[i]) /\ Contents[i] # {}
    /\ Kinds \subseteq {"repo", "client"}
    /\ {Hwm, Lwm, Few, Enough, MaxFiles, MaxFaults, MaxRemovals} \subseteq Nat
    /\ 0 < Lwm /\ Lwm <= Hwm /\ 1 < MaxFiles

VARIABLES
    kind,
    idxs, midxs,    \* the files
    bloom,          \* bup.bloom
    tmpBloom,       \* bup.tmp.bloom
    gc,             \* has a collection cleared the caches?
    pc,             \* where each writer is
    all,            \* the index files bup midx still counts
    job,            \* what bup bloom is about to write
    rpc,            \* where the reader is
    listed,         \* the .midx files it has listed
    rmidxs, ridxs,  \* the files it has open
    rbloom, doBloom,
    seen,           \* the indexes there were when it began to refresh
    raced,          \* did one appear until it had opened the filter?
    failed,         \* did a client's last auto_midx fail?
    faults, removals

dir == <<idxs, midxs, bloom, tmpBloom, gc>>
writing == <<pc, all, job>>
files == <<listed, rmidxs, ridxs, rbloom, doBloom>>
ghosts == <<seen, raced, failed, faults, removals>>
vars == <<kind, dir, writing, rpc, files, ghosts>>

-----------------------------------------------------------------------------
(***************************************************************************)
(* The files.  A .midx has the objects of several indexes, each with the   *)
(* position of its index in the list of their names.                       *)
(***************************************************************************)

IsIdx(f) == f \in Idx
Names(f) == IF IsIdx(f) THEN <<f>> ELSE f.names
Covers(f) == Range(Names(f))
Covered(S) == UNION {Covers(f) : f \in S}
Objs(S) == UNION {Contents[i] : i \in S}

\* The rows of a file's table.
Which(f) ==
    IF IsIdx(f) THEN {<<o, 1>> : o \in Contents[f]} ELSE f.entries

NumObjects(f) == Cardinality(Which(f))
Rows(S) == UNION {{f} \X Which(f) : f \in S}
Total(S) == Cardinality(Rows(S))

\* MISTAKE: a .midx is opened whatever became of its indexes.
NeverBroken(f) == FALSE

\* PackMidx refuses a file whose indexes are not all there.
MissingIdxs(f) == Covers(f) \ idxs
Broken(f) == ~IsIdx(f) /\ MissingIdxs(f) # {}

\* The names that are listed before those of the k-th input: len(allfilenames).
ListedBefore(s, k) == UNION {{j} \X DOMAIN Names(s[j]) : j \in 1..(k - 1)}
Base(s, k) == Cardinality(ListedBefore(s, k))

\* The lists of the inputs, one after the other.
AllNames(s) ==
    LET input(p) == CHOOSE k \in DOMAIN s : p - Base(s, k) \in DOMAIN Names(s[k])
    IN [p \in 1..Base(s, Len(s) + 1) |-> Names(s[input(p)])[p - Base(s, input(p))]]

\* MISTAKE: the positions of an input are not moved behind those before it.
MergeUnmoved(s) ==
    [names |-> AllNames(s), entries |-> UNION {Which(s[k]) : k \in DOMAIN s}]

\* merge_into.
Merge(s) ==
    [names |-> AllNames(s),
     entries |-> UNION {{<<e[1], e[2] + Base(s, k)>> : e \in Which(s[k])} : k \in DOMAIN s}]

\* check_midx, of the indexes that are still there.
CheckMidx(m) == \A i \in Covers(m) \cap idxs : Contents[i] \subseteq {e[1] : e \in m.entries}

\* The orders in which files are taken by their sizes; where sizes are the
\* same, any: by age or by name.
Bigger(s, i, j) == NumObjects(s[i]) > NumObjects(s[j])
BiggestFirst(S) == {s \in SetToAllKPermutations(S) :
                       /\ Len(s) = Cardinality(S)
                       /\ \A i, j \in DOMAIN s : Bigger(s, j, i) => j < i}

\* The .midx files that cover an index no bigger one covers, given what is
\* covered already.
Needed(s, have) ==
    {s[k] : k \in {j \in DOMAIN s :
        ~(Covers(s[j]) \subseteq have \cup Covered(
             {s[i] : i \in 1..(j - 1)}))}}

NewBloom(S) == [names |-> S, objs |-> Objs(S), entries |-> Total(S)]

ASSUME NoneIsNoFilter == \A S \in SUBSET Idx : NewBloom(S) # None

TypeOK ==
    /\ kind \in Kinds
    /\ idxs \subseteq Idx /\ ridxs \subseteq Idx /\ seen \subseteq Idx
    /\ \A m \in midxs \cup rmidxs \cup listed : m.names \in Seq(Idx) /\ Len(m.names) > 1
    /\ \A b \in {bloom, tmpBloom, rbloom} \ {None} :
         b.names \subseteq Idx /\ b = NewBloom(b.names)
    /\ {gc, doBloom, raced, failed} \subseteq BOOLEAN
    /\ pc \in [Writers -> {"idle", "midx", "merge", "bloom", "write", "rename"}]
    /\ rpc \in {"closed", "temps", "midx", "idx", "bloom", "ready"}
    /\ \A w \in Writers : Cardinality(all[w]) > Hwm <=> pc[w] = "merge"
    /\ faults \in 0..MaxFaults /\ removals \in 0..MaxRemovals

Init ==
    /\ kind \in Kinds
    /\ idxs = {} /\ midxs = {} /\ bloom = None /\ tmpBloom = None /\ gc = FALSE
    /\ pc = [w \in Writers |-> "idle"]
    /\ all = [w \in Writers |-> {}] /\ job = [w \in Writers |-> None]
    /\ rpc = "closed" /\ listed = {} /\ rmidxs = {} /\ ridxs = {}
    /\ rbloom = None /\ doBloom = FALSE
    /\ seen = {} /\ raced = FALSE /\ failed = FALSE /\ faults = 0 /\ removals = 0

\* A client is one process; a repository may have several writers.
Active == IF kind = "client" THEN {CHOOSE w \in Writers : TRUE} ELSE Writers

AllIdle == \A w \in Writers : pc[w] = "idle"

\* A client is one process: it does not look up while it changes the files.
ReaderAway == rpc \in {"closed", "temps"}

-----------------------------------------------------------------------------
(***************************************************************************)
(* Indexes come and go                                                     *)
(***************************************************************************)

\* finish_pack, or sync_index.
AddIdx(w, i) ==
    /\ i \notin idxs
    /\ ~gc
    /\ pc[w] \in IF kind = "repo" THEN {"idle"} ELSE {"idle", "midx"}
    /\ kind = "client" => ReaderAway
    /\ idxs' = idxs \cup {i}
    /\ pc' = [pc EXCEPT ![w] = "midx"]
    /\ raced' = (raced \/ rpc \in {"midx", "idx", "bloom"})
    /\ UNCHANGED <<kind, midxs, bloom, tmpBloom, gc, all, job, rpc, files, seen, failed, faults, removals>>

\* sync_indexes: the server no longer has it.
SyncRemove(w, i) ==
    /\ kind = "client"
    /\ i \in idxs
    /\ rpc = "closed" /\ pc[w] \in {"idle", "midx"}
    /\ removals < MaxRemovals
    /\ idxs' = idxs \ {i}
    /\ pc' = [pc EXCEPT ![w] = "midx"]
    /\ removals' = removals + 1
    /\ UNCHANGED <<kind, midxs, bloom, tmpBloom, gc, all, job, rpc, files, seen, raced, failed, faults>>

\* A session that changes nothing calls auto_midx, too.
SyncNothing(w) ==
    /\ kind = "client"
    /\ rpc = "closed" /\ AllIdle
    /\ failed
    /\ pc' = [pc EXCEPT ![w] = "midx"]
    /\ UNCHANGED <<kind, dir, all, job, rpc, files, ghosts>>

\* gc clears the caches before it replaces packs; it does not refill them.
GcClear ==
    /\ kind = "repo" /\ ~gc
    /\ AllIdle /\ rpc = "closed"
    /\ gc' = TRUE
    /\ removals < MaxRemovals /\ removals' = removals + 1
    /\ midxs' = {} /\ bloom' = None
    /\ UNCHANGED <<kind, idxs, tmpBloom, writing, rpc, files, seen, raced, failed, faults>>

GcSweep ==
    /\ gc
    /\ gc' = FALSE
    /\ idxs' \in SUBSET Idx
    /\ UNCHANGED <<kind, midxs, bloom, tmpBloom, writing, rpc, files, ghosts>>

-----------------------------------------------------------------------------
(***************************************************************************)
(* bup midx --auto                                                         *)
(***************************************************************************)

\* do_midx_dir: broken and redundant .midx files are removed; what is left,
\* and the indexes not in it, are candidates.
MidxScan(w) ==
    /\ pc[w] = "midx"
    /\ \E s \in BiggestFirst({m \in midxs : ~Broken(m)}) :
         LET kept == Needed(s, {})
             found == kept \cup (idxs \ Covered(kept))
             many == Cardinality(found) > Hwm
         IN /\ midxs' = kept
            /\ all' = [all EXCEPT ![w] = IF many THEN found ELSE {}]
            /\ pc' = [pc EXCEPT ![w] = IF many THEN "merge" ELSE "bloom"]
    /\ UNCHANGED <<kind, idxs, bloom, tmpBloom, gc, job, rpc, files, ghosts>>

OnDisk(f) == f \in idxs \cup midxs

Groups(s) ==
    {SubSeq(s, k, k + MaxFiles - 1) :
        k \in {j \in DOMAIN s : j % MaxFiles = 1 /\ j + MaxFiles - 1 <= Len(s)}}
    \cup IF Len(s) % MaxFiles = 0 THEN {}
         ELSE {SubSeq(s, Len(s) - (Len(s) % MaxFiles) + 1, Len(s))}

\* MISTAKE: a group that is too small stays as it is.
DoMidxGroupAgain(s) ==
    UNION {IF Total(Range(g)) < Enough /\ Len(g) < Few THEN Range(g) ELSE {Merge(g)} :
              g \in Groups(s)}

\* A group that is too small is not merged, and no longer counted.
DoMidxGroup(s) ==
    {Merge(g) : g \in {h \in Groups(s) :
        /\ Len(h) >= 2
        /\ Total(Range(h)) < Enough => Len(h) >= Few}}

\* The biggest are left alone, the others merged in groups.
Merged(s) == DoMidxGroup(Reverse(SubSeq(s, Lwm, Len(s))))
Left(s) == Merged(s) \cup {s[k] : k \in 1..(Lwm - 1)}

\* One turn of the loop.
MidxMerge(w) ==
    /\ pc[w] = "merge"
    /\ \A f \in all[w] : OnDisk(f)
    /\ \E s \in BiggestFirst(all[w]) :
         LET many == Cardinality(Left(s)) > Hwm
         IN /\ midxs' = midxs \cup (Merged(s) \ Idx)
            /\ all' = [all EXCEPT ![w] = IF many THEN Left(s) ELSE {}]
            /\ pc' = [pc EXCEPT ![w] = IF many THEN "merge" ELSE "bloom"]
    /\ UNCHANGED <<kind, idxs, bloom, tmpBloom, gc, job, rpc, files, ghosts>>

\* Another process has removed one of the files: bup midx fails, and
\* auto_midx goes on.
MidxDies(w) ==
    /\ pc[w] = "merge"
    /\ \E f \in all[w] : ~OnDisk(f)
    /\ all' = [all EXCEPT ![w] = {}]
    /\ pc' = [pc EXCEPT ![w] = "bloom"]
    /\ UNCHANGED <<kind, dir, job, rpc, files, ghosts>>

-----------------------------------------------------------------------------
(***************************************************************************)
(* bup bloom                                                               *)
(***************************************************************************)

\* do_bloom decides.  It regenerates the filter if it does not match the
\* indexes it names, or would have too many false positives.  Otherwise it
\* wants to add to it, but opens the file in mode w+b, which makes a new one.
BloomScan(w) ==
    /\ pc[w] = "bloom"
    /\ LET add == IF bloom = None THEN idxs ELSE idxs \ bloom.names
           rest == idxs \ add
       IN IF add = {}
          THEN /\ pc' = [pc EXCEPT ![w] = "idle"]
               /\ failed' = FALSE
               /\ UNCHANGED job
          ELSE \E adds \in BOOLEAN :
                 /\ adds => bloom # None /\ bloom.entries = Total(rest)
                 /\ job' = [job EXCEPT ![w] =
                              [names |-> IF adds THEN add ELSE idxs, adds |-> adds]]
                 /\ pc' = [pc EXCEPT ![w] = "write"]
                 /\ UNCHANGED failed
    /\ UNCHANGED <<kind, dir, all, rpc, files, seen, raced, faults, removals>>

\* Closing a BloomWriter renames its file.
BloomWrite(w) ==
    /\ pc[w] = "write"
    /\ IF job[w].adds
       THEN /\ bloom' = NewBloom(job[w].names)
            /\ pc' = [pc EXCEPT ![w] = "idle"]
            /\ failed' = FALSE
            /\ UNCHANGED tmpBloom
       ELSE /\ tmpBloom' = NewBloom(job[w].names)
            /\ pc' = [pc EXCEPT ![w] = "rename"]
            /\ UNCHANGED <<bloom, failed>>
    /\ job' = [job EXCEPT ![w] = None]
    /\ UNCHANGED <<kind, idxs, midxs, gc, all, rpc, files, seen, raced, faults, removals>>

\* Two processes use the same temporary name: one may find it gone.
BloomRename(w) ==
    /\ pc[w] = "rename"
    /\ IF tmpBloom = None THEN UNCHANGED <<bloom, tmpBloom>>
       ELSE bloom' = tmpBloom /\ tmpBloom' = None
    /\ pc' = [pc EXCEPT ![w] = "idle"]
    /\ failed' = FALSE
    /\ UNCHANGED <<kind, idxs, midxs, gc, all, job, rpc, files, seen, raced, faults, removals>>

Stops(w) ==
    /\ faults < MaxFaults
    /\ faults' = faults + 1 /\ UNCHANGED removals
    /\ pc' = [pc EXCEPT ![w] = "idle"]
    /\ all' = [all EXCEPT ![w] = {}] /\ job' = [job EXCEPT ![w] = None]
    /\ failed' = (kind = "client")
    /\ UNCHANGED <<kind, idxs, midxs, gc, rpc, files, seen, raced>>

\* auto_midx fails, or the process is killed.
Fail(w) ==
    /\ pc[w] # "idle"
    /\ Stops(w)
    /\ UNCHANGED <<bloom, tmpBloom>>

\* An exception while indexes are added, some of them S: do_bloom closes its
\* BloomWriter all the same, which renames the file.
BloomFails(w) ==
    /\ pc[w] = "write"
    /\ \E S \in SUBSET job[w].names :
         \/ job[w].adds /\ bloom' = NewBloom(S) /\ UNCHANGED tmpBloom
         \/ ~job[w].adds /\ tmpBloom' = NewBloom(S) /\ UNCHANGED bloom
    /\ Stops(w)

-----------------------------------------------------------------------------
(***************************************************************************)
(* PackIdxList                                                             *)
(***************************************************************************)

\* refresh, which __init__ calls, too: the .midx files that are gone are
\* dropped, and the others listed.
RefreshBegin ==
    /\ rpc \in IF kind = "client" THEN {"closed", "temps"} ELSE {"closed"}
    /\ ~gc
    /\ kind = "client" => AllIdle
    /\ rmidxs' = rmidxs \cap midxs
    /\ listed' = midxs \ rmidxs
    /\ rbloom' = None /\ doBloom' = FALSE
    /\ rpc' = "midx"
    /\ seen' = idxs /\ raced' = FALSE
    /\ UNCHANGED <<kind, dir, writing, ridxs, failed, faults, removals>>

\* The listed .midx files are opened and the broken and redundant ones
\* removed.  An index is open on its own only if no open .midx has it.
RefreshMidx ==
    /\ rpc = "midx"
    /\ listed \subseteq midxs
    /\ \E s \in BiggestFirst({m \in listed : ~Broken(m)}) :
         LET kept == Needed(s, Covered(rmidxs))
         IN /\ midxs' = midxs \ (listed \ kept)
            /\ rmidxs' = rmidxs \cup kept
            /\ ridxs' = ridxs \ Covered(rmidxs \cup kept)
    /\ listed' = {}
    /\ rpc' = "idx"
    /\ UNCHANGED <<kind, idxs, bloom, tmpBloom, gc, writing, rbloom, doBloom, ghosts>>

Nothing ==
    /\ listed' = {} /\ rmidxs' = {} /\ ridxs' = {} /\ rbloom' = None /\ doBloom' = FALSE
    /\ seen' = {} /\ raced' = FALSE

\* A listed file is gone when it is to be opened: an exception.
RefreshFails ==
    /\ rpc = "midx"
    /\ ~(listed \subseteq midxs)
    /\ rpc' = "closed"
    /\ Nothing
    /\ UNCHANGED <<kind, dir, writing, failed, faults, removals>>

RefreshIdxs ==
    /\ rpc = "idx"
    /\ ridxs' = ridxs \cup (idxs \ Covered(rmidxs))
    /\ rpc' = "bloom"
    /\ UNCHANGED <<kind, dir, writing, listed, rmidxs, rbloom, doBloom, ghosts>>

\* MISTAKE: any filter will do.
UsableAlways(b) == b # None

\* A filter with fewer objects than the open indexes is out of date.
Usable(b) ==
    /\ b # None
    /\ b.entries > 0
    /\ b.entries >= Total(ridxs) + Total(rmidxs)

RefreshBloom ==
    /\ rpc = "bloom"
    /\ UNCHANGED <<ridxs, rmidxs>>
    /\ rbloom' = IF Usable(bloom) THEN bloom ELSE None
    /\ doBloom' = (rbloom' # None)
    /\ rpc' = "ready"
    /\ UNCHANGED <<kind, dir, writing, listed, ghosts>>

Found(o) == o \in Objs(ridxs \cup Covered(rmidxs))

\* exists: the filter is asked first, unless the last object was there; it
\* may say yes to an object that is not.
Exists(o) ==
    /\ rpc = "ready"
    /\ IF doBloom /\ rbloom # None /\ o \notin rbloom.objs
       THEN doBloom' \in BOOLEAN
       ELSE doBloom' = ~Found(o)
    /\ UNCHANGED <<kind, dir, writing, rpc, listed, rmidxs, ridxs, rbloom, ghosts>>

\* A client closes the caches before it fetches indexes.
CloseTemps ==
    /\ kind = "client" /\ rpc = "ready"
    /\ rbloom' = None /\ rmidxs' = {}
    /\ rpc' = "temps"
    /\ UNCHANGED <<kind, dir, writing, listed, ridxs, doBloom, ghosts>>

Close ==
    /\ rpc \in {"ready", "temps"}
    /\ kind = "client" => AllIdle
    /\ rpc' = "closed"
    /\ Nothing
    /\ UNCHANGED <<kind, dir, writing, failed, faults, removals>>

WriterStep(w) ==
    \/ MidxScan(w) \/ MidxMerge(w) \/ MidxDies(w)
    \/ BloomScan(w) \/ BloomWrite(w) \/ BloomRename(w)

ReaderNext ==
    \/ RefreshBegin \/ RefreshMidx \/ RefreshFails \/ RefreshIdxs \/ RefreshBloom
    \/ \E o \in Objs(Idx) : Exists(o)
    \/ CloseTemps \/ Close

Next ==
    \/ \E w \in Active, i \in Idx : AddIdx(w, i) \/ SyncRemove(w, i)
    \/ \E w \in Active : SyncNothing(w) \/ WriterStep(w) \/ Fail(w) \/ BloomFails(w)
    \/ GcClear \/ GcSweep
    \/ ReaderNext

Spec == Init /\ [][Next]_vars

-----------------------------------------------------------------------------
(***************************************************************************)
(* What is right                                                           *)
(***************************************************************************)

\* What the list says of an object: the filter may hide it from the indexes.
Hidden(o) == rbloom # None /\ o \notin rbloom.objs
Finds(o) == Found(o) /\ ~Hidden(o)

\* A filter a client kept because its last auto_midx failed, and which names
\* an index that was removed: what it lacks may be made up by what it has too
\* much.
Misleading == failed /\ rbloom # None /\ ~(rbloom.names \subseteq seen)

\* An object of an index that was there when the list was read is found,
\* through whatever .midx and filter the list uses, if no index came while it
\* was read and the filter is not misleading: exists (git.py) does not miss
\* what a finished save stored.
LookupSeesAll ==
    (rpc = "ready" /\ ~raced /\ ~Misleading) => \A o \in Objs(seen) : Finds(o)

\* No object is said to exist because a cache of indexes that were removed
\* says so: exists is what save relies on when it leaves an object out.
SaysNoMore == rpc = "ready" => ridxs \cup Covered(rmidxs) \subseteq idxs

\* A .midx names for every object an index that has it, however often it was
\* merged from others, and bup midx --check finds no object missing.
SourceIsRight ==
    \A m \in midxs \cup rmidxs :
        /\ \A e \in m.entries : e[1] \in Contents[m.names[e[2]]]
        /\ CheckMidx(m)

\* Every turn of bup midx --auto's loop leaves fewer files to merge, whatever
\* the groups and their sizes and whatever other processes did to the
\* directory: the loop, which has no other bound, ends.
MidxConverges ==
    \A w \in Writers : pc[w] = "merge" =>
        \A s \in BiggestFirst(all[w]) : Cardinality(Left(s)) < Cardinality(all[w])
=============================================================================
