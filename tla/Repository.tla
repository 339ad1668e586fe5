----------------------------- MODULE Repository -----------------------------
(***************************************************************************)
(* A bup repository on disk and the processes that change it: any number   *)
(* of writers (bup save, bup rm), each with a pack of its own, and the     *)
(* garbage collector (bup gc).  Any of them may be killed between two      *)
(* steps.                                                                  *)
(*                                                                         *)
(* A pack's file name is the hash of its contents, so a pack is named here *)
(* by the set of objects in it; "pack-X.pack" and "pack-X.idx" are two     *)
(* files that come and go separately.  Existence checks read the .idx      *)
(* files (PackIdxList), contents are read through git, which ignores an    *)
(* .idx without its .pack.                                                 *)
(***************************************************************************)
EXTENDS ObjectGraph, Naturals

CONSTANTS
    Refs,       \* branch names
    Writers,    \* concurrent processes that add objects
    FullPacks,  \* the open packs that have reached pack.packSizeLimit
    Thresholds, \* the --threshold values gc is run with, in percent
    IdxFirst,   \* does every directory list pack-X.idx before pack-X.pack?
                \* (FALSE: glob.glob returns them in either order)
    MaxFaults   \* bound: how many times a process fails or is killed

ASSUME RepositoryParameters ==
    /\ FullPacks \subseteq SUBSET Objects
    /\ Thresholds \subseteq 0..100
    /\ IdxFirst \in BOOLEAN
    /\ MaxFaults \in Nat

VARIABLES
    packs,      \* the .pack files in objects/pack
    idxs,       \* the .idx files in objects/pack
    refs,       \* refs/heads
    phase,      \* where each writer is
    job,        \* each writer's operation and its arguments
    open,       \* the objects in each writer's unfinished pack
    cache,      \* each writer's PackIdxList, a snapshot of the indexes
    gcPhase,    \* where the collector is
    gcBack,     \* where it goes on when the stale packs are removed
    threshold,  \* its --threshold
    live,       \* what the mark phase found: live_trees and live_objects
    todo,       \* the .idx files its glob returned, not yet visited
    cur, rest,  \* the pack being rewritten, its objects still to copy
    gcOpen,     \* the objects in the collector's unfinished pack
    stale,      \* stale_packs
    fresh,      \* new_pack_prefix, while the stale packs are removed
    interrupted \* a collection was interrupted and none completed since

\* Auxiliary variables: no process reads them.
VARIABLES
    faults,     \* how many processes failed so far
    dangling    \* did a collection complete and leave an .idx that names an
                \* object git cannot read?

disk == <<packs, idxs>>
sessions == <<phase, job, open, cache>>
marks == <<live, threshold>>
sweepVars == <<todo, cur, rest>>
packing == <<gcOpen, stale, fresh>>
gcVars == <<gcPhase, gcBack, marks, sweepVars, packing>>
aux == <<faults, dangling>>
vars == <<disk, refs, sessions, gcVars, interrupted, aux>>

NoPack == {}            \* "no pack": bup never writes an empty one
NotLoaded == {None}     \* _objcache is None

Indexed == UNION idxs
Stored == UNION (packs \cap idxs)

NoJob == [op |-> "none", ref |-> None, old |-> None, new |-> None, at |-> None]

\* A save of the branch ref, whose tip was old, as the commit new.
SaveJobs == [op : {"save"}, ref : Refs, old : Commits \cup {None},
             new : Commits, at : {None}]

\* A rewrite of the branch ref, whose tip was old: new stands for the saves
\* before at, the next save of the old history to consider.
RmJobs == {j \in [op : {"rm"}, ref : Refs, old : Commits,
                  new : Commits \cup {None}, at : Commits \cup {None}] :
              j.at \in History(j.old) \cup {None}}

Jobs == {NoJob} \cup SaveJobs \cup RmJobs

TypeOK ==
    /\ packs \subseteq SUBSET Objects
    /\ idxs \subseteq SUBSET Objects
    /\ refs \in [Refs -> Commits \cup {None}]
    /\ phase \in [Writers -> {"idle", "write", "full", "close", "ref"}]
    /\ job \in [Writers -> Jobs]
    /\ open \in [Writers -> SUBSET Objects]
    /\ cache \in [Writers -> (SUBSET Objects) \cup {NotLoaded}]
    /\ gcPhase \in {"idle", "sweep", "rewrite", "break", "purge"}
    /\ gcBack \in {"rewrite", "close", "idle"}
    /\ threshold \in 0..100
    /\ live \subseteq Objects
    /\ todo \subseteq SUBSET Objects
    /\ cur \subseteq Objects
    /\ rest \subseteq Objects
    /\ gcOpen \subseteq Objects
    /\ stale \subseteq SUBSET Objects
    /\ fresh \subseteq Objects
    /\ interrupted \in BOOLEAN
    /\ faults \in 0..MaxFaults
    /\ dangling \in BOOLEAN

Init ==
    /\ packs = {} /\ idxs = {}
    /\ refs = [r \in Refs |-> None]
    /\ phase = [w \in Writers |-> "idle"]
    /\ job = [w \in Writers |-> NoJob]
    /\ open = [w \in Writers |-> {}]
    /\ cache = [w \in Writers |-> NotLoaded]
    /\ gcPhase = "idle" /\ gcBack = "idle"
    /\ threshold = 0 /\ live = {}
    /\ todo = {} /\ cur = NoPack /\ rest = {}
    /\ gcOpen = {} /\ stale = {} /\ fresh = NoPack
    /\ interrupted = FALSE
    /\ faults = 0
    /\ dangling = FALSE

-----------------------------------------------------------------------------
(***************************************************************************)
(* The pack writer                                                         *)
(***************************************************************************)

\* What a writer's PackIdxList shows: the snapshot it holds, or, when it has
\* none, the one the next existence check will take.
Snapshot(w) == IF cache[w] = NotLoaded THEN Indexed ELSE cache[w]

\* MISTAKE: an object in another writer's unfinished pack counts too.
ExistsAnywhere(w, o) == o \in (UNION {open[v] : v \in Writers}) \cup Snapshot(w)

\* PackWriter.exists.  An oid of _pending_oids is either still in the open
\* pack or in a finished one, which the next snapshot shows.
Exists(w, o) == o \in open[w] \cup Snapshot(w)

\* PackWriter.maybe_write, with the breakpoint _write makes at the limit.
MaybeWrite(w, o) ==
    IF Exists(w, o)
    THEN /\ cache' = [cache EXCEPT ![w] = Snapshot(w)]
         /\ UNCHANGED <<open, phase>>
    ELSE /\ cache' = [cache EXCEPT ![w] = Snapshot(w)]
         /\ open' = [open EXCEPT ![w] = @ \cup {o}]
         /\ phase' = [phase EXCEPT
                        ![w] = IF open'[w] \in FullPacks THEN "full" ELSE @]

\* LocalPackStore.finish_pack, first rename: pack-X.pack appears.
RenamePack(w) ==
    /\ phase[w] \in {"full", "close"}
    /\ open[w] # {}
    /\ open[w] \notin packs
    /\ packs' = packs \cup {open[w]}
    /\ UNCHANGED <<idxs, refs, sessions, gcVars, interrupted, aux>>

\* Second rename: pack-X.idx appears, the pack is visible.  The index
\* snapshot is dropped, and the writer resumes or goes on to the ref.
RenameIdx(w) ==
    /\ phase[w] \in {"full", "close"}
    /\ open[w] # {}
    /\ open[w] \in packs
    /\ idxs' = idxs \cup {open[w]}
    /\ open' = [open EXCEPT ![w] = {}]
    /\ cache' = [cache EXCEPT ![w] = NotLoaded]
    /\ phase' = [phase EXCEPT ![w] = IF @ = "full" THEN "write" ELSE "ref"]
    /\ UNCHANGED <<packs, refs, job, gcVars, interrupted, aux>>

\* MISTAKE: close() does nothing when no pack is open.
NothingToFinishStuck(w) ==
    /\ phase[w] = "close"
    /\ open[w] = {}
    /\ cache' = [cache EXCEPT ![w] = NotLoaded]
    /\ UNCHANGED <<disk, refs, phase, job, open, gcVars, interrupted, aux>>

\* finish_pack when no pack is open.
NothingToFinish(w) ==
    /\ phase[w] = "close"
    /\ open[w] = {}
    /\ cache' = [cache EXCEPT ![w] = NotLoaded]
    /\ phase' = [phase EXCEPT ![w] = "ref"]
    /\ UNCHANGED <<disk, refs, job, open, gcVars, interrupted, aux>>

EndSession(w) ==
    /\ phase' = [phase EXCEPT ![w] = "idle"]
    /\ job' = [job EXCEPT ![w] = NoJob]
    /\ open' = [open EXCEPT ![w] = {}]
    /\ cache' = [cache EXCEPT ![w] = NotLoaded]

\* MISTAKE: update_ref with force.
UpdateRefForce(w) ==
    /\ phase[w] = "ref"
    /\ refs' = IF job[w].op # "none"
               THEN [refs EXCEPT ![job[w].ref] = job[w].new]
               ELSE refs
    /\ EndSession(w)
    /\ UNCHANGED <<disk, gcVars, interrupted, aux>>

\* git update-ref with the value read when the operation began: the ref
\* moves only if nobody else moved it; otherwise the operation fails.  An rm
\* that left no save deletes the ref.
UpdateRef(w) ==
    /\ phase[w] = "ref"
    /\ LET r == job[w].ref
       IN  refs' = IF job[w].op # "none" /\ refs[r] = job[w].old
                   THEN [refs EXCEPT ![r] = job[w].new]
                   ELSE refs
    /\ EndSession(w)
    /\ UNCHANGED <<disk, gcVars, interrupted, aux>>

Fault ==
    /\ faults < MaxFaults
    /\ faults' = faults + 1

\* A writer dies, or aborts: its temporary pack directory is all it leaves,
\* and a .pack whose .idx has not been renamed yet.
WriterCrash(w) ==
    /\ Fault
    /\ phase[w] # "idle"
    /\ EndSession(w)
    /\ UNCHANGED <<disk, refs, gcVars, interrupted, dangling>>

\* MISTAKE: the warning of an interrupted collection is ignored.
MayAddUnwarned == gcPhase = "idle"

\* "Run gc (again) to completion before adding any new data", and nobody
\* adds data while it runs.
MayAdd == gcPhase = "idle" /\ ~interrupted

-----------------------------------------------------------------------------
(***************************************************************************)
(* bup save                                                                *)
(***************************************************************************)

\* main reads the branch before anything else; the filesystem it is about to
\* scan and the date fix the commit it will end with.
SaveBegin(w, r, c) ==
    /\ MayAdd
    /\ phase[w] = "idle"
    /\ ParentOf[c] = refs[r]
    /\ phase' = [phase EXCEPT ![w] = "write"]
    /\ job' = [job EXCEPT ![w] = [op |-> "save", ref |-> r, old |-> refs[r],
                                  new |-> c, at |-> None]]
    /\ UNCHANGED <<disk, refs, open, cache, gcVars, interrupted, aux>>

\* MISTAKE: a directory is written before what is in it.
SaveObjectTopDown(w, o) ==
    /\ phase[w] = "write"
    /\ job[w].op = "save"
    /\ o \in Reach[TreeOf[job[w].new]]
    /\ ~Exists(w, o)
    /\ MaybeWrite(w, o)
    /\ UNCHANGED <<disk, refs, job, gcVars, interrupted, aux>>

\* One blob or tree, after everything it names.  A name the index remembers
\* (already_saved) is trusted if exists says so, without a visit below it;
\* so is one maybe_write finds there.
SaveObject(w, o) ==
    /\ phase[w] = "write"
    /\ job[w].op = "save"
    /\ o \in Reach[TreeOf[job[w].new]]
    /\ ~Exists(w, o)
    /\ \A k \in Kids[o] : Exists(w, k)
    /\ MaybeWrite(w, o)
    /\ UNCHANGED <<disk, refs, job, gcVars, interrupted, aux>>

\* An existence check that succeeds writes nothing, but the first one since
\* the last pack takes the snapshot.
SaveKnown(w, o) ==
    /\ phase[w] = "write"
    /\ job[w].op = "save"
    /\ o \in Reach[TreeOf[job[w].new]]
    /\ cache[w] = NotLoaded
    /\ Exists(w, o)
    /\ cache' = [cache EXCEPT ![w] = Snapshot(w)]
    /\ UNCHANGED <<disk, refs, phase, job, open, gcVars, interrupted, aux>>

\* commit_tree once the root tree is there.
SaveCommit(w) ==
    /\ phase[w] = "write"
    /\ job[w].op = "save"
    /\ Exists(w, TreeOf[job[w].new])
    /\ ~Exists(w, job[w].new)
    /\ MaybeWrite(w, job[w].new)
    /\ UNCHANGED <<disk, refs, job, gcVars, interrupted, aux>>

\* dest.update_ref: finish_writing, then the ref.
SaveClose(w) ==
    /\ phase[w] = "write"
    /\ job[w].op = "save"
    /\ Exists(w, job[w].new)
    /\ phase' = [phase EXCEPT ![w] = "close"]
    /\ UNCHANGED <<disk, refs, job, open, cache, gcVars, interrupted, aux>>

\* save_tree raises: leaving "with dest" still finishes the open pack, but
\* there is no commit and the ref is not touched.
SaveFail(w) ==
    /\ Fault
    /\ phase[w] = "write"
    /\ job[w].op = "save"
    /\ phase' = [phase EXCEPT ![w] = "close"]
    /\ job' = [job EXCEPT ![w] = NoJob]
    /\ UNCHANGED <<disk, refs, open, cache, gcVars, interrupted, dangling>>

-----------------------------------------------------------------------------
(***************************************************************************)
(* bup rm                                                                  *)
(***************************************************************************)

\* The save after x on the branch with tip c; None after the tip.
NextSave(x, c) == IF x = c THEN None
                  ELSE CHOOSE y \in History(c) : ParentOf[y] = x

\* rm /BRANCH/SAVE...: e is the oldest save to drop.  Older saves stay as
\* they are; filter_branch starts with the one after e.
RmBegin(w, r, e) ==
    /\ MayAdd
    /\ phase[w] = "idle"
    /\ refs[r] # None
    /\ e \in History(refs[r])
    /\ phase' = [phase EXCEPT ![w] = "write"]
    /\ job' = [job EXCEPT ![w] = [op |-> "rm", ref |-> r, old |-> refs[r],
                                  new |-> ParentOf[e],
                                  at |-> NextSave(e, refs[r])]]
    /\ UNCHANGED <<disk, refs, open, cache, gcVars, interrupted, aux>>

\* A later save that is dropped too.
RmExclude(w) ==
    /\ phase[w] = "write"
    /\ job[w].op = "rm"
    /\ job[w].at # None
    /\ job' = [job EXCEPT ![w].at = NextSave(job[w].at, job[w].old)]
    /\ UNCHANGED <<disk, refs, phase, open, cache, gcVars, interrupted, aux>>

\* append_commit: the same tree on the rewritten parent.
RmAppend(w, c) ==
    /\ phase[w] = "write"
    /\ job[w].op = "rm"
    /\ job[w].at # None
    /\ TreeOf[c] = TreeOf[job[w].at]
    /\ ParentOf[c] = job[w].new
    /\ MaybeWrite(w, c)
    /\ job' = [job EXCEPT ![w].new = c,
                          ![w].at = NextSave(job[w].at, job[w].old)]
    /\ UNCHANGED <<disk, refs, gcVars, interrupted, aux>>

\* Every save considered: writer.close(), then the refs.
RmClose(w) ==
    /\ phase[w] = "write"
    /\ job[w].op = "rm"
    /\ job[w].at = None
    /\ phase' = [phase EXCEPT ![w] = "close"]
    /\ UNCHANGED <<disk, refs, job, open, cache, gcVars, interrupted, aux>>

\* rm /BRANCH: the ref goes, no object is written, so it may happen at any
\* time, during a collection too.
RmBranch(r) ==
    /\ refs[r] # None
    /\ refs' = [refs EXCEPT ![r] = None]
    /\ UNCHANGED <<disk, sessions, gcVars, interrupted, aux>>

-----------------------------------------------------------------------------
(***************************************************************************)
(* bup gc                                                                  *)
(***************************************************************************)

Needed == UNION {ReachFrom(refs[r]) : r \in Refs}

\* The mark phase.  Trees and commits are kept in an exact set, blobs in a
\* Bloom filter that may also hold blobs nobody needs.  A missing tree or
\* commit ends the run before anything is deleted; blobs are not looked up.
GcBegin(t, extra) ==
    /\ gcPhase = "idle"
    /\ \A w \in Writers : phase[w] = "idle"
    /\ idxs # {}
    /\ Needed \ Blobs \subseteq Stored
    /\ extra \subseteq (Blobs \cap Stored) \ Needed
    /\ gcPhase' = "sweep"
    /\ threshold' = t
    /\ live' = Needed \cup extra
    /\ todo' = idxs
    /\ UNCHANGED <<disk, refs, sessions, gcBack, cur, rest, packing, interrupted, aux>>

\* "nothing to collect": a run that completes at once.
GcNothing ==
    /\ gcPhase = "idle"
    /\ idxs = {}
    /\ interrupted
    /\ interrupted' = FALSE
    /\ UNCHANGED <<disk, refs, sessions, gcVars, aux>>

\* What sweep takes for live in one index.  git answers for objects it can
\* read; a blob it cannot read is looked up among the trees.
LiveIn(p) == {o \in p : o \in live /\ (o \in Blobs => o \in Stored)}

\* A dead tree or commit, or an object git cannot read.
MustRewrite(p) == \E o \in p \ LiveIn(p) : o \in Blobs => o \notin Stored

\* MISTAKE: a pack exactly at the threshold stays.
MostlyLiveOrEqual(p) ==
    100 * Cardinality(LiveIn(p)) >= (100 - threshold) * Cardinality(p)

\* live_frac > (100 - threshold) / 100
MostlyLive(p) ==
    100 * Cardinality(LiveIn(p)) > (100 - threshold) * Cardinality(p)

\* No live object: the pack is stale at once.
GcVisitDead(p) ==
    /\ gcPhase = "sweep"
    /\ p \in todo
    /\ LiveIn(p) = {}
    /\ todo' = todo \ {p}
    /\ stale' = stale \cup {p}
    /\ UNCHANGED <<disk, refs, sessions, gcPhase, gcBack, marks, cur, rest,
                   gcOpen, fresh, interrupted, aux>>

\* MISTAKE: a pack that is kept is visited again.
GcVisitKeepAgain(p) ==
    /\ gcPhase = "sweep"
    /\ p \in todo
    /\ LiveIn(p) # {}
    /\ ~MustRewrite(p)
    /\ MostlyLive(p)
    /\ UNCHANGED vars

\* Little garbage and only blobs of it: the pack stays.
GcVisitKeep(p) ==
    /\ gcPhase = "sweep"
    /\ p \in todo
    /\ LiveIn(p) # {}
    /\ ~MustRewrite(p)
    /\ MostlyLive(p)
    /\ todo' = todo \ {p}
    /\ UNCHANGED <<disk, refs, sessions, gcPhase, gcBack, marks, cur, rest,
                   packing, interrupted, aux>>

\* Otherwise its live objects are copied to the open pack ...
GcVisitRewrite(p) ==
    /\ gcPhase = "sweep"
    /\ p \in todo
    /\ LiveIn(p) # {}
    /\ MustRewrite(p) \/ ~MostlyLive(p)
    /\ todo' = todo \ {p}
    /\ gcPhase' = "rewrite"
    /\ cur' = p
    /\ rest' = LiveIn(p)
    /\ UNCHANGED <<disk, refs, sessions, gcBack, marks, packing, interrupted, aux>>

\* ... one just_write at a time, with a breakpoint at the limit ...
GcCopy(o) ==
    /\ gcPhase = "rewrite"
    /\ o \in rest
    /\ rest' = rest \ {o}
    /\ gcOpen' = gcOpen \cup {o}
    /\ IF gcOpen' \in FullPacks
       THEN gcPhase' = "break" /\ gcBack' = "rewrite"
       ELSE UNCHANGED <<gcPhase, gcBack>>
    /\ UNCHANGED <<disk, refs, sessions, marks, todo, cur, stale, fresh, interrupted, aux>>

\* ... and only then is it stale.
GcCopied ==
    /\ gcPhase = "rewrite"
    /\ rest = {}
    /\ stale' = stale \cup {cur}
    /\ cur' = NoPack
    /\ gcPhase' = "sweep"
    /\ UNCHANGED <<disk, refs, sessions, gcBack, marks, todo, rest, gcOpen,
                   fresh, interrupted, aux>>

\* MISTAKE: the stale packs are removed before the last pack is finished.
GcCloseEarly ==
    /\ gcPhase = "sweep"
    /\ todo = {}
    /\ gcPhase' = "purge"
    /\ gcBack' = "idle"
    /\ UNCHANGED <<disk, refs, sessions, marks, sweepVars, packing, interrupted, aux>>

\* The loop is over: repo.close() finishes the last pack, if one is open ...
GcClose ==
    /\ gcPhase = "sweep"
    /\ todo = {}
    /\ gcPhase' = IF gcOpen = {} THEN "purge" ELSE "break"
    /\ gcBack' = IF gcOpen = {} THEN "idle" ELSE "close"
    /\ UNCHANGED <<disk, refs, sessions, marks, sweepVars, packing, interrupted, aux>>

\* finish_pack's two renames, then the on_pack_finish callback.
GcRenamePack ==
    /\ gcPhase = "break"
    /\ gcOpen \notin packs
    /\ packs' = packs \cup {gcOpen}
    /\ UNCHANGED <<idxs, refs, sessions, gcVars, interrupted, aux>>

GcRenameIdx ==
    /\ gcPhase = "break"
    /\ gcOpen \in packs
    /\ idxs' = idxs \cup {gcOpen}
    /\ fresh' = gcOpen
    /\ gcOpen' = {}
    /\ gcPhase' = "purge"
    /\ UNCHANGED <<packs, refs, sessions, gcBack, marks, sweepVars, stale, interrupted, aux>>

\* remove_stale_packs: every file of every stale pack but the new one, in
\* the order glob.glob lists them.  When that is .pack first, a kill between
\* the two leaves an .idx without its .pack.
Doomed == stale \ {fresh}

GcUnlinkPack(p) ==
    /\ gcPhase = "purge"
    /\ p \in Doomed \cap packs
    /\ IdxFirst => p \notin idxs
    /\ packs' = packs \ {p}
    /\ UNCHANGED <<idxs, refs, sessions, gcVars, interrupted, aux>>

GcUnlinkIdx(p) ==
    /\ gcPhase = "purge"
    /\ p \in Doomed \cap idxs
    /\ idxs' = idxs \ {p}
    /\ UNCHANGED <<packs, refs, sessions, gcVars, interrupted, aux>>

\* MISTAKE: no last remove_stale_packs(None).
GcPurgedOnce ==
    /\ gcPhase = "purge"
    /\ Doomed \cap (packs \cup idxs) = {}
    /\ stale' = {} /\ fresh' = NoPack
    /\ gcPhase' = gcBack /\ gcBack' = "idle"
    /\ UNCHANGED <<disk, refs, sessions, marks, sweepVars, gcOpen, interrupted, aux>>

\* stale_packs is emptied, and the loop goes on; after repo.close() comes
\* one more remove_stale_packs(None), and then the end of the run.
GcPurged ==
    /\ gcPhase = "purge"
    /\ Doomed \cap (packs \cup idxs) = {}
    /\ stale' = {}
    /\ fresh' = NoPack
    /\ IF gcBack = "close"
       THEN gcPhase' = "purge" /\ gcBack' = "idle"
       ELSE gcPhase' = gcBack /\ gcBack' = "idle"
    /\ IF gcBack = "idle"
       THEN /\ interrupted' = FALSE /\ live' = {} /\ threshold' = 0
            /\ dangling' = (dangling \/ ~(Indexed \subseteq Stored))
       ELSE UNCHANGED <<interrupted, live, threshold, dangling>>
    /\ UNCHANGED <<disk, refs, sessions, sweepVars, gcOpen, faults>>

\* gc is killed, or fails with the WARNING about the interrupted collection.
GcCrash ==
    /\ Fault
    /\ gcPhase # "idle"
    /\ gcPhase' = "idle" /\ gcBack' = "idle"
    /\ live' = {} /\ threshold' = 0
    /\ todo' = {} /\ cur' = NoPack /\ rest' = {}
    /\ gcOpen' = {} /\ stale' = {} /\ fresh' = NoPack
    /\ interrupted' = TRUE
    /\ UNCHANGED <<disk, refs, sessions, dangling>>

-----------------------------------------------------------------------------
WriterStep(w) ==
    \/ \E o \in Objects : SaveObject(w, o) \/ SaveKnown(w, o)
    \/ SaveCommit(w)
    \/ SaveClose(w)
    \/ RmExclude(w)
    \/ \E c \in Commits : RmAppend(w, c)
    \/ RmClose(w)
    \/ RenamePack(w)
    \/ RenameIdx(w)
    \/ NothingToFinish(w)
    \/ UpdateRef(w)

GcStep ==
    \/ \E p \in todo : GcVisitDead(p) \/ GcVisitKeep(p) \/ GcVisitRewrite(p)
    \/ \E o \in rest : GcCopy(o)
    \/ GcCopied
    \/ GcClose
    \/ GcRenamePack
    \/ GcRenameIdx
    \/ \E p \in stale : GcUnlinkPack(p) \/ GcUnlinkIdx(p)
    \/ GcPurged

\* What users start, and what goes wrong.
Environment ==
    \/ \E w \in Writers, r \in Refs, c \in Commits :
           SaveBegin(w, r, c) \/ RmBegin(w, r, c)
    \/ \E r \in Refs : RmBranch(r)
    \/ \E t \in Thresholds, extra \in SUBSET Blobs : GcBegin(t, extra)
    \/ GcNothing
    \/ \E w \in Writers : SaveFail(w) \/ WriterCrash(w)
    \/ GcCrash

Next == (\E w \in Writers : WriterStep(w)) \/ GcStep \/ Environment

Spec == Init /\ [][Next]_vars

\* A process that is not killed keeps running.
Fairness == WF_vars(GcStep) /\ \A w \in Writers : WF_vars(WriterStep(w))

FairSpec == Spec /\ Fairness
-----------------------------------------------------------------------------
(***************************************************************************)
(* What must hold                                                          *)
(*                                                                         *)
(* An interrupted collection may have unlinked pack-X.pack and not yet     *)
(* pack-X.idx.  The next one keeps such an .idx when most of what it names *)
(* can still be read from other packs, dead blobs included, and may then   *)
(* remove those packs.  From there on an existence check reports blobs     *)
(* that are gone, and nothing about the store is promised: that is what    *)
(* dangling excludes (gc_orphan_index shows it).                           *)
(***************************************************************************)

\* The promise of ObjectStore, with what git can read as the store.
Store == INSTANCE ObjectStore WITH stored <- Stored, lapsed <- dangling
StoreImplemented == Store!StoreSpec

\* Everything every branch needs can be read, at every moment: between the
\* renames of a finished pack, in the middle of a collection, with half of a
\* pack unlinked, and after a crash of any process at any step (gc.py:
\* redundant packs are deleted only after the pack that has all of their live
\* objects is finished).
RefsComplete == ~dangling => Needed \subseteq Stored

\* While writers may run, an object an existence check reports can be read
\* and so can everything it names.  save (already_saved, maybe_write) and
\* get (stop_at) never look below an object that exists.
ExistsImpliesComplete ==
    ~dangling /\ MayAdd => /\ Indexed \subseteq Stored
                           /\ Closed(Indexed)


\* What a writer holds back is complete up to what is already stored, so a
\* pack may be finished, or lost, after any object.
OpenPacksGrounded ==
    ~dangling => \A w \in Writers : \A o \in open[w] : Kids[o] \subseteq open[w] \cup Stored

\* The directories the saves of a branch with tip c show.
SavedTrees(c) == {TreeOf[x] : x \in History(c)}

\* A branch never loses a save it was not asked to drop, whichever writers
\* race for it: it moves to a child of its tip (save), to a history whose
\* trees are all among the tip's (rm BRANCH/SAVE), or away (rm BRANCH).
RefsMoveForward ==
    [][\A r \in Refs : refs'[r] # refs[r] =>
          \/ refs'[r] = None
          \/ ParentOf[refs'[r]] = refs[r]
          \/ /\ refs[r] # None
             /\ SavedTrees(refs'[r]) \subseteq SavedTrees(refs[r])]_vars

GcDone == gcPhase # "idle" /\ gcPhase' = "idle" /\ ~interrupted'

\* A pack a collection may leave: no unreachable tree or commit in it, and
\* fewer unreachable blobs than the threshold allows.
Tidy(p) ==
    /\ p \ Blobs \subseteq live
    /\ \/ p \subseteq live
       \/ 100 * Cardinality(p \cap live) > (100 - threshold) * Cardinality(p)

\* A collection that completes has left only such packs, whatever it found:
\* halves of packs, or indexes of objects nobody can read, included.
GcCollects == [][GcDone => \A p \in idxs' : Tidy(p)]_vars

\* A collection never removes an object it marked.
GcKeepsMarked == ~dangling => live \subseteq Stored

\* A collection that is not killed ends.
GcTerminates == (gcPhase # "idle") ~> (gcPhase = "idle")

\* So does a save or an rm.
WritersFinish == \A w \in Writers : (phase[w] # "idle") ~> (phase[w] = "idle")

-----------------------------------------------------------------------------
(***************************************************************************)
(* Why it holds: the inductive invariant, first what the control alone     *)
(* guarantees, whatever the disk has become                                *)
(***************************************************************************)

\* A session runs only while data may be added, and knows what it was asked.
SessionShape(w) ==
    /\ phase[w] # "idle" => MayAdd
    /\ phase[w] \in {"idle", "ref"} => open[w] = {}
    /\ phase[w] = "idle" => cache[w] = NotLoaded
    /\ phase[w] # "idle" /\ job[w].op = "save" => ParentOf[job[w].new] = job[w].old
    /\ phase[w] # "idle" /\ job[w].op = "rm" =>
           SavedTrees(job[w].new) \subseteq SavedTrees(job[w].old)

\* The collector at rest holds nothing.
GcIdleInv ==
    gcPhase = "idle" =>
        /\ live = {} /\ todo = {} /\ cur = NoPack /\ rest = {}
        /\ gcOpen = {} /\ stale = {} /\ fresh = NoPack

\* Where in its loop the collector may be when.
GcControlInv ==
    /\ gcPhase \in {"idle", "sweep"} => cur = NoPack /\ rest = {}
    /\ gcPhase \in {"break", "purge"} /\ gcBack # "rewrite" =>
           todo = {} /\ cur = NoPack /\ rest = {}
    /\ gcPhase \in {"break", "purge"} /\ gcBack = "idle" => gcOpen = {}
    /\ gcPhase = "purge" => gcOpen = {}
    /\ gcPhase # "purge" => fresh = NoPack

\* What the sweep has settled is tidy, and it copies only what it marked.
GcSweptInv ==
    gcPhase # "idle" =>
        /\ threshold \in Thresholds
        /\ gcOpen \cup rest \cup fresh \subseteq live
        /\ \A q \in idxs : q \in todo \cup stale \cup {cur} \/ Tidy(q)

ControlInv ==
    /\ \A w \in Writers : SessionShape(w)
    /\ GcIdleInv
    /\ GcControlInv
    /\ GcSweptInv

\* Nothing is missing below a ref; while writers may run, nothing is missing
\* below any object an index names, nor is the object.
StoreInv ==
    /\ Needed \subseteq Stored
    /\ MayAdd => Indexed \subseteq Stored /\ Closed(Stored)

\* What a writer holds, and what it will do with it, is backed by the store.
SessionBacked(w) ==
    /\ cache[w] # NotLoaded => cache[w] \subseteq Stored
    /\ \A o \in open[w] : Kids[o] \subseteq open[w] \cup Stored
    /\ phase[w] # "idle" /\ job[w].op # "none" =>
           /\ ReachFrom(job[w].old) \subseteq Stored
           /\ job[w].op = "rm" \/ phase[w] \in {"close", "ref"} =>
                  job[w].new \in open[w] \cup Stored \cup {None}

\* A pack that survives the sweep keeps o.
SafeIn(o, S) == \E q \in S : o \in q

\* The packs git reads and the next remove_stale_packs leaves alone.
Kept == (packs \cap idxs) \ Doomed

\* What was marked is needed and complete, it is stored now, and it will be
\* when the stale packs are gone: in a pack that stays, or in the open one.
GcMarkInv ==
    gcPhase # "idle" =>
        /\ Needed \subseteq live
        /\ Closed(live)
        /\ live \subseteq Stored
        /\ \A o \in live : o \in gcOpen \/ SafeIn(o, Kept)

\* The same for the pack being rewritten, which stays until it is copied:
\* what has been copied from it no longer depends on it.
GcCopyInv ==
    /\ rest \subseteq cur
    /\ cur # NoPack => ~(cur \subseteq live)
    /\ \A o \in (cur \cap live) \ rest : o \in gcOpen \/ SafeIn(o, Kept \ {cur})

\* And then what the disk and the processes owe each other.
DataInv ==
    /\ StoreInv
    /\ \A w \in Writers : SessionBacked(w)
    /\ GcMarkInv
    /\ GcCopyInv

IInv == ControlInv /\ (~dangling => DataInv)
=============================================================================
