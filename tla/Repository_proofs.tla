-------------------------- MODULE Repository_proofs --------------------------
(***************************************************************************)
(* The repository keeps its promise for every object graph, every number   *)
(* of writers, every pack size limit and any number of crashes, in         *)
(* whichever order the two files of a stale pack are unlinked, provided gc *)
(* is not run with --threshold 0 and until a collection completes and      *)
(* leaves an index of what git cannot read.  When every .idx is unlinked   *)
(* before its .pack no collection does.                                    *)
(***************************************************************************)
EXTENDS Repository, TLAPS, FiniteSetTheorems

\* GcThresholdZero.cfg shows what happens otherwise.
GcDiscipline == \A t \in Thresholds : t > 0

-----------------------------------------------------------------------------
(***************************************************************************)
(* Reachability: the least closed set around an object                     *)
(***************************************************************************)

\* Every edge leads to an object (walk_object in git.py never leaves the
\* graph).
LEMMA KidsType == Kids \in [Objects -> SUBSET Objects]
<1>1. SUFFICES ASSUME NEW o \in Objects
               PROVE  (IF o \in Trees THEN Entries[o]
                       ELSE IF o \in Commits THEN {TreeOf[o], ParentOf[o]} \ {None}
                       ELSE {}) \subseteq Objects
  BY DEF Kids
<1>2. CASE o \in Trees
  BY <1>2, EdgesWellTyped DEF Objects
<1>3. CASE o \in Commits
  BY <1>3, EdgesWellTyped, ObjectKindsDisjoint DEF Objects
<1>4. CASE o \notin Trees /\ o \notin Commits
  BY <1>4
<1>5. QED
  BY <1>2, <1>3, <1>4

\* A blob names nothing, a commit its tree and its parent.
LEMMA KidsByKind ==
    /\ \A b \in Blobs : Kids[b] = {}
    /\ \A c \in Commits : Kids[c] = {TreeOf[c], ParentOf[c]} \ {None}
    /\ \A t \in Trees : Kids[t] = Entries[t]
  BY ObjectKindsDisjoint DEF Kids, Objects

\* A walk reaches its root and only objects.
LEMMA ReachType ==
    ASSUME NEW o \in Objects
    PROVE  o \in Reach[o] /\ Reach[o] \subseteq Objects
  BY DEF Reach

\* A walk stays within any set without dangling references that has its
\* root: the reason an object that exists may be skipped with all below it.
LEMMA ReachMinimal ==
    ASSUME NEW S \in SUBSET Objects, Closed(S), NEW o \in S
    PROVE  Reach[o] \subseteq S
  BY DEF Reach

\* What a walk reaches has no dangling reference.
LEMMA ReachClosed ==
    ASSUME NEW o \in Objects
    PROVE  Closed(Reach[o])
<1>1. SUFFICES ASSUME NEW x \in Reach[o], NEW k \in Kids[x]
               PROVE  k \in Reach[o]
  BY DEF Closed
<1>2. x \in Objects /\ k \in Objects
  BY ReachType, KidsType
<1>3. ASSUME NEW S \in SUBSET Objects, Closed(S), o \in S
      PROVE  k \in S
  BY <1>3, ReachMinimal DEF Closed
<1>4. QED
  BY <1>2, <1>3 DEF Reach

\* The same for a ref that may be missing.
LEMMA ReachFromFacts ==
    ASSUME NEW c \in Commits \cup {None}
    PROVE  /\ ReachFrom(c) \subseteq Objects
           /\ Closed(ReachFrom(c))
           /\ c # None => c \in ReachFrom(c)
<1>1. CASE c = None
  BY <1>1 DEF ReachFrom, Closed
<1>2. CASE c # None
  BY <1>2, ReachType, ReachClosed DEF ReachFrom, Objects
<1>3. QED
  BY <1>1, <1>2

\* A union of sets without dangling references has none.
LEMMA ClosedUnion ==
    ASSUME NEW F, \A S \in F : Closed(S)
    PROVE  Closed(UNION F)
  BY DEF Closed

\* Every save of a branch but the tip is the parent of one of its saves.
LEMMA HasSuccessor ==
    ASSUME NEW c \in Commits, NEW x \in History(c), x # c
    PROVE  \E y \in History(c) : ParentOf[y] = x
<1> DEFINE S == Reach[c] \ {x}
<1>1. c \in Objects /\ x \in Reach[c] /\ x \in Commits
  BY ObjectsFinite DEF History, ReachFrom, Objects
<1>2. SUFFICES ASSUME \A y \in Reach[c] \cap Commits : ParentOf[y] # x
               PROVE  FALSE
  BY ObjectsFinite DEF History, ReachFrom, Objects
<1>3. S \in SUBSET Objects /\ c \in S
  BY <1>1, ReachType
<1>4. ASSUME NEW o \in S, NEW k \in Kids[o]
      PROVE  k \in S
  <2>1. o \in Objects /\ o \in Reach[c] /\ k \in Reach[c]
    BY <1>1, <1>4, ReachType, ReachClosed DEF Closed
  <2>2. CASE o \in Blobs
    BY <2>2, <1>4, KidsByKind
  <2>3. CASE o \in Trees
    BY <2>1, <2>3, <1>1, <1>4, KidsByKind, EdgesWellTyped, ObjectKindsDisjoint
  <2>4. CASE o \in Commits
    <3>1. k \in {TreeOf[o], ParentOf[o]}
      BY <2>4, <1>4, KidsByKind
    <3>2. TreeOf[o] \in Trees /\ TreeOf[o] # x
      BY <2>4, <1>1, EdgesWellTyped, ObjectKindsDisjoint
    <3>3. ParentOf[o] # x
      BY <2>1, <2>4, <1>2
    <3>4. QED
      BY <3>1, <3>2, <3>3, <2>1
  <2>5. QED
    BY <2>1, <2>2, <2>3, <2>4 DEF Objects
<1>5. Closed(S)
  BY <1>4 DEF Closed
<1>6. x \in S
  BY <1>1, <1>3, <1>5, ReachMinimal
<1>7. QED
  BY <1>6

\* What an object reaches, everything that reaches it reaches.
LEMMA ReachTransitive ==
    ASSUME NEW c \in Commits \cup {None}, NEW o \in ReachFrom(c)
    PROVE  Reach[o] \subseteq ReachFrom(c)
  BY ReachFromFacts, ReachMinimal

\* A directory never leads to a save.
LEMMA NoCommitBelowTree ==
    ASSUME NEW t \in Trees
    PROVE  Reach[t] \cap Commits = {}
<1> DEFINE S == Blobs \cup Trees
<1>1. S \in SUBSET Objects /\ t \in S
  BY DEF Objects
<1>2. Closed(S)
  BY KidsByKind, EdgesWellTyped DEF Closed
<1>3. Reach[t] \subseteq S
  BY <1>1, <1>2, ReachMinimal
<1>4. QED
  BY <1>3, ObjectKindsDisjoint

\* The saves of a branch are its tip and the saves before it (rev_list).
LEMMA HistoryStep ==
    ASSUME NEW c \in Commits
    PROVE  History(c) \subseteq {c} \cup History(ParentOf[c])
<1> DEFINE S == {c} \cup Reach[TreeOf[c]] \cup ReachFrom(ParentOf[c])
<1>1. /\ TreeOf[c] \in Trees /\ TreeOf[c] \in Objects
      /\ ParentOf[c] \in Commits \cup {None}
      /\ c \in Objects /\ c # None
  BY EdgesWellTyped, ObjectsFinite DEF Objects
<1>2. S \in SUBSET Objects /\ c \in S
  BY <1>1, ReachType, ReachFromFacts
<1>3. Kids[c] \subseteq S
  BY <1>1, KidsByKind, ReachType, ReachFromFacts
<1>4. Closed(Reach[TreeOf[c]]) /\ Closed(ReachFrom(ParentOf[c]))
  BY <1>1, ReachClosed, ReachFromFacts
<1>5. Closed(S)
  BY <1>3, <1>4 DEF Closed
<1>6. Reach[c] \subseteq S
  BY <1>2, <1>5, ReachMinimal
<1>7. QED
  BY <1>1, <1>6, NoCommitBelowTree DEF History, ReachFrom

-----------------------------------------------------------------------------
(***************************************************************************)
(* Types                                                                   *)
(***************************************************************************)

\* filter_branch in rm.py goes through the saves of one branch.
LEMMA NextSaveType ==
    ASSUME NEW c \in Commits, NEW x \in History(c)
    PROVE  NextSave(x, c) \in History(c) \cup {None}
  BY HasSuccessor DEF NextSave

\* A save's history is made of commits.
LEMMA HistoryType ==
    ASSUME NEW c \in Commits \cup {None}
    PROVE  History(c) \subseteq Commits
  BY DEF History

\* The job a writer has at each kind of step.
LEMMA JobType ==
    ASSUME TypeOK, NEW w \in Writers
    PROVE  /\ job[w] \in Jobs
           /\ job[w].op = "none" => job[w] = NoJob
           /\ job[w].op = "save" => job[w] \in SaveJobs
           /\ job[w].op = "rm" => job[w] \in RmJobs
           /\ job[w].op \in {"none", "save", "rm"}
<1>1. job[w] \in {NoJob} \cup SaveJobs \cup RmJobs
  BY DEF TypeOK, Jobs
<1>2. CASE job[w] = NoJob
  BY <1>1, <1>2 DEF NoJob, Jobs
<1>3. CASE job[w] \in SaveJobs
  BY <1>1, <1>3 DEF SaveJobs, Jobs
<1>4. CASE job[w] \in RmJobs
  BY <1>1, <1>4 DEF RmJobs, Jobs
<1>5. QED
  BY <1>1, <1>2, <1>3, <1>4

\* maybe_write in git.py touches the open pack, the snapshot and the phase.
LEMMA MaybeWriteType ==
    ASSUME TypeOK, NEW w \in Writers, NEW o \in Objects, MaybeWrite(w, o)
    PROVE  /\ cache' \in [Writers -> (SUBSET Objects) \cup {NotLoaded}]
           /\ open' \in [Writers -> SUBSET Objects]
           /\ phase' \in [Writers -> {"idle", "write", "full", "close", "ref"}]
<1>1. Snapshot(w) \in (SUBSET Objects) \cup {NotLoaded}
  BY DEF Snapshot, Indexed, TypeOK
<1>2. QED
  BY <1>1 DEF MaybeWrite, TypeOK

\* The end of a session puts everything back.
LEMMA EndSessionType ==
    ASSUME TypeOK, NEW w \in Writers, EndSession(w)
    PROVE  /\ phase' \in [Writers -> {"idle", "write", "full", "close", "ref"}]
           /\ job' \in [Writers -> Jobs]
           /\ open' \in [Writers -> SUBSET Objects]
           /\ cache' \in [Writers -> (SUBSET Objects) \cup {NotLoaded}]
  BY DEF EndSession, Jobs, TypeOK

\* A step of a writer keeps the types.
LEMMA WriterStepType ==
    ASSUME TypeOK, NEW w \in Writers, WriterStep(w)
    PROVE  TypeOK'
<1> USE DEF disk, sessions, marks, sweepVars, packing, gcVars, aux
<1>1. ASSUME NEW o \in Objects, SaveObject(w, o)
      PROVE  TypeOK'
  BY <1>1, MaybeWriteType DEF SaveObject, TypeOK
<1>2. ASSUME NEW o \in Objects, SaveKnown(w, o)
      PROVE  TypeOK'
  BY <1>2 DEF SaveKnown, Snapshot, Indexed, TypeOK
<1>3. CASE SaveCommit(w)
  <2>1. job[w].new \in Objects
    BY <1>3, JobType DEF SaveCommit, SaveJobs, Objects
  <2>2. QED
    BY <1>3, <2>1, MaybeWriteType DEF SaveCommit, TypeOK
<1>4. CASE SaveClose(w)
  BY <1>4 DEF SaveClose, TypeOK
<1>5. CASE RmExclude(w)
  <2>1. job[w] \in RmJobs
    BY <1>5, JobType DEF RmExclude
  <2>2. /\ job[w].old \in Commits
        /\ job[w].at \in History(job[w].old)
    BY <1>5, <2>1 DEF RmExclude, RmJobs
  <2>3. NextSave(job[w].at, job[w].old) \in History(job[w].old) \cup {None}
    BY <2>2, NextSaveType
  <2>4. [job[w] EXCEPT !.at = NextSave(job[w].at, job[w].old)] \in RmJobs
    BY <2>1, <2>2, <2>3, HistoryType DEF RmJobs
  <2>5. QED
    BY <1>5, <2>4 DEF RmExclude, TypeOK, Jobs
<1>6. ASSUME NEW c \in Commits, RmAppend(w, c)
      PROVE  TypeOK'
  <2>1. job[w] \in RmJobs
    BY <1>6, JobType DEF RmAppend
  <2>2. /\ job[w].old \in Commits
        /\ job[w].at \in History(job[w].old)
    BY <1>6, <2>1 DEF RmAppend, RmJobs
  <2>3. NextSave(job[w].at, job[w].old) \in History(job[w].old) \cup {None}
    BY <2>2, NextSaveType
  <2>4. [job[w] EXCEPT !.new = c, !.at = NextSave(job[w].at, job[w].old)] \in RmJobs
    BY <2>1, <2>2, <2>3, HistoryType DEF RmJobs
  <2>5. job' = [job EXCEPT ![w] =
                    [job[w] EXCEPT !.new = c, !.at = NextSave(job[w].at, job[w].old)]]
    BY <1>6, <2>1 DEF RmAppend, RmJobs, TypeOK
  <2>6. c \in Objects
    BY DEF Objects
  <2>7. QED
    BY <1>6, <2>4, <2>5, <2>6, MaybeWriteType DEF RmAppend, TypeOK, Jobs
<1>7. CASE RmClose(w)
  BY <1>7 DEF RmClose, TypeOK
<1>8. CASE RenamePack(w)
  BY <1>8 DEF RenamePack, TypeOK
<1>9. CASE RenameIdx(w)
  BY <1>9 DEF RenameIdx, TypeOK
<1>10. CASE NothingToFinish(w)
  BY <1>10 DEF NothingToFinish, TypeOK
<1>11. CASE UpdateRef(w)
  <2>1. job[w].op # "none" => job[w].ref \in Refs /\ job[w].new \in Commits \cup {None}
    BY JobType DEF SaveJobs, RmJobs
  <2>2. refs' \in [Refs -> Commits \cup {None}]
    BY <1>11, <2>1 DEF UpdateRef, TypeOK
  <2>3. QED
    BY <1>11, <2>2, EndSessionType DEF UpdateRef, TypeOK
<1>12. QED
  BY <1>1, <1>2, <1>3, <1>4, <1>5, <1>6, <1>7, <1>8, <1>9, <1>10, <1>11
     DEF WriterStep

\* A step of the collector keeps the types.
LEMMA GcStepType ==
    ASSUME TypeOK, GcStep
    PROVE  TypeOK'
<1> USE DEF TypeOK, disk, sessions, marks, sweepVars, packing, gcVars, aux
<1>1. ASSUME NEW p \in todo, GcVisitDead(p)
      PROVE  TypeOK'
  BY <1>1 DEF GcVisitDead
<1>2. ASSUME NEW p \in todo, GcVisitKeep(p)
      PROVE  TypeOK'
  BY <1>2 DEF GcVisitKeep
<1>3. ASSUME NEW p \in todo, GcVisitRewrite(p)
      PROVE  TypeOK'
  BY <1>3 DEF GcVisitRewrite, LiveIn
<1>4. ASSUME NEW o \in rest, GcCopy(o)
      PROVE  TypeOK'
  BY <1>4 DEF GcCopy
<1>5. CASE GcCopied
  BY <1>5 DEF GcCopied, NoPack
<1>6. CASE GcClose
  BY <1>6 DEF GcClose
<1>7. CASE GcRenamePack
  BY <1>7 DEF GcRenamePack
<1>8. CASE GcRenameIdx
  BY <1>8 DEF GcRenameIdx
<1>9. ASSUME NEW p \in stale, GcUnlinkPack(p)
      PROVE  TypeOK'
  BY <1>9 DEF GcUnlinkPack
<1>10. ASSUME NEW p \in stale, GcUnlinkIdx(p)
      PROVE  TypeOK'
  BY <1>10 DEF GcUnlinkIdx
<1>11. CASE GcPurged
  <2>1. gcPhase' \in {"idle", "sweep", "rewrite", "break", "purge"}
    <3>1. CASE gcBack = "close"
      BY <1>11, <3>1 DEF GcPurged
    <3>2. CASE gcBack # "close"
      BY <1>11, <3>2 DEF GcPurged
    <3>3. QED
      BY <3>1, <3>2
  <2>2. /\ live' \subseteq Objects /\ threshold' \in 0..100
        /\ interrupted' \in BOOLEAN /\ dangling' \in BOOLEAN
    <3>1. CASE gcBack = "idle"
      <4>1. interrupted' = FALSE /\ live' = {} /\ threshold' = 0
        BY <1>11, <3>1 DEF GcPurged
      <4>2. interrupted' \in BOOLEAN
        BY <4>1
      <4>3. dangling' = (dangling \/ ~(Indexed \subseteq Stored))
        BY <1>11, <3>1 DEF GcPurged
      <4>4. dangling' \in BOOLEAN
        BY <4>3
      <4>5. QED
        BY <4>1, <4>2, <4>4
    <3>2. CASE gcBack # "idle"
      BY <1>11, <3>2 DEF GcPurged
    <3>3. QED
      BY <3>1, <3>2
  <2>3. gcBack' = "idle"
    BY <1>11 DEF GcPurged
  <2>4. QED
    BY <1>11, <2>1, <2>2, <2>3 DEF GcPurged, NoPack
<1>12. QED
  BY <1>1, <1>2, <1>3, <1>4, <1>5, <1>6, <1>7, <1>8, <1>9, <1>10, <1>11
     DEF GcStep

\* Starting an operation, removing a branch and dying keep the types.
LEMMA EnvironmentType ==
    ASSUME TypeOK, Environment
    PROVE  TypeOK'
<1> USE DEF disk, sessions, marks, sweepVars, packing, gcVars, aux
<1>1. ASSUME NEW w \in Writers, NEW r \in Refs, NEW c \in Commits, SaveBegin(w, r, c)
      PROVE  TypeOK'
  <2>1. [op |-> "save", ref |-> r, old |-> refs[r], new |-> c, at |-> None] \in Jobs
    BY DEF TypeOK, Jobs, SaveJobs
  <2>2. QED
    BY <1>1, <2>1 DEF SaveBegin, TypeOK
<1>2. ASSUME NEW w \in Writers, NEW r \in Refs, NEW e \in Commits, RmBegin(w, r, e)
      PROVE  TypeOK'
  <2>1. refs[r] \in Commits /\ e \in History(refs[r])
    BY <1>2 DEF RmBegin, TypeOK
  <2>2. NextSave(e, refs[r]) \in History(refs[r]) \cup {None}
    BY <2>1, NextSaveType
  <2>3. [op |-> "rm", ref |-> r, old |-> refs[r], new |-> ParentOf[e],
         at |-> NextSave(e, refs[r])] \in RmJobs
    BY <2>1, <2>2, HistoryType, EdgesWellTyped DEF RmJobs
  <2>4. QED
    BY <1>2, <2>3 DEF RmBegin, TypeOK, Jobs
<1>3. ASSUME NEW r \in Refs, RmBranch(r)
      PROVE  TypeOK'
  BY <1>3 DEF RmBranch, TypeOK
<1>4. ASSUME NEW t \in Thresholds, NEW extra \in SUBSET Blobs, GcBegin(t, extra)
      PROVE  TypeOK'
  <2>1. Needed \subseteq Objects
    BY ReachFromFacts DEF Needed, TypeOK
  <2>2. t \in 0..100 /\ extra \subseteq Objects
    BY RepositoryParameters DEF Objects
  <2>3. QED
    BY <1>4, <2>1, <2>2 DEF GcBegin, TypeOK
<1>5. CASE GcNothing
  BY <1>5 DEF GcNothing, TypeOK
<1>6. ASSUME NEW w \in Writers, SaveFail(w)
      PROVE  TypeOK'
  <2>1. faults' \in 0..MaxFaults
    BY <1>6, RepositoryParameters DEF SaveFail, Fault, TypeOK
  <2>2. QED
    BY <1>6, <2>1 DEF SaveFail, TypeOK, Jobs
<1>7. ASSUME NEW w \in Writers, WriterCrash(w)
      PROVE  TypeOK'
  <2>1. faults' \in 0..MaxFaults
    BY <1>7, RepositoryParameters DEF WriterCrash, Fault, TypeOK
  <2>2. QED
    BY <1>7, <2>1, EndSessionType DEF WriterCrash, TypeOK
<1>8. CASE GcCrash
  <2>1. faults' \in 0..MaxFaults
    BY <1>8, RepositoryParameters DEF GcCrash, Fault, TypeOK
  <2>2. QED
    BY <1>8, <2>1 DEF GcCrash, TypeOK, NoPack
<1>9. QED
  BY <1>1, <1>2, <1>3, <1>4, <1>5, <1>6, <1>7, <1>8 DEF Environment

\* TypeOK: the shape of every variable, whatever step a writer or gc takes;
\* the save an rm is at belongs to the history it rewrites.
THEOREM TypeInvariance == Spec => []TypeOK
<1>1. Init => TypeOK
  <2>1. 0 \in 0..MaxFaults /\ 0 \in 0..100
    BY RepositoryParameters
  <2>2. QED
    BY <2>1 DEF Init, TypeOK, Jobs, NoPack
<1>2. TypeOK /\ [Next]_vars => TypeOK'
  <2>1. ASSUME TypeOK, UNCHANGED vars
        PROVE  TypeOK'
    BY <2>1 DEF TypeOK, vars, disk, sessions, marks, sweepVars, packing, gcVars, aux
  <2>2. QED
    BY <2>1, WriterStepType, GcStepType, EnvironmentType DEF Next
<1>3. QED
  BY <1>1, <1>2, PTL DEF Spec

-----------------------------------------------------------------------------
(***************************************************************************)
(* What the control alone guarantees                                       *)
(***************************************************************************)

\* maybe_write in git.py touches one writer, and leaves it writing.
LEMMA MaybeWriteFrame ==
    ASSUME TypeOK, NEW w \in Writers, NEW o, phase[w] = "write", MaybeWrite(w, o)
    PROVE  /\ phase'[w] \in {"write", "full"}
           /\ \A v \in Writers \ {w} :
                  phase'[v] = phase[v] /\ open'[v] = open[v] /\ cache'[v] = cache[v]
  BY DEF MaybeWrite, TypeOK

\* A session nobody touches keeps its shape.
LEMMA ShapeKept ==
    ASSUME NEW v \in Writers, SessionShape(v),
           phase'[v] = phase[v], job'[v] = job[v],
           open'[v] = open[v], cache'[v] = cache[v],
           MayAdd => MayAdd'
    PROVE  SessionShape(v)'
  BY DEF SessionShape

\* So does a writer at rest.
LEMMA ShapeAtRest ==
    ASSUME NEW v \in Writers, phase'[v] = "idle", open'[v] = {}, cache'[v] = NotLoaded
    PROVE  SessionShape(v)'
  BY DEF SessionShape

\* The collector's part holds while it rests.
LEMMA GcControlAtRest ==
    ASSUME GcIdleInv, GcControlInv, gcPhase = "idle", UNCHANGED gcVars
    PROVE  GcIdleInv' /\ GcControlInv' /\ GcSweptInv'
  BY DEF gcVars, marks, sweepVars, packing, GcIdleInv, GcControlInv, GcSweptInv

\* A step of a writer changes its own session only, while the collector rests.
LEMMA ShapeLocal ==
    ASSUME TypeOK, ControlInv, NEW w \in Writers, MayAdd,
           UNCHANGED <<gcVars, interrupted>>,
           SessionShape(w)',
           \A v \in Writers \ {w} :
               phase'[v] = phase[v] /\ job'[v] = job[v]
               /\ open'[v] = open[v] /\ cache'[v] = cache[v]
    PROVE  ControlInv'
<1>1. gcPhase = "idle" /\ MayAdd'
  BY DEF MayAdd, gcVars
<1>2. \A v \in Writers : SessionShape(v)'
  BY <1>1, ShapeKept DEF ControlInv
<1>3. QED
  BY <1>1, <1>2, GcControlAtRest DEF ControlInv

\* What an rm has rewritten shows no tree the branch did not have.
LEMMA RmAppendTrees ==
    ASSUME TypeOK, NEW w \in Writers, SessionShape(w), NEW c \in Commits, RmAppend(w, c)
    PROVE  /\ job'[w].op = "rm" /\ job'[w].old = job[w].old /\ job'[w].new = c
           /\ SavedTrees(c) \subseteq SavedTrees(job[w].old)
<1>1. job[w] \in RmJobs
  BY JobType DEF RmAppend
<1>2. /\ phase[w] = "write" /\ job[w].op = "rm" /\ job[w].at # None
      /\ TreeOf[c] = TreeOf[job[w].at] /\ ParentOf[c] = job[w].new
      /\ job' = [job EXCEPT ![w].new = c,
                            ![w].at = NextSave(job[w].at, job[w].old)]
  BY DEF RmAppend
<1>3. job'[w].op = "rm" /\ job'[w].old = job[w].old /\ job'[w].new = c
  BY <1>1, <1>2 DEF TypeOK, RmJobs
<1>4. job[w].at \in History(job[w].old)
  BY <1>1, <1>2 DEF RmJobs
<1>5. SavedTrees(job[w].new) \subseteq SavedTrees(job[w].old)
  BY <1>2 DEF SessionShape
<1>6. History(c) \subseteq {c} \cup History(job[w].new)
  BY <1>2, HistoryStep
<1>7. SavedTrees(c) \subseteq SavedTrees(job[w].old)
  BY <1>2, <1>4, <1>5, <1>6 DEF SavedTrees
<1>8. QED
  BY <1>3, <1>7

\* A session begins, writes, finishes its pack and ends without losing what
\* it was asked to do (save, rm, finish_pack).
LEMMA WriterControl ==
    ASSUME TypeOK, ControlInv, NEW w \in Writers,
           WriterStep(w) \/ SaveFail(w) \/ WriterCrash(w)
    PROVE  ControlInv'
<1>1. /\ phase[w] # "idle" /\ UNCHANGED <<gcVars, interrupted>>
  BY DEF WriterStep, SaveObject, SaveKnown, SaveCommit, SaveClose, SaveFail, RmExclude,
         RmAppend, RmClose, RenamePack, RenameIdx, NothingToFinish, UpdateRef, WriterCrash
<1>2. SessionShape(w) /\ MayAdd /\ MayAdd'
  BY <1>1 DEF ControlInv, SessionShape, MayAdd, gcVars
<1>3. ASSUME NEW o, phase[w] = "write", MaybeWrite(w, o), job' = job
      PROVE  ControlInv'
  <2>1. SessionShape(w)'
    BY <1>2, <1>3, MaybeWriteFrame DEF SessionShape
  <2>2. QED
    BY <1>1, <1>2, <1>3, <2>1, MaybeWriteFrame, ShapeLocal
<1>4. CASE (\E o \in Objects : SaveObject(w, o)) \/ SaveCommit(w)
  BY <1>3, <1>4 DEF SaveObject, SaveCommit
<1>5. ASSUME NEW o \in Objects, SaveKnown(w, o)
      PROVE  ControlInv'
  <2>1. /\ phase[w] = "write" /\ UNCHANGED <<phase, job, open>>
        /\ cache' = [cache EXCEPT ![w] = Snapshot(w)]
    BY <1>5 DEF SaveKnown
  <2>2. SessionShape(w)'
    BY <1>2, <2>1 DEF SessionShape
  <2>3. QED
    BY <1>1, <1>2, <2>1, <2>2, ShapeLocal DEF TypeOK
<1>6. CASE SaveClose(w) \/ RmClose(w)
  <2>1. phase' = [phase EXCEPT ![w] = "close"] /\ UNCHANGED <<job, open, cache>>
    BY <1>6 DEF SaveClose, RmClose
  <2>2. SessionShape(w)'
    BY <1>1, <1>2, <2>1 DEF SessionShape, TypeOK
  <2>3. QED
    BY <1>1, <1>2, <2>1, <2>2, ShapeLocal DEF TypeOK
<1>7. CASE SaveFail(w)
  <2>1. /\ phase' = [phase EXCEPT ![w] = "close"] /\ job' = [job EXCEPT ![w] = NoJob]
        /\ UNCHANGED <<open, cache>>
    BY <1>7 DEF SaveFail
  <2>2. job'[w].op = "none" /\ phase'[w] = "close"
    BY <2>1 DEF TypeOK, NoJob
  <2>3. SessionShape(w)'
    BY <1>2, <2>1, <2>2 DEF SessionShape
  <2>4. QED
    BY <1>1, <1>2, <2>1, <2>3, ShapeLocal DEF TypeOK
<1>8. CASE RmExclude(w)
  <2>1. job[w] \in RmJobs
    BY <1>8, JobType DEF RmExclude
  <2>2. /\ phase[w] = "write" /\ job[w].op = "rm"
        /\ job' = [job EXCEPT ![w].at = NextSave(job[w].at, job[w].old)]
        /\ UNCHANGED <<phase, open, cache>>
    BY <1>8 DEF RmExclude
  <2>3. job'[w].op = "rm" /\ job'[w].old = job[w].old /\ job'[w].new = job[w].new
    BY <2>1, <2>2 DEF TypeOK, RmJobs
  <2>4. SessionShape(w)'
    BY <1>2, <2>2, <2>3 DEF SessionShape
  <2>5. QED
    BY <1>1, <1>2, <2>2, <2>4, ShapeLocal DEF TypeOK
<1>9. ASSUME NEW c \in Commits, RmAppend(w, c)
      PROVE  ControlInv'
  <2>1. /\ phase[w] = "write" /\ MaybeWrite(w, c)
        /\ \A v \in Writers \ {w} : job'[v] = job[v]
    BY <1>9 DEF RmAppend, TypeOK
  <2>2. SessionShape(w)'
    BY <1>2, <1>9, <2>1, MaybeWriteFrame, RmAppendTrees DEF SessionShape
  <2>3. QED
    BY <1>1, <1>2, <2>1, <2>2, MaybeWriteFrame, ShapeLocal
<1>10. CASE RenamePack(w)
  <2>1. UNCHANGED <<phase, job, open, cache>>
    BY <1>10 DEF RenamePack, sessions
  <2>2. SessionShape(w)'
    BY <1>2, <2>1, ShapeKept
  <2>3. QED
    BY <1>1, <1>2, <2>1, <2>2, ShapeLocal
<1>11. CASE RenameIdx(w) \/ NothingToFinish(w)
  <2>1. /\ job' = job /\ open'[w] = {} /\ cache' = [cache EXCEPT ![w] = NotLoaded]
        /\ phase'[w] \in {"write", "ref"}
        /\ \A v \in Writers \ {w} : phase'[v] = phase[v] /\ open'[v] = open[v]
    BY <1>11 DEF RenameIdx, NothingToFinish, TypeOK
  <2>2. SessionShape(w)'
    BY <1>1, <1>2, <2>1 DEF SessionShape, TypeOK
  <2>3. QED
    BY <1>1, <1>2, <2>1, <2>2, ShapeLocal DEF TypeOK
<1>12. CASE UpdateRef(w) \/ WriterCrash(w)
  <2>1. EndSession(w)
    BY <1>12 DEF UpdateRef, WriterCrash
  <2>2. SessionShape(w)'
    BY <2>1, ShapeAtRest DEF EndSession, TypeOK
  <2>3. QED
    BY <1>1, <1>2, <2>1, <2>2, ShapeLocal DEF EndSession, TypeOK
<1>13. QED
  BY <1>4, <1>5, <1>6, <1>7, <1>8, <1>9, <1>10, <1>11, <1>12 DEF WriterStep

\* While no data may be added every writer rests, and goes on resting.
LEMMA WritersAtRest ==
    ASSUME ControlInv, ~MayAdd, UNCHANGED sessions
    PROVE  \A v \in Writers : phase[v] = "idle" /\ open[v] = {} /\ SessionShape(v)'
  BY ShapeAtRest DEF ControlInv, SessionShape, sessions

\* What a pack must be to stay as it is, as gc sees it: the threshold speaks
\* of blobs git can still read.
LEMMA KeptIsTidy ==
    ASSUME TypeOK, NEW p \in todo, ~MustRewrite(p), MostlyLive(p)
    PROVE  Tidy(p)
<1>1. LiveIn(p) = p \cap live
  BY DEF MustRewrite, LiveIn
<1>2. p \ Blobs \subseteq live
  BY DEF MustRewrite, LiveIn
<1>3. QED
  BY <1>1, <1>2 DEF MostlyLive, Tidy

\* Tidiness depends on the marks only.
LEMMA TidyKept ==
    ASSUME live' = live, threshold' = threshold
    PROVE  \A q : Tidy(q)' <=> Tidy(q)
  BY DEF Tidy

\* "No pack" is tidy.
LEMMA TidyEmpty == Tidy(NoPack)
  BY DEF Tidy, NoPack

\* The loop of sweep settles one pack after another, and copies only what
\* was marked.
LEMMA GcStepControl ==
    ASSUME TypeOK, ControlInv, GcStep
    PROVE  ControlInv'
<1> USE DEF disk, marks, packing, sweepVars
<1>1. /\ gcPhase # "idle" /\ ~MayAdd /\ UNCHANGED sessions
  BY DEF GcStep, GcVisitDead, GcVisitKeep, GcVisitRewrite, GcCopy, GcCopied, GcClose,
         GcRenamePack, GcRenameIdx, GcUnlinkPack, GcUnlinkIdx, GcPurged, MayAdd
<1>2. \A v \in Writers : SessionShape(v)'
  BY <1>1, WritersAtRest
<1>3. GcControlInv /\ GcSweptInv
  BY DEF ControlInv
<1> SUFFICES GcIdleInv' /\ GcControlInv' /\ GcSweptInv'
  BY <1>2 DEF ControlInv
<1>4. ASSUME NEW p \in todo, GcVisitDead(p) \/ GcVisitKeep(p) \/ GcVisitRewrite(p)
      PROVE  GcIdleInv' /\ GcControlInv' /\ GcSweptInv'
  <2>1. /\ gcPhase = "sweep" /\ gcPhase' \in {"sweep", "rewrite"} /\ gcPhase' # "idle"
        /\ UNCHANGED <<idxs, live, threshold, gcBack, gcOpen, fresh>>
        /\ todo' = todo \ {p}
    BY <1>4 DEF GcVisitDead, GcVisitKeep, GcVisitRewrite
  <2>2. cur = NoPack /\ rest = {} /\ fresh = NoPack
    BY <1>3, <2>1 DEF GcControlInv
  <2>3. GcIdleInv' /\ GcControlInv'
    <3>1. gcPhase' = "sweep" => cur' = NoPack /\ rest' = {}
      BY <1>4, <2>2 DEF GcVisitDead, GcVisitKeep, GcVisitRewrite
    <3>2. QED
      BY <2>1, <2>2, <3>1 DEF GcIdleInv, GcControlInv
  <2>4. rest' \subseteq live
    BY <1>3, <1>4, <2>1 DEF GcVisitDead, GcVisitKeep, GcVisitRewrite, GcSweptInv, LiveIn
  <2>5. \/ p \in stale' \cup {cur'}
        \/ Tidy(p)
    BY <1>4, KeptIsTidy DEF GcVisitDead, GcVisitKeep, GcVisitRewrite
  <2>6. stale \subseteq stale'
    BY <1>4 DEF GcVisitDead, GcVisitKeep, GcVisitRewrite
  <2>7. ASSUME NEW q \in idxs
        PROVE  q \in todo' \cup stale' \cup {cur'} \/ Tidy(q)
    <3>1. CASE q = p
      BY <2>5, <3>1
    <3>2. CASE q # p /\ q = NoPack
      BY <3>2, TidyEmpty
    <3>3. CASE q # p /\ q # NoPack
      BY <1>3, <2>1, <2>2, <2>6, <3>3 DEF GcSweptInv
    <3>4. QED
      BY <3>1, <3>2, <3>3
  <2>8. \A q : Tidy(q)' <=> Tidy(q)
    BY <2>1, TidyKept
  <2>9. GcSweptInv'
    BY <1>3, <2>1, <2>4, <2>7, <2>8 DEF GcSweptInv
  <2>10. QED
    BY <2>3, <2>9
<1>5. ASSUME NEW o \in rest, GcCopy(o)
      PROVE  GcIdleInv' /\ GcControlInv' /\ GcSweptInv'
  <2>1. /\ gcPhase = "rewrite"
        /\ gcPhase' = "rewrite" \/ (gcPhase' = "break" /\ gcBack' = "rewrite")
        /\ UNCHANGED <<idxs, live, threshold, todo, cur, stale, fresh>>
        /\ rest' = rest \ {o} /\ gcOpen' = gcOpen \cup {o}
    BY <1>5 DEF GcCopy
  <2>2. \A q : Tidy(q)' <=> Tidy(q)
    BY <2>1, TidyKept
  <2>3. GcSweptInv'
    BY <1>3, <2>1, <2>2 DEF GcSweptInv
  <2>4. QED
    BY <1>3, <2>1, <2>3 DEF GcIdleInv, GcControlInv
<1>6. CASE GcCopied
  <2>1. /\ gcPhase = "rewrite" /\ gcPhase' = "sweep"
        /\ UNCHANGED <<idxs, live, threshold, todo, rest, gcOpen, gcBack, fresh>>
        /\ rest = {} /\ stale' = stale \cup {cur} /\ cur' = NoPack
    BY <1>6 DEF GcCopied
  <2>2. \A q : Tidy(q)' <=> Tidy(q)
    BY <2>1, TidyKept
  <2>3. GcSweptInv'
    BY <1>3, <2>1, <2>2 DEF GcSweptInv
  <2>4. QED
    BY <1>3, <2>1, <2>3 DEF GcIdleInv, GcControlInv
<1>7. CASE GcClose
  <2>1. /\ gcPhase = "sweep" /\ todo = {}
        /\ UNCHANGED <<idxs, live, threshold, todo, cur, rest, gcOpen, stale, fresh>>
        /\ IF gcOpen = {} THEN gcPhase' = "purge" /\ gcBack' = "idle"
                          ELSE gcPhase' = "break" /\ gcBack' = "close"
    BY <1>7 DEF GcClose
  <2>2. \A q : Tidy(q)' <=> Tidy(q)
    BY <2>1, TidyKept
  <2>3. GcSweptInv'
    BY <1>3, <2>1, <2>2 DEF GcSweptInv
  <2>4. QED
    BY <1>3, <2>1, <2>3 DEF GcIdleInv, GcControlInv
<1>8. CASE GcRenamePack
  <2>1. UNCHANGED <<idxs, gcVars>>
    BY <1>8 DEF GcRenamePack
  <2>2. \A q : Tidy(q)' <=> Tidy(q)
    BY <2>1, TidyKept DEF gcVars
  <2>3. GcSweptInv'
    BY <1>1, <1>3, <2>1, <2>2 DEF gcVars, GcSweptInv
  <2>4. QED
    BY <1>1, <1>3, <2>1, <2>3 DEF gcVars, GcIdleInv, GcControlInv
<1>9. CASE GcRenameIdx
  <2>1. /\ gcPhase = "break" /\ gcPhase' = "purge" /\ gcBack' = gcBack
        /\ idxs' = idxs \cup {gcOpen} /\ fresh' = gcOpen /\ gcOpen' = {}
        /\ UNCHANGED <<live, threshold, todo, cur, rest, stale>>
    BY <1>9 DEF GcRenameIdx
  <2>2. gcOpen \subseteq live /\ Tidy(gcOpen)
    BY <1>3, <2>1 DEF GcSweptInv, Tidy
  <2>3. \A q : Tidy(q)' <=> Tidy(q)
    BY <2>1, TidyKept
  <2>4. GcSweptInv'
    BY <1>3, <2>1, <2>2, <2>3 DEF GcSweptInv
  <2>5. QED
    BY <1>3, <2>1, <2>2, <2>4 DEF GcIdleInv, GcControlInv
<1>10. ASSUME NEW p \in stale, GcUnlinkPack(p) \/ GcUnlinkIdx(p)
       PROVE  GcIdleInv' /\ GcControlInv' /\ GcSweptInv'
  <2>1. idxs' \subseteq idxs /\ UNCHANGED gcVars
    BY <1>10 DEF GcUnlinkPack, GcUnlinkIdx
  <2>2. \A q : Tidy(q)' <=> Tidy(q)
    BY <2>1, TidyKept DEF gcVars
  <2>3. GcSweptInv'
    BY <1>1, <1>3, <2>1, <2>2 DEF gcVars, GcSweptInv
  <2>4. QED
    BY <1>1, <1>3, <2>1, <2>3 DEF gcVars, GcIdleInv, GcControlInv
<1>11. CASE GcPurged
  <2>1. /\ gcPhase = "purge" /\ gcOpen = {} /\ Doomed \cap idxs = {}
        /\ stale' = {} /\ fresh' = NoPack /\ gcBack' = "idle"
        /\ UNCHANGED <<idxs, todo, cur, rest, gcOpen>>
    BY <1>3, <1>11 DEF GcPurged, GcControlInv
  <2>2. CASE gcBack = "idle"
    <3>1. gcPhase' = "idle" /\ live' = {}
      BY <1>11, <2>2 DEF GcPurged
    <3>2. todo = {} /\ cur = NoPack /\ rest = {}
      BY <1>3, <2>1, <2>2 DEF GcControlInv
    <3>3. QED
      BY <2>1, <3>1, <3>2 DEF GcIdleInv, GcControlInv, GcSweptInv
  <2>3. CASE gcBack # "idle"
    <3>1. /\ UNCHANGED <<live, threshold>>
          /\ gcPhase' = "rewrite" \/ (gcPhase' = "purge" /\ gcBack = "close")
      BY <1>11, <2>3 DEF GcPurged, TypeOK
    <3>2. \A q \in idxs : q \in todo \cup {cur} \/ Tidy(q)
      <4>1. \A q \in idxs \cap stale : Tidy(q)
        BY <1>3, <2>1 DEF Tidy, Doomed, GcSweptInv
      <4>2. QED
        BY <1>3, <2>1, <4>1 DEF GcSweptInv
    <3>3. \A q : Tidy(q)' <=> Tidy(q)
      BY <3>1, TidyKept
    <3>4. GcSweptInv'
      BY <1>3, <2>1, <3>1, <3>2, <3>3 DEF GcSweptInv, NoPack
    <3>5. QED
      BY <1>3, <2>1, <2>3, <3>1, <3>4 DEF GcIdleInv, GcControlInv
  <2>4. QED
    BY <2>2, <2>3
<1>12. QED
  BY <1>4, <1>5, <1>6, <1>7, <1>8, <1>9, <1>10, <1>11 DEF GcStep

\* Users start operations when nothing forbids it; a process that dies leaves
\* nothing behind in the control.
LEMMA EnvironmentControl ==
    ASSUME TypeOK, ControlInv, Environment
    PROVE  ControlInv'
<1>1. ASSUME NEW w \in Writers, NEW r \in Refs, NEW c \in Commits, SaveBegin(w, r, c)
      PROVE  ControlInv'
  <2>1. /\ MayAdd /\ MayAdd' /\ phase[w] = "idle" /\ SessionShape(w)
        /\ UNCHANGED <<gcVars, interrupted, open, cache>>
        /\ phase'[w] = "write"
        /\ job'[w].op = "save" /\ ParentOf[job'[w].new] = job'[w].old
        /\ \A v \in Writers \ {w} : phase'[v] = phase[v] /\ job'[v] = job[v]
    BY <1>1 DEF SaveBegin, ControlInv, TypeOK, MayAdd, gcVars
  <2>2. SessionShape(w)'
    BY <2>1 DEF SessionShape
  <2>3. QED
    BY <2>1, <2>2, ShapeLocal
<1>2. ASSUME NEW w \in Writers, NEW r \in Refs, NEW e \in Commits, RmBegin(w, r, e)
      PROVE  ControlInv'
  <2>1. /\ MayAdd /\ MayAdd' /\ phase[w] = "idle" /\ SessionShape(w)
        /\ UNCHANGED <<gcVars, interrupted, open, cache>>
        /\ phase'[w] = "write" /\ job'[w].op = "rm"
        /\ job'[w].old = refs[r] /\ job'[w].new = ParentOf[e]
        /\ refs[r] \in Commits /\ e \in ReachFrom(refs[r])
        /\ \A v \in Writers \ {w} : phase'[v] = phase[v] /\ job'[v] = job[v]
    BY <1>2 DEF RmBegin, ControlInv, TypeOK, MayAdd, gcVars, History
  <2>2. SavedTrees(ParentOf[e]) \subseteq SavedTrees(refs[r])
    <3>1. ParentOf[e] # None => ParentOf[e] \in ReachFrom(refs[r])
      BY <2>1, KidsByKind, ReachFromFacts DEF Closed
    <3>2. ReachFrom(ParentOf[e]) \subseteq ReachFrom(refs[r])
      BY <2>1, <3>1, ReachTransitive DEF ReachFrom
    <3>3. QED
      BY <3>2 DEF SavedTrees, History
  <2>3. SessionShape(w)'
    BY <2>1, <2>2 DEF SessionShape
  <2>4. QED
    BY <2>1, <2>3, ShapeLocal
<1>3. ASSUME NEW r \in Refs, RmBranch(r)
      PROVE  ControlInv'
  <2>1. UNCHANGED <<idxs, sessions, gcVars, interrupted>>
    BY <1>3 DEF RmBranch, disk
  <2>2. \A v \in Writers : SessionShape(v)'
    BY <2>1, ShapeKept DEF ControlInv, sessions, MayAdd, gcVars
  <2>3. QED
    BY <2>1, <2>2 DEF ControlInv, GcIdleInv, GcControlInv, GcSweptInv, Tidy, gcVars,
                      marks, sweepVars, packing
<1>4. ASSUME NEW t \in Thresholds, NEW extra \in SUBSET Blobs, GcBegin(t, extra)
      PROVE  ControlInv'
  <2>1. /\ gcPhase = "idle" /\ gcPhase' = "sweep" /\ threshold' = t /\ todo' = idxs
        /\ \A v \in Writers : phase[v] = "idle"
        /\ UNCHANGED <<idxs, sessions, cur, rest, gcOpen, stale, fresh>>
    BY <1>4 DEF GcBegin, disk, packing
  <2>2. cur = NoPack /\ rest = {} /\ gcOpen = {} /\ fresh = {}
    BY <2>1 DEF ControlInv, GcIdleInv, NoPack
  <2>3. \A v \in Writers : SessionShape(v)'
    BY <2>1, ShapeAtRest DEF ControlInv, SessionShape, sessions
  <2>4. QED
    BY <2>1, <2>2, <2>3 DEF ControlInv, GcIdleInv, GcControlInv, GcSweptInv, NoPack
<1>5. CASE GcNothing
  <2>1. ~MayAdd /\ gcPhase = "idle" /\ UNCHANGED <<sessions, gcVars>>
    BY <1>5 DEF GcNothing, MayAdd
  <2>2. QED
    BY <2>1, WritersAtRest, GcControlAtRest DEF ControlInv
<1>6. CASE GcCrash
  <2>1. /\ ~MayAdd /\ UNCHANGED sessions
        /\ gcPhase' = "idle" /\ gcBack' = "idle" /\ live' = {} /\ todo' = {}
        /\ cur' = NoPack /\ rest' = {} /\ gcOpen' = {} /\ stale' = {}
        /\ fresh' = NoPack
    BY <1>6 DEF GcCrash, MayAdd
  <2>2. QED
    BY <2>1, WritersAtRest DEF ControlInv, GcIdleInv, GcControlInv, GcSweptInv
<1>7. QED
  BY <1>1, <1>2, <1>3, <1>4, <1>5, <1>6, WriterControl DEF Environment

\* The control's part of the invariant survives every step.
LEMMA ControlStep ==
    ASSUME TypeOK, ControlInv, [Next]_vars
    PROVE  ControlInv'
<1>1. CASE UNCHANGED vars
  <2> USE <1>1 DEF vars, disk, sessions, marks, sweepVars, packing, gcVars
  <2>1. \A v \in Writers : SessionShape(v)'
    BY ShapeKept DEF ControlInv, MayAdd
  <2>2. QED
    BY <2>1 DEF ControlInv, GcIdleInv, GcControlInv, GcSweptInv, Tidy
<1>2. QED
  BY <1>1, WriterControl, GcStepControl, EnvironmentControl DEF Next

\* The types and the control, at every moment and on every disk.
LEMMA ControlInvariant == Spec => [](TypeOK /\ ControlInv)
<1>1. Init => ControlInv
  BY DEF Init, ControlInv, SessionShape, GcIdleInv, GcControlInv, GcSweptInv
<1>2. TypeOK /\ ControlInv /\ [Next]_vars => ControlInv'
  BY ControlStep
<1>3. QED
  BY <1>1, <1>2, TypeInvariance, PTL DEF Spec

-----------------------------------------------------------------------------
(***************************************************************************)
(* The inductive invariant: writers                                        *)
(***************************************************************************)

\* What git can read is indexed.
LEMMA StoredType ==
    ASSUME TypeOK
    PROVE  Stored \subseteq Indexed /\ Stored \in SUBSET Objects
  BY DEF Stored, Indexed, TypeOK

\* A writer that works may rely on everything the indexes show.
LEMMA WriterStore ==
    ASSUME TypeOK, ControlInv, DataInv, NEW w \in Writers, phase[w] # "idle"
    PROVE  /\ MayAdd /\ gcPhase = "idle"
           /\ Indexed = Stored /\ Closed(Stored)
           /\ SessionShape(w) /\ SessionBacked(w)
<1>1. MayAdd /\ SessionShape(w) /\ SessionBacked(w)
  BY DEF ControlInv, SessionShape, DataInv
<1>2. QED
  BY <1>1, StoredType DEF MayAdd, DataInv, StoreInv

\* What a writer finds with exists is in its open pack or in the store.
LEMMA ExistsSound ==
    ASSUME TypeOK, ControlInv, DataInv, NEW w \in Writers, phase[w] # "idle",
           NEW o, Exists(w, o)
    PROVE  o \in open[w] \cup Stored
  BY WriterStore DEF Exists, Snapshot, SessionBacked

\* A session nobody touches is not disturbed by packs that appear.
LEMMA SessionGrow ==
    ASSUME NEW v \in Writers, SessionBacked(v), Stored \subseteq Stored',
           phase'[v] = phase[v], job'[v] = job[v],
           open'[v] = open[v], cache'[v] = cache[v]
    PROVE  SessionBacked(v)'
  BY DEF SessionBacked

\* A writer at rest has nothing to lose.
LEMMA SessionAtRest ==
    ASSUME NEW v \in Writers, phase'[v] = "idle", open'[v] = {}, cache'[v] = NotLoaded
    PROVE  SessionBacked(v)'
  BY DEF SessionBacked

\* The collector's part holds while it rests.
LEMMA GcAtRest ==
    ASSUME ControlInv, gcPhase = "idle", UNCHANGED gcVars
    PROVE  GcMarkInv' /\ GcCopyInv'
<1>1. gcPhase' = "idle" /\ cur' = NoPack /\ rest' = {}
  BY DEF ControlInv, GcIdleInv, gcVars, sweepVars
<1>2. QED
  BY <1>1 DEF GcMarkInv, GcCopyInv, NoPack

\* maybe_write keeps the session sound if what the object names is there.
LEMMA MaybeWriteSound ==
    ASSUME TypeOK, ControlInv, DataInv, NEW w \in Writers,
           NEW o \in Objects, phase[w] = "write",
           \A k \in Kids[o] : k \in open[w] \cup Stored,
           MaybeWrite(w, o), UNCHANGED disk
    PROVE  /\ o \in open'[w] \cup Stored'
           /\ open[w] \subseteq open'[w]
           /\ cache'[w] # NotLoaded => cache'[w] \subseteq Stored'
           /\ \A x \in open'[w] : Kids[x] \subseteq open'[w] \cup Stored'
<1>1. Stored' = Stored /\ Indexed = Stored /\ SessionBacked(w)
  BY WriterStore DEF disk, Stored
<1>2. cache' = [cache EXCEPT ![w] = Snapshot(w)]
  BY DEF MaybeWrite
<1>3. cache'[w] # NotLoaded => cache'[w] \subseteq Stored'
  BY <1>1, <1>2 DEF TypeOK, Snapshot, SessionBacked
<1>4. CASE Exists(w, o)
  <2>1. open' = open
    BY <1>4 DEF MaybeWrite
  <2>2. o \in open[w] \cup Stored
    BY <1>4, ExistsSound
  <2>3. QED
    BY <1>1, <1>3, <2>1, <2>2 DEF SessionBacked
<1>5. CASE ~Exists(w, o)
  <2>1. open'[w] = open[w] \cup {o}
    BY <1>5 DEF MaybeWrite, TypeOK
  <2>2. \A x \in open'[w] : Kids[x] \subseteq open'[w] \cup Stored'
    BY <1>1, <2>1 DEF SessionBacked
  <2>3. QED
    BY <1>1, <1>3, <2>1, <2>2
<1>6. QED
  BY <1>4, <1>5

\* One step of a writer, seen as a change of its own session only.
LEMMA WriterLocal ==
    ASSUME TypeOK, ControlInv, DataInv, NEW w \in Writers, MayAdd,
           UNCHANGED <<disk, refs, gcVars, interrupted>>,
           SessionBacked(w)',
           \A v \in Writers \ {w} :
               phase'[v] = phase[v] /\ job'[v] = job[v]
               /\ open'[v] = open[v] /\ cache'[v] = cache[v]
    PROVE  DataInv'
<1>1. /\ Stored' = Stored /\ Indexed' = Indexed /\ Needed' = Needed
      /\ MayAdd' = MayAdd /\ gcPhase = "idle"
  BY DEF disk, Stored, Indexed, Needed, MayAdd, gcVars
<1>2. StoreInv'
  BY <1>1 DEF DataInv, StoreInv
<1>3. \A v \in Writers : SessionBacked(v)'
  BY <1>1, SessionGrow DEF DataInv
<1>4. QED
  BY <1>1, <1>2, <1>3, GcAtRest DEF DataInv

\* save writes an object after what it names, or trusts exists.
LEMMA SaveStepsSound ==
    ASSUME TypeOK, ControlInv, DataInv, NEW w \in Writers,
           \/ \E o \in Objects : SaveObject(w, o) \/ SaveKnown(w, o)
           \/ SaveCommit(w)
           \/ SaveClose(w)
           \/ SaveFail(w)
    PROVE  DataInv'
<1> DEFINE c == job[w].new
<1>1. /\ phase[w] = "write" /\ job[w].op = "save"
      /\ UNCHANGED <<disk, refs, gcVars, interrupted>>
  BY DEF SaveObject, SaveKnown, SaveCommit, SaveClose, SaveFail
<1>2. /\ MayAdd /\ Indexed = Stored /\ Closed(Stored) /\ Stored' = Stored
      /\ SessionShape(w) /\ SessionBacked(w)
  BY <1>1, WriterStore DEF disk, Stored
<1>3. c \in Commits /\ c \in Objects /\ c # None
  BY <1>1, JobType, ObjectsFinite DEF SaveJobs, Objects
<1>4. ReachFrom(job[w].old) \subseteq Stored /\ ParentOf[c] = job[w].old
  BY <1>1, <1>2 DEF SessionShape, SessionBacked
<1>5. ASSUME NEW o \in Objects, MaybeWrite(w, o), job' = job,
             \A k \in Kids[o] : k \in open[w] \cup Stored
      PROVE  DataInv'
  <2>1. phase'[w] \in {"write", "full"}
    BY <1>1, <1>5, MaybeWriteFrame
  <2>2. SessionBacked(w)'
    BY <1>1, <1>2, <1>4, <1>5, <2>1, MaybeWriteSound DEF SessionBacked
  <2>3. QED
    BY <1>1, <1>2, <1>5, <2>2, MaybeWriteFrame, WriterLocal
<1>6. ASSUME NEW o \in Objects, SaveObject(w, o)
      PROVE  DataInv'
  <2>1. \A k \in Kids[o] : k \in open[w] \cup Stored
    BY <1>1, <1>6, ExistsSound DEF SaveObject
  <2>2. QED
    BY <1>5, <1>6, <2>1 DEF SaveObject
<1>7. ASSUME NEW o \in Objects, SaveKnown(w, o)
      PROVE  DataInv'
  <2>1. /\ cache' = [cache EXCEPT ![w] = Snapshot(w)] /\ cache[w] = NotLoaded
        /\ UNCHANGED <<phase, job, open>>
    BY <1>7 DEF SaveKnown
  <2>2. cache'[w] = Stored'
    BY <1>2, <2>1 DEF Snapshot, TypeOK
  <2>3. SessionBacked(w)'
    BY <1>1, <1>2, <2>1, <2>2 DEF SessionBacked
  <2>4. QED
    BY <1>1, <1>2, <2>1, <2>3, WriterLocal DEF TypeOK
<1>8. CASE SaveCommit(w)
  <2>1. Kids[c] \subseteq {TreeOf[c], ParentOf[c]} \ {None}
    BY <1>3, KidsByKind
  <2>2. TreeOf[c] \in open[w] \cup Stored
    BY <1>1, <1>8, ExistsSound DEF SaveCommit
  <2>3. ParentOf[c] # None => ParentOf[c] \in Stored
    BY <1>3, <1>4, ReachFromFacts, EdgesWellTyped
  <2>4. QED
    BY <1>3, <1>5, <1>8, <2>1, <2>2, <2>3 DEF SaveCommit
<1>9. CASE SaveClose(w)
  <2>1. phase' = [phase EXCEPT ![w] = "close"] /\ UNCHANGED <<job, open, cache>>
    BY <1>9 DEF SaveClose
  <2>2. c \in open[w] \cup Stored
    BY <1>1, <1>9, ExistsSound DEF SaveClose
  <2>3. SessionBacked(w)'
    BY <1>1, <1>2, <2>1, <2>2 DEF SessionBacked, TypeOK
  <2>4. QED
    BY <1>1, <1>2, <2>1, <2>3, WriterLocal DEF TypeOK
<1>10. CASE SaveFail(w)
  <2>1. /\ phase' = [phase EXCEPT ![w] = "close"] /\ job' = [job EXCEPT ![w] = NoJob]
        /\ UNCHANGED <<open, cache>>
    BY <1>10 DEF SaveFail
  <2>2. job'[w].op = "none"
    BY <2>1 DEF TypeOK, NoJob
  <2>3. SessionBacked(w)'
    BY <1>2, <2>1, <2>2 DEF SessionBacked
  <2>4. QED
    BY <1>1, <1>2, <2>1, <2>3, WriterLocal DEF TypeOK
<1>11. QED
  BY <1>6, <1>7, <1>8, <1>9, <1>10

\* rm rewrites commits whose trees and parents are there.
LEMMA RmStepsSound ==
    ASSUME TypeOK, ControlInv, DataInv, NEW w \in Writers,
           \/ RmExclude(w)
           \/ \E c \in Commits : RmAppend(w, c)
           \/ RmClose(w)
    PROVE  DataInv'
<1>1. /\ phase[w] = "write" /\ job[w].op = "rm"
      /\ UNCHANGED <<disk, refs, gcVars, interrupted>>
  BY DEF RmExclude, RmAppend, RmClose
<1>2. /\ MayAdd /\ Closed(Stored) /\ Stored' = Stored
      /\ SessionShape(w) /\ SessionBacked(w)
  BY <1>1, WriterStore DEF disk, Stored
<1>3. job[w] \in RmJobs
  BY <1>1, JobType
<1>4. /\ ReachFrom(job[w].old) \subseteq Stored
      /\ job[w].new \in open[w] \cup Stored \cup {None}
  BY <1>1, <1>2 DEF SessionBacked
<1>5. CASE RmExclude(w)
  <2>1. /\ job' = [job EXCEPT ![w].at = NextSave(job[w].at, job[w].old)]
        /\ UNCHANGED <<phase, open, cache>>
    BY <1>5 DEF RmExclude
  <2>2. job'[w].op = "rm" /\ job'[w].old = job[w].old /\ job'[w].new = job[w].new
    BY <1>3, <2>1 DEF TypeOK, RmJobs
  <2>3. SessionBacked(w)'
    BY <1>1, <1>2, <1>4, <2>1, <2>2 DEF SessionBacked
  <2>4. QED
    BY <1>1, <1>2, <2>1, <2>3, WriterLocal DEF TypeOK
<1>6. ASSUME NEW c \in Commits, RmAppend(w, c)
      PROVE  DataInv'
  <2>1. /\ MaybeWrite(w, c) /\ job[w].at # None
        /\ TreeOf[c] = TreeOf[job[w].at] /\ ParentOf[c] = job[w].new
        /\ \A v \in Writers \ {w} : job'[v] = job[v]
    BY <1>6 DEF RmAppend, TypeOK
  <2>2. job[w].at \in Commits /\ job[w].at \in ReachFrom(job[w].old)
    BY <1>3, <2>1 DEF RmJobs, History
  <2>3. TreeOf[c] \in Stored
    <3>1. TreeOf[c] \in Kids[job[w].at]
      BY <2>1, <2>2, KidsByKind, EdgesWellTyped, ObjectsFinite DEF Objects
    <3>2. job[w].at \in Stored
      BY <1>4, <2>2
    <3>3. QED
      BY <1>2, <3>1, <3>2 DEF Closed
  <2>4. c \in Objects /\ \A k \in Kids[c] : k \in open[w] \cup Stored
    BY <1>4, <2>1, <2>3, KidsByKind DEF Objects
  <2>5. phase'[w] \in {"write", "full"}
    BY <1>1, <2>1, <2>4, MaybeWriteFrame
  <2>6. job'[w].op = "rm" /\ job'[w].old = job[w].old /\ job'[w].new = c
    BY <1>2, <1>6, RmAppendTrees
  <2>7. SessionBacked(w)'
    BY <1>1, <1>2, <1>4, <2>1, <2>4, <2>5, <2>6, MaybeWriteSound DEF SessionBacked
  <2>8. QED
    BY <1>1, <1>2, <2>1, <2>4, <2>7, MaybeWriteFrame, WriterLocal
<1>7. CASE RmClose(w)
  <2>1. phase' = [phase EXCEPT ![w] = "close"] /\ UNCHANGED <<job, open, cache>>
    BY <1>7 DEF RmClose
  <2>2. SessionBacked(w)'
    BY <1>1, <1>2, <1>4, <2>1 DEF SessionBacked, TypeOK
  <2>3. QED
    BY <1>1, <1>2, <2>1, <2>2, WriterLocal DEF TypeOK
<1>8. QED
  BY <1>5, <1>6, <1>7

\* finish_pack shows a pack only when all it names is there; git update-ref
\* moves a branch to a commit that is there.
LEMMA PackStepsSound ==
    ASSUME TypeOK, ControlInv, DataInv, NEW w \in Writers,
           \/ RenamePack(w)
           \/ RenameIdx(w)
           \/ NothingToFinish(w)
           \/ UpdateRef(w)
           \/ WriterCrash(w)
    PROVE  DataInv'
<1>1. phase[w] # "idle" /\ UNCHANGED <<gcVars, interrupted>>
  BY DEF RenamePack, RenameIdx, NothingToFinish, UpdateRef, WriterCrash
<1>2. /\ MayAdd /\ gcPhase = "idle" /\ Indexed = Stored /\ Closed(Stored)
      /\ SessionShape(w) /\ SessionBacked(w) /\ StoreInv
  BY <1>1, WriterStore DEF DataInv
<1>3. MayAdd' /\ GcMarkInv' /\ GcCopyInv'
  BY <1>1, <1>2, GcAtRest DEF MayAdd, gcVars
<1>4. CASE RenamePack(w)
  <2>1. packs' = packs \cup {open[w]} /\ UNCHANGED <<idxs, refs, sessions>>
    BY <1>4 DEF RenamePack
  <2>2. Indexed' = Indexed /\ Needed' = Needed /\ Stored \subseteq Stored'
    BY <2>1 DEF Indexed, Needed, Stored
  <2>3. Stored' \subseteq Indexed'
    BY DEF Stored, Indexed
  <2>4. Stored' = Stored
    BY <1>2, <2>2, <2>3
  <2>5. StoreInv'
    BY <1>2, <2>2, <2>4 DEF StoreInv
  <2>6. \A v \in Writers : SessionBacked(v)'
    BY <2>1, <2>2, SessionGrow DEF DataInv, sessions
  <2>7. QED
    BY <1>3, <2>5, <2>6 DEF DataInv
<1>5. CASE RenameIdx(w)
  <2>1. /\ open[w] \in packs /\ packs' = packs /\ refs' = refs /\ job' = job
        /\ idxs' = idxs \cup {open[w]}
        /\ open' = [open EXCEPT ![w] = {}]
        /\ cache' = [cache EXCEPT ![w] = NotLoaded]
        /\ phase' = [phase EXCEPT ![w] = IF @ = "full" THEN "write" ELSE "ref"]
    BY <1>5 DEF RenameIdx
  <2>2. /\ Indexed' = Indexed \cup open[w] /\ Needed' = Needed
        /\ Stored' = Stored \cup open[w]
    BY <2>1 DEF Indexed, Needed, Stored
  <2>3. Closed(Stored')
    BY <1>2, <2>2 DEF Closed, SessionBacked
  <2>4. StoreInv'
    BY <1>2, <2>2, <2>3 DEF StoreInv
  <2>5. SessionBacked(w)'
    <3>1. open'[w] = {} /\ cache'[w] = NotLoaded /\ phase'[w] \in {"write", "ref"}
      BY <2>1 DEF TypeOK
    <3>2. phase'[w] = "ref" => phase[w] = "close"
      BY <1>5, <2>1 DEF RenameIdx, TypeOK
    <3>3. QED
      BY <1>1, <1>2, <2>1, <2>2, <3>1, <3>2 DEF SessionBacked
  <2>6. \A v \in Writers \ {w} : SessionBacked(v)'
    BY <2>1, <2>2, SessionGrow DEF DataInv, TypeOK
  <2>7. QED
    BY <1>3, <2>4, <2>5, <2>6 DEF DataInv
<1>6. CASE NothingToFinish(w)
  <2>1. /\ phase[w] = "close" /\ open[w] = {}
        /\ UNCHANGED <<disk, refs, job, open>>
        /\ cache' = [cache EXCEPT ![w] = NotLoaded]
        /\ phase' = [phase EXCEPT ![w] = "ref"]
    BY <1>6 DEF NothingToFinish
  <2>2. phase'[w] = "ref" /\ cache'[w] = NotLoaded /\ Stored' = Stored
    BY <2>1 DEF TypeOK, disk, Stored
  <2>3. SessionBacked(w)'
    BY <1>2, <2>1, <2>2 DEF SessionBacked
  <2>4. QED
    BY <1>1, <1>2, <2>1, <2>3, WriterLocal DEF TypeOK
<1>7. CASE UpdateRef(w)
  <2>1. phase[w] = "ref" /\ UNCHANGED disk /\ EndSession(w)
    BY <1>7 DEF UpdateRef
  <2>2. Indexed' = Indexed /\ Stored' = Stored
    BY <2>1 DEF disk, Indexed, Stored
  <2>3. \A r \in Refs : \/ refs'[r] = refs[r]
                        \/ job[w].op # "none" /\ refs'[r] = job[w].new
    BY <1>7 DEF UpdateRef, TypeOK
  <2>4. job[w].op # "none" => ReachFrom(job[w].new) \subseteq Stored
    <3>1. SUFFICES ASSUME job[w].op # "none", job[w].new # None
                   PROVE  ReachFrom(job[w].new) \subseteq Stored
      BY DEF ReachFrom
    <3>2. open[w] = {}
      BY <1>2, <2>1 DEF SessionShape
    <3>3. job[w].new \in Stored
      BY <1>2, <2>1, <3>1, <3>2 DEF SessionBacked
    <3>4. QED
      BY <1>2, <3>1, <3>3, StoredType, ReachMinimal DEF ReachFrom
  <2>5. Needed' \subseteq Stored
    BY <1>2, <2>3, <2>4 DEF Needed, StoreInv
  <2>6. StoreInv'
    BY <1>2, <2>2, <2>5 DEF StoreInv
  <2>7. \A v \in Writers : SessionBacked(v)'
    BY <2>1, <2>2, SessionGrow, SessionAtRest DEF DataInv, EndSession, TypeOK
  <2>8. QED
    BY <1>3, <2>6, <2>7 DEF DataInv
<1>8. CASE WriterCrash(w)
  <2>1. UNCHANGED <<disk, refs>> /\ EndSession(w)
    BY <1>8 DEF WriterCrash
  <2>2. SessionBacked(w)'
    BY <2>1, SessionAtRest DEF EndSession, TypeOK
  <2>3. QED
    BY <1>1, <1>2, <2>1, <2>2, WriterLocal DEF EndSession, TypeOK
<1>9. QED
  BY <1>4, <1>5, <1>6, <1>7, <1>8

\* A step of a writer keeps the invariant.
LEMMA WriterStepSound ==
    ASSUME TypeOK, ControlInv, DataInv, NEW w \in Writers, WriterStep(w)
    PROVE  DataInv'
  BY SaveStepsSound, RmStepsSound, PackStepsSound DEF WriterStep

-----------------------------------------------------------------------------
(***************************************************************************)
(* The inductive invariant: users and the start and end of a collection    *)
(***************************************************************************)

\* While no data may be added nothing can happen to a session.
LEMMA BackedAtRest ==
    ASSUME ControlInv, ~MayAdd, UNCHANGED sessions
    PROVE  \A v \in Writers : SessionBacked(v)'
  BY WritersAtRest, SessionAtRest DEF ControlInv, SessionShape, sessions

\* What the branches need has no dangling reference.
LEMMA NeededClosed ==
    ASSUME TypeOK
    PROVE  Closed(Needed) /\ Needed \subseteq Objects
<1>1. \A r \in Refs : Closed(ReachFrom(refs[r])) /\ ReachFrom(refs[r]) \subseteq Objects
  BY ReachFromFacts DEF TypeOK
<1>2. QED
  BY <1>1, ClosedUnion DEF Needed

\* A save or an rm begins with what the branch has.
LEMMA BeginSound ==
    ASSUME TypeOK, ControlInv, DataInv,
           NEW w \in Writers, NEW r \in Refs, NEW c \in Commits,
           SaveBegin(w, r, c) \/ RmBegin(w, r, c)
    PROVE  DataInv'
<1>1. /\ MayAdd /\ phase[w] = "idle" /\ SessionShape(w) /\ StoreInv
      /\ UNCHANGED <<disk, refs, open, cache, gcVars, interrupted>>
      /\ phase' = [phase EXCEPT ![w] = "write"]
      /\ job' = [job EXCEPT ![w] = job'[w]]
  BY DEF SaveBegin, RmBegin, ControlInv, DataInv, TypeOK
<1>2. /\ phase'[w] = "write" /\ open'[w] = {} /\ cache'[w] = NotLoaded
      /\ Stored' = Stored
  BY <1>1 DEF TypeOK, SessionShape, disk, Stored
<1>3. ReachFrom(refs[r]) \subseteq Stored
  BY <1>1 DEF StoreInv, Needed
<1>4. CASE SaveBegin(w, r, c)
  <2>1. job'[w].op = "save" /\ job'[w].old = refs[r]
    BY <1>4 DEF SaveBegin, TypeOK
  <2>2. SessionBacked(w)'
    BY <1>2, <1>3, <2>1 DEF SessionBacked
  <2>3. QED
    BY <1>1, <2>2, WriterLocal DEF TypeOK
<1>5. CASE RmBegin(w, r, c)
  <2>1. /\ job'[w].op = "rm" /\ job'[w].old = refs[r] /\ job'[w].new = ParentOf[c]
        /\ c \in ReachFrom(refs[r]) /\ refs[r] \in Commits \cup {None}
    BY <1>5 DEF RmBegin, TypeOK, History
  <2>2. ParentOf[c] \in Stored \cup {None}
    <3>1. ParentOf[c] # None => ParentOf[c] \in Kids[c]
      BY KidsByKind
    <3>2. Closed(ReachFrom(refs[r]))
      BY <2>1, ReachFromFacts
    <3>3. QED
      BY <1>3, <2>1, <3>1, <3>2 DEF Closed
  <2>3. SessionBacked(w)'
    BY <1>2, <1>3, <2>1, <2>2 DEF SessionBacked
  <2>4. QED
    BY <1>1, <2>3, WriterLocal DEF TypeOK
<1>6. QED
  BY <1>4, <1>5

\* Removing a branch leaves less to keep, during a collection too.
LEMMA RmBranchSound ==
    ASSUME TypeOK, ControlInv, DataInv, NEW r \in Refs, RmBranch(r)
    PROVE  DataInv'
<1>1. UNCHANGED <<disk, sessions, gcVars, interrupted>>
  BY DEF RmBranch
<1>2. \A q \in Refs : refs'[q] = refs[q] \/ refs'[q] = None
  BY DEF RmBranch, TypeOK
<1>3. Needed' \subseteq Needed
  BY <1>2 DEF Needed, ReachFrom
<1>4. /\ Indexed' = Indexed /\ Stored' = Stored /\ MayAdd' = MayAdd
      /\ Doomed' = Doomed /\ Kept' = Kept
  BY <1>1 DEF disk, Indexed, Stored, MayAdd, gcVars, packing, Doomed, Kept
<1>5. StoreInv'
  BY <1>3, <1>4 DEF DataInv, StoreInv
<1>6. \A v \in Writers : SessionBacked(v)'
  BY <1>1, <1>4, SessionGrow DEF DataInv, sessions
<1>7. GcCopyInv' /\ GcMarkInv'
  BY <1>1, <1>3, <1>4 DEF DataInv, GcCopyInv, GcMarkInv, gcVars, marks, sweepVars, packing
<1>8. QED
  BY <1>5, <1>6, <1>7 DEF DataInv

\* What the mark phase finds is complete and stored.
LEMMA GcBeginSound ==
    ASSUME TypeOK, ControlInv, DataInv, NEW t \in Thresholds, NEW extra \in SUBSET Blobs,
           GcBegin(t, extra)
    PROVE  DataInv'
<1>1. /\ gcPhase = "idle" /\ gcPhase' = "sweep"
      /\ \A w \in Writers : phase[w] = "idle"
      /\ extra \subseteq Stored
      /\ live' = Needed \cup extra
      /\ UNCHANGED <<packs, idxs, refs, sessions, cur, rest, gcOpen, stale, fresh>>
  BY DEF GcBegin, disk, packing
<1>2. cur = NoPack /\ rest = {} /\ stale = {}
  BY <1>1 DEF ControlInv, GcIdleInv
<1>3. Stored' = Stored /\ Needed' = Needed /\ ~MayAdd'
  BY <1>1 DEF Stored, Needed, MayAdd
<1>4. StoreInv'
  BY <1>3 DEF DataInv, StoreInv
<1>5. \A v \in Writers : SessionBacked(v)'
  BY <1>1, SessionAtRest DEF ControlInv, SessionShape, sessions
<1>6. GcCopyInv'
  BY <1>1, <1>2 DEF GcCopyInv, NoPack
<1>7. GcMarkInv'
  <2>1. Closed(live')
    BY <1>1, NeededClosed, KidsByKind DEF Closed
  <2>2. live' \subseteq Stored'
    BY <1>1, <1>3 DEF DataInv, StoreInv
  <2>3. Kept' = packs' \cap idxs'
    BY <1>1, <1>2 DEF Kept, Doomed
  <2>4. \A o \in live' : SafeIn(o, Kept')
    BY <2>2, <2>3 DEF SafeIn, Stored
  <2>5. QED
    BY <1>1, <1>3, <2>1, <2>2, <2>4 DEF GcMarkInv
<1>8. QED
  BY <1>4, <1>5, <1>6, <1>7 DEF DataInv

\* A collection that dies leaves the store as it is, and nobody adds to it.
LEMMA GcStopSound ==
    ASSUME TypeOK, ControlInv, DataInv, GcNothing \/ GcCrash
    PROVE  DataInv'
<1>1. ~MayAdd /\ UNCHANGED <<packs, idxs, refs, sessions>>
  BY DEF GcNothing, GcCrash, MayAdd, disk
<1>2. Stored' = Stored /\ Indexed' = Indexed /\ Needed' = Needed
  BY <1>1 DEF Stored, Indexed, Needed
<1>3. \A v \in Writers : SessionBacked(v)'
  BY <1>1, BackedAtRest
<1>4. CASE GcNothing
  <2>1. idxs = {} /\ gcPhase = "idle" /\ UNCHANGED gcVars
    BY <1>4 DEF GcNothing
  <2>2. Indexed' = {} /\ Stored' = {}
    BY <1>2, <2>1 DEF Indexed, Stored
  <2>3. StoreInv'
    BY <1>2, <2>2 DEF DataInv, StoreInv, Closed
  <2>4. QED
    BY <1>3, <2>1, <2>3, GcAtRest DEF DataInv
<1>5. CASE GcCrash
  <2>1. gcPhase' = "idle" /\ interrupted' = TRUE /\ cur' = NoPack /\ rest' = {}
    BY <1>5 DEF GcCrash
  <2>2. StoreInv'
    BY <1>2, <2>1 DEF DataInv, StoreInv, MayAdd
  <2>3. GcMarkInv' /\ GcCopyInv'
    BY <2>1 DEF GcMarkInv, GcCopyInv, NoPack
  <2>4. QED
    BY <1>3, <2>2, <2>3 DEF DataInv
<1>6. QED
  BY <1>4, <1>5

\* Whatever users start and whatever fails, the invariant is kept.
LEMMA EnvironmentSound ==
    ASSUME TypeOK, ControlInv, DataInv, Environment
    PROVE  DataInv'
  BY BeginSound, RmBranchSound, GcBeginSound, GcStopSound, SaveStepsSound,
     PackStepsSound DEF Environment

-----------------------------------------------------------------------------
(***************************************************************************)
(* The inductive invariant: the collector                                  *)
(***************************************************************************)

\* What is marked git can read, so sweep takes it for live.
LEMMA LiveInIsLive ==
    ASSUME DataInv, gcPhase # "idle", NEW p
    PROVE  LiveIn(p) = p \cap live
  BY DEF DataInv, GcMarkInv, LiveIn

\* With a threshold above 0 a pack without garbage is never rewritten: the
\* reason a finished pack cannot get the name of the one being rewritten.
LEMMA RewrittenHasGarbage ==
    ASSUME GcDiscipline, TypeOK, ControlInv, DataInv, NEW p \in todo, GcVisitRewrite(p)
    PROVE  ~(p \subseteq live)
<1>1. SUFFICES ASSUME p \subseteq live
               PROVE  ~MustRewrite(p) /\ MostlyLive(p)
  BY DEF GcVisitRewrite
<1>2. LiveIn(p) = p /\ p # {}
  BY <1>1, LiveInIsLive DEF GcVisitRewrite
<1>3. ~MustRewrite(p)
  BY <1>2 DEF MustRewrite
<1>4. Cardinality(p) \in Nat /\ Cardinality(p) # 0
  <2>1. IsFiniteSet(p)
    BY ObjectsFinite, FS_Subset DEF TypeOK
  <2>2. QED
    BY <1>2, <2>1, FS_CardinalityType, FS_EmptySet
<1>5. threshold \in Nat /\ threshold > 0
  <2>1. threshold \in Thresholds
    BY DEF GcVisitRewrite, ControlInv, GcSweptInv
  <2>2. QED
    BY <2>1, RepositoryParameters DEF GcDiscipline
<1>6. 100 * Cardinality(p) > (100 - threshold) * Cardinality(p)
  <2> DEFINE n == Cardinality(p)
  <2>1. n \in Nat /\ n > 0
    BY <1>4
  <2>2. threshold * n > 0
    BY <1>5, <2>1
  <2>3. (100 - threshold) * n = 100 * n - threshold * n
    BY <1>5, <2>1
  <2>4. QED
    BY <1>5, <2>1, <2>2, <2>3
<1>7. QED
  BY <1>2, <1>3, <1>6 DEF MostlyLive

\* What a step of the sweep that leaves the disk alone cannot disturb.
LEMMA SweepFrame ==
    ASSUME ControlInv, DataInv, gcPhase # "idle", gcPhase' # "idle",
           UNCHANGED <<disk, refs, sessions>>
    PROVE  /\ StoreInv'
           /\ \A v \in Writers : SessionBacked(v)'
           /\ Stored' = Stored /\ Needed' = Needed
<1>1. ~MayAdd /\ ~MayAdd' /\ Stored' = Stored /\ Needed' = Needed
  BY DEF MayAdd, disk, Stored, Needed
<1>2. StoreInv'
  BY <1>1 DEF DataInv, StoreInv
<1>3. QED
  BY <1>1, <1>2, BackedAtRest

\* sweep looks at one index: nothing it settles on loses a live object.
LEMMA GcVisitSound ==
    ASSUME GcDiscipline, TypeOK, ControlInv, DataInv, NEW p \in todo,
           GcVisitDead(p) \/ GcVisitKeep(p) \/ GcVisitRewrite(p)
    PROVE  DataInv'
<1> USE DEF disk, marks, packing
<1>1. /\ gcPhase = "sweep" /\ gcPhase' \in {"sweep", "rewrite"}
      /\ UNCHANGED <<packs, idxs, refs, sessions, live, gcOpen, fresh>>
  BY DEF GcVisitDead, GcVisitKeep, GcVisitRewrite
<1>2. /\ StoreInv'
      /\ \A v \in Writers : SessionBacked(v)'
      /\ Stored' = Stored /\ Needed' = Needed
  BY <1>1, SweepFrame
<1>3. LiveIn(p) = p \cap live /\ GcMarkInv
  BY <1>1, LiveInIsLive DEF DataInv
<1>4. cur = NoPack /\ rest = {}
  BY <1>1 DEF ControlInv, GcControlInv
<1>5. CASE GcVisitDead(p)
  <2>1. p \cap live = {} /\ stale' = stale \cup {p} /\ UNCHANGED <<cur, rest>>
    BY <1>3, <1>5 DEF GcVisitDead
  <2>2. Kept \ {p} \subseteq Kept'
    BY <1>1, <2>1 DEF Kept, Doomed
  <2>3. \A o \in live : o \in gcOpen \/ SafeIn(o, Kept')
    BY <1>1, <1>3, <2>1, <2>2 DEF GcMarkInv, SafeIn
  <2>4. GcMarkInv'
    BY <1>1, <1>2, <1>3, <2>3 DEF GcMarkInv
  <2>5. GcCopyInv'
    BY <1>4, <2>1 DEF GcCopyInv, NoPack
  <2>6. QED
    BY <1>2, <2>4, <2>5 DEF DataInv
<1>6. CASE GcVisitKeep(p)
  <2>1. UNCHANGED <<cur, rest, stale>>
    BY <1>6 DEF GcVisitKeep
  <2>2. Kept' = Kept
    BY <1>1, <2>1 DEF Kept, Doomed
  <2>3. GcMarkInv'
    BY <1>1, <1>2, <1>3, <2>2 DEF GcMarkInv
  <2>4. GcCopyInv'
    BY <1>4, <2>1 DEF GcCopyInv, NoPack
  <2>5. QED
    BY <1>2, <2>3, <2>4 DEF DataInv
<1>7. CASE GcVisitRewrite(p)
  <2>1. cur' = p /\ rest' = p \cap live /\ stale' = stale
    BY <1>3, <1>7 DEF GcVisitRewrite
  <2>2. Kept' = Kept
    BY <1>1, <2>1 DEF Kept, Doomed
  <2>3. GcMarkInv'
    BY <1>1, <1>2, <1>3, <2>2 DEF GcMarkInv
  <2>4. GcCopyInv'
    BY <1>1, <1>7, <2>1, RewrittenHasGarbage DEF GcCopyInv
  <2>5. QED
    BY <1>2, <2>3, <2>4 DEF DataInv
<1>8. QED
  BY <1>5, <1>6, <1>7

\* Copying moves a live object from the pack being rewritten to the open
\* one; once all are there the old pack may go.
LEMMA GcCopySound ==
    ASSUME TypeOK, ControlInv, DataInv, (\E o \in rest : GcCopy(o)) \/ GcCopied
    PROVE  DataInv'
<1> USE DEF disk, marks, packing
<1>1. /\ gcPhase = "rewrite" /\ gcPhase' \in {"rewrite", "break", "sweep"}
      /\ UNCHANGED <<packs, idxs, refs, sessions, live, fresh>>
  BY DEF GcCopy, GcCopied
<1>2. /\ StoreInv'
      /\ \A v \in Writers : SessionBacked(v)'
      /\ Stored' = Stored /\ Needed' = Needed
  BY <1>1, SweepFrame
<1>3. GcMarkInv /\ GcCopyInv
  BY DEF DataInv
<1>4. ASSUME NEW o \in rest, GcCopy(o)
      PROVE  DataInv'
  <2>1. /\ rest' = rest \ {o} /\ gcOpen' = gcOpen \cup {o}
        /\ UNCHANGED <<cur, stale>>
    BY <1>4 DEF GcCopy
  <2>2. Kept' = Kept
    BY <1>1, <2>1 DEF Kept, Doomed
  <2>3. GcMarkInv'
    BY <1>1, <1>2, <1>3, <2>1, <2>2 DEF GcMarkInv
  <2>4. GcCopyInv'
    BY <1>1, <1>3, <2>1, <2>2 DEF GcCopyInv
  <2>5. QED
    BY <1>2, <2>3, <2>4 DEF DataInv
<1>5. CASE GcCopied
  <2>1. /\ rest = {} /\ stale' = stale \cup {cur} /\ cur' = NoPack
        /\ UNCHANGED <<rest, gcOpen>>
    BY <1>5 DEF GcCopied
  <2>2. Kept \ {cur} \subseteq Kept'
    BY <1>1, <2>1 DEF Kept, Doomed
  <2>3. ASSUME NEW o \in live, o \notin gcOpen
        PROVE  SafeIn(o, Kept \ {cur})
    <3>1. PICK q \in Kept : o \in q
      BY <1>1, <1>3, <2>3 DEF GcMarkInv, SafeIn
    <3>2. CASE q = cur
      BY <1>3, <2>1, <2>3, <3>1, <3>2 DEF GcCopyInv
    <3>3. CASE q # cur
      BY <3>1, <3>3 DEF SafeIn
    <3>4. QED
      BY <3>2, <3>3
  <2>4. GcMarkInv'
    <3>1. \A o \in live : o \in gcOpen \/ SafeIn(o, Kept')
      BY <2>2, <2>3 DEF SafeIn
    <3>2. QED
      BY <1>1, <1>2, <1>3, <2>1, <3>1 DEF GcMarkInv
  <2>5. GcCopyInv'
    BY <2>1 DEF GcCopyInv, NoPack
  <2>6. QED
    BY <1>2, <2>4, <2>5 DEF DataInv
<1>6. QED
  BY <1>4, <1>5

\* The open pack is finished: its live objects no longer depend on a stale
\* pack.
LEMMA GcFinishSound ==
    ASSUME TypeOK, ControlInv, DataInv, GcClose \/ GcRenamePack \/ GcRenameIdx
    PROVE  DataInv'
<1> USE DEF disk, marks, packing, sweepVars
<1>1. /\ gcPhase \in {"sweep", "break"} /\ gcPhase' # "idle" /\ ~MayAdd /\ ~MayAdd'
      /\ UNCHANGED <<refs, sessions, live, cur, rest, stale>>
  BY DEF GcClose, GcRenamePack, GcRenameIdx, MayAdd, gcVars
<1>2. Needed' = Needed /\ \A v \in Writers : SessionBacked(v)'
  BY <1>1, BackedAtRest DEF Needed
<1>3. fresh = NoPack /\ GcMarkInv /\ GcCopyInv /\ Needed \subseteq Stored
  BY <1>1 DEF ControlInv, GcControlInv, DataInv, StoreInv
<1>4. CASE GcClose
  <2>1. UNCHANGED <<packs, idxs, fresh, gcOpen>>
    BY <1>4 DEF GcClose
  <2>2. StoreInv' /\ Stored' = Stored
    BY <1>1, <2>1, SweepFrame
  <2>3. Kept' = Kept
    BY <1>1, <2>1 DEF Kept, Doomed
  <2>4. GcMarkInv' /\ GcCopyInv'
    BY <1>1, <1>2, <1>3, <2>1, <2>2, <2>3 DEF GcMarkInv, GcCopyInv
  <2>5. QED
    BY <1>2, <2>2, <2>4 DEF DataInv
<1>5. CASE GcRenamePack
  <2>1. packs \subseteq packs' /\ UNCHANGED <<idxs, gcOpen, fresh>>
    BY <1>5 DEF GcRenamePack, gcVars
  <2>2. Stored \subseteq Stored' /\ Kept \subseteq Kept'
    BY <1>1, <2>1 DEF Stored, Kept, Doomed
  <2>3. StoreInv'
    BY <1>1, <1>2, <1>3, <2>2 DEF StoreInv
  <2>4. GcMarkInv'
    BY <1>1, <1>2, <1>3, <2>1, <2>2 DEF GcMarkInv, SafeIn
  <2>5. GcCopyInv'
    BY <1>1, <1>3, <2>1, <2>2 DEF GcCopyInv, SafeIn
  <2>6. QED
    BY <1>2, <2>3, <2>4, <2>5 DEF DataInv
<1>6. CASE GcRenameIdx
  <2>1. /\ gcOpen \in packs /\ packs' = packs /\ idxs' = idxs \cup {gcOpen}
        /\ fresh' = gcOpen /\ gcOpen' = {} /\ gcPhase = "break"
    BY <1>6 DEF GcRenameIdx
  <2>2. Stored \subseteq Stored'
    BY <2>1 DEF Stored
  <2>3. StoreInv'
    BY <1>1, <1>2, <1>3, <2>2 DEF StoreInv
  <2>4. gcOpen \subseteq live
    BY <1>1 DEF ControlInv, GcSweptInv
  <2>5. \A q \in Kept : q # {} => q \in Kept'
    BY <1>1, <1>3, <2>1 DEF Kept, Doomed, NoPack
  <2>6. gcOpen \in Kept'
    BY <2>1 DEF Kept, Doomed
  <2>7. GcMarkInv'
    <3>1. \A o \in live : SafeIn(o, Kept')
      BY <1>1, <1>3, <2>5, <2>6 DEF GcMarkInv, SafeIn
    <3>2. QED
      BY <1>1, <1>2, <1>3, <2>2, <3>1 DEF GcMarkInv
  <2>8. GcCopyInv'
    <3>1. ASSUME NEW o \in (cur \cap live) \ rest
          PROVE  SafeIn(o, Kept' \ {cur})
      <4>1. gcOpen # cur
        BY <1>3, <2>4, <3>1 DEF GcCopyInv, NoPack
      <4>2. QED
        BY <1>3, <2>5, <2>6, <3>1, <4>1 DEF GcCopyInv, SafeIn
    <3>2. QED
      BY <1>1, <1>3, <3>1 DEF GcCopyInv
  <2>9. QED
    BY <1>2, <2>3, <2>7, <2>8 DEF DataInv
<1>7. QED
  BY <1>4, <1>5, <1>6

\* Only stale packs are unlinked, whichever of their files goes first.
LEMMA GcUnlinkSound ==
    ASSUME TypeOK, ControlInv, DataInv, NEW p \in stale,
           GcUnlinkPack(p) \/ GcUnlinkIdx(p)
    PROVE  DataInv'
<1> USE DEF gcVars, marks, packing, sweepVars
<1>1. /\ gcPhase = "purge" /\ p \in Doomed
      /\ UNCHANGED <<refs, sessions, gcVars>>
      /\ packs \ {p} \subseteq packs' /\ packs' \subseteq packs
      /\ idxs \ {p} \subseteq idxs' /\ idxs' \subseteq idxs
  BY DEF GcUnlinkPack, GcUnlinkIdx
<1>2. ~MayAdd /\ ~MayAdd' /\ Needed' = Needed /\ Kept' = Kept
  BY <1>1 DEF MayAdd, Needed, Doomed, Kept
<1>3. GcMarkInv /\ GcCopyInv /\ gcOpen = {}
  BY <1>1 DEF DataInv, ControlInv, GcControlInv
<1>4. \A o \in live : SafeIn(o, Kept')
  BY <1>1, <1>2, <1>3 DEF GcMarkInv
<1>5. live \subseteq Stored'
  BY <1>4 DEF SafeIn, Kept, Stored
<1>6. StoreInv'
  BY <1>1, <1>2, <1>3, <1>5 DEF StoreInv, GcMarkInv
<1>7. GcMarkInv' /\ GcCopyInv'
  BY <1>1, <1>2, <1>3, <1>5 DEF GcMarkInv, GcCopyInv
<1>8. QED
  BY <1>1, <1>2, <1>6, <1>7, BackedAtRest DEF DataInv

\* The stale packs are gone.  When that was the last of them, and no index
\* is left of what they alone had, what is left names nothing that is
\* missing, and data may be added again.
LEMMA GcPurgedSound ==
    ASSUME TypeOK, ControlInv, DataInv, ~dangling', GcPurged
    PROVE  DataInv'
<1> USE DEF disk, marks, packing, sweepVars
<1>1. /\ gcPhase = "purge" /\ gcOpen = {} /\ Doomed \cap idxs = {}
      /\ stale' = {} /\ fresh' = NoPack
      /\ UNCHANGED <<packs, idxs, refs, sessions, todo, cur, rest, gcOpen>>
  BY DEF GcPurged, ControlInv, GcControlInv
<1>2. /\ Stored' = Stored /\ Indexed' = Indexed /\ Needed' = Needed /\ ~MayAdd
      /\ Kept \subseteq Kept'
      /\ \A v \in Writers : SessionBacked(v)'
  BY <1>1, BackedAtRest DEF Stored, Indexed, Needed, MayAdd, Kept, Doomed
<1>3. GcMarkInv /\ GcCopyInv /\ StoreInv
  BY DEF DataInv
<1>4. CASE gcBack # "idle"
  <2>1. /\ UNCHANGED live
        /\ gcPhase' = "rewrite" \/ gcPhase' = "purge"
    BY <1>4 DEF GcPurged, TypeOK
  <2>2. StoreInv'
    BY <1>2, <1>3, <2>1 DEF StoreInv, MayAdd
  <2>3. GcMarkInv'
    BY <1>1, <1>2, <1>3, <2>1 DEF GcMarkInv, SafeIn
  <2>4. GcCopyInv'
    BY <1>1, <1>2, <1>3, <2>1 DEF GcCopyInv, SafeIn
  <2>5. QED
    BY <1>2, <2>2, <2>3, <2>4 DEF DataInv
<1>5. CASE gcBack = "idle"
  <2>1. gcPhase' = "idle" /\ dangling' = (dangling \/ ~(Indexed \subseteq Stored))
    BY <1>5 DEF GcPurged
  <2>2. todo = {} /\ cur = NoPack /\ rest = {}
    BY <1>1, <1>5 DEF ControlInv, GcControlInv
  <2>3. Stored = Indexed
    BY <2>1, StoredType
  <2>4. \A q \in idxs : Tidy(q)
    <3>1. \A q \in idxs \cap stale : Tidy(q)
      BY <1>1 DEF Tidy, Doomed, ControlInv, GcSweptInv
    <3>2. QED
      BY <1>1, <2>2, <3>1, TidyEmpty DEF ControlInv, GcSweptInv
  <2>5. Closed(Stored)
    <3>1. ASSUME NEW o \in Stored
          PROVE  Kids[o] \subseteq Stored
      <4>1. PICK q \in idxs : o \in q
        BY DEF Stored
      <4>2. q \ Blobs \subseteq live
        BY <2>4 DEF Tidy
      <4>3. CASE o \in Blobs
        BY <4>3, KidsByKind
      <4>4. CASE o \notin Blobs
        BY <1>1, <1>3, <4>1, <4>2, <4>4 DEF GcMarkInv, Closed
      <4>5. QED
        BY <4>3, <4>4
    <3>2. QED
      BY <3>1 DEF Closed
  <2>6. StoreInv'
    BY <1>2, <1>3, <2>3, <2>5 DEF StoreInv
  <2>7. GcMarkInv' /\ GcCopyInv'
    BY <1>1, <2>1, <2>2 DEF GcMarkInv, GcCopyInv, NoPack
  <2>8. QED
    BY <1>2, <2>6, <2>7 DEF DataInv
<1>6. QED
  BY <1>4, <1>5

\* A step of the collector keeps the invariant.
LEMMA GcStepSound ==
    ASSUME GcDiscipline, TypeOK, ControlInv, DataInv, ~dangling', GcStep
    PROVE  DataInv'
  BY GcVisitSound, GcCopySound, GcFinishSound, GcUnlinkSound, GcPurgedSound
     DEF GcStep

\* Only the end of a collection notices such an index, and nothing forgets it.
LEMMA DanglingStays ==
    ASSUME [Next]_vars
    PROVE  \/ dangling' = dangling
           \/ GcPurged /\ dangling' = (dangling \/ ~(Indexed \subseteq Stored))
<1> USE DEF aux
<1>1. CASE UNCHANGED vars
  BY <1>1 DEF vars
<1>2. CASE Environment
  BY <1>2 DEF Environment, SaveBegin, RmBegin, RmBranch, GcBegin, GcNothing, SaveFail,
              WriterCrash, GcCrash
<1>3. CASE GcStep
  BY <1>3 DEF GcStep, GcVisitDead, GcVisitKeep, GcVisitRewrite, GcCopy, GcCopied,
              GcClose, GcRenamePack, GcRenameIdx, GcUnlinkPack, GcUnlinkIdx, GcPurged
<1>4. ASSUME NEW w \in Writers, WriterStep(w)
      PROVE  dangling' = dangling
  BY <1>4 DEF WriterStep, SaveObject, SaveKnown, SaveCommit, SaveClose, RmExclude,
              RmAppend, RmClose, RenamePack, RenameIdx, NothingToFinish, UpdateRef
<1>5. QED
  BY <1>1, <1>2, <1>3, <1>4 DEF Next

\* The invariant and the types, together, survive every step.
LEMMA InductiveStep ==
    ASSUME GcDiscipline, TypeOK, IInv, [Next]_vars
    PROVE  IInv'
<1>1. ControlInv /\ ControlInv'
  BY ControlStep DEF IInv
<1>2. SUFFICES ASSUME ~dangling'
               PROVE  DataInv'
  BY <1>1 DEF IInv
<1>3. DataInv
  BY <1>2, DanglingStays DEF IInv
<1>4. CASE Next
  BY <1>1, <1>2, <1>3, <1>4, WriterStepSound, GcStepSound, EnvironmentSound DEF Next
<1>5. CASE UNCHANGED vars
  <2> USE <1>5 DEF vars, disk, sessions, marks, sweepVars, packing, gcVars
  <2>1. /\ Stored' = Stored /\ Indexed' = Indexed /\ Needed' = Needed
        /\ Kept' = Kept /\ MayAdd' = MayAdd
    BY DEF Stored, Indexed, Needed, Kept, Doomed, MayAdd
  <2>2. StoreInv' /\ GcMarkInv' /\ GcCopyInv'
    BY <1>3, <2>1 DEF DataInv, StoreInv, GcMarkInv, GcCopyInv
  <2>3. \A w \in Writers : SessionBacked(w)'
    BY <1>3, <2>1, SessionGrow DEF DataInv
  <2>4. QED
    BY <2>2, <2>3 DEF DataInv
<1>6. QED
  BY <1>4, <1>5

-----------------------------------------------------------------------------
(***************************************************************************)
(* The theorems                                                            *)
(***************************************************************************)

\* IInv: what the sessions of save and rm and the loop of sweep owe each
\* other on every disk, and, until a collection leaves an index of what it
\* removed, what they owe the store, after any number of steps of all of them.
THEOREM InductiveInvariant ==
    ASSUME GcDiscipline
    PROVE  Spec => [](TypeOK /\ IInv)
<1>1. Init => IInv
  <2>1. Init => ControlInv
    BY DEF Init, ControlInv, SessionShape, GcIdleInv, GcControlInv, GcSweptInv
  <2>2. Init => Needed = {} /\ Indexed = {} /\ Stored = {}
    BY DEF Init, Needed, Indexed, Stored, ReachFrom
  <2>3. Init => StoreInv /\ GcMarkInv
    BY <2>2 DEF Init, StoreInv, GcMarkInv, Closed
  <2>4. Init => GcCopyInv
    BY DEF Init, GcCopyInv, NoPack
  <2>5. Init => \A w \in Writers : SessionBacked(w)
    BY DEF Init, SessionBacked
  <2>6. QED
    BY <2>1, <2>3, <2>4, <2>5 DEF IInv, DataInv
<1>2. TypeOK /\ IInv /\ [Next]_vars => IInv'
  BY InductiveStep
<1>3. QED
  BY <1>1, <1>2, TypeInvariance, PTL DEF Spec

\* What the invariant says of a moment.
LEMMA InvariantMeaning ==
    ASSUME TypeOK, IInv
    PROVE  RefsComplete /\ ExistsImpliesComplete /\ OpenPacksGrounded /\ GcKeepsMarked
<1>1. CASE dangling
  BY <1>1 DEF RefsComplete, ExistsImpliesComplete, OpenPacksGrounded, GcKeepsMarked
<1>2. CASE ~dangling
  <2>1. ControlInv /\ DataInv /\ Stored \subseteq Indexed
    BY <1>2, StoredType DEF IInv
  <2>2. MayAdd => Indexed = Stored
    BY <2>1 DEF DataInv, StoreInv
  <2>3. RefsComplete /\ ExistsImpliesComplete
    BY <2>1, <2>2 DEF DataInv, StoreInv, RefsComplete, ExistsImpliesComplete
  <2>4. OpenPacksGrounded
    BY <2>1 DEF DataInv, SessionBacked, OpenPacksGrounded
  <2>5. GcKeepsMarked
    BY <2>1 DEF ControlInv, GcIdleInv, DataInv, GcMarkInv, GcKeepsMarked
  <2>6. QED
    BY <2>3, <2>4, <2>5
<1>3. QED
  BY <1>1, <1>2

\* Which steps rename or unlink a file of objects/pack.
LEMMA DiskStep ==
    ASSUME [Next]_vars
    PROVE  \/ UNCHANGED disk
           \/ \E w \in Writers : RenamePack(w) \/ RenameIdx(w)
           \/ GcRenamePack \/ GcRenameIdx
           \/ \E p \in stale : GcUnlinkPack(p) \/ GcUnlinkIdx(p)
<1> USE DEF disk
<1>1. ASSUME NEW w \in Writers, WriterStep(w), ~RenamePack(w), ~RenameIdx(w)
      PROVE  UNCHANGED disk
  BY <1>1 DEF WriterStep, SaveObject, SaveKnown, SaveCommit, SaveClose, RmExclude,
              RmAppend, RmClose, NothingToFinish, UpdateRef
<1>2. CASE Environment
  BY <1>2 DEF Environment, SaveBegin, RmBegin, RmBranch, GcBegin, GcNothing,
              SaveFail, WriterCrash, GcCrash
<1>3. CASE \/ \E p \in todo : GcVisitDead(p) \/ GcVisitKeep(p) \/ GcVisitRewrite(p)
           \/ \E o \in rest : GcCopy(o)
           \/ GcCopied \/ GcClose \/ GcPurged
  BY <1>3 DEF GcVisitDead, GcVisitKeep, GcVisitRewrite, GcCopy, GcCopied, GcClose,
              GcPurged
<1>4. CASE UNCHANGED vars
  BY <1>4 DEF vars
<1>5. QED
  BY <1>1, <1>2, <1>3, <1>4 DEF Next, GcStep

\* Where every directory lists pack-X.idx before pack-X.pack, no collection
\* leaves an .idx without its .pack, interrupted or not (remove_stale_packs):
\* the promises below then hold without exception.
THEOREM NeverDangling ==
    ASSUME IdxFirst
    PROVE  Spec => [](idxs \subseteq packs /\ ~dangling)
<1> DEFINE Paired == idxs \subseteq packs /\ ~dangling
<1>1. Init => Paired
  BY DEF Init
<1>2. ASSUME Paired, [Next]_vars
      PROVE  Paired'
  <2>1. Indexed \subseteq Stored
    BY <1>2 DEF Indexed, Stored
  <2>2. ~dangling'
    BY <1>2, <2>1, DanglingStays
  <2>3. CASE UNCHANGED disk
    BY <1>2, <2>2, <2>3 DEF disk
  <2>4. ASSUME NEW w \in Writers, RenamePack(w) \/ RenameIdx(w)
        PROVE  Paired'
    BY <1>2, <2>2, <2>4 DEF RenamePack, RenameIdx
  <2>5. CASE GcRenamePack \/ GcRenameIdx
    BY <1>2, <2>2, <2>5 DEF GcRenamePack, GcRenameIdx
  <2>6. ASSUME NEW p \in stale, GcUnlinkPack(p) \/ GcUnlinkIdx(p)
        PROVE  Paired'
    BY <1>2, <2>2, <2>6 DEF GcUnlinkPack, GcUnlinkIdx
  <2>7. QED
    BY <1>2, <2>3, <2>4, <2>5, <2>6, DiskStep
<1>3. Spec => []Paired
  BY <1>1, <1>2, PTL DEF Spec
<1>4. QED
  BY <1>3

\* RefsComplete: whatever processes run or die, all a branch needs can be
\* read (finish_pack, update_ref, sweep), until a collection completes and
\* leaves an index of what git cannot read.
THEOREM RefsAlwaysComplete ==
    ASSUME GcDiscipline
    PROVE  Spec => []RefsComplete
<1>1. TypeOK /\ IInv => RefsComplete
  BY InvariantMeaning
<1>2. QED
  BY <1>1, InductiveInvariant, PTL

\* ExistsImpliesComplete: while data may be added, what PackIdxList.exists
\* reports is there with all it names: an interrupted collection may leave
\* half of a pack, one that completes takes it away or sets dangling.
THEOREM ExistsAlwaysComplete ==
    ASSUME GcDiscipline
    PROVE  Spec => []ExistsImpliesComplete
<1>1. TypeOK /\ IInv => ExistsImpliesComplete
  BY InvariantMeaning
<1>2. QED
  BY <1>1, InductiveInvariant, PTL

\* OpenPacksGrounded: a pack may be finished after any object save or rm
\* writes, with the same exception.
THEOREM OpenPacksAlwaysGrounded ==
    ASSUME GcDiscipline
    PROVE  Spec => []OpenPacksGrounded
<1>1. TypeOK /\ IInv => OpenPacksGrounded
  BY InvariantMeaning
<1>2. QED
  BY <1>1, InductiveInvariant, PTL

\* GcKeepsMarked: from the mark to the last unlink, sweep loses nothing that
\* was marked, with the same exception.
THEOREM MarkedAlwaysKept ==
    ASSUME GcDiscipline
    PROVE  Spec => []GcKeepsMarked
<1>1. TypeOK /\ IInv => GcKeepsMarked
  BY InvariantMeaning
<1>2. QED
  BY <1>1, InductiveInvariant, PTL

\* Only UpdateRef and RmBranch touch a ref.
LEMMA OnlyRefSteps ==
    ASSUME Next
    PROVE  \/ refs' = refs
           \/ \E w \in Writers : UpdateRef(w)
           \/ \E r \in Refs : RmBranch(r)
<1>1. ASSUME NEW w \in Writers, WriterStep(w), ~UpdateRef(w)
      PROVE  refs' = refs
  BY <1>1 DEF WriterStep, SaveObject, SaveKnown, SaveCommit, SaveClose, RmExclude,
              RmAppend, RmClose, RenamePack, RenameIdx, NothingToFinish
<1>2. ASSUME GcStep
      PROVE  refs' = refs
  BY <1>2 DEF GcStep, GcVisitDead, GcVisitKeep, GcVisitRewrite, GcCopy, GcCopied,
              GcClose, GcRenamePack, GcRenameIdx, GcUnlinkPack, GcUnlinkIdx, GcPurged
<1>3. ASSUME Environment, ~(\E r \in Refs : RmBranch(r))
      PROVE  refs' = refs
  BY <1>3 DEF Environment, SaveBegin, RmBegin, GcBegin, GcNothing, SaveFail,
              WriterCrash, GcCrash
<1>4. QED
  BY <1>1, <1>2, <1>3 DEF Next

\* What a step does to one ref.
LEMMA RefStep ==
    ASSUME TypeOK, ControlInv, Next, refs' # refs
    PROVE  \E r \in Refs, c \in Commits \cup {None} :
              /\ refs' = [refs EXCEPT ![r] = c]
              /\ \/ c = None
                 \/ ParentOf[c] = refs[r]
                 \/ refs[r] # None /\ SavedTrees(c) \subseteq SavedTrees(refs[r])
<1>1. CASE \E r \in Refs : RmBranch(r)
  BY <1>1 DEF RmBranch
<1>2. ASSUME NEW w \in Writers, UpdateRef(w)
      PROVE  \E r \in Refs, c \in Commits \cup {None} :
                /\ refs' = [refs EXCEPT ![r] = c]
                /\ \/ c = None
                   \/ ParentOf[c] = refs[r]
                   \/ refs[r] # None /\ SavedTrees(c) \subseteq SavedTrees(refs[r])
  <2> DEFINE r == job[w].ref
             c == job[w].new
  <2>1. /\ phase[w] = "ref" /\ job[w].op # "none" /\ refs[r] = job[w].old
        /\ refs' = [refs EXCEPT ![r] = c]
    BY <1>2 DEF UpdateRef
  <2>2. SessionShape(w)
    BY DEF ControlInv
  <2>3. CASE job[w].op = "save"
    <3>1. r \in Refs /\ c \in Commits
      BY <2>3, JobType DEF SaveJobs
    <3>2. ParentOf[c] = refs[r]
      BY <2>1, <2>2, <2>3 DEF SessionShape
    <3>3. QED
      BY <2>1, <3>1, <3>2
  <2>4. CASE job[w].op = "rm"
    <3>1. r \in Refs /\ c \in Commits \cup {None} /\ job[w].old \in Commits
      BY <2>4, JobType DEF RmJobs
    <3>2. SavedTrees(c) \subseteq SavedTrees(refs[r])
      BY <2>1, <2>2, <2>4 DEF SessionShape
    <3>3. refs[r] # None
      BY <2>1, <3>1, ObjectsFinite DEF Objects
    <3>4. QED
      BY <2>1, <3>1, <3>2, <3>3
  <2>5. QED
    BY <2>1, <2>3, <2>4, JobType
<1>3. QED
  BY <1>1, <1>2, OnlyRefSteps

\* RefsMoveForward: whichever writers race for a branch, no save is lost that
\* nobody asked rm to drop (git update-ref with the old value), whatever gc is
\* run with and whatever became of the disk.
THEOREM BranchesMoveForward == Spec => RefsMoveForward
<1> DEFINE Forward ==
        \A r \in Refs : refs'[r] # refs[r] =>
          \/ refs'[r] = None
          \/ ParentOf[refs'[r]] = refs[r]
          \/ /\ refs[r] # None
             /\ SavedTrees(refs'[r]) \subseteq SavedTrees(refs[r])
<1>1. TypeOK /\ ControlInv /\ [Next]_vars => [Forward]_vars
  <2>1. SUFFICES ASSUME TypeOK, ControlInv, Next, NEW r \in Refs, refs'[r] # refs[r]
                 PROVE  \/ refs'[r] = None
                        \/ ParentOf[refs'[r]] = refs[r]
                        \/ /\ refs[r] # None
                           /\ SavedTrees(refs'[r]) \subseteq SavedTrees(refs[r])
    OBVIOUS
  <2>2. refs \in [Refs -> Commits \cup {None}]
    BY <2>1 DEF TypeOK
  <2>3. QED
    BY <2>1, <2>2, RefStep
<1>2. QED
  BY <1>1, ControlInvariant, PTL DEF Spec, RefsMoveForward

\* GcCollects: when bup gc completes, every pack that is left is tidy, at
\* every threshold and with indexes of half-unlinked packs among them.
THEOREM CollectionsCollect == Spec => GcCollects
<1>1. TypeOK /\ ControlInv /\ [Next]_vars => [GcDone => \A p \in idxs' : Tidy(p)]_vars
  <2>1. SUFFICES ASSUME TypeOK, ControlInv, Next, GcDone, NEW p \in idxs'
                 PROVE  Tidy(p)
    OBVIOUS
  <2>2. GcPurged
    <3>1. ASSUME NEW w \in Writers, WriterStep(w)
          PROVE  gcPhase' = gcPhase
      BY <3>1 DEF WriterStep, SaveObject, SaveKnown, SaveCommit, SaveClose, RmExclude,
                  RmAppend, RmClose, RenamePack, RenameIdx, NothingToFinish,
                  UpdateRef, gcVars
    <3>2. CASE Environment
      BY <2>1, <3>2 DEF GcDone, Environment, SaveBegin, RmBegin, RmBranch, GcBegin,
                        GcNothing, SaveFail, WriterCrash, GcCrash, gcVars
    <3>3. CASE GcStep
      BY <2>1, <3>3 DEF GcDone, GcStep, GcVisitDead, GcVisitKeep, GcVisitRewrite,
                        GcCopy, GcCopied, GcClose, GcRenamePack, GcRenameIdx,
                        GcUnlinkPack, GcUnlinkIdx, gcVars
    <3>4. QED
      BY <2>1, <3>1, <3>2, <3>3 DEF Next, GcDone
  <2>3. /\ gcPhase = "purge" /\ gcBack = "idle" /\ Doomed \cap idxs = {}
        /\ idxs' = idxs
    BY <2>1, <2>2 DEF GcPurged, GcDone, disk
  <2>4. p \in stale \/ p = {} \/ Tidy(p)
    BY <2>1, <2>3 DEF ControlInv, GcControlInv, GcSweptInv, NoPack
  <2>5. p \in stale => p \subseteq live
    BY <2>1, <2>3 DEF Doomed, ControlInv, GcSweptInv
  <2>6. QED
    BY <2>4, <2>5 DEF Tidy
<1>2. QED
  BY <1>1, ControlInvariant, PTL DEF Spec, GcCollects

\* Seen from outside, a step makes objects readable, makes some unreadable,
\* or moves a ref, and never two of these at once.
LEMMA StoredStep ==
    ASSUME [Next]_vars
    PROVE  \/ UNCHANGED disk
           \/ refs' = refs /\ packs \subseteq packs' /\ idxs \subseteq idxs'
           \/ refs' = refs /\ packs' \subseteq packs /\ idxs' \subseteq idxs
<1>1. ASSUME NEW w \in Writers, RenamePack(w) \/ RenameIdx(w)
      PROVE  refs' = refs /\ packs \subseteq packs' /\ idxs \subseteq idxs'
  BY <1>1 DEF RenamePack, RenameIdx
<1>2. CASE GcRenamePack \/ GcRenameIdx
  BY <1>2 DEF GcRenamePack, GcRenameIdx
<1>3. ASSUME NEW p \in stale, GcUnlinkPack(p) \/ GcUnlinkIdx(p)
      PROVE  refs' = refs /\ packs' \subseteq packs /\ idxs' \subseteq idxs
  BY <1>3 DEF GcUnlinkPack, GcUnlinkIdx
<1>4. QED
  BY <1>1, <1>2, <1>3, DiskStep

\* The store's reading of the object graph is this module's.
LEMMA SameGraph ==
    /\ Store!Objects = Objects
    /\ Store!Needed = Needed
    /\ \A c : Store!ReachFrom(c) = ReachFrom(c)
<1>1. Store!Objects = Objects
  BY DEF Store!Objects, Objects
<1>2. Store!Kids = Kids
  BY <1>1 DEF Store!Kids, Kids
<1>3. \A S : Store!Closed(S) = Closed(S)
  BY <1>2 DEF Store!Closed, Closed
<1>4. Store!Reach = Reach
  BY <1>1, <1>3 DEF Store!Reach, Reach
<1>5. \A c : Store!ReachFrom(c) = ReachFrom(c)
  BY <1>4 DEF Store!ReachFrom, ReachFrom
<1>6. Store!Needed = Needed
  BY <1>5 DEF Store!Needed, Needed
<1>7. QED
  BY <1>1, <1>5, <1>6

\* StoreImplemented: packs, temporary files, crashes and collections are
\* invisible; a reader sees the store of ObjectStore, whose promise lapses
\* when a collection leaves an index of what it removed.
THEOREM RepositoryImplementsStore ==
    ASSUME GcDiscipline
    PROVE  Spec => StoreImplemented
<1>1. Init => Store!StoreInit
  BY DEF Init, Stored, Store!StoreInit
<1>2. TypeOK /\ IInv /\ (TypeOK /\ IInv)' /\ [Next]_vars
          => [Store!StoreNext]_Store!storeVars
  <2>1. SUFFICES ASSUME TypeOK, IInv, TypeOK', IInv', [Next]_vars
                 PROVE  \/ UNCHANGED <<Stored, refs, dangling>>
                        \/ Store!StoreNext
    BY DEF Store!storeVars
  <2>2. CASE UNCHANGED vars
    BY <2>2 DEF vars, disk, aux, Stored
  <2>3. CASE dangling'
    BY <2>3 DEF Store!Lapse, Store!StoreNext
  <2>4. CASE Next /\ ~dangling'
    <3>1. ~dangling /\ dangling' = dangling
      BY <2>1, <2>4, DanglingStays DEF TypeOK
    <3>2. Stored \subseteq Objects /\ Stored' \subseteq Objects
      BY <2>1 DEF TypeOK, Stored
    <3>3. Needed \subseteq Stored /\ Needed' \subseteq Stored'
      BY <2>1, <2>4, <3>1 DEF IInv, DataInv, StoreInv
    <3>4. CASE refs' = refs /\ Stored \subseteq Stored'
      <4>1. Stored' \subseteq Store!Objects
        BY <3>2, SameGraph
      <4>2. Store!AddObjects
        BY <3>1, <3>4, <4>1 DEF Store!AddObjects
      <4>3. QED
        BY <4>2 DEF Store!StoreNext
    <3>5. CASE refs' = refs /\ Stored' \subseteq Stored
      <4>1. Needed' = Needed
        BY <3>5 DEF Needed
      <4>2. (Stored \ Stored') \cap Store!Needed = {}
        BY <3>3, <4>1, SameGraph
      <4>3. Store!DropObjects
        BY <3>1, <3>5, <4>2 DEF Store!DropObjects
      <4>4. QED
        BY <4>3 DEF Store!StoreNext
    <3>6. CASE refs' # refs
      <4>1. Stored' = Stored
        BY <2>1, <3>6, StoredStep DEF disk, Stored
      <4>2. PICK r \in Refs, c \in Commits \cup {None} : refs' = [refs EXCEPT ![r] = c]
        BY <2>1, <2>4, <3>6, RefStep DEF IInv
      <4>3. refs'[r] = c
        BY <2>1, <4>2 DEF TypeOK
      <4>4. ReachFrom(c) \subseteq Stored
        BY <3>3, <4>1, <4>3 DEF Needed
      <4>5. Store!ReachFrom(c) \subseteq Stored
        BY <4>4, SameGraph
      <4>6. Store!MoveRef
        BY <3>1, <4>1, <4>2, <4>5 DEF Store!MoveRef
      <4>7. QED
        BY <4>6 DEF Store!StoreNext
    <3>7. Stored \subseteq Stored' \/ Stored' \subseteq Stored
      BY <2>1, StoredStep DEF disk, Stored
    <3>8. refs' = refs => Stored \subseteq Stored' \/ Stored' \subseteq Stored
      BY <3>7
    <3>9. QED
      BY <3>4, <3>5, <3>6, <3>8
  <2>5. QED
    BY <2>1, <2>2, <2>3, <2>4
<1>3. QED
  BY <1>1, <1>2, InductiveInvariant, PTL DEF Spec, StoreImplemented, Store!StoreSpec
=============================================================================
