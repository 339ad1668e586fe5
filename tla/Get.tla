-------------------------------- MODULE Get --------------------------------
(***************************************************************************)
(* bup get (cmd/get.py): it resolves all its targets, fetches what each    *)
(* one asks for, by copying objects or by rewriting saves (Rewrite), and   *)
(* moves the destination's refs at the very end, while other processes     *)
(* may move them, too.                                                     *)
(*                                                                         *)
(* A commit is its history: the sequence of its saves, the oldest first.   *)
(* Its parent is the same sequence without the last save, its ancestors    *)
(* are the prefixes.                                                       *)
(***************************************************************************)
EXTENDS Rewrite

CONSTANTS
    SrcSaves,       \* the source branch: a sequence of root directories
    Branches, Tags, \* the destination's refs
    Specs,          \* what may be asked for
    MaxTargets,     \* bound: targets of all commands
    MaxMoves        \* bound: refs moved by others

Refs == Branches \cup Tags
Methods == {"ff", "append", "pick", "force-pick", "new-tag", "replace", "unnamed"}

ASSUME GetParameters ==
    /\ SrcSaves \in Seq(Dirs)
    /\ Branches \cap Tags = {} /\ None \notin Refs
    /\ {MaxTargets, MaxMoves} \subseteq Nat
    /\ Node \cap Nat = {}
    /\ \A spec \in Specs :
         /\ spec.method \in Methods /\ spec.mode \in {"copy", "rewrite", "repair"}
         /\ spec.src \in Node \cup DOMAIN SrcSaves
         /\ spec.dest \in Refs \cup {None}
         /\ spec.dest = None <=> spec.method = "unnamed"
         /\ spec.ignore \in BOOLEAN


VARIABLES
    refs,           \* [Refs -> what each points to]
    have,           \* the source's objects the destination has
    pc,             \* where the command is
    targets,        \* the targets still to be handled, with their
                    \* destinations as they were when they were resolved
    todo,           \* the saves still to be appended for the first of them
    tip,            \* what they are appended to
    updated,        \* [refs to be moved -> from what to what]
    named, moves,
    holed,          \* has --ignore-missing left out what an object names?
    asked,          \* appended saves by ref, of this command
    failed

getVars == <<refs, have, pc, targets, todo, tip, updated, named, moves, holed, asked, failed>>
allVars == <<damage, mapping, work, getVars>>

\* A save that was copied or came from git.
Original(root) == [from |-> root, mode |-> "copy", id |-> None, excl |-> {},
                   tree |-> [is |-> "source", of |-> root], notes |-> {}]
SrcCommit(k) == [i \in 1..k |-> Original(SrcSaves[i])]

IsCommit(x) == x # None /\ x \notin Node
NodesOf(save) == IF save.mode = "copy" THEN {save.from} ELSE {}

\* tree_iter and parse_commit: what an object names.
Kids(x) ==
    IF x \in Dirs THEN Range(Entries[x])
    ELSE IF x \in Node THEN {}
    ELSE NodesOf(Last(x)) \cup (IF Len(x) > 1 THEN {Front(x)} ELSE {})

\* walk_object, down to what stop_at says is there.
Walk(x, stop) ==
    LET older == IF x \in Node THEN {} ELSE {SubSeq(x, 1, k) : k \in 1..Len(x)}
        grow[S \in SUBSET (Node \cup older)] ==
          LET more == S \cup ((UNION {Kids(y) : y \in S}) \ stop)
          IN IF more = S THEN S ELSE grow[more]
    IN IF x \in stop THEN {} ELSE grow[{x}]

Readable(x) == x \in Node => x \notin Missing

\* What a finished transfer of x leaves in the destination.
Whole(x) == Walk(x, {})

-----------------------------------------------------------------------------
(***************************************************************************)
(* Resolving                                                               *)
(***************************************************************************)

\* The source of a target: a commit, or a directory.
Source(spec) == IF spec.src \in Nat THEN SrcCommit(spec.src) ELSE spec.src
IsTag(r) == r \in Tags

\* make_spec: what the command line refuses.
Misuse(spec) ==
    \/ spec.ignore /\ (spec.mode # "copy" \/ spec.method # "unnamed")
    \/ spec.excl # {} /\ spec.mode = "copy"
    \/ spec.mode # "copy" /\ spec.method \notin {"append", "pick", "force-pick"}

\* Which sources and destinations each method accepts: a branch may become
\* a save's history only, a tag anything, and no tag is replaced unasked.
resolve_branch_dest(spec) == ~IsTag(spec.dest)
resolve_ff(spec) == spec.src \notin Node /\ resolve_branch_dest(spec)
resolve_append(spec) == resolve_branch_dest(spec) /\ (spec.mode # "copy" => spec.src \notin Node)
resolve_pick(spec) ==
    /\ spec.src \notin Node
    /\ spec.method # "force-pick" /\ IsTag(spec.dest) => refs[spec.dest] = None
resolve_new_tag(spec) == IsTag(spec.dest) /\ refs[spec.dest] = None
resolve_replace(spec) == IsTag(spec.dest) \/ spec.src \notin Node

Resolved(spec) ==
    CASE spec.method = "ff" -> resolve_ff(spec)
      [] spec.method = "append" -> resolve_append(spec)
      [] spec.method \in {"pick", "force-pick"} -> resolve_pick(spec)
      [] spec.method = "new-tag" -> resolve_new_tag(spec)
      [] spec.method = "replace" -> resolve_replace(spec)
      [] OTHER -> TRUE

\* Two targets may not make the same tag, unless the later one may replace it.
SameTag(specs) ==
    \E i, j \in DOMAIN specs :
        /\ i < j /\ specs[i].dest = specs[j].dest /\ IsTag(specs[j].dest)
        /\ specs[j].method \notin {"replace", "force-pick"}

Init ==
    /\ damage \in Damages
    /\ dirMap = <<>> /\ fileMap = {} /\ excludes = {} /\ work = NoWork
    /\ refs \in [Refs -> {None} \cup {SrcCommit(k) : k \in DOMAIN SrcSaves}]
    /\ \A r \in Refs : refs[r] # None => Whole(refs[r]) \cap Missing = {}
    /\ have = UNION {Whole(refs[r]) : r \in {q \in Refs : refs[q] # None}}
    /\ pc = "idle" /\ targets = <<>> /\ todo = <<>> /\ tip = None /\ updated = <<>>
    /\ named = 0 /\ moves = 0 /\ holed = FALSE /\ asked = <<>> /\ failed = FALSE

\* A new process has a new database.
ResolveTargets ==
    /\ pc = "idle" /\ named < MaxTargets
    /\ \E specs \in BoundedSeq(Specs, MaxTargets - named) :
         /\ specs # <<>>
         /\ \A i \in DOMAIN specs : ~Misuse(specs[i]) /\ Resolved(specs[i])
         /\ ~SameTag(specs)
         /\ targets' = [i \in DOMAIN specs |->
                [spec |-> specs[i],
                 hash |-> IF specs[i].dest = None THEN None ELSE refs[specs[i].dest]]]
         /\ named' = named + Len(specs)
    /\ pc' = "next"
    /\ dirMap' = <<>> /\ fileMap' = {} /\ excludes' = {}
    /\ updated' = <<>> /\ asked' = <<>> /\ failed' = FALSE
    /\ UNCHANGED <<damage, work, refs, have, todo, tip, moves, holed>>

-----------------------------------------------------------------------------
(***************************************************************************)
(* Handling one target                                                     *)
(***************************************************************************)

Target == Head(targets)
Spec0 == Target.spec

\* The saves a target appends, as new commits: those of a branch, the last
\* one of them, or a tree.
Appends(t) ==
    CASE t.spec.method = "append" /\ t.spec.src \in Node -> <<Original(t.spec.src)>>
      [] t.spec.method = "append" /\ t.spec.src \notin Node -> Source(t.spec)
      [] t.spec.method \in {"pick", "force-pick"} -> <<Last(Source(t.spec))>>
      [] OTHER -> <<>>

\* The command ends, and leaves what it has written and the refs as they were.
Die ==
    /\ pc' = "idle" /\ failed' = TRUE
    /\ targets' = <<>> /\ todo' = <<>> /\ tip' = None /\ updated' = <<>>

\* handle_ff: the destination is not an ancestor.
NotAhead ==
    /\ Spec0.method = "ff" /\ Target.hash # None
    /\ ~IsPrefix(Target.hash, Source(Spec0))

\* handle_*: a save or a tree is to be appended, or an object to be copied.
Begin ==
    /\ pc = "next" /\ targets # <<>>
    /\ IF Spec0.method \in {"append", "pick", "force-pick"}
       THEN /\ todo' = Appends(Target)
            /\ tip' = IF IsCommit(Target.hash) THEN Target.hash ELSE <<>>
            /\ pc' = "append"
       ELSE /\ ~NotAhead
            /\ todo' = <<>> /\ tip' = Source(Spec0)
            /\ pc' = "copy"
    /\ UNCHANGED <<damage, mapping, work, refs, have, targets, updated, named, moves, holed, asked, failed>>

RefuseFf ==
    /\ pc = "next" /\ targets # <<>> /\ NotAhead
    /\ Die
    /\ UNCHANGED <<damage, mapping, work, refs, have, named, moves, holed, asked>>

\* MISTAKE: parents before children.
MayWriteTopDown(x) == Readable(x)

\* get_random_item writes an object after all it names; with --ignore-missing
\* what is missing is left out.
MayWrite(x) ==
    /\ Readable(x)
    /\ Kids(x) \subseteq have \cup (IF Spec0.ignore THEN Missing ELSE {})

CopyRoot == IF pc = "append" THEN Head(todo).from ELSE tip
Copying == pc = "copy" \/ (pc = "append" /\ todo # <<>> /\ Spec0.mode = "copy")

CopyObject ==
    /\ Copying
    /\ \E x \in Walk(CopyRoot, have) :
         /\ MayWrite(x)
         /\ have' = have \cup {x}
         /\ holed' = (holed \/ (Spec0.ignore /\ ~(Kids(x) \subseteq have)))
    /\ UNCHANGED <<damage, mapping, work, refs, pc, targets, todo, tip, updated, named, moves, asked, failed>>

\* An object of the source is missing.
CopyFails ==
    /\ Copying /\ ~Spec0.ignore
    /\ Walk(CopyRoot, have) \cap Missing # {}
    /\ Die
    /\ UNCHANGED <<damage, mapping, work, refs, have, named, moves, holed, asked>>

Copied == Walk(CopyRoot, have) \subseteq Missing /\ (Spec0.ignore \/ Walk(CopyRoot, have) = {})

\* transfer_commit: the tree is there, and a new commit is written.
AppendCopied ==
    /\ pc = "append" /\ Copying /\ Copied
    /\ tip' = Append(tip, Head(todo)) /\ todo' = Tail(todo)
    /\ have' = have \cup {tip'}
    /\ UNCHANGED <<damage, mapping, work, refs, pc, targets, updated, named, moves, holed, asked, failed>>

\* append_save
BeginRewrite ==
    /\ pc = "append" /\ todo # <<>> /\ Spec0.mode # "copy" /\ ~Busy
    /\ BeginSave(Head(todo).from, Spec0.mode, Spec0.id, Spec0.excl)
    /\ UNCHANGED getVars

Rewriting == RewriteStep /\ UNCHANGED getVars

RewriteFails ==
    /\ RewriteStuck
    /\ work' = NoWork
    /\ Die
    /\ UNCHANGED <<damage, mapping, refs, have, named, moves, holed, asked>>

AppendRewritten ==
    /\ SaveRewritten /\ ~Unlisted(work.root)
    /\ tip' = Append(tip, NewSave) /\ todo' = Tail(todo)
    /\ have' = have \cup {tip'}
    /\ work' = NoWork
    /\ UNCHANGED <<damage, mapping, refs, pc, targets, updated, named, moves, holed, asked, failed>>

\* The ref is to move to the result from what it was when it was resolved
\* first.
Handled ==
    /\ \/ pc = "append" /\ todo = <<>>
       \/ pc = "copy" /\ Copied
    /\ updated' = IF Spec0.dest = None THEN updated
                  ELSE [r \in DOMAIN updated \cup {Spec0.dest} |->
                          IF r # Spec0.dest THEN updated[r]
                          ELSE [old |-> IF r \in DOMAIN updated /\ updated[r].old # None
                                        THEN updated[r].old ELSE Target.hash,
                                new |-> tip, how |-> Spec0.method]]
    /\ asked' = IF Spec0.dest = None THEN asked
                ELSE (Spec0.dest :>
                        ((IF Spec0.dest \in DOMAIN asked THEN asked[Spec0.dest] ELSE <<>>)
                         \o [i \in DOMAIN Appends(Target) |-> Appends(Target)[i].from])) @@ asked
    /\ targets' = Tail(targets) /\ todo' = <<>> /\ tip' = None
    /\ pc' = IF Len(targets) > 1 THEN "next" ELSE "refs"
    /\ UNCHANGED <<damage, mapping, work, refs, have, named, moves, holed, failed>>

-----------------------------------------------------------------------------
(***************************************************************************)
(* The refs                                                                *)
(***************************************************************************)

\* MISTAKE: the ref is moved whatever it is by now.
MayMoveAlways(r) == TRUE

\* git update-ref checks the old value.
MayMove(r) == refs[r] = updated[r].old

UpdateRef(r) ==
    /\ pc = "refs" /\ r \in DOMAIN updated
    /\ refs' = IF MayMove(r) THEN [refs EXCEPT ![r] = updated[r].new] ELSE refs
    /\ failed' = (failed \/ ~MayMove(r))
    /\ updated' = Restrict(updated, (DOMAIN updated) \ {r})
    /\ UNCHANGED <<damage, mapping, work, have, pc, targets, todo, tip, named, moves, holed, asked>>

Finish ==
    /\ pc = "refs" /\ updated = <<>>
    /\ pc' = "idle"
    /\ UNCHANGED <<damage, mapping, work, refs, have, targets, todo, tip, updated, named, moves, holed, asked, failed>>

\* Somebody else moves a branch, to a save of its own.
OtherMoves(r) ==
    /\ pc # "idle" /\ moves < MaxMoves
    /\ refs' = [refs EXCEPT ![r] =
                  Append(IF @ = None THEN <<>> ELSE @,
                         [Original(SrcSaves[1]) EXCEPT !.mode = "other"])]
    /\ have' = have \cup {refs'[r]}
    /\ moves' = moves + 1
    /\ UNCHANGED <<damage, mapping, work, pc, targets, todo, tip, updated, named, holed, asked, failed>>

Next ==
    \/ ResolveTargets
    \/ Begin \/ RefuseFf
    \/ CopyObject \/ CopyFails \/ AppendCopied
    \/ BeginRewrite \/ Rewriting \/ RewriteFails \/ AppendRewritten
    \/ Handled
    \/ \E r \in Refs : UpdateRef(r)
    \/ Finish
    \/ \E r \in Branches : OtherMoves(r)

Spec == Init /\ [][Next]_allVars

-----------------------------------------------------------------------------
(***************************************************************************)
(* What is right                                                           *)
(***************************************************************************)

\* Whatever a ref names is in the destination with all below it, however
\* many transfers failed half way before, unless --ignore-missing left a hole.
RefsWhole == ~holed => \A r \in Refs : refs[r] # None => Whole(refs[r]) \subseteq have

\* The saves bup get made, in refs or on the way to one.
NewSaves ==
    LET commits == {refs[r] : r \in Refs} \cup {updated[r].new : r \in DOMAIN updated} \cup {tip}
    IN {s \in UNION {Range(c) : c \in {d \in commits : IsCommit(d)}} : s.mode \in {"rewrite", "repair"}}

\* A rewritten save is what its source, the excludes, the repair id and the
\* damage make of it, whatever was remembered from saves rewritten before.
SavesAreConverted == \A s \in NewSaves : s.tree = Converted(s.from, s.id, s.excl)

\* A repaired save's message tells of every path with a replacement, lost
\* metadata or a link whose target was changed, also when a directory with
\* the same damage was met before.
TrailersTell ==
    \A s \in NewSaves : s.mode = "repair" =>
        {x \in s.notes : x[1] # "restored"} = Repairs(s.from, s.id, s.excl)

\* A branch only grows, whoever else moves it and however many targets name
\* it, unless --replace was asked for.
BranchesGrow ==
    [][\A b \in Branches : (refs'[b] # refs[b] /\ refs[b] # None) =>
           \/ IsPrefix(refs[b], refs'[b])
           \/ pc = "refs" /\ updated[b].how = "replace"]_allVars

\* What the manual says of --append and --pick, that they append the commits
\* to the destination, of a command that reports no error.
AppendedIsThere ==
    (pc = "refs" /\ updated = <<>> /\ ~failed /\ moves = 0) =>
        \A b \in (DOMAIN asked) \cap Branches :
            LET got == [i \in DOMAIN refs[b] |-> refs[b][i].from]
            IN IsSuffix(asked[b], got)
=============================================================================
