------------------------------ MODULE Rewrite ------------------------------
(***************************************************************************)
(* How bup get --rewrite and --repair make a new save of an old one        *)
(* (rewrite.py): a walk through the save's directories, depth first, that  *)
(* builds the new trees bottom up and remembers conversions in a database  *)
(* to use them again, in this save and in later ones.  What is not         *)
(* readable in the source is replaced by a file that says so (--repair)    *)
(* or ends the command (--rewrite).                                        *)
(***************************************************************************)
EXTENDS Naturals, Sequences, FiniteSets, FiniteSetsExt, SequencesExt, Functions

CONSTANTS
    Node,           \* directories, files, symbolic links and special files
    Kind,           \* [Node -> {"dir", "file", "link", "special"}]
    Entries,        \* [directories -> [names -> Node]]
    Damages,        \* what may be wrong with the source repository
    None

Names == UNION {DOMAIN Entries[n] : n \in DOMAIN Entries}
Dirs == {n \in Node : Kind[n] = "dir"}

Links == {n \in Node : Kind[n] = "link"}

\* No directory is below itself.  Only links have a target in two places.
ASSUME RewriteParameters ==
    /\ IsFiniteSet(Node)
    /\ \A n \in Node : Kind[n] \in {"dir", "file", "link", "special"}
    /\ DOMAIN Entries = Dirs
    /\ \A d \in Dirs : Range(Entries[d]) \subseteq Node
    /\ \A S \in (SUBSET Dirs) \ {{}} : \E d \in S : Range(Entries[d]) \cap S = {}
    /\ \A x \in Damages :
         /\ x.missing \subseteq Node /\ x.abridged \subseteq Dirs
         /\ x.mismatched \subseteq Links /\ x.noMeta \subseteq Links

VARIABLES
    damage,         \* a member of Damages: nodes with a missing object,
                    \* directories that lost metadata, links with two
                    \* targets, links of which git's blob is all there is
    dirMap,         \* the database: directories and their new trees
    fileMap,        \*               files that were converted
    excludes,       \* _current_excludes
    work            \* the save being rewritten

mapping == <<dirMap, fileMap, excludes>>

Missing == damage.missing
NoMeta == damage.noMeta
Lost(d) == d \in damage.abridged

-----------------------------------------------------------------------------
(***************************************************************************)
(* New objects.  They are what they contain, as git has it.                *)
(***************************************************************************)

Copy(n) == [is |-> "copy", of |-> n]
Replacement(n, id) == [is |-> "replacement", of |-> n, id |-> id]
Tree(entries) == [is |-> "tree", entries |-> entries]
Entry(obj, lost) == [obj |-> obj, lost |-> lost]

\* A function with one value more.
With(f, x, v) == [y \in DOMAIN f \cup {x} |-> IF y = x THEN v ELSE f[y]]

Frame(n, path) == [dir |-> n, path |-> path, todo |-> DOMAIN Entries[n], made |-> <<>>]

NoWork == [frames |-> <<>>]
Busy == work # NoWork
Top == Last(work.frames)
Repairing == work.mode = "repair"

\* What contents() refuses to list: a tree that is missing, and without
\* --repair metadata that is incomplete.
Unlisted(n) == n \in Missing \/ (Lost(n) /\ ~Repairing)

\* MISTAKE: conversions outlive the excludes they were made with.
BeginSaveKeeping(root, mode, id, excl) ==
    /\ work' = [frames |-> <<Frame(root, <<>>)>>, root |-> root, mode |-> mode,
                id |-> id, excl |-> excl, notes |-> {}]
    /\ UNCHANGED <<damage, dirMap, fileMap>>
    /\ excludes' = excl

\* append_save: directories are forgotten when the excludes change.
BeginSave(root, mode, id, excl) ==
    /\ work' = [frames |-> <<Frame(root, <<>>)>>, root |-> root, mode |-> mode,
                id |-> id, excl |-> excl, notes |-> {}]
    /\ dirMap' = IF excludes = excl THEN dirMap ELSE <<>>
    /\ excludes' = excl
    /\ UNCHANGED <<damage, fileMap>>

-----------------------------------------------------------------------------
(***************************************************************************)
(* One entry of a directory                                                *)
(***************************************************************************)

\* The entry's name is done, with a new object or without.
Done(name, made, notes) ==
    LET f == [Top EXCEPT !.todo = @ \ {name}, !.made = made]
    IN work' = [work EXCEPT !.frames = Append(Front(@), f), !.notes = @ \cup notes]

Path(name) == Append(Top.path, name)
Child(name) == Entries[Top.dir][name]

\* The metadata of what is not a directory is lost with its directory's.
LostMeta == Lost(Top.dir)
LostNote(name) == IF LostMeta THEN {<<"lost", Path(name)>>} ELSE {}

Put(name, obj, lost, notes) == Done(name, With(Top.made, name, Entry(obj, lost)), notes)
PutReplacement(name, notes) ==
    Put(name, Replacement(Child(name), work.id), FALSE, notes \cup {<<"replaced", Path(name)>>})

Exclude(name) ==
    /\ Path(name) \in work.excl
    /\ Done(name, Top.made, {})
    /\ UNCHANGED <<damage, mapping>>

Included(name, kind) == Path(name) \notin work.excl /\ Kind[Child(name)] = kind

\* _previous_conversion of a directory.
ReuseDir(name) ==
    /\ Included(name, "dir")
    /\ Child(name) \in DOMAIN dirMap
    /\ Put(name, dirMap[Child(name)], FALSE, {})
    /\ UNCHANGED <<damage, mapping>>

\* IncompleteDir: the whole directory is replaced.
ReplaceDir(name) ==
    /\ Included(name, "dir")
    /\ Child(name) \notin DOMAIN dirMap
    /\ Repairing /\ Child(name) \in Missing
    /\ PutReplacement(name, {})
    /\ UNCHANGED <<damage, mapping>>

EnterDir(name) ==
    /\ Included(name, "dir")
    /\ Child(name) \notin DOMAIN dirMap
    /\ ~Unlisted(Child(name))
    /\ work' = [work EXCEPT !.frames =
                   Append(Append(Front(@), [Top EXCEPT !.todo = @ \ {name}]),
                          Frame(Child(name), Path(name)))]
    /\ UNCHANGED <<damage, mapping>>

\* Pipes, devices and so on are all metadata.
RewriteSpecial(name) ==
    /\ Included(name, "special")
    /\ Put(name, Copy(Child(name)), LostMeta, LostNote(name))
    /\ UNCHANGED <<damage, mapping>>

\* A file converted before is not read again.
MayRead(n) == n \in fileMap \/ n \notin Missing

\* A file is split again, and remembered.
RewriteFile(name) ==
    /\ Included(name, "file")
    /\ MayRead(Child(name))
    /\ Put(name, Copy(Child(name)), LostMeta, LostNote(name))
    /\ fileMap' = fileMap \cup {Child(name)}
    /\ UNCHANGED <<damage, dirMap, excludes>>

ReplaceFile(name) ==
    /\ Included(name, "file")
    /\ Repairing /\ Child(name) \in Missing \ fileMap
    /\ PutReplacement(name, LostNote(name))
    /\ UNCHANGED <<damage, mapping>>

\* The target is in the metadata and in a blob; the metadata has it right.
RewriteLink(name) ==
    LET n == Child(name)
        note == IF n \in Missing THEN {<<"restored", Path(name)>>}
                ELSE IF n \in damage.mismatched THEN {<<"fixed", Path(name)>>}
                ELSE {}
    IN /\ Included(name, "link")
       /\ n \notin NoMeta /\ ~LostMeta
       /\ n \in Missing \/ n \notin damage.mismatched \/ Repairing
       /\ Put(name, Copy(n), FALSE, note)
       /\ UNCHANGED <<damage, mapping>>

ReplaceLink(name) ==
    /\ Included(name, "link")
    /\ Child(name) \in NoMeta \cap Missing /\ ~LostMeta
    /\ Repairing
    /\ PutReplacement(name, {})
    /\ UNCHANGED <<damage, mapping>>

\* What ends the command: something missing or mismatched without --repair,
\* and a link without a target in its metadata (a comparison with None, or
\* its length).
Unrewritable(name) ==
    LET n == Child(name)
    IN /\ Path(name) \notin work.excl
       /\ \/ Kind[n] = "dir" /\ n \notin DOMAIN dirMap /\ Unlisted(n) /\ ~Repairing
          \/ Kind[n] = "file" /\ n \in Missing \ fileMap /\ ~Repairing
          \/ Kind[n] = "link" /\
               \/ LostMeta
               \/ n \in NoMeta /\ ~(Repairing /\ n \in Missing)
               \/ n \in damage.mismatched \ Missing /\ ~Repairing

-----------------------------------------------------------------------------
(***************************************************************************)
(* The end of a directory, and of the save                                 *)
(***************************************************************************)

\* MISTAKE: repaired trees are remembered, too.
MayRememberAlways == TRUE

\* With excludes or repairs the tree is not what the next save would make.
MayRemember == ~Repairing /\ work.excl = {}

FinishDir ==
    LET new == Tree(Top.made)
        up == work.frames[Len(work.frames) - 1]
    IN /\ Top.todo = {} /\ Len(work.frames) > 1
       /\ work' = [work EXCEPT !.frames =
                      Append(SubSeq(@, 1, Len(@) - 2),
                             [up EXCEPT !.made = With(@, Last(Top.path), Entry(new, FALSE))])]
       /\ dirMap' = IF MayRemember THEN With(dirMap, Top.dir, new) ELSE dirMap
       /\ UNCHANGED <<damage, fileMap, excludes>>

RewriteStep ==
    /\ Busy /\ ~Unlisted(work.root)
    /\ \/ \E name \in Top.todo :
            \/ Exclude(name)
            \/ ReuseDir(name) \/ ReplaceDir(name) \/ EnterDir(name)
            \/ RewriteSpecial(name)
            \/ RewriteFile(name) \/ ReplaceFile(name)
            \/ RewriteLink(name) \/ ReplaceLink(name)
       \/ FinishDir

\* The root is complete: the tree and the trailers of the new commit.
SaveRewritten == Busy /\ Len(work.frames) = 1 /\ Top.todo = {}
NewSave == [from |-> work.root, mode |-> work.mode, id |-> work.id,
            excl |-> work.excl, tree |-> Tree(Top.made), notes |-> work.notes]

\* A root that cannot be listed has no directory to be replaced in.
RewriteStuck ==
    Busy /\ \/ \E name \in Top.todo : Unrewritable(name)
            \/ Unlisted(work.root)

-----------------------------------------------------------------------------
(***************************************************************************)
(* What a save must become: the walk without its memory                    *)
(***************************************************************************)

ReplacedIn(d, n) ==
    /\ n \in d.missing /\ Kind[n] # "special"
    /\ ~(Kind[n] = "link" /\ n \notin d.noMeta)
Kept(n, p, excl) == {x \in DOMAIN Entries[n] : Append(p, x) \notin excl}

\* Each node at each path: its new object, and the repairs at and below it
\* that change what it says.
Outcome(d, id, excl) ==
    LET out[n \in Node] == [p \in Seq(Names) |->
          IF ReplacedIn(d, n)
          THEN [obj |-> Replacement(n, id), notes |-> {<<"replaced", p>>}]
          ELSE IF n \notin Dirs
          THEN [obj |-> Copy(n),
                notes |-> IF n \in d.mismatched \ d.missing THEN {<<"fixed", p>>} ELSE {}]
          ELSE [obj |-> Tree([x \in Kept(n, p, excl) |->
                            Entry(out[Entries[n][x]][Append(p, x)].obj,
                                  /\ n \in d.abridged /\ Entries[n][x] \notin Dirs
                                  /\ ~ReplacedIn(d, Entries[n][x]))]),
                notes |-> (UNION {out[Entries[n][x]][Append(p, x)].notes : x \in Kept(n, p, excl)})
                          \cup {<<"lost", Append(p, x)>> :
                                   x \in {y \in Kept(n, p, excl) :
                                            n \in d.abridged /\ Entries[n][y] \notin Dirs}}]]
    IN out

Converted(root, id, excl) == Outcome(damage, id, excl)[root][<<>>].obj
Repairs(root, id, excl) == Outcome(damage, id, excl)[root][<<>>].notes
=============================================================================
