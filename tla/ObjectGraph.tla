---------------------------- MODULE ObjectGraph ----------------------------
(***************************************************************************)
(* The Git objects bup stores and the edges between them.                  *)
(*                                                                         *)
(* A blob refers to nothing, a tree to blobs and trees, a commit that bup  *)
(* writes to one tree and at most one parent.  An object's name is the     *)
(* hash of its contents, so an object here IS its name and its edges are   *)
(* constants.  walk_object in lib/bup/git.py follows these edges.          *)
(***************************************************************************)
EXTENDS FiniteSets

CONSTANTS
    Blobs,      \* file contents, split into chunks
    Trees,      \* directories, chunk lists and metadata lists
    Commits,    \* saves
    Entries,    \* [Trees -> SUBSET (Blobs \cup Trees)], a tree's entries
    TreeOf,     \* [Commits -> Trees]
    ParentOf,   \* [Commits -> Commits \cup {None}]
    None        \* no commit: a missing ref, the parent of a first save

Objects == Blobs \cup Trees \cup Commits

ASSUME ObjectsFinite ==
    /\ IsFiniteSet(Objects)
    /\ None \notin Objects

ASSUME ObjectKindsDisjoint ==
    /\ Blobs \cap Trees = {}
    /\ Blobs \cap Commits = {}
    /\ Trees \cap Commits = {}

ASSUME EdgesWellTyped ==
    /\ Entries \in [Trees -> SUBSET (Blobs \cup Trees)]
    /\ TreeOf \in [Commits -> Trees]
    /\ ParentOf \in [Commits -> Commits \cup {None}]

\* The objects an object names: what walk_object pushes when it visits one.
Kids == [o \in Objects |->
            IF o \in Trees THEN Entries[o]
            ELSE IF o \in Commits THEN {TreeOf[o], ParentOf[o]} \ {None}
            ELSE {}]

\* A set of objects with no dangling reference.
Closed(S) == \A o \in S : Kids[o] \subseteq S

\* Everything reachable from an object: the least closed set that has it.
Reach == [o \in Objects |->
            {x \in Objects : \A S \in SUBSET Objects :
                                 Closed(S) /\ o \in S => x \in S}]

\* Everything reachable from a commit, nothing from a ref that is missing.
ReachFrom(c) == IF c = None THEN {} ELSE Reach[c]

\* The saves of the branch whose tip is c (git.rev_list).
History(c) == ReachFrom(c) \cap Commits
=============================================================================
