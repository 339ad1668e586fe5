---------------------------- MODULE MCRepository ----------------------------
(***************************************************************************)
(* Small repositories.  Packs are full at two objects unless a name says   *)
(* otherwise.                                                              *)
(***************************************************************************)
EXTENDS Repository, TLC

CONSTANTS b1, b2, t1, t2, c1, c2, c3

MCFullPacks == {S \in SUBSET Objects : Cardinality(S) >= 2}

\* Two saves of a branch, and what dropping the first of them makes of the
\* second: t2 keeps a blob the first save brought and has one of its own.
GrowEntries == (t1 :> {b1}) @@ (t2 :> {b1, b2})
GrowTreeOf == (c1 :> t1) @@ (c2 :> t2) @@ (c3 :> t2)
GrowParentOf == (c1 :> None) @@ (c2 :> c1) @@ (c3 :> None)

\* The same when the second save is of an empty directory.
EmptyEntries == (t1 :> {b1}) @@ (t2 :> {})

\* Two saves of unrelated branches.
LoneTreeOf == (c1 :> t1) @@ (c3 :> t2)
LoneParentOf == (c1 :> None) @@ (c3 :> None)

\* The same tree saved twice.  What dropping the first save makes of the
\* second has the parents of GrowParentOf.
SameEntries == (t1 :> {b1})
SameTreeOf == (c1 :> t1) @@ (c2 :> t1) @@ (c3 :> t1)
=============================================================================
