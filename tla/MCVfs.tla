------------------------------- MODULE MCVfs -------------------------------
(***************************************************************************)
(* A branch of four saves of which three print one time and need two       *)
(* digits, the other an hour that is then repeated; the last was made with *)
(* a clock set back.  A tag, and a tree with links to a file, to each      *)
(* other, and to the tag.                                                  *)
(***************************************************************************)
EXTENDS Vfs

CONSTANTS r, d1, f, rel, abs, top, loop, c1, c2, c3, c4

MCNode == {r, d1, f, rel, abs, top, loop}
MCKind == [n \in MCNode |-> CASE n \in {r, d1} -> "dir" [] n = f -> "file" [] OTHER -> "link"]
MCEntries == (r :> (Name("d") :> d1 @@ Name("rel") :> rel @@ Name("abs") :> abs @@ Name("top") :> top @@ Name("loop") :> loop))
             @@ (d1 :> (Name("f") :> f))
Path(s) == [i \in DOMAIN s |-> Name(s[i])]
MCTarget == (rel :> Path(<<"d", "f">>)) @@ (abs :> Path(<<"", ".tag", "t">>)) @@ (top :> Path(<<"", "">>))
            @@ (loop :> Path(<<"d", "..", "loop">>))
MCCommit == {c1, c2, c3, c4}
MCTreeOf == [c \in MCCommit |-> r]
MCPrev == (c1 :> None) @@ (c2 :> c1) @@ (c3 :> c2) @@ (c4 :> c3)
MCSec == (c1 :> 2) @@ (c2 :> 3) @@ (c3 :> 4) @@ (c4 :> 2)
MCLocalTime == (2 :> 2) @@ (3 :> 3) @@ (4 :> 2)
main == Name("main")
t == Name("t")
MCBranches == {main}
MCTags == {t}
MCInitRefs == {(main :> c1) @@ (t :> c1)}
MCMoves == {<<main, c4>>, <<t, d1>>}

Req(path, meta, follow) == [path |-> Path(path), meta |-> meta, follow |-> follow, try |-> FALSE, relative |-> FALSE]
Rel(path, meta, follow) == [Req(path, meta, follow) EXCEPT !.relative = TRUE]
Try(path) == [Req(path, FALSE, TRUE) EXCEPT !.try = TRUE]
MCRequests == {Req(<<"", "main">>, TRUE, TRUE), Req(<<"", "main", "latest">>, FALSE, FALSE),
               Try(<<"", "main", "latest", "abs">>), Req(<<"", "main", "latest", "abs", "f">>, FALSE, TRUE),
               Req(<<"", "main", "latest", "top">>, FALSE, TRUE),
               Req(<<"", "main", "latest", "rel", "">>, FALSE, TRUE), Req(<<"", "main", "latest", "loop", "d">>, TRUE, TRUE),
               Req(<<"", ".tag", "t">>, FALSE, TRUE),
               Rel(<<"latest">>, TRUE, TRUE), Rel(<<"..", "t">>, TRUE, TRUE), Rel(<<"d", ".", "f">>, FALSE, FALSE)}
=============================================================================
