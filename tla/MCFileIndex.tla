---------------------------- MODULE MCFileIndex -----------------------------
(***************************************************************************)
(* /top/f, /top/sub and /top/sub/g.                                        *)
(***************************************************************************)
EXTENDS FileIndex, TLC

CONSTANTS top, sub, f, g, a, b, big, link

MCFiles == {f, g}
MCDirs == {top, sub}
MCAbove == [p \in MCFiles \cup MCDirs |->
                CASE p = top -> {}
                  [] p = g -> {sub, top}
                  [] OTHER -> {top}]
MCContents == {a, b, big, link}
MCMayBe == (f :> {a, b, big}) @@ (g :> {a, b, link})
MCFirstFiles == {(f :> big @@ g :> a), (f :> a @@ g :> None)}
MCOrder == <<g, sub, f, top>>
=============================================================================
