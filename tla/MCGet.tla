------------------------------- MODULE MCGet -------------------------------
(***************************************************************************)
(* Two saves.  The second has the first one's directory under two names.   *)
(***************************************************************************)
EXTENDS Get

CONSTANTS r1, r2, s, f1, g, l, p, b, t, id1, id2

MCNode == {r1, r2, s, f1, g, l, p}
MCKind == [n \in MCNode |-> CASE n \in {r1, r2, s} -> "dir" [] n = l -> "link"
                              [] n = p -> "special" [] OTHER -> "file"]
MCEntries == (r1 :> [x |-> s]) @@ (r2 :> [x |-> s, y |-> s, z |-> g])
             @@ (s :> [f |-> f1, l |-> l, p |-> p])

Damage(m, a, d, n) == [missing |-> m, abridged |-> a, mismatched |-> d, noMeta |-> n]
MCDamages == {Damage({}, {}, {}, {}), Damage({f1, p}, {}, {}, {}), Damage({s}, {}, {}, {}),
              Damage({l}, {}, {}, {}), Damage({l}, {}, {}, {l}), Damage({}, {}, {}, {l}),
              Damage({}, {}, {l}, {}), Damage({g}, {r2}, {}, {}), Damage({}, {s}, {}, {})}

MCSaves == <<r1, r2>>

Plain(method, src, dest) == [method |-> method, src |-> src, dest |-> dest, mode |-> "copy",
                             id |-> None, excl |-> {}, ignore |-> FALSE]
New(method, src, mode, id, excl) ==
    [Plain(method, src, b) EXCEPT !.mode = mode, !.id = id, !.excl = excl]
MCSpecs == {Plain("ff", 1, b), Plain("ff", 2, b), Plain("append", 2, b), Plain("append", s, b),
            Plain("pick", 2, t), Plain("force-pick", 1, t), Plain("new-tag", s, t),
            Plain("replace", 1, b), Plain("replace", s, t), Plain("unnamed", 2, None),
            [Plain("unnamed", s, None) EXCEPT !.ignore = TRUE],
            New("append", 2, "rewrite", None, {}),
            New("pick", 2, "rewrite", None, {<<"y", "f">>}),
            New("append", 2, "repair", id1, {}),
            New("pick", 2, "repair", id2, {<<"y">>})}
=============================================================================
