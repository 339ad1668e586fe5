----------------------------- MODULE MCRestore -----------------------------
(***************************************************************************)
(* Saves and restores for TLC: names whose order differs with and without  *)
(* a slash, mangled names, names that begin others, chunk lists around the *)
(* limits; hard links, holes, owners, and what is in the way of a restore. *)
(***************************************************************************)
EXTENDS Restore

a == <<97>>
ab == <<97, 98>>
ad == <<97, Dash>>
adb == <<97, Dash, 98>>
b == <<98>>
dotb == <<Dot, 98>>

Chunk(data, level) == [data |-> data, level |-> level]
One == <<Chunk(<<1>>, 0)>>
Two == <<Chunk(<<1, 2>>, 0), Chunk(<<3>>, 0)>>
PushCall(name, meta) == [op |-> "push", name |-> name, meta |-> meta]
AppendCall(name, mode, chunks, meta) == [op |-> "append", name |-> name, mode |-> mode, chunks |-> chunks, meta |-> meta]
PopCall == [op |-> "pop"]

Owner(uid, user, gid, group) == [uid |-> uid, user |-> user, gid |-> gid, group |-> group]
Someone == Owner(5, "u", 5, "g")
Superuser == Owner(0, "root", 0, "wheel")
Real(id, mode, link, owner) == <<"of", id, mode, link, owner>>
Plain(id, mode) == Real(id, mode, None, Someone)

Calls(name, kind, meta) ==
    CASE kind = "file" -> <<AppendCall(name, "reg", One, meta)>>
      [] kind = "chunked" -> <<AppendCall(name, "reg", Two, meta)>>
      [] kind = "link" -> <<AppendCall(name, "lnk", One, meta)>>
      [] kind = "dir" -> <<PushCall(name, Plain(name, "dir")), PopCall>>
Tree(meta, body) == <<PushCall(<<>>, meta)>> \o body \o <<PopCall>>

\* Which metadata is real: all of it, none, all but the directory's, all but
\* the directory's and one file's.
Patterns == {"all", "no", "fake", "some"}
DirMetaIn(p) == CASE p = "all" -> Plain(<<>>, "dir") [] p = "fake" -> EmptyMeta [] OTHER -> ModeOnly
MetaIn(p, k, n) == CASE p = "no" -> ModeOnly [] p = "some" /\ k = 1 -> NoMeta [] OTHER -> Plain(n, "reg")
Body(names, S, kinds, p) ==
    LET o == SetToSortSeq(S, >)
    IN FlattenSeq([k \in DOMAIN o |->
           Calls(names[o[k]], kinds[k], IF kinds[k] = "link" THEN Plain(names[o[k]], "lnk") ELSE MetaIn(p, k, names[o[k]]))])
Picks(names, n) == {S \in SUBSET DOMAIN names : Cardinality(S) = n}

MixedNames == <<a, ad, adb, a \o BUP, BUPM \o <<Dash>>>>
Mixed == {Tree(DirMetaIn(p), Body(MixedNames, S, kinds, p)) :
             p \in Patterns \ {"fake"}, S \in Picks(MixedNames, 3), kinds \in [1..3 -> {"file", "chunked", "dir"}]}
LongNames == <<dotb, a, ad, ab, ab \o b, b>>
Long == {Tree(DirMetaIn(p), Body(LongNames, S, [k \in 1..5 |-> IF k = 2 THEN "link" ELSE "file"], p)) :
             p \in {"all", "fake"}, S \in Picks(LongNames, 5)}
Twice == {Tree(Plain(<<>>, "dir"), Calls(a, "file", Plain(a, "reg")) \o Calls(b, k, Plain(b, "reg")) \o Calls(a, j, Plain(ab, "reg"))) :
             j, k \in {"file", "dir"}}

Sized(sizes, levels) == [i \in DOMAIN sizes |-> Chunk([k \in 1..sizes[i] |-> 100 * i + k], levels[i])]
OneFile(chunks) == Tree(Plain(<<>>, "dir"), <<AppendCall(a, "reg", chunks, Plain(a, "reg"))>>)
Files == {OneFile(Sized(ss, ls)) : ss \in {<<1, 14, 1>>, <<14, 1, 2>>, <<1, 1, 14>>}, ls \in [1..3 -> 0..2]}
         \cup {OneFile(Sized([i \in 1..n |-> 1], [i \in 1..n |-> 0])) : n \in {0, 1, 3, 4, 9, 10}}

MCSaves == Mixed \cup Long \cup Files \cup Twice
MCAsked == {<<97, 97>>}
MCOffsets == {1, 15, 16}
MCCounts == {1, 15, -1}
-----------------------------------------------------------------------------
x == <<120>>
y == <<121>>
f == <<102>>
g == <<103>>
h == <<104>>
k == <<107>>
V(version, link) == Real(<<version>>, "reg", link, Someone)
Linked == Tree(Plain(<<>>, "dir"),
    <<PushCall(x, Plain(x, "dir")),
      AppendCall(f, "reg", Two, V(1, "T")), AppendCall(g, "reg", Two, V(1, "T")), AppendCall(h, "reg", Two, V(2, "T")),
      PopCall,
      PushCall(y, Plain(y, "dir")),
      AppendCall(f, "reg", One, Plain(f, "reg")), AppendCall(k, "reg", Two, V(1, "T")),
      PopCall>>)
Special == Tree(Plain(<<>>, "dir"),
    <<PushCall(x, Real(x, "dir", None, Superuser)),
      AppendCall(f, "lnk", One, Plain(f, "lnk")), AppendCall(g, "fifo", <<>>, Plain(g, "fifo")),
      AppendCall(h, "reg", One, Real(h, "reg", None, Superuser)), AppendCall(k, "reg", One, NoMeta),
      PopCall>>)

NoMap == <<>>
Policy(root, numeric) ==
    [root |-> root, numeric |-> numeric, users |-> [u |-> 7, root |-> 8, w |-> 9], groups |-> [g |-> 5, wheel |-> 3, w |-> 6],
     gids |-> {3, 5}, map_user |-> NoMap, map_group |-> NoMap, map_uid |-> NoMap, map_gid |-> NoMap]
AsUser == Policy(FALSE, FALSE)
Policies ==
    {Policy(r, n) : r, n \in BOOLEAN}
    \cup {[Policy(r, FALSE) EXCEPT !.map_user = ("u" :> "w"), !.map_group = ("g" :> "w")] : r \in BOOLEAN}
    \cup {[Policy(r, n) EXCEPT !.map_uid = (0 :> 4), !.map_gid = (0 :> 4)] : r, n \in BOOLEAN}

Arg(path, tail) == [path |-> path, tail |-> tail]
Job(save, split, paths) ==
    [calls |-> save, trees |-> split, paths |-> paths, excluded |-> {}, sparse |-> FALSE, exdev |-> FALSE,
     policy |-> AsUser, fs |-> (<<>> :> 0), node |-> (0 :> Inode("dir"))]

Args == {<<Arg(<<x>>, "")>>, <<Arg(<<x>>, "/."), Arg(<<y>>, "/")>>, <<Arg(<<y, k>>, ""), Arg(<<x, f>>, ""), Arg(<<x, h>>, "")>>,
         <<Arg(<<x, f>>, ""), Arg(<<y, f>>, ""), Arg(<<y, k>>, "")>>, <<Arg(<<a>>, ""), Arg(<<>>, "/")>>,
         <<Arg(<<y>>, "/"), Arg(<<x>>, "/.")>>, <<Arg(<<x>>, ""), Arg(<<y, f>>, "/"), Arg(<<y>>, "")>>,
         <<Arg(<<x, g>>, ""), Arg(<<x>>, "/")>>}
LinkJobs ==
    {[Job(Linked, FALSE, args) EXCEPT !.exdev = e, !.excluded = ex] :
        args \in Args, e \in BOOLEAN, ex \in {{}, {<<x, f>>, <<y>>}}}
    \cup {Job(Linked, TRUE, <<Arg(<<x>>, "")>>)}

\* What may be in the way: a file with a second name, an empty directory, a
\* directory that is not empty, a symbolic link.
Old(kind) == [Inode(kind) EXCEPT !.data = <<9>>]
Before1 == {[fs |-> (<<>> :> 0) @@ (n :> 1) @@ (<<b>> :> 1), node |-> (0 :> Inode("dir")) @@ (1 :> Old("reg"))] : n \in {<<x>>, <<f>>, <<h>>}}
Before2 == {[fs |-> (<<>> :> 0) @@ (n :> 1), node |-> (0 :> Inode("dir")) @@ (1 :> Inode("dir"))] : n \in {<<x>>, <<f>>}}
Before3 == {[fs |-> (<<>> :> 0) @@ (n :> 1) @@ (Append(n, b) :> 2),
             node |-> (0 :> Inode("dir")) @@ (1 :> Inode("dir")) @@ (2 :> Old("reg"))] : n \in {<<x>>, <<f>>}}
Before4 == {[fs |-> (<<>> :> 0) @@ (<<f>> :> 1), node |-> (0 :> Inode("dir")) @@ (1 :> Old("lnk"))]}
OverJobs ==
    {[Job(Special, FALSE, args) EXCEPT !.fs = o.fs, !.node = o.node] :
        args \in {<<Arg(<<x>>, "")>>, <<Arg(<<x>>, "/")>>}, o \in Before1 \cup Before2 \cup Before3 \cup Before4}
OwnerJobs == {[Job(Special, s, <<Arg(<<x>>, "")>>) EXCEPT !.policy = p] : s \in {FALSE}, p \in Policies}

\* Every file of up to six bytes that are zero or not, in two chunks.
Holes == UNION {[1..n -> {0, 1}] : n \in 1..6}
SparseJobs ==
    {[Job(OneFile(<<Chunk(SubSeq(d, 1, 2), 0), Chunk(SubSeq(d, 3, Len(d)), 0)>>), FALSE, <<Arg(<<a>>, "")>>) EXCEPT !.sparse = TRUE] :
        d \in {h1 \in Holes : Len(h1) > 2}}
    \cup {[Job(OneFile(<<Chunk(d, 0)>>), FALSE, <<Arg(<<a>>, "")>>) EXCEPT !.sparse = TRUE] : d \in Holes}

\* find_non_sparse_end gives what its comment says: where the first run of
\* min_len zeros begins, or the zeros that end the buffer, if any.
FirstRunOrTail(buf, start, min_len) ==
    LET zeros(from, to) == \A i \in from..to : buf[i] = 0
        runs == {i \in start..(Len(buf) - min_len + 1) : zeros(i, i + min_len - 1)}
        tails == {i \in start..(Len(buf) + 1) : zeros(i, Len(buf))}
        found == IF runs # {} THEN runs ELSE tails
    IN CHOOSE i \in found : \A j \in found : i <= j

ASSUME ProbeFindsFirstRun ==
    \A n \in 0..8, min_len \in 1..4 : \A buf \in [1..n -> {0, 1}], start \in 1..(n + 1) :
        find_non_sparse_end(buf, start, min_len) = FirstRunOrTail(buf, start, min_len)

MCRestores == LinkJobs \cup OverJobs \cup OwnerJobs \cup SparseJobs
=============================================================================
