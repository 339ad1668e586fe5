----------------------------- MODULE TreeStore -----------------------------
(***************************************************************************)
(* Directories as trees: the stack that writes them (tree.py), whole or    *)
(* split into levels of subtrees, with the metadata of their files in      *)
(* .bupm, and the listing that reads them back (tree_items of vfs.py).     *)
(*                                                                         *)
(* A save is a sequence of calls on the stack.  Metadata is told apart by  *)
(* what it is of.                                                          *)
(***************************************************************************)
EXTENDS HashSplit, FiniteSets

CONSTANTS
    Saves,      \* the sequences of calls a run may make
    Asked,      \* the names a lookup may ask for beside the saved ones
    Offsets,    \* where a reader may seek to
    Counts,     \* how much one read may ask for
    MaxReads    \* the reads and seeks of a run

VARIABLES
    calls,      \* the calls still to come
    trees,      \* whether bup.split.trees is set
    stack,      \* the open directories, outermost first
    job,        \* the directory being written, level by level, or None
    stored,     \* the directories written, each with what was saved in it
    answer,     \* the last listing, with its question, or None
    file,       \* an open file reader, or None
    got,        \* the last read, with where it began and what it asked, or None
    reads       \* reads and seeks so far

vars == <<calls, trees, stack, job, stored, answer, file, got, reads>>

\* Metadata() itself, None, an integer mode, metadata known to be lost; and
\* what a reader makes up: the mode of git's entry, or the same without the
\* permissions of group and others.
EmptyMeta == <<"empty">>
NoMeta == <<"none">>
ModeOnly == <<"mode">>
LostMeta == <<"lost">>
Default == <<"default">>
Private == <<"private">>

\* What becomes of the metadata a TreeItem is made with.
TreeItem(name, mode, gitmode, oid, meta) ==
    [name |-> name, mode |-> mode, gitmode |-> gitmode, oid |-> oid, mangled |-> mangle_name(name, mode, gitmode),
     data |-> None, meta |-> IF meta = NoMeta THEN EmptyMeta ELSE meta, first |-> name, last |-> name]
SplitTreeItem(oid, first, last) ==
    [name |-> first, mode |-> "dir", gitmode |-> "tree", oid |-> oid, mangled |-> first,
     data |-> None, meta |-> EmptyMeta, first |-> first, last |-> last]

Front1(s) == SubSeq(s, 1, Len(s) - 1)

\* The children of the node a prefix names, in the trie of the names.
Children(prefix, names) == {n[Len(prefix) + 1] : n \in {m \in names : IsStrictPrefix(prefix, m)}}

\* The shortest prefix that backtracking from the whole name reaches without
\* passing a node with two children, or a name that is none.
abbreviate_tree_name(name, names) ==
    LET Passable(k) == /\ Cardinality(Children(SubSeq(name, 1, k), names)) <= 1
                       /\ SubSeq(name, 1, k) \notin {<<Dot>>, <<Dot, Dot>>}
        k == CHOOSE k \in 1..Len(name) :
                 /\ \A j \in k..(Len(name) - 1) : Passable(j)
                 /\ k = 1 \/ ~Passable(k - 1)
    IN SubSeq(name, 1, k)

\* MISTAKE: the last names of the subtrees do not count.
abbreviate_by_first_names(items, level) ==
    LET names == {items[i].first : i \in DOMAIN items}
    IN [i \in DOMAIN items |->
          [items[i] EXCEPT !.mangled = abbreviate_tree_name(items[i].first, names) \o <<Dot, Dot, 48 + level>> \o BUPD]]

abbreviate_item_names(items, level) ==
    LET names == {items[i].first : i \in DOMAIN items} \cup {items[i].last : i \in 1..(Len(items) - 1)}
    IN [i \in DOMAIN items |->
          [items[i] EXCEPT !.mangled = abbreviate_tree_name(items[i].first, names) \o <<Dot, Dot, 48 + level>> \o BUPD]]

\* The entries of the .bupm: the directory's own, then one for each item
\* that is no directory, by name; none when there is no real metadata.
NotDirs(items) == SelectSeq(items, LAMBDA i : i.mode # "dir")
IsReal(meta) == meta \notin {ModeOnly, NoMeta, LostMeta}
\* MISTAKE: the metadata is in the order of the mangled names.
dir_metadata_mangled(dir_meta, items) ==
    LET files == SortSeq(NotDirs(items), LAMBDA a, b : Before(a.mangled, b.mangled))
        Encoded(meta) == IF IsReal(meta) THEN meta ELSE EmptyMeta
    IN IF IsReal(dir_meta) \/ \E i \in DOMAIN files : IsReal(files[i].meta)
       THEN <<Encoded(dir_meta)>> \o [i \in DOMAIN files |-> Encoded(files[i].meta)]
       ELSE None
dir_metadata(dir_meta, items) ==
    LET files == SortSeq(NotDirs(items), LAMBDA a, b : Before(a.name, b.name))
        Encoded(meta) == IF IsReal(meta) THEN meta ELSE EmptyMeta
    IN IF IsReal(dir_meta) \/ \E i \in DOMAIN files : IsReal(files[i].meta)
       THEN <<Encoded(dir_meta)>> \o [i \in DOMAIN files |-> Encoded(files[i].meta)]
       ELSE None

\* The .bupm goes through the splitter like a file: in one piece, or cut.
BupmChunks(metas, cut) ==
    IF cut /\ Len(metas) > 1 THEN <<[data |-> <<Head(metas)>>, level |-> 0], [data |-> Tail(metas), level |-> 0]>>
    ELSE <<[data |-> metas, level |-> 0]>>

write_tree(dir_meta, items, add_meta, cut) ==
    LET BupmEntry(o) == Entry(o.gitmode, BUPM, o.oid)
        Bupm(metas) == IF metas = None THEN <<>> ELSE <<BupmEntry(split_to_blob_or_tree(BupmChunks(metas, cut)))>>
        entries == [i \in DOMAIN items |-> Entry(items[i].gitmode, items[i].mangled, items[i].oid)]
    IN tree_encode(Bupm(IF add_meta THEN dir_metadata(dir_meta, items) ELSE None) \o entries)

\* The groups of one level: a group ends where the name splitter splits,
\* unless it would hold a single item, and at the last item.
RECURSIVE Groups(_, _, _)
Groups(items, splits, i) ==
    IF items = <<>> THEN <<>>
    ELSE LET ends == {n \in 1..Len(items) : n = Len(items) \/ (n > 1 /\ (i + n) \in splits)}
             n == CHOOSE n \in ends : \A m \in ends : n <= m
         IN <<SubSeq(items, 1, n)>> \o Groups(SubSeq(items, n + 1, Len(items)), splits, i + n)

\* The first of several items of one name is the one kept.
RECURSIVE Clean(_)
Clean(items) ==
    IF items = <<>> THEN <<>>
    ELSE <<Head(items)>> \o Clean(SelectSeq(Tail(items), LAMBDA i : i.name # Head(items).name))
-----------------------------------------------------------------------------
Init ==
    /\ calls \in Saves
    /\ trees \in BOOLEAN
    /\ stack = <<>> /\ job = None /\ stored = {}
    /\ answer = None /\ file = None /\ got = None /\ reads = 0

Call(op) == calls # <<>> /\ job = None /\ Head(calls).op = op /\ calls' = Tail(calls)

Push ==
    /\ Call("push")
    /\ stack' = Append(stack, [name |-> Head(calls).name, meta |-> Head(calls).meta, items |-> <<>>])
    /\ UNCHANGED <<trees, job, stored, answer, file, got, reads>>

\* A file, a link or a special file (of which only the metadata counts),
\* stored and then noted in the innermost directory.  (data remembers what
\* was stored, for the properties.)
Data(chunks) == FlattenSeq([i \in DOMAIN chunks |-> chunks[i].data])
append_to_current ==
    /\ Call("append")
    /\ LET c == Head(calls)
           o == IF c.mode = "reg" THEN split_to_blob_or_tree(c.chunks)
                ELSE [gitmode |-> IF c.mode = "lnk" THEN "link" ELSE "file", oid |-> Blob(Data(c.chunks))]
           item == TreeItem(c.name, c.mode, o.gitmode, o.oid, c.meta)
       IN stack' = [stack EXCEPT ![Len(stack)].items = Append(@, [item EXCEPT !.data = Data(c.chunks)])]
    /\ UNCHANGED <<trees, job, stored, answer, file, got, reads>>

Pop ==
    /\ Call("pop")
    /\ LET d == Last(stack)
           items == Clean(d.items)
       IN job' = [dir |-> [d EXCEPT !.items = items], level |-> 0,
                  items |-> IF trees THEN SortSeq(items, LAMBDA a, b : Before(a.name, b.name)) ELSE items]
    /\ stack' = Front1(stack)
    /\ UNCHANGED <<trees, stored, answer, file, got, reads>>

\* The directory's tree is there: it becomes an item of the one around it.
Written(tree) ==
    /\ job' = None
    /\ stored' = stored \cup {[tree |-> tree, dir |-> job.dir]}
    /\ stack' = IF stack = <<>> THEN stack
                ELSE [stack EXCEPT ![Len(stack)].items = Append(@, TreeItem(job.dir.name, "dir", "tree", tree, NoMeta))]

\* Write what is left as one tree: the whole directory, or the top of a
\* split one.
WriteWhole(cut) ==
    /\ job # None
    /\ Written(write_tree(job.dir.meta, IF job.level > 0 THEN abbreviate_item_names(job.items, job.level) ELSE job.items,
                          TRUE, cut))
    /\ UNCHANGED <<calls, trees, answer, file, got, reads>>

\* Write the groups of this level as trees of their own: leaves with their
\* files' metadata, inner ones without.
WriteLevel(splits, cut) ==
    /\ job # None /\ trees
    /\ LET groups == Groups(job.items, splits, 0)
           Subtree(g) ==
               IF job.level = 0 THEN SplitTreeItem(write_tree(NoMeta, g, TRUE, cut), g[1].name, Last(g).name)
               ELSE SplitTreeItem(write_tree(NoMeta, abbreviate_item_names(g, job.level), FALSE, cut),
                                  g[1].first, Last(g).last)
       IN /\ Len(groups) > 1
          /\ job' = [job EXCEPT !.items = [i \in DOMAIN groups |-> Subtree(groups[i])], !.level = @ + 1]
    /\ UNCHANGED <<calls, trees, stack, stored, answer, file, got, reads>>
-----------------------------------------------------------------------------
\* An item as a listing gives it.
Item(name, kind, oid, meta) == [name |-> name, kind |-> kind, oid |-> oid, meta |-> meta]
Broken(why) == <<Item(<<>>, why, None, None)>>

find_bupm(ents) == Reached(ents, BUPM, BUPM)
Metas(ents, i) == Contents(ents[i].oid)
IsDirEntry(e) == e.gitmode = "tree" /\ ~demangle_name(e.name, e.gitmode).chunked

\* The entries with their real names; in the order of those when there is
\* metadata to match them with.
ordered_tree_entries(ents, bupm) ==
    LET real == [i \in DOMAIN ents |-> [e |-> ents[i], name |-> demangle_name(ents[i].name, ents[i].gitmode).name]]
        order == IF bupm THEN SortSeq(real, LAMBDA a, b : Before(a.name, b.name)) ELSE real
    IN SelectSeq(order, LAMBDA r : r.e.name # BUPM)

\* The items of one tree.  A lookup by names stops beyond the last of them,
\* and when it has found as many as were asked.
ItemsOf(es, names, bupm, metas) ==
    LET Nth(i) == Cardinality({j \in 1..i : ~IsDirEntry(es[j].e)})
        wanted == names \ {DotName}
        max == CHOOSE n \in names : \A m \in names : ~Before(n, m)
        last == IF bupm THEN max ELSE Append(max, Slash)
        Read(e, i) ==
            CASE IsDirEntry(e) \/ ~bupm -> Default
              [] ~IsDirEntry(e) /\ bupm /\ metas[Nth(i)] = EmptyMeta -> Private
              [] OTHER -> metas[Nth(i)]
        It(i) == Item(es[i].name,
                      CASE IsDirEntry(es[i].e) -> "dir"
                        [] ~IsDirEntry(es[i].e) /\ es[i].e.gitmode = "tree" -> "chunked"
                        [] OTHER -> es[i].e.gitmode,
                      es[i].e.oid, Read(es[i].e, i))
        stops == {i \in DOMAIN es : es[i].name \notin names /\ Before(last, es[i].name)}
                 \cup {i \in DOMAIN es : Cardinality({j \in 1..(i - 1) : es[j].name \in names}) >= Cardinality(wanted)}
        upto == IF stops = {} THEN Len(es) ELSE (CHOOSE i \in stops : \A j \in stops : i <= j) - 1
    IN IF bupm /\ Nth(Len(es)) # Len(metas) THEN Broken("missing metadata")
       ELSE IF names = {} THEN [i \in DOMAIN es |-> It(i)]
       ELSE LET hits == SelectSeq([i \in 1..upto |-> i], LAMBDA i : es[i].name \in names)
            IN [k \in DOMAIN hits |-> It(hits[k])]
tree_items_except_dot(ents, names, bupm, metas) == ItemsOf(ordered_tree_entries(ents, bupm), names, bupm, metas)

\* The leaves of a split tree, depth first.
RECURSIVE split_subtree_items(_, _, _, _, _)
split_subtree_items(level, ents, names, want_meta, root) ==
    IF level = 0
    THEN LET at == IF want_meta THEN find_bupm(ents) ELSE {}
         IN IF at = {} THEN tree_items_except_dot(ents, names, FALSE, <<>>)
            ELSE tree_items_except_dot(ents, names, TRUE, Tail(Metas(ents, CHOOSE i \in at : TRUE)))
    ELSE LET subs == SelectSeq(ents, LAMBDA e : ~(root /\ e.name = BUPM))
         IN FlattenSeq([i \in DOMAIN subs |->
                IF EndsWith(subs[i].name, <<Dot, 48 + level>> \o BUPD)
                THEN split_subtree_items(level - 1, subs[i].oid.ents, names, want_meta, FALSE)
                ELSE Broken("not a subtree")])

\* What the scan at the head of tree_items learns: how deep the tree is
\* split, and where .bupm is, unless it stops before it gets there.
Scan(ents, dot_requested) ==
    LET Step(s, i) ==
            LET n == ents[i].name
                split == EndsWith(n, BUPD)
                t == CASE split -> [s EXCEPT !.depth = n[Len(n) - 5] - 48, !.known = dot_requested, !.stop = ~dot_requested]
                       [] n = BUPM -> [s EXCEPT !.bupm = i, !.stop = s.known \/ s.depth > 0]
                       [] OTHER -> [s EXCEPT !.known = TRUE]
            IN IF s.stop THEN s ELSE [t EXCEPT !.stop = @ \/ Before(BUPM, n)]
    IN FoldLeftDomain(Step, [depth |-> 0, bupm |-> 0, known |-> FALSE, stop |-> FALSE], ents)

DirMeta(metas) == IF Head(metas) = EmptyMeta THEN Default ELSE Head(metas)

\* The directory itself, and its items, with the metadata there is.
DotItem(tree, metas) == Item(DotName, "dir", tree, IF metas = None THEN Default ELSE DirMeta(metas))
ItemsBelow(tree, names, depth, metas) ==
    CASE depth > 0 -> split_subtree_items(depth, tree.ents, names, metas # None, TRUE)
      [] depth = 0 /\ metas # None -> tree_items_except_dot(tree.ents, names, TRUE, Tail(metas))
      [] OTHER -> tree_items_except_dot(tree.ents, names, FALSE, <<>>)

ItemsWith(tree, names, dot_requested, depth, metas) ==
    (IF dot_requested THEN <<DotItem(tree, metas)>> ELSE <<>>) \o ItemsBelow(tree, names, depth, metas)

tree_items(tree, names, want_meta) ==
    LET dot_requested == names = {} \/ DotName \in names
        s == Scan(tree.ents, dot_requested)
    IN ItemsWith(tree, names, dot_requested, s.depth,
                 IF want_meta /\ s.bupm > 0 THEN Metas(tree.ents, s.bupm) ELSE None)

\* The directory's own metadata, as a resolution finds it.
find_treeish_oid_metadata(tree) ==
    LET at == find_tree_entry(BUPM, tree)
    IN IF at = {} THEN Default ELSE DirMeta(Metas(tree.ents, CHOOSE i \in at : TRUE))
-----------------------------------------------------------------------------
Idle == calls = <<>> /\ job = None

\* The questions the program asks: everything, for a listing; one name, with
\* the directory itself when metadata is wanted, for a resolution.
Question(d) ==
    LET names == {d.dir.items[i].name : i \in DOMAIN d.dir.items} \cup Asked
    IN {[names |-> {}, want_meta |-> w] : w \in BOOLEAN}
       \cup {[names |-> {DotName}, want_meta |-> TRUE]}
       \cup {[names |-> {n}, want_meta |-> FALSE] : n \in names}
       \cup {[names |-> {DotName, n}, want_meta |-> TRUE] : n \in names}

contents(d, q) ==
    /\ Idle /\ answer = None
    /\ answer' = [d |-> d, q |-> q, items |-> tree_items(d.tree, q.names, q.want_meta)]
    /\ UNCHANGED <<calls, trees, stack, job, stored, file, got, reads>>

\* (To the reader it does not matter which question found the item.)
fopen(i) ==
    /\ answer # None /\ file = None /\ reads < MaxReads
    /\ answer.q = [names |-> {}, want_meta |-> TRUE]
    /\ answer.items[i].kind \in {"file", "chunked"}
    /\ file' = FileReader(answer.items[i].oid)
    /\ UNCHANGED <<calls, trees, stack, job, stored, answer, got, reads>>

Seek(ofs) ==
    /\ file # None /\ reads < MaxReads
    /\ MaySeek(file, ofs)
    /\ file' = FileSeek(file, ofs)
    /\ reads' = reads + 1
    /\ UNCHANGED <<calls, trees, stack, job, stored, answer, got>>

Read(count) ==
    /\ file # None /\ reads < MaxReads
    /\ LET r == FileRead(file, count)
       IN file' = r.file /\ got' = [ofs |-> file.ofs, count |-> count, buf |-> r.buf]
    /\ reads' = reads + 1
    /\ UNCHANGED <<calls, trees, stack, job, stored, answer>>

SaveNext ==
    \/ Push \/ append_to_current \/ Pop
    \/ \E cut \in BOOLEAN : WriteWhole(cut)
    \/ \E cut \in BOOLEAN : job # None /\ \E splits \in SUBSET (1..Len(job.items)) : WriteLevel(splits, cut)

LookNext ==
    \/ \E d \in stored : \E q \in Question(d) : contents(d, q)
    \/ answer # None /\ \E i \in DOMAIN answer.items : fopen(i)
    \/ \E ofs \in Offsets : Seek(ofs)
    \/ \E count \in Counts : Read(count)
-----------------------------------------------------------------------------
SavedItems(d) == ToSet(d.dir.items)
Named(items, n) == {i \in DOMAIN items : items[i].name = n}

\* A listing of a directory names everything that was saved in it, once, and
\* a lookup exactly what it asked for, as what it was and with its contents,
\* however the directory was split and its names mangled; the directory
\* itself comes first, when asked for (contents and tree_items of vfs.py,
\* mangle_name of git.py, Stack of tree.py).
ListingIsWhole ==
    answer # None =>
        LET q == answer.q
            items == answer.items
            wanted == {i \in SavedItems(answer.d) : q.names = {} \/ i.name \in q.names}
            dot == q.names = {} \/ DotName \in q.names
        IN /\ dot => items # <<>> /\ items[1].name = DotName /\ items[1].oid = answer.d.tree
           /\ Len(items) = Cardinality(wanted) + (IF dot THEN 1 ELSE 0)
           /\ \A w \in wanted : \E k \in DOMAIN items :
                  /\ items[k].name = w.name /\ items[k].oid = w.oid
                  /\ items[k].kind = CASE w.mode = "dir" -> "dir" [] w.mode = "lnk" -> "link"
                                       [] OTHER -> IF w.gitmode = "tree" THEN "chunked" ELSE "file"

IsSplit(tree) == \E i \in DOMAIN tree.ents : EndsWith(tree.ents[i].name, BUPD)
RECURSIVE Parts(_)
Parts(tree) ==
    {tree} \cup UNION {Parts(tree.ents[i].oid) : i \in {j \in DOMAIN tree.ents : EndsWith(tree.ents[j].name, BUPD)}}

\* The .bupm of the directory, or of one of its leaves, is a tree, and so
\* sorts as ".bupm/", behind an entry whose name sorts behind ".bupm".
BupmIsHidden(tree) ==
    \E p \in Parts(tree) : \E i, j \in DOMAIN p.ents :
        i < j /\ Before(BUPM, p.ents[i].name) /\ p.ents[j].name = BUPM

\* A split tree without metadata of its own.
TopIsBare(d) == IsSplit(d.tree) /\ ~IsReal(d.dir.meta)

RealMeta(m) == IsReal(m) /\ m # EmptyMeta
MetaIs(m, saved) == IF RealMeta(saved) THEN m = saved ELSE m \in {Default, Private}

\* Whoever wants metadata gets for each file and for the directory what was
\* saved with it and never another one's, except for a .bupm the readers do
\* not reach and for a split directory without metadata of its own, whose
\* files come back with none (dir_metadata of tree.py against
\* ordered_tree_entries, tree_items and _find_treeish_oid_metadata of vfs.py).
MetadataComesBack ==
    /\ answer # None /\ answer.q.want_meta =>
          \A k \in DOMAIN answer.items :
              LET i == answer.items[k]
                  exempt == i.meta = Default /\ (BupmIsHidden(answer.d.tree) \/ TopIsBare(answer.d))
              IN \/ exempt
                 \/ i.name = DotName /\ MetaIs(i.meta, answer.d.dir.meta)
                 \/ \E w \in SavedItems(answer.d) :
                        w.name = i.name /\ (IF w.mode = "dir" THEN i.meta = Default ELSE MetaIs(i.meta, w.meta))
    /\ \A d \in stored : MetaIs(find_treeish_oid_metadata(d.tree), d.dir.meta)

\* The names below an entry of a split tree.
RECURSIVE NamesBelow(_)
NamesBelow(tree) ==
    IF IsSplit(tree)
    THEN UNION {NamesBelow(tree.ents[i].oid) : i \in {j \in DOMAIN tree.ents : tree.ents[j].name # BUPM}}
    ELSE {demangle_name(tree.ents[i].name, tree.ents[i].gitmode).name :
             i \in {j \in DOMAIN tree.ents : tree.ents[j].name # BUPM}}

\* In a split tree the names below a subtree are not before its own name and
\* are before the next one's, so that the subtrees' names are distinct, as
\* long as no saved name is the beginning of another (_abbreviate_tree_names
\* and _write_split_tree of tree.py).
SubtreeNamesBound ==
    \A d \in stored :
        (\A m, n \in SavedItems(d) : ~IsStrictPrefix(m.name, n.name)) =>
            \A p \in Parts(d.tree) : IsSplit(p) =>
                LET subs == SelectSeq(p.ents, LAMBDA e : e.name # BUPM)
                    Own(i) == Chop(subs[i].name, 8)
                IN \A i \in DOMAIN subs : \A n \in NamesBelow(subs[i].oid) :
                       /\ ~Before(n, Own(i))
                       /\ i < Len(subs) => Before(n, Own(i + 1))

RECURSIVE FanoutOK(_)
FanoutOK(o) ==
    o.t = "tree" => Len(o.ents) \in 2..MAX_PER_TREE /\ \A i \in DOMAIN o.ents : FanoutOK(o.ents[i].oid)

\* A file's chunks, its size and every read of it agree with what was saved:
\* a read gives as much as it asks for from where the reader stands, up to
\* the end, wherever the chunks and their trees begin and end; no tree of
\* chunks has one entry or more than the limit (hashsplit.py and the readers
\* of vfs.py).
FilesReadBack ==
    /\ \A d \in stored : \A i \in SavedItems(d) : i.mode = "reg" =>
          /\ normal_or_chunked_file_size(i.oid) = Len(i.data)
          /\ Contents(i.oid) = i.data
          /\ FanoutOK(i.oid)
    /\ got # None =>
          \A i \in SavedItems(answer.d) : i.oid = file.oid =>
              LET end == IF got.count = -1 \/ got.ofs + got.count > Len(i.data) THEN Len(i.data) ELSE got.ofs + got.count
              IN got.buf = SubSeq(i.data, got.ofs + 1, end)
=============================================================================
