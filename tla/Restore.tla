------------------------------ MODULE Restore ------------------------------
(***************************************************************************)
(* bup restore: what was saved, read back through the trees of TreeStore,  *)
(* and made again in a directory of the file system (cmd/restore.py, the   *)
(* create and apply methods of metadata.py, write_sparsely of _helpers.c). *)
(*                                                                         *)
(* The file system maps paths below the output directory to inodes, so     *)
(* that two names of one file are two paths with one inode.  The output    *)
(* directory is the empty path.  Real metadata is a tuple                  *)
(* <<"of", id, mode, link, owner>>: link is the hard link target, or None. *)
(***************************************************************************)
EXTENDS TreeStore

CONSTANTS
    Restores,   \* the restores a run may make after a save, see Init
    ReadSize,   \* how much of a file is read and written at a time
    MinSparse   \* the shortest run of zeros that is left as a hole

VARIABLES
    todo,       \* the restore, or None; its paths shrink as they are done
    work,       \* the directories being restored, outermost first
    fs,         \* path -> inode
    node,       \* inode -> what it is
    hardlinks,  \* hard link target -> the paths restored for it, with their items
    result,     \* "run", "done", or how it failed
    gave,       \* path -> what was saved of what is restored there
    again       \* the paths restored more than once

rvars == <<todo, work, fs, node, hardlinks, result, gave, again>>
allvars == <<vars, rvars>>

Now == <<"now">>
Fresh == <<"fresh">>
Keep == {}
NoChange == [uid |-> Keep, gid |-> Keep]

ModeOf(i) ==
    IF Len(i.meta) > 1 THEN i.meta[3]
    ELSE CASE i.kind = "dir" -> "dir" [] i.kind = "link" -> "lnk" [] OTHER -> "reg"
LinkOf(i) == IF Len(i.meta) > 1 THEN i.meta[4] ELSE None
-----------------------------------------------------------------------------
\* Sparse writing.  A file being written is its contents, up to the last
\* byte written, and the place the next write goes to.
WriteAt(f, bytes) ==
    LET gap == [k \in 1..(f.pos - Len(f.data)) |-> 0]
    IN IF bytes = <<>> THEN f ELSE [data |-> f.data \o gap \o bytes, pos |-> f.pos + Len(bytes)]

\* Places in a buffer; an end is the place after the last byte.
RECURSIVE find_not_zero(_, _)
find_not_zero(buf, start) ==
    IF start > Len(buf) \/ buf[start] # 0 THEN start ELSE find_not_zero(buf, start + 1)

RECURSIVE find_trailing_zeros(_, _, _)
find_trailing_zeros(buf, start, end) ==
    IF start = end \/ buf[end - 1] # 0 THEN end ELSE find_trailing_zeros(buf, start, end - 1)

\* Probe in jumps of min_len for a run of so many zeros; those from
\* candidate up to `known` have been seen.
RECURSIVE ProbeFrom(_, _, _, _)
ProbeFrom(buf, candidate, known, min_len) ==
    LET end == Len(buf) + 1
        probe_end == candidate + min_len
        whole == end - candidate >= min_len
        zeros == find_trailing_zeros(buf, known, IF whole THEN probe_end ELSE end)
    IN CASE whole /\ zeros = probe_end -> ProbeFrom(buf, probe_end, probe_end, min_len)
         [] whole /\ zeros # probe_end /\ zeros # known -> ProbeFrom(buf, zeros, probe_end, min_len)
         [] candidate # end /\ zeros = known /\ (whole => zeros # probe_end) -> candidate
         [] ~whole /\ (candidate = end \/ zeros # known) -> zeros

find_non_sparse_end(buf, start, min_len) == ProbeFrom(buf, start, start, min_len)

\* Write a buffer from `block` on with `zeros` pending before it.
RECURSIVE write_sparsely(_, _, _, _)
write_sparsely(f, buf, block, zeros) ==
    IF block > Len(buf) THEN [f |-> f, zeros |-> zeros]
    ELSE IF buf[block] # 0
    THEN LET probe == find_non_sparse_end(buf, block + 1, MinSparse)
             rest == Len(buf) + 1 - probe
             pending == IF rest < MinSparse THEN rest ELSE MinSparse
         IN write_sparsely(WriteAt([f EXCEPT !.pos = @ + zeros], SubSeq(buf, block, probe - 1)), buf, probe + pending, pending)
    ELSE LET e == find_not_zero(buf, block) IN write_sparsely(f, buf, e, zeros + e - block)

\* The buffers a file is read in.
RECURSIVE chunkyreader(_)
chunkyreader(f) ==
    LET From(r) == IF r.buf = <<>> THEN <<>> ELSE <<r.buf>> \o chunkyreader(r.file) IN From(FileRead(f, ReadSize))

write_file_content(oid) == FlattenSeq(chunkyreader(FileReader(oid)))

\* At the end the file is extended by the zeros still pending.
write_file_content_sparsely(oid) ==
    LET Step(s, buf) == write_sparsely(s.f, buf, 1, s.zeros)
        Extended(s) == s.f.data \o [k \in 1..s.zeros |-> 0]
    IN Extended(FoldLeft(Step, [f |-> [data |-> <<>>, pos |-> 0], zeros |-> 0], chunkyreader(FileReader(oid))))
-----------------------------------------------------------------------------
\* Ownership.  A policy says who restores and with which options; what
\* lchown is to set is a set of one id, or of none.
Mapped(map, x) == IF x \in DOMAIN map THEN map[x] ELSE x

OwnerFor(own, p) ==
    LET user == Mapped(p.map_user, own.user)
        group == Mapped(p.map_group, own.group)
        uid == Mapped(p.map_uid, own.uid)
        gid == Mapped(p.map_gid, own.gid)
        ByName(id, name, known) == ~p.numeric /\ id # 0 /\ name \in DOMAIN known
        mine == {g \in DOMAIN p.groups : p.groups[g] \in p.gids}
        ByMine(id, name) == ~p.numeric /\ id # 0 /\ name \in mine
    IN [uid |-> CASE ~p.root -> Keep
                  [] p.root /\ ByName(uid, user, p.users) -> {p.users[user]}
                  [] OTHER -> {uid},
        gid |-> CASE p.root /\ ByName(gid, group, p.groups) -> {p.groups[group]}
                  [] p.root /\ ~ByName(gid, group, p.groups) -> {gid}
                  [] ~p.root /\ ByMine(gid, group) -> {p.groups[group]}
                  [] ~p.root /\ ~ByMine(gid, group) /\ gid \in p.gids -> {gid}
                  [] OTHER -> Keep]

\* An inode: what it is, what it holds, and its times, permissions and
\* owner, as far as they were set.  Writing changes the times; setting the
\* owner drops permission bits that chmod then sets.
Inode(mode) ==
    [kind |-> mode, data |-> <<>>, time |-> Now, perm |-> Fresh, owner |-> NoChange]
Write(n, data) == [n EXCEPT !.data = data, !.time = Now]
Utime(n, meta) == [n EXCEPT !.time = meta]
Lchown(n, meta, p) ==
    LET owner == OwnerFor(meta[5], p)
    IN IF Len(meta) = 1 \/ owner = NoChange THEN n ELSE [n EXCEPT !.owner = owner, !.perm = Fresh]
Chmod(n, meta) == IF n.kind = "lnk" THEN n ELSE [n EXCEPT !.perm = meta]
\* MISTAKE: the owner is set last.
apply_owner_last(n, meta, p) == Lchown(Chmod(Utime(n, meta), meta), meta, p)
apply_common_rec(n, meta, p) == Chmod(Lchown(Utime(n, meta), meta, p), meta)
-----------------------------------------------------------------------------
Parent(path) == SubSeq(path, 1, Len(path) - 1)
HasChildren(path) == \E q \in DOMAIN fs : Len(q) > Len(path) /\ IsPrefix(path, q)
NewInode == CHOOSE n \in 0..Cardinality(DOMAIN node) : n \notin DOMAIN node
Touch(nodes, path) == [nodes EXCEPT ![fs[Parent(path)]].time = Now]

MayCreate(path) == ~(path \in DOMAIN fs /\ node[fs[path]].kind = "dir" /\ HasChildren(path))

\* MISTAKE: a file that is there is written over.
create_in_place(path, n) ==
    LET at == IF path \in DOMAIN fs THEN fs[path] ELSE NewInode
    IN /\ MayCreate(path)
       /\ fs' = (path :> at) @@ fs
       /\ node' = Touch((at :> n) @@ node, path)

\* Whatever is at the path gives way to a new inode, unless it is a
\* directory with something in it.
create_path(path, n) ==
    /\ MayCreate(path)
    /\ fs' = (path :> NewInode) @@ fs
    /\ node' = Touch((NewInode :> n) @@ node, path)

Root(d) == d.dir.name = <<>>
RootDir == CHOOSE d \in stored : Root(d)
Saved(tree) == CHOOSE d \in stored : d.tree = tree

\* What a path names, looked up segment by segment.
RECURSIVE Resolve(_, _)
Resolve(item, path) ==
    IF path = <<>> THEN <<item>>
    ELSE IF item.kind # "dir" THEN <<>>
    ELSE LET Below(found) == IF found = <<>> THEN <<>> ELSE Resolve(found[1], Tail(path))
         IN Below(SelectSeq(tree_items(item.oid, {DotName, Head(path)}, TRUE), LAMBDA i : i.name = Head(path)))

Listing(tree) == tree_items(tree, {}, TRUE)

\* A directory whose items are still to be restored, in what was saved as
\* `of`; its metadata is applied at the end, unless it is None.
Frame(path, items, meta, of) == [path |-> path, items |-> items, meta |-> meta, of |-> of]
WholeFrame(path, list, of) == Frame(path, Tail(list), list[1].meta, of)

RestoreInit ==
    /\ \/ Init /\ todo = None /\ fs = (<<>> :> 0) /\ node = (0 :> Inode("dir"))
       \/ \E r \in Restores :
             /\ calls = r.calls /\ trees = r.trees
             /\ stack = <<>> /\ job = None /\ stored = {}
             /\ answer = None /\ file = None /\ got = None /\ reads = 0
             /\ todo = [r EXCEPT !.calls = <<>>] /\ fs = r.fs /\ node = r.node
    /\ work = <<>> /\ hardlinks = <<>> /\ gave = <<>> /\ again = {}
    /\ result = "run"

Restoring == Idle /\ todo # None /\ result = "run"

\* The next path of the command line: a thing to restore by its name, or,
\* with a slash at the end, a directory whose children come here.
Lookup(path) == Resolve(Item(<<>>, "dir", RootDir.tree, Default), path)
Within(path) == IF path = <<>> THEN RootDir ELSE Saved(Lookup(Parent(path))[1].oid)
Frames(arg, found) ==
    CASE found = <<>> -> <<>>
      [] found # <<>> /\ arg.tail = "" -> <<Frame(<<>>, found, None, Within(arg.path))>>
      [] found # <<>> /\ arg.tail # "" /\ found[1].kind # "dir" -> <<>>
      [] OTHER -> LET f == WholeFrame(<<>>, Listing(found[1].oid), Saved(found[1].oid))
                  IN <<IF arg.tail = "/." THEN f ELSE [f EXCEPT !.meta = None]>>
NextPath ==
    /\ Restoring /\ work = <<>> /\ todo.paths # <<>>
    /\ work' = Frames(Head(todo.paths), Lookup(Head(todo.paths).path))
    /\ todo' = [todo EXCEPT !.paths = Tail(@)]
    /\ UNCHANGED <<vars, fs, node, hardlinks, result, gave, again>>

Top == Last(work)
Rest == [work EXCEPT ![Len(work)].items = Tail(@)]
ItemOf(d, name) == CHOOSE w \in SavedItems(d) : w.name = name
Next1 == Head(Top.items)
FullName == Append(Top.path, Next1.name)
At == Restoring /\ work # <<>> /\ Top.items # <<>>

\* Remember what was saved of what is now at the path.
Gave(what) ==
    /\ gave' = (FullName :> what) @@ gave
    /\ again' = IF FullName \in DOMAIN gave THEN again \cup {FullName} ELSE again
GivenFile == LET w == ItemOf(Top.of, Next1.name) IN [meta |-> w.meta, mode |-> w.mode, data |-> w.data]

Exclude ==
    /\ At /\ FullName \in todo.excluded
    /\ work' = Rest
    /\ UNCHANGED <<vars, todo, fs, node, hardlinks, result, gave, again>>

RestoreDir ==
    /\ At /\ FullName \notin todo.excluded /\ Next1.kind = "dir"
    /\ create_path(FullName, Inode("dir"))
    /\ work' = Append(Rest, WholeFrame(FullName, Listing(Next1.oid), Saved(Next1.oid)))
    /\ Gave([meta |-> Saved(Next1.oid).dir.meta, mode |-> "dir", data |-> <<>>])
    /\ UNCHANGED <<vars, todo, hardlinks, result>>

Versions(target) == IF target \in DOMAIN hardlinks THEN hardlinks[target] ELSE <<>>

\* MISTAKE: the metadata is not compared.
compatible_by_contents(prev, item) ==
    /\ prev.path \in DOMAIN fs /\ node[fs[prev.path]].kind # "lnk"
    /\ prev.item.oid = item.oid

\* A path already restored that the item may be another name of.
\* (The symbolic links of the model lead nowhere, so they do not "exist".)
hardlink_compatible(prev, item) ==
    /\ prev.path \in DOMAIN fs /\ node[fs[prev.path]].kind # "lnk"
    /\ prev.item.oid = item.oid
    /\ prev.item.meta = item.meta

Compatible(item) ==
    {k \in DOMAIN Versions(LinkOf(item)) : LinkOf(item) # None /\ hardlink_compatible(Versions(LinkOf(item))[k], item)}

\* Those the file system lets link to: some only within a directory.
Linkable(item, path) ==
    {k \in Compatible(item) : todo.exdev => Parent(Versions(LinkOf(item))[k].path) = Parent(path)}

AtFile == At /\ FullName \notin todo.excluded /\ Next1.kind # "dir"

Hardlink ==
    /\ AtFile /\ FullName \notin DOMAIN fs
    /\ LET ks == Linkable(Next1, FullName)
           k == CHOOSE k \in ks : \A j \in ks : k <= j
       IN /\ ks # {}
          /\ fs' = (FullName :> fs[Versions(LinkOf(Next1))[k].path]) @@ fs
          /\ node' = Touch(node, FullName)
    /\ work' = Rest /\ Gave(GivenFile)
    /\ UNCHANGED <<vars, todo, hardlinks, result>>

RestoreFile ==
    /\ AtFile /\ Linkable(Next1, FullName) = {}
    /\ FullName \in DOMAIN fs => Compatible(Next1) = {}
    /\ LET mode == ModeOf(Next1)
           data == CASE mode = "reg" /\ todo.sparse -> write_file_content_sparsely(Next1.oid)
                     [] mode = "reg" /\ ~todo.sparse -> write_file_content(Next1.oid)
                     [] mode = "lnk" -> Next1.oid.data
                     [] OTHER -> <<>>
       IN create_path(FullName, apply_common_rec(Write(Inode(mode), data), Next1.meta, todo.policy))
    /\ hardlinks' = IF LinkOf(Next1) = None THEN hardlinks
                    ELSE (LinkOf(Next1) :> Append(Versions(LinkOf(Next1)), [path |-> FullName, item |-> Next1])) @@ hardlinks
    /\ work' = Rest /\ Gave(GivenFile)
    /\ UNCHANGED <<vars, todo, result>>

\* An exception of the file system ends the whole restore.
Fail ==
    /\ At /\ FullName \notin todo.excluded
    /\ \/ Next1.kind # "dir" /\ Compatible(Next1) # {} /\ FullName \in DOMAIN fs /\ result' = "exists"
       \/ (Next1.kind = "dir" \/ Compatible(Next1) = {}) /\ ~MayCreate(FullName) /\ result' = "not empty"
    /\ UNCHANGED <<vars, todo, work, fs, node, hardlinks, gave, again>>

\* A directory's own metadata comes last, when its contents are there.
FinishDir ==
    /\ Restoring /\ work # <<>> /\ Top.items = <<>>
    /\ node' = IF Top.meta = None THEN node
               ELSE [node EXCEPT ![fs[Top.path]] = apply_common_rec(@, Top.meta, todo.policy)]
    /\ work' = SubSeq(work, 1, Len(work) - 1)
    /\ UNCHANGED <<vars, todo, fs, hardlinks, result, gave, again>>

Done ==
    /\ Restoring /\ work = <<>> /\ todo.paths = <<>>
    /\ result' = "done"
    /\ UNCHANGED <<vars, todo, work, fs, node, hardlinks, gave, again>>

\* After the save a run either looks around or restores: looking keeps
\* nothing that a restore would see.
RestoreNext ==
    \/ SaveNext /\ UNCHANGED rvars
    \/ todo = None /\ LookNext /\ UNCHANGED rvars
    \/ NextPath \/ Exclude \/ RestoreDir \/ Hardlink \/ RestoreFile \/ Fail \/ FinishDir \/ Done

Spec == RestoreInit /\ [][RestoreNext]_allvars
-----------------------------------------------------------------------------
LinkSaved(g) == IF Len(g.meta) > 1 THEN g.meta[4] ELSE None

\* One of the paths restored for the link target has been restored over.
Replaced(link) == link # None /\ \E k \in DOMAIN Versions(link) : Versions(link)[k].path \in again

\* What the user who restores may not do was not tried, and what was root's
\* is root's, if nothing maps it.
OwnerAllowed(owner, meta) ==
    /\ ~todo.policy.root => owner.uid = Keep /\ owner.gid \subseteq todo.policy.gids
    /\ todo.policy.root /\ Len(meta) > 1 /\ meta[5].uid = 0 /\ todo.policy.map_uid = <<>> => owner.uid \subseteq {0}

\* When a restore has finished, whatever it restored is what was saved there:
\* its kind, its contents, sparse or not, and its metadata, a directory's
\* after all its contents, with an owner it may have; unless a later path of
\* the command line was restored over a name that a hard link was then made
\* to (restore and hardlink_if_possible of cmd/restore.py, apply_to_path and
\* _apply_common_rec of metadata.py).
RestoredIsSaved ==
    result = "done" => \A p \in DOMAIN gave :
        LET n == node[fs[p]]
            g == gave[p]
        IN /\ OwnerAllowed(n.owner, g.meta)
           /\ \/ Replaced(LinkSaved(g))
              \/ n.kind = g.mode /\ n.data = g.data /\ MetaIs(n.time, g.meta) /\ (n.kind # "lnk" => n.perm = n.time)

\* Two names share a file after the restore exactly when they were names of
\* one file when saved, with the contents and metadata it had then, in
\* whatever order and over however many paths they were restored, as far as
\* the file system links between their directories (hardlink_if_possible).
LinksAreKept ==
    result = "done" => \A p, q \in DOMAIN gave :
        LET same == gave[p] = gave[q] /\ LinkSaved(gave[p]) # None
        IN p # q /\ ~Replaced(LinkSaved(gave[p])) /\ ~Replaced(LinkSaved(gave[q])) =>
              /\ fs[p] = fs[q] => same
              /\ same /\ (todo.exdev => Parent(p) = Parent(q)) => fs[p] = fs[q]

\* A file that was there before is never written to: if it had another name,
\* that one still has the old contents, names no path of the restore stands
\* for keep their files, and none is cut off from its directory (create_path
\* of metadata.py).
OldFilesKept ==
    todo # None =>
        /\ \A n \in DOMAIN todo.node : todo.node[n].kind # "dir" => node[n] = todo.node[n]
        /\ \A p \in DOMAIN todo.fs \ DOMAIN gave : fs[p] = todo.fs[p]
        /\ \A p \in DOMAIN fs \ {<<>>} : Parent(p) \in DOMAIN fs /\ node[fs[Parent(p)]].kind = "dir"
=============================================================================
