----------------------------- MODULE TreeCodec -----------------------------
(***************************************************************************)
(* Names and git trees as git.py handles them.  The order of names decides *)
(* which metadata a file gets back, so a name is the sequence of its       *)
(* bytes.  An object is its own id: a blob holds its data, a tree its      *)
(* entries, each with a git mode, a name and an object.                    *)
(***************************************************************************)
EXTENDS Integers, Sequences, SequencesExt

Dash == 45
Dot == 46
Slash == 47
DotName == <<Dot>>
BUP == <<Dot, 98, 117, 112>>
BUPD == Append(BUP, 100)
BUPL == Append(BUP, 108)
BUPM == Append(BUP, 109)

EndsWith(name, suffix) ==
    /\ Len(name) >= Len(suffix)
    /\ SubSeq(name, Len(name) - Len(suffix) + 1, Len(name)) = suffix
Chop(name, n) == SubSeq(name, 1, Len(name) - n)

\* a sorts before b, byte by byte, a proper prefix first.
Before(a, b) ==
    \E i \in 1..Len(b) :
        /\ Len(a) >= i - 1
        /\ \A j \in 1..(i - 1) : a[j] = b[j]
        /\ Len(a) = i - 1 \/ a[i] < b[i]

\* MISTAKE: a name that looks like a mangled one is left as it is.
mangle_nothing(name, mode, gitmode) == IF mode = "reg" /\ gitmode = "tree" THEN name \o BUP ELSE name

\* A file stored as a tree of chunks gets ".bup", and a name that could be
\* taken for a mangled one gets ".bupl".
mangle_name(name, mode, gitmode) ==
    CASE mode = "reg" /\ gitmode = "tree" -> name \o BUP
      [] ~(mode = "reg" /\ gitmode = "tree")
         /\ (EndsWith(name, BUP) \/ (name # <<>> /\ EndsWith(Chop(name, 1), BUP))) -> name \o BUPL
      [] OTHER -> name

demangle_name(name, gitmode) ==
    CASE EndsWith(name, BUPL) -> [name |-> Chop(name, 5), chunked |-> FALSE]
      [] EndsWith(name, BUP) -> [name |-> Chop(name, 4), chunked |-> TRUE]
      [] EndsWith(name, BUPM) -> [name |-> Chop(name, 5), chunked |-> gitmode = "tree"]
      [] OTHER -> [name |-> name, chunked |-> FALSE]

\* The key git sorts an entry by: a tree as if its name ended in "/".
shalist_item_sort_key(ent) == IF ent.gitmode = "tree" THEN Append(ent.name, Slash) ELSE ent.name

tree_encode(shalist) ==
    [t |-> "tree",
     ents |-> SortSeq(shalist, LAMBDA a, b : Before(shalist_item_sort_key(a), shalist_item_sort_key(b)))]

Blob(data) == [t |-> "blob", data |-> data]
Entry(gitmode, name, oid) == [gitmode |-> gitmode, name |-> name, oid |-> oid]

\* The places of the entries that a scan for `named` accepts: the scan ends
\* at the first name beyond `limit`.
Reached(ents, named, limit) ==
    {i \in DOMAIN ents : ents[i].name = named /\ \A j \in 1..(i - 1) : ~Before(limit, ents[j].name)}
find_tree_entry(named, tree) == Reached(tree.ents, named, Append(named, Slash))
last_tree_entry(tree) == Last(tree.ents)
=============================================================================
