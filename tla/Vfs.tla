-------------------------------- MODULE Vfs --------------------------------
(***************************************************************************)
(* The virtual filesystem (vfs.py): "/" has the branches and ".tag", a     *)
(* branch has its saves by their dates and "latest", a save has the tree   *)
(* that was saved.  A long-lived process (ftp, web, fuse) resolves paths   *)
(* segment by segment, through a cache with random eviction, while other   *)
(* processes move the refs.                                                *)
(*                                                                         *)
(* Names are tuples: <<"x">> is x, <<time, n, digits>> the save name made  *)
(* of a local time and, if digits is not 0, of "-n" in that many digits.   *)
(* A path is the sequence of what is between its slashes.                  *)
(***************************************************************************)
EXTENDS Naturals, Sequences, FiniteSets, FiniteSetsExt, SequencesExt, Functions

CONSTANTS
    Node, Kind, Entries,    \* files, links, directories, their entries
    Target,                 \* [links -> paths]
    Commit, TreeOf, Prev,   \* commits, their trees and parents
    Sec, LocalTime,         \* their author times; [times -> what strftime prints]
    HasMeta,                \* the commits bup made (with metadata)
    Branches, Tags,         \* names of refs
    InitRefs,               \* [Branches \cup Tags -> what each points to]
    Moves,                  \* the refs other processes may set, and to what
    Requests,               \* what may be asked
    Base,                   \* of the numbers in save names, 10
    MaxHops,                \* links followed for one path, 100
    MaxItems,               \* the cache's size, 30000
    MaxAsks,                \* bound: requests
    None

Links == {n \in Node : Kind[n] = "link"}
Pointees(ref) == Commit \cup {None} \cup (IF ref \in Tags THEN Node ELSE {})
IsPath(path) == path \in Seq(Range(path)) \ {<<>>}

ASSUME VfsParameters ==
    /\ IsFiniteSet(Node) /\ IsFiniteSet(Commit) /\ None \notin Commit \cup Node
    /\ Kind \in [Node -> {"dir", "file", "link"}]
    /\ \A n \in Node : Kind[n] = "dir" => Range(Entries[n]) \subseteq Node
    /\ \A n \in Links : IsPath(Target[n])
    /\ \A c \in Commit : TreeOf[c] \in Node /\ Kind[TreeOf[c]] = "dir"
    /\ \A c \in Commit : Prev[c] \in Commit \cup {None} /\ LocalTime[Sec[c]] \in Nat
    /\ \A S \in (SUBSET Commit) \ {{}} : \E c \in S : Prev[c] \notin S
    /\ Branches \cap Tags = {} /\ <<".tag">> \notin Branches
    /\ \A r \in InitRefs : DOMAIN r = Branches \cup Tags /\ \A b \in DOMAIN r : r[b] \in Pointees(b)
    /\ \A mv \in Moves : mv[1] \in Branches \cup Tags /\ mv[2] \in Pointees(mv[1])
    /\ \A req \in Requests :
         /\ IsPath(req.path)
         /\ req \in [path : {req.path}, meta : BOOLEAN, follow : BOOLEAN, try : BOOLEAN, relative : BOOLEAN]
    /\ {Base, MaxHops, MaxItems, MaxAsks} \subseteq Nat /\ Base > 1 /\ MaxItems > 0

VARIABLES
    refs,           \* [Branches \cup Tags -> Commit \cup Node \cup {None}]
    cache,          \* [keys -> values]
    job,            \* the path being resolved
    answer,         \* the last answer
    asks,
    were,           \* all that refs have been
    met             \* the two ways out of what a path denotes, see below

vars == <<refs, cache, job, answer, asks, were, met>>

Name(x) == <<x>>

-----------------------------------------------------------------------------
(***************************************************************************)
(* Paths and items                                                         *)
(***************************************************************************)

\* _decompose_path.  A path of one empty part is no path.
Decompose(path) ==
    LET n == Len(path)
        blank == {Name(""), Name(".")}
        parts[i \in 0..n] == IF i = 0 THEN <<>>
                             ELSE IF path[i] \in blank THEN parts[i - 1]
                             ELSE Append(parts[i - 1], path[i])
    IN [absolute |-> path[1] = Name(""),
        mustBeDir |-> path[n] \in blank \/ parts[n] = <<>>,
        future |-> parts[n]]

RootItem == [is |-> "root"]
TagsItem == [is |-> "tags"]
NodeItem(n) == [is |-> "node", node |-> n]
CommitItem(c, meta) == [is |-> "commit", commit |-> c, meta |-> meta]
RevListItem(c, meta) == [is |-> "revlist", commit |-> c, meta |-> meta]
FakeLink(name) == [is |-> "fakelink", to |-> name]
Crash == [is |-> "crash"]

IsLink(item) == item.is = "fakelink" \/ (item.is = "node" /\ Kind[item.node] = "link")
IsDir(item) == ~IsLink(item) /\ (item.is = "node" => Kind[item.node] = "dir")
ReadLink(item) == IF item.is = "fakelink" THEN <<item.to>> ELSE Target[item.node]

Root == <<Name(""), RootItem>>

\* git rev-list: the newest first.
Revs ==
    LET revs[c \in Commit] == <<c>> \o (IF Prev[c] = None THEN <<>> ELSE revs[Prev[c]])
    IN revs

Digits ==
    LET digits[n \in Nat] == IF n < Base THEN 1 ELSE 1 + digits[n \div Base]
    IN digits

\* strftime(localtime(utc)).  Two times may print the same and a later one
\* less (an hour repeated), and author times need not grow along a branch.
Printed(c) == LocalTime[Sec[c]]

\* MISTAKE: numbered in the order of the list.
SaveNameForward(revs, i) ==
    LET time == Printed(revs[i])
        same == {j \in DOMAIN revs : Printed(revs[j]) = time}
        n == Cardinality({j \in same : j < i})
    IN IF Cardinality(same) = 1 THEN <<time, 0, 0>> ELSE <<time, n, Digits[Cardinality(same) - 1]>>

\* _reverse_suffix_duplicates: of the saves that print the same, the older
\* have the lower numbers, in as many digits as the highest needs.
SaveName(revs, i) ==
    LET time == Printed(revs[i])
        same == {j \in DOMAIN revs : Printed(revs[j]) = time}
        n == Cardinality({j \in same : j > i})
    IN IF Cardinality(same) = 1 THEN <<time, 0, 0>> ELSE <<time, n, Digits[Cardinality(same) - 1]>>

Items ==
    {RootItem, TagsItem} \cup {NodeItem(n) : n \in Node}
    \cup {CommitItem(c, meta) : c \in Commit, meta \in BOOLEAN}
    \cup {RevListItem(c, meta) : c \in Commit, meta \in BOOLEAN}
    \cup {FakeLink(SaveName(Revs[c], 1)) : c \in Commit}

ASSUME NoneIsNoItem == None \notin Items \cup {Crash}

-----------------------------------------------------------------------------
(***************************************************************************)
(* The cache.  What may evict returns the set of what may come out.        *)
(***************************************************************************)

Itm(c) == <<"itm", c>>
Rvl(c) == <<"rvl", c>>

\* MISTAKE: resolutions that differ in their parent share a key.
ResNoParent(req, parent) == <<"res", req.meta, req.follow, <<>>, req.path>>

NamesOf(past) == [i \in DOMAIN past |-> past[i][1]]

\* The parent is in the key by its names.
Res(req, parent) == <<"res", req.meta, req.follow, NamesOf(parent), req.path>>

Cached(ca, key) == key \in DOMAIN ca

Keep(ca, key, value) == [k \in DOMAIN ca \cup {key} |-> IF k = key THEN value ELSE ca[k]]

\* cache_notice
Notice(ca, key, value, overwrite) ==
    IF Cached(ca, key) THEN {IF overwrite THEN Keep(ca, key, value) ELSE ca}
    ELSE IF Cardinality(DOMAIN ca) < MaxItems THEN {Keep(ca, key, value)}
    ELSE {Keep(Restrict(ca, DOMAIN ca \ {victim}), key, value) : victim \in DOMAIN ca}

\* cache_get_commit_item: the commit, or else "." of its list of saves.
GetCommitItem(ca, c, needMeta) ==
    LET good(item) == needMeta => item.meta
    IN IF Cached(ca, Itm(c)) /\ good(ca[Itm(c)]) THEN ca[Itm(c)]
       ELSE IF Cached(ca, Rvl(c)) /\ good(ca[Rvl(c)].dot) THEN ca[Rvl(c)].dot
       ELSE None

With(ca, item) == [cache |-> ca, item |-> item]

\* _commit_item_from_oid and _revlist_item_from_oid
RevListItemFrom(ca, c, needMeta) ==
    LET old == GetCommitItem(ca, c, needMeta)
        meta == needMeta /\ c \in HasMeta
    IN IF old # None THEN {With(ca, RevListItem(c, old.meta))}
       ELSE {With(x, RevListItem(c, meta)) : x \in Notice(ca, Itm(c), CommitItem(c, meta), TRUE)}

\* _item_for_rev
ItemForRev(ca, c) ==
    LET old == GetCommitItem(ca, c, FALSE)
    IN IF old # None THEN {With(ca, old)}
       ELSE {With(x, CommitItem(c, FALSE)) : x \in Notice(ca, Itm(c), CommitItem(c, FALSE), FALSE)}

\* cache_commit: the saves of a branch, kept under its newest commit.
CacheCommit(ca, c, needMeta) ==
    LET revs == Revs[c]
        listing(x, items, dot) == [cache |-> x, items |-> items, dot |-> dot]
        begin == {listing(o.cache, <<>>, o.item) : o \in RevListItemFrom(ca, c, needMeta)}
        next(S, rev) == UNION {{listing(o.cache, Append(x.items, o.item), x.dot) :
                                   o \in ItemForRev(x.cache, rev)} : x \in S}
        listed[n \in 0..Len(revs)] == IF n = 0 THEN begin ELSE next(listed[n - 1], revs[n])
        entries(x) == [dot |-> x.dot, meta |-> needMeta, latest |-> SaveName(revs, 1),
                       saves |-> [name \in {SaveName(revs, i) : i \in DOMAIN revs} |->
                          x.items[CHOOSE i \in DOMAIN revs : SaveName(revs, i) = name]]]
        keep(x) == IF x.items[1].is = "revlist" THEN {With(x.cache, Crash)}   \* has no coid
                   ELSE {With(y, entries(x)) : y \in Notice(x.cache, Rvl(c), entries(x), TRUE)}
    IN UNION {keep(x) : x \in listed[Len(revs)]}

-----------------------------------------------------------------------------
(***************************************************************************)
(* contents() of one name: what it is, and the cache after it              *)
(***************************************************************************)

RootItems(ca, name, meta) ==
    IF name = Name(".tag") THEN {With(ca, TagsItem)}
    ELSE IF name \in Branches /\ refs[name] # None THEN RevListItemFrom(ca, refs[name], meta)
    ELSE {With(ca, None)}

TagItem(ca, x) ==
    IF x \in Node THEN NodeItem(x)
    ELSE LET old == GetCommitItem(ca, x, FALSE)
         IN IF old # None THEN old ELSE CommitItem(x, FALSE)

TagsItems(ca, name) ==
    {With(ca, IF name \in Tags /\ refs[name] # None THEN TagItem(ca, refs[name]) ELSE None)}

RevListItems(ca, c, name, meta) ==
    LET has == Cached(ca, Rvl(c)) /\ (meta => ca[Rvl(c)].meta)
        got == IF has THEN {With(ca, ca[Rvl(c)])} ELSE CacheCommit(ca, c, meta)
        pick(e) == IF e = Crash THEN Crash
                   ELSE IF name = Name("latest") THEN FakeLink(e.latest)
                   ELSE IF name \in DOMAIN e.saves THEN e.saves[name] ELSE None
    IN {With(o.cache, pick(o.item)) : o \in got}

TreeItems(ca, n, name) ==
    {With(ca, IF name \in DOMAIN Entries[n] THEN NodeItem(Entries[n][name]) ELSE None)}

Contents(ca, item, name, meta) ==
    CASE item.is = "node" -> TreeItems(ca, item.node, name)
      [] item.is = "commit" -> TreeItems(ca, TreeOf[item.commit], name)
      [] item.is = "revlist" -> RevListItems(ca, item.commit, name, meta)
      [] item.is = "root" -> RootItems(ca, name, meta)
      [] item.is = "tags" -> TagsItems(ca, name)

\* A directory that is met on the way gets its metadata.
WithMeta(item, meta) ==
    IF item.is = "commit" THEN CommitItem(item.commit, item.meta \/ (meta /\ item.commit \in HasMeta))
    ELSE item

-----------------------------------------------------------------------------
(***************************************************************************)
(* Resolving                                                               *)
(***************************************************************************)

NoJob == [is |-> "none"]
NoAnswer == [is |-> "none"]
Idle == job = NoJob

Init ==
    /\ refs \in InitRefs
    /\ cache = <<>> /\ job = NoJob /\ answer = NoAnswer
    /\ asks = 0 /\ were = {refs} /\ met = {}

\* The end of a resolution; held is what try_resolve falls back to.  What
\* is found is kept in the cache, an error is not.
Answer(is, past, ca, j) ==
    LET keep == IF is = "ok" /\ ~j.hit THEN Notice(ca, j.key, past, FALSE) ELSE {ca}
        leaf == Last(past)
        again == is = "ok" /\ j.req.try /\ j.held = <<>> /\ leaf[2] # None /\ IsLink(leaf[2])
        fallback == is = "ok" /\ j.held # <<>> /\ leaf[2] = None
    IN /\ cache' \in keep
       /\ IF again
          THEN /\ job' = [is |-> "again", req |-> j.req, parent |-> j.parent, held |-> past]
               /\ answer' = NoAnswer
          ELSE /\ job' = NoJob
               /\ answer' = [is |-> is, req |-> j.req, parent |-> j.parent,
                             past |-> IF fallback THEN j.held ELSE past]

NewJob(req, path, parent, follow, held, origin) ==
    LET d == Decompose(path)
        key == Res([req EXCEPT !.follow = follow, !.path = path], parent)
    IN [is |-> "busy", req |-> req, parent |-> origin, key |-> key,
        past |-> IF d.absolute \/ parent = <<>> THEN <<Root>> ELSE parent,
        future |-> d.future, hops |-> 0, follow |-> follow \/ d.mustBeDir,
        mustBeDir |-> d.mustBeDir, held |-> held, hit |-> Cached(cache, key)]

\* _resolve_path up to its loop.
Begin(req, path, parent, follow, held, origin) ==
    LET j == NewJob(req, path, parent, follow, held, origin)
    IN IF j.hit THEN Answer("ok", cache[j.key], cache, j)
       ELSE IF parent # <<>> /\ ~IsDir(Last(parent)[2]) THEN Answer("enotdir", parent, cache, j)
       ELSE job' = j /\ answer' = NoAnswer /\ UNCHANGED cache

\* resolve() and try_resolve(), from "/" or from the last answer.
Ask(req) ==
    /\ Idle /\ asks < MaxAsks
    /\ req.relative =>
         /\ answer.is = "ok" /\ Last(answer.past)[2] # None
         /\ Last(answer.past)[2].is # "fakelink"
    /\ LET parent == IF req.relative THEN answer.past ELSE <<>>
       IN Begin(req, req.path, parent, req.follow /\ ~req.try, <<>>, parent)
    /\ asks' = asks + 1
    /\ UNCHANGED <<refs, were, met>>

TryAgain ==
    /\ job.is = "again"
    /\ Begin(job.req, <<Last(job.held)[1]>>, Front(job.held), TRUE, job.held, job.parent)
    /\ UNCHANGED <<refs, asks, were, met>>

Busy == job.is = "busy"
Here == Last(job.past)

ResolveDone ==
    /\ Busy /\ job.future = <<>>
    /\ Answer(IF job.mustBeDir /\ ~IsDir(Here[2]) THEN "enotdir" ELSE "ok", job.past, cache, job)
    /\ UNCHANGED <<refs, asks, were, met>>

\* On to another place, with other names left.
Moved(j, past, future, hops) == [j EXCEPT !.past = past, !.future = future, !.hops = hops]

ResolveUp ==
    /\ Busy /\ job.future # <<>> /\ Head(job.future) = Name("..")
    /\ job' = Moved(job, IF Len(job.past) > 1 THEN Front(job.past) ELSE job.past, Tail(job.future), job.hops)
    /\ UNCHANGED <<refs, cache, answer, asks, were, met>>

\* MISTAKE: what is left of the path comes before the link's target.
SpliceBehind(target, rest) == rest \o target

Splice(target, rest) == target \o rest

\* A link's target replaces it, seen from where the link is or, with all
\* that is left of the path, from "/".
FollowLink(seg, item, ca) ==
    LET d == Decompose(ReadLink(item))
        rest == Tail(job.future)
    IN IF job.hops > MaxHops
       THEN Answer("eloop", Append(job.past, <<seg, item>>), ca, job) /\ UNCHANGED met
       ELSE IF d.absolute
       THEN /\ met' = met \cup (IF rest = <<>> THEN {} ELSE {"dropped"})
            /\ IF d.future = <<>> THEN Answer("ok", <<Root>>, ca, job)
               ELSE /\ job' = Moved(job, <<Root>>, d.future, job.hops + 1)
                    /\ cache' = ca /\ UNCHANGED answer
       ELSE /\ job' = Moved(job, job.past, Splice(d.future, rest), job.hops + 1)
            /\ cache' = ca /\ UNCHANGED <<answer, met>>

ResolveName ==
    /\ Busy /\ job.future # <<>> /\ Head(job.future) # Name("..")
    /\ LET seg == Head(job.future)
           rest == Tail(job.future)
           there(item) == Append(job.past, <<seg, item>>)
       IN \E o \in Contents(cache, Here[2], seg, job.req.meta) :
            LET item == o.item
                confused == item # None /\ item.is = "revlist" /\ Here[2].is \in {"revlist", "tags"}
                note == met \cup (IF confused THEN {"confused"} ELSE {})
            IN CASE item = None -> Answer("ok", there(None), o.cache, job) /\ UNCHANGED met
                 [] item = Crash -> Answer("crash", job.past, o.cache, job) /\ met' = met \cup {"confused"}
                 [] item \notin {None, Crash} /\ IsLink(item) /\ (rest # <<>> \/ job.follow) ->
                      FollowLink(seg, item, o.cache)
                 [] item \notin {None, Crash} /\ IsLink(item) /\ rest = <<>> /\ ~job.follow ->
                      /\ job' = Moved(job, there(item), <<>>, job.hops)
                      /\ cache' = o.cache /\ UNCHANGED <<answer, met>>
                 [] item \notin {None, Crash} /\ IsDir(item) ->
                      /\ job' = Moved(job, there(WithMeta(item, job.req.meta)), rest, job.hops)
                      /\ cache' = o.cache /\ met' = note /\ UNCHANGED answer
                 [] OTHER ->
                      /\ Answer(IF rest # <<>> \/ job.mustBeDir THEN "enotdir" ELSE "ok",
                                there(item), o.cache, job)
                      /\ UNCHANGED met
    /\ UNCHANGED <<refs, asks, were>>

\* Another process saves, removes saves or a branch, or moves a tag.
RefMoves ==
    /\ \E mv \in Moves :
         /\ refs[mv[1]] # mv[2]
         /\ refs' = [refs EXCEPT ![mv[1]] = mv[2]]
    /\ were' = were \cup {refs'}
    /\ UNCHANGED <<cache, job, answer, asks, met>>

Next ==
    \/ \E req \in Requests : Ask(req)
    \/ TryAgain
    \/ ResolveDone \/ ResolveUp \/ ResolveName
    \/ RefMoves

Spec == Init /\ [][Next]_vars

-----------------------------------------------------------------------------
(***************************************************************************)
(* What is right                                                           *)
(***************************************************************************)

\* What a branch and a tag are when the refs are w.
BranchItem(w, name) == IF w[name] = None THEN None ELSE RevListItem(w[name], FALSE)
TaggedItem(w, name) ==
    IF w[name] = None THEN None
    ELSE IF w[name] \in Node THEN NodeItem(w[name]) ELSE CommitItem(w[name], FALSE)

SavesMean(c, name) ==
    LET revs == Revs[c]
        found == {i \in DOMAIN revs : SaveName(revs, i) = name}
    IN IF name = Name("latest") THEN {FakeLink(SaveName(revs, 1))}
       ELSE IF found = {} THEN {None} ELSE {CommitItem(revs[i], FALSE) : i \in found}

TreeMeans(n, name) == IF name \in DOMAIN Entries[n] THEN {NodeItem(Entries[n][name])} ELSE {None}

\* What a name in a directory may be, when the refs have been W.
Means(W, item, name) ==
    CASE item.is = "root" /\ name \in Branches -> {BranchItem(w, name) : w \in W}
      [] item.is = "root" /\ name \notin Branches -> {IF name = Name(".tag") THEN TagsItem ELSE None}
      [] item.is = "tags" /\ name \in Tags -> {TaggedItem(w, name) : w \in W}
      [] item.is = "tags" /\ name \notin Tags -> {None}
      [] item.is = "revlist" -> SavesMean(item.commit, name)
      [] item.is = "commit" -> TreeMeans(TreeOf[item.commit], name)
      [] item.is = "node" -> TreeMeans(item.node, name)

\* Where one may be on a path: on the way, with names and links behind, or at
\* its end.
At(past, future, hops) == [is |-> "at", past |-> past, future |-> future, hops |-> hops]
End(is, past) == [is |-> is, past |-> past]

\* From a place through a name to what the name is there.
Through(p, item, follow) ==
    LET name == Head(p.future)
        rest == Tail(p.future)
        there == Append(p.past, <<name, item>>)
        to == Decompose(ReadLink(item))
    IN IF item = None THEN End("ok", there)
       ELSE IF IsLink(item) /\ (follow \/ rest # <<>>)
       THEN IF p.hops > MaxHops THEN End("eloop", there)
            ELSE At(IF to.absolute THEN <<Root>> ELSE p.past, to.future \o rest, p.hops + 1)
       ELSE IF ~IsDir(item) /\ rest # <<>> THEN End("enotdir", there)
       ELSE At(there, rest, p.hops)

Onward(W, p, follow) ==
    IF p.is # "at" THEN {p}
    ELSE IF p.future = <<>> THEN {End("ok", p.past)}
    ELSE IF Head(p.future) = Name("..")
    THEN {At(IF Len(p.past) = 1 THEN p.past ELSE Front(p.past), Tail(p.future), p.hops)}
    ELSE {Through(p, item, follow) : item \in Means(W, Last(p.past)[2], Head(p.future))}

\* A way ends when its names and the links it may follow are used up.
LongestTarget == Max({1} \cup {Len(Decompose(Target[n]).future) : n \in Links})
Enough(p) == Len(p.future) + 1 + (MaxHops + 1 - p.hops) * LongestTarget

\* Where a path leads, step by step.
Walk(W, p, follow) ==
    LET at[n \in 0..Enough(p)] ==
          IF n = 0 THEN {p} ELSE UNION {Onward(W, q, follow) : q \in at[n - 1]}
    IN at
Leads(W, p, follow) == Walk(W, p, follow)[Enough(p)]

\* Without metadata.
BareItem(item) ==
    IF item = None THEN None
    ELSE IF item.is = "commit" THEN CommitItem(item.commit, FALSE)
    ELSE IF item.is = "revlist" THEN RevListItem(item.commit, FALSE) ELSE item
Bare(past) == [i \in DOMAIN past |-> <<past[i][1], BareItem(past[i][2])>>]

Dangling(end) == end.is = "ok" /\ Last(end.past)[2] = None
AtLink(end) == end.is = "ok" /\ Last(end.past)[2] # None /\ IsLink(Last(end.past)[2])

\* What a path leads to from one of the places where one may be.
Denoted(W, path, parents, follow) ==
    LET d == Decompose(path)
        from(q) == IF ~IsDir(Last(q)[2]) THEN {End("enotdir", q)}
                   ELSE Leads(W, At(IF d.absolute THEN <<Root>> ELSE q, d.future, 0), follow \/ d.mustBeDir)
        wrong(e) == e.is = "ok" /\ d.mustBeDir /\ ~Dangling(e) /\ ~IsDir(Last(e.past)[2])
    IN {IF wrong(e) THEN End("enotdir", e.past) ELSE e : e \in UNION {from(q) : q \in parents}}

\* The places that have the names, as they were at any time.
Parents(W, names) ==
    IF names = <<>> THEN {<<Root>>}
    ELSE {e.past : e \in {x \in Leads(W, At(<<Root>>, Tail(names), 0), FALSE) : x.is = "ok" /\ ~Dangling(x)}}

\* What try_resolve says: where the path leads if its last name is not
\* followed; where that is a link, what the link's name leads to, seen from
\* its directory, or the link itself if there is nothing.
Tried(W, path, names) ==
    LET ends == Denoted(W, path, Parents(W, names), FALSE)
        again(e) == Denoted(W, <<Last(e.past)[1]>>, Parents(W, NamesOf(Front(e.past))), TRUE)
    IN UNION {IF ~AtLink(e) THEN {e}
              ELSE {IF Dangling(x) THEN e ELSE x : x \in again(e)} : e \in ends}

\* With all the caching, and with refs that move between the lookups of one
\* path and between paths, an answer is a place the path could denote at
\* the times its refs were read, also in a directory that was resolved
\* before.  The two exceptions are met: an absolute link that is not the
\* last name drops the rest of the path, and after an eviction a save's
\* item may be its branch's.
AnswersDenote ==
    (answer.is # "none" /\ met = {}) =>
        LET req == answer.req
            names == NamesOf(answer.parent)
        IN End(answer.is, Bare(answer.past)) \in
              IF req.try THEN Tried(were, req.path, names)
              ELSE Denoted(were, req.path, Parents(were, names), req.follow)

\* Save names: as text, a number is less than what it is a prefix of.
Before(a, b) ==
    \/ a[1] < b[1]
    \/ a[1] = b[1] /\ a[3] = b[3] /\ a[2] < b[2]
    \/ a[1] = b[1] /\ a[3] # b[3] /\
         LET cut(x, d) == x[2] \div (Base ^ (x[3] - d))
             d == IF a[3] < b[3] THEN a[3] ELSE b[3]
         IN cut(a, d) < cut(b, d) \/ (cut(a, d) = cut(b, d) /\ a[3] < b[3])

\* The list of a branch has every save once, by a name of its own made of
\* the save's time, and "latest" is the newest.  However many of them print
\* the same time, and wherever they are on the branch, their names sort by
\* age.  Saves that print different times sort by those times, which need
\* not be their ages: localtime and the author's clock decide.
SavesInOrder ==
    \A c \in Commit : Cached(cache, Rvl(c)) =>
        LET e == cache[Rvl(c)]
            revs == Revs[c]
        IN /\ Cardinality(DOMAIN e.saves) = Len(revs)
           /\ \A i \in DOMAIN revs :
                \E name \in DOMAIN e.saves :
                  /\ e.saves[name].commit = revs[i] /\ name[1] = Printed(revs[i])
                  /\ Cardinality({x \in DOMAIN e.saves : x[1] = name[1] /\ Before(name, x)})
                       = Cardinality({j \in DOMAIN revs : j < i /\ Printed(revs[j]) = name[1]})
           /\ e.saves[e.latest].commit = c
=============================================================================
