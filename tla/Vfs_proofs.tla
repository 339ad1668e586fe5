----------------------------- MODULE Vfs_proofs -----------------------------
(***************************************************************************)
(* What the virtual filesystem answers is right for every history, every   *)
(* tree with links, every cache size and any number of requests, however   *)
(* the refs move meanwhile.                                                *)
(***************************************************************************)
EXTENDS Vfs, FiniteSetTheorems, NaturalsInduction, TLAPS

-----------------------------------------------------------------------------
(***************************************************************************)
(* Least numbers and least sets, in place of induction                     *)
(***************************************************************************)

\* A nonempty set of numbers has a least one.
LEMMA LeastNat ==
    ASSUME NEW T, T \subseteq Nat, T # {}
    PROVE  \E n \in T : \A m \in T : n <= m
<1> DEFINE Less == {p \in Nat \X Nat : p[1] < p[2]}
<1>1. IsWellFoundedOn(Less, Nat)
  BY NatLessThanWellFounded DEF OpToRel
<1>2. PICK n \in T : \A m \in T : <<m, n>> \notin Less
  <2> HIDE DEF Less
  <2>1. QED
    BY <1>1, WFMin
<1>3. \A m \in T : m < n => <<m, n>> \in Less
  OBVIOUS
<1> HIDE DEF Less
<1>4. \A m \in T : ~(m < n)
  BY <1>2, <1>3
<1>5. QED
  BY <1>4

\* What holds of 0 and is handed from each number to the next holds up to N.
LEMMA UpTo ==
    ASSUME NEW N \in Nat, NEW T, 0 \in T, \A n \in 0..N : n \in T /\ n < N => n + 1 \in T
    PROVE  0..N \subseteq T
<1> DEFINE Bad == {n \in 0..N : n \notin T}
<1>1. SUFFICES ASSUME Bad # {}
               PROVE  FALSE
  OBVIOUS
<1>2. PICK n \in Bad : \A m \in Bad : n <= m
  <2>1. Bad \subseteq Nat
    OBVIOUS
  <2> HIDE DEF Bad
  <2>2. QED
    BY <1>1, <2>1, LeastNat
<1>3. n # 0 /\ n \in 0..N
  OBVIOUS
<1>4. n - 1 \in 0..N /\ n - 1 < N /\ n - 1 < n
  BY <1>3
<1>5. n - 1 \in T
  BY <1>2, <1>4
<1>6. QED
  BY <1>2, <1>4, <1>5

\* A set that can be grown from nothing to any subset of a finite set, one
\* more element at a time: it may always be one more of those that are left.
LEMMA AllOf ==
    ASSUME NEW S, IsFiniteSet(S), NEW F, F \subseteq SUBSET S, {} \in F,
           \A D \in F : D # S => \E x \in S \ D : D \cup {x} \in F
    PROVE  S \in F
<1> DEFINE Left(D) == Cardinality(S \ D)
           T == {Left(D) : D \in F}
<1>1. \A D \in SUBSET S : Left(D) \in Nat /\ IsFiniteSet(S \ D)
  BY FS_CardinalityType, FS_Difference
<1>2. T \subseteq Nat /\ T # {}
  <2>1. \A D \in F : D \in SUBSET S
    OBVIOUS
  <2>2. Left({}) \in T
    OBVIOUS
  <2>3. \A D \in F : Left(D) \in Nat
    BY <1>1, <2>1
  <2> HIDE DEF Left
  <2>4. QED
    BY <2>2, <2>3
<1>3. PICK m \in T : \A k \in T : m <= k
  <2> HIDE DEF T
  <2>1. QED
    BY <1>2, LeastNat
<1>4. PICK D \in F : m = Left(D)
  OBVIOUS
<1>5. SUFFICES ASSUME D # S
               PROVE  FALSE
  OBVIOUS
<1>6. PICK x \in S \ D : D \cup {x} \in F
  BY <1>5
<1>7. Left(D \cup {x}) = Left(D) - 1
  <2>1. S \ (D \cup {x}) = (S \ D) \ {x}
    OBVIOUS
  <2> DEFINE A == S \ D
  <2>2. IsFiniteSet(A) /\ x \in A /\ S \ (D \cup {x}) = A \ {x}
    BY <1>1, <1>6, <2>1
  <2> HIDE DEF A
  <2>3. Cardinality(A \ {x}) = Cardinality(A) - 1
    BY <2>2, FS_RemoveElement
  <2>4. QED
    BY <2>2, <2>3 DEF A
<1>8. Left(D \cup {x}) \in T /\ Left(D) \in Nat
  BY <1>1, <1>6
<1> HIDE DEF T, Left
<1>9. QED
  BY <1>3, <1>4, <1>7, <1>8

\* Finitely many numbers have a greatest one.
LEMMA MaxIs ==
    ASSUME NEW S, IsFiniteSet(S), S \subseteq Nat, S # {}
    PROVE  Max(S) \in S /\ \A x \in S : x <= Max(S)
<1> DEFINE Bounded(D) == \E n \in Nat : \A x \in D : x <= n
           F == {D \in SUBSET S : Bounded(D)}
<1>1. {} \in F
  BY 0 \in Nat
<1>2. ASSUME NEW D \in F, D # S
      PROVE  \E x \in S \ D : D \cup {x} \in F
  <2>1. PICK x \in S \ D : TRUE
    BY <1>2
  <2>2. PICK n \in Nat : \A y \in D : y <= n
    OBVIOUS
  <2>3. \A y \in D \cup {x} : y <= n + x /\ n + x \in Nat
    BY <2>2
  <2>4. QED
    BY <2>1, <2>3
<1>3. S \in F
  <2> HIDE DEF F
  <2>1. F \subseteq SUBSET S
    BY DEF F
  <2>2. QED
    BY <1>1, <1>2, <2>1, AllOf
<1> DEFINE T == {n \in Nat : \A x \in S : x <= n}
<1>4. PICK n \in T : \A m \in T : n <= m
  <2>1. T \subseteq Nat /\ T # {}
    BY <1>3
  <2> HIDE DEF T
  <2>2. QED
    BY <2>1, LeastNat
<1>5. n \in S
  <2>1. SUFFICES ASSUME n \notin S
                 PROVE  FALSE
    OBVIOUS
  <2>2. n > 0 /\ n - 1 \in T
    <3>1. \A x \in S : x < n
      BY <1>4, <2>1
    <3>2. PICK x \in S : x < n
      BY <3>1
    <3>3. n > 0 /\ n - 1 \in Nat /\ \A y \in S : y <= n - 1
      BY <3>1, <3>2
    <3> HIDE DEF F, Bounded
    <3>4. QED
      BY <3>3
  <2>3. QED
    BY <1>4, <2>2
<1>6. \E x \in S : \A y \in S : x >= y
  BY <1>4, <1>5
<1>7. QED
  BY <1>6 DEF Max

\* g is what F makes of a, number by number.
Iteration(g, U, N, a, F) ==
    g \in [0..N -> U] /\ g[0] = a /\ \A n \in 1..N : g[n] = F[<<g[n - 1], n>>]

\* What is computed number by number exists.
LEMMA Iterates ==
    ASSUME NEW U, NEW N \in Nat, NEW a \in U, NEW F \in [U \X (1..N) -> U]
    PROVE  \E g : Iteration(g, U, N, a, F)
<1> DEFINE Good(g, m) == g[0] = a /\ \A n \in 1..m : g[n] = F[<<g[n - 1], n>>]
           T == {m \in 0..N : \E g \in [0..m -> U] : Good(g, m)}
<1>1. 0 \in T
  <2> DEFINE g == [n \in 0..0 |-> a]
  <2>1. g \in [0..0 -> U] /\ g[0] = a /\ 1..0 = {}
    OBVIOUS
  <2> HIDE DEF g
  <2>2. 0 \in 0..N /\ Good(g, 0)
    BY <2>1
  <2> HIDE DEF Good
  <2>3. QED
    BY <2>1, <2>2
<1>2. ASSUME NEW m \in 0..N, m \in T, m < N
      PROVE  m + 1 \in T
  <2>1. PICK g \in [0..m -> U] : Good(g, m)
    BY <1>2
  <2> DEFINE h == [n \in 0..(m + 1) |-> IF n <= m THEN g[n] ELSE F[<<g[m], m + 1>>]]
  <2>2. g[m] \in U /\ m + 1 \in 1..N
    BY <1>2
  <2>3. h \in [0..(m + 1) -> U]
    BY <2>2
  <2>4. \A n \in 0..m : h[n] = g[n]
    BY <1>2
  <2>5. h[m + 1] = F[<<h[m], m + 1>>]
    <3>1. m \in Nat /\ m + 1 \in 0..(m + 1) /\ ~(m + 1 <= m) /\ m \in 0..m
      BY <1>2
    <3>2. h[m] = g[m]
      BY <2>4, <3>1
    <3>3. h[m + 1] = F[<<g[m], m + 1>>]
      BY <3>1
    <3>4. QED
      BY <3>2, <3>3
  <2>6. h[0] = a
    BY <2>1, <2>4
  <2>7. ASSUME NEW n \in 1..(m + 1)
        PROVE  h[n] = F[<<h[n - 1], n>>]
    <3>1. CASE n = m + 1
      BY <2>5, <3>1
    <3>2. CASE n # m + 1
      <4>1. n \in 1..m /\ n - 1 \in 0..m /\ n \in 0..m
        BY <3>2
      <4> HIDE DEF h
      <4>2. QED
        BY <2>1, <2>4, <4>1
    <3>3. QED
      BY <3>1, <3>2
  <2> HIDE DEF h
  <2>8. QED
    BY <1>2, <2>3, <2>6, <2>7
<1>3. N \in T
  <2> HIDE DEF T
  <2>1. 0..N \subseteq T
    BY <1>1, <1>2, UpTo
  <2>2. QED
    BY <2>1
<1>4. QED
  BY <1>3 DEF Iteration

-----------------------------------------------------------------------------
(***************************************************************************)
(* Paths                                                                   *)
(***************************************************************************)

\* _decompose_path leaves some of the names of a path.
LEMMA PartsOf ==
    ASSUME NEW S, NEW path \in Seq(S), path # <<>>
    PROVE  /\ Decompose(path) \in [absolute : BOOLEAN, mustBeDir : BOOLEAN, future : Seq(S)]
           /\ Len(Decompose(path).future) <= Len(path)
<1> DEFINE n == Len(path)
           blank == {Name(""), Name(".")}
           Body(g, i) == IF i = 0 THEN <<>>
                         ELSE IF path[i] \in blank THEN g[i - 1] ELSE Append(g[i - 1], path[i])
           Parts(g) == [i \in 0..n |-> Body(g, i)]
           p == CHOOSE g : g = Parts(g)
<1>1. n \in Nat /\ n > 0 /\ \A i \in 1..n : path[i] \in S
  OBVIOUS
<1>2. \E g : g = Parts(g)
  <2> DEFINE F == [x \in Seq(S) \X (1..n) |->
                      IF path[x[2]] \in blank THEN x[1] ELSE Append(x[1], path[x[2]])]
  <2>1. F \in [Seq(S) \X (1..n) -> Seq(S)]
    <3>1. ASSUME NEW x \in Seq(S) \X (1..n)
          PROVE  Append(x[1], path[x[2]]) \in Seq(S) /\ x[1] \in Seq(S)
      <4>1. x[1] \in Seq(S) /\ path[x[2]] \in S
        BY <1>1
      <4>2. QED
        BY <4>1
    <3> HIDE DEF blank, n
    <3>2. QED
      BY <3>1
  <2>2. PICK g : Iteration(g, Seq(S), n, <<>>, F)
    <3>1. <<>> \in Seq(S) /\ n \in Nat
      BY <1>1
    <3> HIDE DEF F, n, blank
    <3>2. QED
      BY <2>1, <3>1, Iterates
  <2>3. ASSUME NEW i \in 0..n
        PROVE  g[i] = Body(g, i)
    <3>1. CASE i = 0
      BY <2>2, <3>1 DEF Iteration
    <3>2. CASE i # 0
      <4>1. i \in 1..n /\ i - 1 \in 0..n
        BY <1>1, <3>2
      <4>2. g[i] = F[<<g[i - 1], i>>] /\ g[i - 1] \in Seq(S)
        <5> HIDE DEF F, n
        <5>1. QED
          BY <2>2, <4>1 DEF Iteration
      <4> HIDE DEF n
      <4>3. QED
        BY <3>2, <4>1, <4>2
    <3>3. QED
      BY <3>1, <3>2
  <2> HIDE DEF Body, n
  <2>4. g = Parts(g)
    BY <2>2, <2>3 DEF Iteration
  <2>5. QED
    BY <2>4
<1>3. p = Parts(p)
  <2> HIDE DEF Parts
  <2>1. QED
    BY <1>2
<1> DEFINE T == {i \in 0..n : p[i] \in Seq(S) /\ Len(p[i]) <= i}
<1>4. \A i \in 0..n : p[i] = Body(p, i)
  <2> HIDE DEF p, Body, n
  <2>1. QED
    BY <1>3
<1>5. 0..n \subseteq T
  <2> HIDE DEF p, n
  <2>1. 0 \in T
    <3>1. 0 \in 0..n /\ <<>> \in Seq(S) /\ Len(<<>>) = 0
      BY <1>1
    <3>2. p[0] = <<>>
      BY <1>4, <3>1
    <3>3. p[0] \in Seq(S) /\ Len(p[0]) <= 0
      BY <3>1, <3>2
    <3> HIDE DEF blank
    <3>4. QED
      BY <3>1, <3>3
  <2>2. ASSUME NEW i \in 0..n, i \in T, i < n
        PROVE  i + 1 \in T
    <3>1. i + 1 \in 1..n /\ i + 1 \in 0..n /\ (i + 1) - 1 = i /\ i + 1 # 0
      BY <1>1, <2>2
    <3>2. p[i + 1] = Body(p, i + 1)
      BY <1>4, <3>1
    <3>3. p[i + 1] = IF path[i + 1] \in blank THEN p[i] ELSE Append(p[i], path[i + 1])
      <4> HIDE DEF blank
      <4>1. QED
        BY <3>1, <3>2
    <3>4. p[i] \in Seq(S) /\ Len(p[i]) <= i /\ i \in Nat /\ path[i + 1] \in S
      BY <1>1, <2>2, <3>1
    <3>5. Append(p[i], path[i + 1]) \in Seq(S) /\ Len(Append(p[i], path[i + 1])) <= i + 1
      BY <3>4
    <3>6. Len(p[i]) <= i + 1
      BY <3>4
    <3> HIDE DEF blank
    <3>7. QED
      BY <3>1, <3>3, <3>4, <3>5, <3>6
  <2> HIDE DEF T
  <2>3. QED
    BY <1>1, <2>1, <2>2, UpTo
<1>6. p[n] \in Seq(S) /\ Len(p[n]) <= n
  <2> HIDE DEF p, n
  <2>1. n \in 0..n
    BY <1>1
  <2>2. QED
    BY <1>5, <2>1
<1>7. Decompose(path) = [absolute |-> path[1] = Name(""),
                         mustBeDir |-> path[n] \in blank \/ p[n] = <<>>,
                         future |-> p[n]]
  BY DEF Decompose
<1> HIDE DEF p, n, blank
<1>8. (path[1] = Name("")) \in BOOLEAN /\ (path[n] \in blank \/ p[n] = <<>>) \in BOOLEAN
  OBVIOUS
<1> DEFINE abs == path[1] = Name("")
           dir == path[n] \in blank \/ p[n] = <<>>
<1> HIDE DEF abs, dir
<1>9. abs \in BOOLEAN /\ dir \in BOOLEAN
  BY <1>8 DEF abs, dir
<1>10. Decompose(path) = [absolute |-> abs, mustBeDir |-> dir, future |-> p[n]]
  BY <1>7 DEF abs, dir
<1>11. Decompose(path).future = p[n]
  BY <1>10
<1>12. QED
  BY <1>6, <1>9, <1>10, <1>11 DEF n
-----------------------------------------------------------------------------
(***************************************************************************)
(* The inductive invariant                                                 *)
(***************************************************************************)

Names == {Name("")} \cup {SaveName(Revs[c], 1) : c \in Commit}
         \cup (UNION {Range(req.path) : req \in Requests}) \cup (UNION {Range(Target[n]) : n \in Links})

Dirs == {item \in Items : IsDir(item)}

\* Where a resolution may be: in directories up to the last name.
Pasts == {past \in Seq(Names \X (Items \cup {None})) :
            past # <<>> /\ \A i \in 1..(Len(past) - 1) : past[i][2] \in Dirs}

Paths == Seq(Names) \ {<<>>}
Keys == {"res"} \X BOOLEAN \X BOOLEAN \X Seq(Names) \X Paths

Jobs == [is : {"busy"}, req : Requests, parent : Pasts \cup {<<>>}, key : Keys, past : Pasts,
         future : Seq(Names), hops : 0..(MaxHops + 1), follow : BOOLEAN, mustBeDir : BOOLEAN,
         held : Pasts \cup {<<>>}, hit : BOOLEAN]

\* What refs may be.
IsRefs(w) == DOMAIN w = Branches \cup Tags /\ \A b \in DOMAIN w : w[b] \in Pointees(b)

\* An entry of a branch's saves: every save by its own name.
Listing(e, c) ==
    LET revs == Revs[c]
    IN /\ DOMAIN e = {"dot", "meta", "latest", "saves"}
       /\ e.dot \in {RevListItem(c, m) : m \in BOOLEAN}
       /\ e.meta \in BOOLEAN
       /\ e.latest = SaveName(revs, 1)
       /\ DOMAIN e.saves = {SaveName(revs, i) : i \in DOMAIN revs}
       /\ \A i \in DOMAIN revs :
            e.saves[SaveName(revs, i)] \in {CommitItem(revs[i], m) : m \in BOOLEAN}
                                           \cup {RevListItem(revs[i], m) : m \in BOOLEAN}

ItemsKept(ca) ==
    \A c \in Commit : Cached(ca, Itm(c)) => ca[Itm(c)] \in {CommitItem(c, m) : m \in BOOLEAN}
ListingsKept(ca) == \A c \in Commit : Cached(ca, Rvl(c)) => Listing(ca[Rvl(c)], c)
PlacesKept(ca) == \A key \in DOMAIN ca : key[1] = "res" => ca[key] \in Pasts
CacheOK(ca) == ItemsKept(ca) /\ ListingsKept(ca) /\ PlacesKept(ca)

IsAgain(j) == /\ j.is = "again" /\ j.req \in Requests /\ j.parent \in Pasts \cup {<<>>}
              /\ j.held \in Pasts /\ Last(j.held)[2] # None /\ IsLink(Last(j.held)[2])
IsBusy(j) == /\ j \in Jobs
             /\ Last(j.past)[2] # None
             /\ j.future # <<>> => Last(j.past)[2] \in Dirs
IsAnswer(a) == /\ a.is \in {"ok", "enotdir", "eloop", "crash"} /\ a.req \in Requests
               /\ a.parent \in Pasts \cup {<<>>} /\ a.past \in Pasts

Shaped(ca, j, a) ==
    /\ CacheOK(ca)
    /\ j = NoJob \/ IsAgain(j) \/ IsBusy(j)
    /\ a = NoAnswer \/ IsAnswer(a)

Shape == refs \in were /\ (\A w \in were : IsRefs(w)) /\ Shaped(cache, job, answer)

\* Every name of a place is there, in what is before it.
Chain(W, past) ==
    /\ past[1] = Root
    /\ \A i \in 2..Len(past) :
         /\ past[i][1] # Name("..")
         /\ BareItem(past[i][2]) \in Means(W, BareItem(past[i - 1][2]), past[i][1])

\* c is on the way from p.
OnWay(W, p, c, follow) == \E k \in 0..Enough(p) : c \in Walk(W, p, follow)[k]

\* What a key of the cache stands for.
KeyDenotes(W, key) == Denoted(W, key[5], Parents(W, key[4]), key[3])

MeaningKept(W, ca) ==
    \A key \in DOMAIN ca : key[1] = "res" =>
        key \in Keys /\ Chain(W, ca[key]) /\ End("ok", Bare(ca[key])) \in KeyDenotes(W, key)

\* A link that try_resolve holds is where its path leads.
HeldRight(W, req, parent, held) ==
    /\ req.try /\ Chain(W, held) /\ AtLink(End("ok", Bare(held)))
    /\ End("ok", Bare(held)) \in Denoted(W, req.path, Parents(W, NamesOf(parent)), FALSE)

KeyRight(W, j) ==
    IF j.held = <<>>
    THEN j.key = Res([j.req EXCEPT !.follow = @ /\ ~j.req.try], j.parent)
    ELSE /\ j.key = Res([j.req EXCEPT !.follow = TRUE, !.path = <<Last(j.held)[1]>>], Front(j.held))
         /\ HeldRight(W, j.req, j.parent, j.held)

\* A busy job is on the way from one of the places that its key names.
BusyRight(W, j) ==
    LET d == Decompose(j.key[5])
    IN /\ KeyRight(W, j) /\ Chain(W, j.past)
       /\ j.mustBeDir = d.mustBeDir /\ j.follow = (j.key[3] \/ d.mustBeDir)
       /\ \E q \in Parents(W, j.key[4]) :
            /\ IsDir(Last(q)[2])
            /\ OnWay(W, At(IF d.absolute THEN <<Root>> ELSE q, d.future, 0),
                     At(Bare(j.past), j.future, j.hops), j.follow)

AnswerRight(W, a) ==
    /\ a.is = "ok" => Chain(W, a.past)
    /\ LET names == NamesOf(a.parent)
       IN End(a.is, Bare(a.past)) \in
             IF a.req.try THEN Tried(W, a.req.path, names)
             ELSE Denoted(W, a.req.path, Parents(W, names), a.req.follow)

Right ==
    met = {} =>
      /\ MeaningKept(were, cache)
      /\ job.is = "again" => HeldRight(were, job.req, job.parent, job.held)
      /\ job.is = "busy" => BusyRight(were, job)
      /\ answer.is # "none" => AnswerRight(were, answer)

IInv == Shape /\ Right

-----------------------------------------------------------------------------
(***************************************************************************)
(* The saves of a branch and their names                                   *)
(***************************************************************************)

\* The saves that end in c, the newest first.
RevList(s, c) ==
    s \in Seq(Commit) /\ s # <<>> /\ s[1] = c

\* git rev-list ends, as no commit is its own ancestor.
LEMMA RevsAre == \A c \in Commit : RevList(Revs[c], c)
<1> DEFINE Body(g, c) == <<c>> \o (IF Prev[c] = None THEN <<>> ELSE g[Prev[c]])
           All(g) == [c \in Commit |-> Body(g, c)]
           Closed(D) == \A c \in D : Prev[c] \in D \cup {None}
<1>1. ASSUME NEW D \in SUBSET Commit, D # Commit, Closed(D)
      PROVE  \E x \in Commit \ D : Prev[x] \in D \cup {None} /\ Closed(D \cup {x})
  <2>1. PICK x \in Commit \ D : Prev[x] \notin Commit \ D
    <3> DEFINE Rest == Commit \ D
    <3>1. Rest \in (SUBSET Commit) \ {{}}
      BY <1>1
    <3> HIDE DEF Rest
    <3>2. \E x \in Rest : Prev[x] \notin Rest
      BY <3>1, VfsParameters
    <3>3. QED
      BY <3>2 DEF Rest
  <2>2. Prev[x] \in D \cup {None}
    BY <2>1, VfsParameters
  <2>3. QED
    BY <1>1, <2>1, <2>2
<1>2. IsFiniteSet(Commit) /\ None \notin Commit
  BY VfsParameters
<1>3. \E g : g = All(g)
  <2> DEFINE Made(g, D) == \A c \in D : g[c] = Body(g, c)
             F == {D \in SUBSET Commit : Closed(D) /\ \E g : Made(g, D)}
  <2>1. ASSUME NEW D \in F, D # Commit
        PROVE  \E x \in Commit \ D : D \cup {x} \in F
    <3>1. PICK x \in Commit \ D : Prev[x] \in D \cup {None} /\ Closed(D \cup {x})
      BY <1>1, <2>1
    <3>2. PICK g : Made(g, D)
      OBVIOUS
    <3> DEFINE h == [c \in D \cup {x} |-> IF c \in D THEN g[c] ELSE Body(g, x)]
    <3>3. \A c \in D : h[c] = g[c]
      OBVIOUS
    <3>4. h[x] = Body(g, x)
      BY <3>1
    <3>5. \A c \in D \cup {x} : Prev[c] = None \/ h[Prev[c]] = g[Prev[c]]
      BY <2>1, <3>1, <3>3
    <3> HIDE DEF h
    <3>6. ASSUME NEW c \in D \cup {x}
          PROVE  h[c] = Body(h, c)
      <4>1. h[c] = Body(g, c)
        BY <3>2, <3>3, <3>4
      <4>2. Body(g, c) = Body(h, c)
        BY <3>5
      <4>3. QED
        BY <4>1, <4>2
    <3> HIDE DEF Body, Closed
    <3>7. QED
      BY <3>1, <3>6
  <2>2. {} \in F
    OBVIOUS
  <2>3. Commit \in F
    <3>1. F \subseteq SUBSET Commit
      OBVIOUS
    <3> HIDE DEF F
    <3>2. QED
      BY <1>2, <2>1, <2>2, <3>1, AllOf
  <2>4. PICK g : Made(g, Commit)
    BY <2>3
  <2> DEFINE h == [c \in Commit |-> g[c]]
  <2>5. \A c \in Commit : Body(h, c) = Body(g, c)
    BY VfsParameters
  <2>6. \A c \in Commit : h[c] = Body(h, c)
    BY <2>4, <2>5
  <2>7. h = All(h)
    <3> HIDE DEF Body
    <3>1. QED
      BY <2>4, <2>5
  <2>8. QED
    BY <2>7
<1>4. Revs = All(Revs)
  <2> DEFINE p == CHOOSE g : g = All(g)
  <2>1. Revs = p
    BY DEF Revs
  <2> HIDE DEF All
  <2>2. p = All(p)
    BY <1>3
  <2>3. QED
    BY <2>1, <2>2
<1>5. \A c \in Commit : Revs[c] = Body(Revs, c)
  <2> HIDE DEF Body
  <2>1. QED
    BY <1>4
<1> DEFINE F == {D \in SUBSET Commit : Closed(D) /\ \A c \in D : RevList(Revs[c], c)}
<1>6. ASSUME NEW D \in F, D # Commit
      PROVE  \E x \in Commit \ D : D \cup {x} \in F
  <2>1. PICK x \in Commit \ D : Prev[x] \in D \cup {None} /\ Closed(D \cup {x})
    BY <1>1, <1>6
  <2>2. RevList(Revs[x], x)
    <3>1. CASE Prev[x] = None
      <4>1. Revs[x] = <<x>> \o <<>>
        <5>1. Revs[x] = Body(Revs, x)
          BY <1>5
        <5>2. QED
          BY <3>1, <5>1
      <4> DEFINE r == <<x>> \o <<>>
      <4>2. r \in Seq(Commit) /\ Len(r) = 1 /\ r[1] = x /\ DOMAIN r = {1} /\ r # <<>>
        OBVIOUS
      <4> HIDE DEF r
      <4>3. RevList(r, x)
        BY <4>2 DEF RevList
      <4>4. QED
        BY <4>1, <4>3 DEF r
    <3>2. CASE Prev[x] # None
      <4> DEFINE s == Revs[Prev[x]]
                 r == <<x>> \o s
      <4>1. Prev[x] \in Commit /\ RevList(s, Prev[x]) /\ Revs[x] = r
        BY <1>5, <2>1, <3>2
      <4> HIDE DEF s
      <4>2. r \in Seq(Commit) /\ r # <<>> /\ r[1] = x
        BY <4>1 DEF RevList
      <4> HIDE DEF r
      <4>3. RevList(r, x)
        BY <4>2 DEF RevList
      <4>4. QED
        BY <4>1, <4>3
    <3>3. QED
      BY <3>1, <3>2
  <2> HIDE DEF Closed
  <2>3. QED
    BY <2>1, <2>2
<1>7. Commit \in F
  <2>1. F \subseteq SUBSET Commit /\ {} \in F
    OBVIOUS
  <2> HIDE DEF F
  <2>2. QED
    BY <1>2, <1>6, <2>1, AllOf
<1>8. QED
  BY <1>7

\* The parts of a save's name.
LEMMA SaveNameIs ==
    ASSUME NEW s \in Seq(Commit), NEW i \in DOMAIN s
    PROVE  LET same == {j \in DOMAIN s : Printed(s[j]) = Printed(s[i])}
               a == SaveName(s, i)
           IN /\ a[1] = Printed(s[i]) /\ a[1] \in Nat /\ a[2] \in Nat
              /\ Cardinality(same) # 1 =>
                   /\ a[2] = Cardinality({j \in same : j > i})
                   /\ a[3] = Digits[Cardinality(same) - 1]
<1> DEFINE time == Printed(s[i])
           same == {j \in DOMAIN s : Printed(s[j]) = time}
           later == {j \in same : j > i}
           a == SaveName(s, i)
<1>1. IsFiniteSet(DOMAIN s) /\ s[i] \in Commit
  <2>1. DOMAIN s = 1..Len(s) /\ Len(s) \in Nat
    OBVIOUS
  <2>2. QED
    BY <2>1, FS_Interval
<1>2. IsFiniteSet(later)
  <2>1. later \subseteq DOMAIN s
    OBVIOUS
  <2> HIDE DEF later
  <2>2. QED
    BY <1>1, <2>1, FS_Subset
<1>3. Cardinality(later) \in Nat /\ time \in Nat
  <2> HIDE DEF later
  <2>1. QED
    BY <1>1, <1>2, FS_CardinalityType, VfsParameters DEF Printed
<1>4. a = IF Cardinality(same) = 1 THEN <<time, 0, 0>>
          ELSE <<time, Cardinality(later), Digits[Cardinality(same) - 1]>>
  BY DEF SaveName
<1> HIDE DEF time, same, later, a
<1>5. a[1] = time /\ a[1] \in Nat /\ a[2] \in Nat
  BY <1>3, <1>4
<1>6. Cardinality(same) # 1 => a[2] = Cardinality(later) /\ a[3] = Digits[Cardinality(same) - 1]
  BY <1>4
<1>7. QED
  BY <1>5, <1>6 DEF time, same, later, a

\* Of the saves that print one time, sorted by name, the older come first.
LEMMA OlderIsBefore ==
    ASSUME NEW c, NEW s, RevList(s, c), NEW i \in DOMAIN s, NEW j \in DOMAIN s, j < i,
           Printed(s[i]) = Printed(s[j])
    PROVE  Before(SaveName(s, i), SaveName(s, j)) /\ ~Before(SaveName(s, j), SaveName(s, i))
<1> DEFINE same(k) == {l \in DOMAIN s : Printed(s[l]) = Printed(s[k])}
           later(k) == {l \in same(k) : l > k}
           a == SaveName(s, i)
           b == SaveName(s, j)
<1>1. s \in Seq(Commit) /\ DOMAIN s = 1..Len(s) /\ Len(s) \in Nat
  BY DEF RevList
<1>2. a[1] = b[1] /\ a[1] \in Nat /\ a[2] \in Nat /\ b[2] \in Nat
  <2>1. a[1] = Printed(s[i]) /\ a[1] \in Nat /\ a[2] \in Nat
    BY <1>1, SaveNameIs
  <2>2. b[1] = Printed(s[j]) /\ b[2] \in Nat
    BY <1>1, SaveNameIs
  <2> HIDE DEF a, b
  <2>3. QED
    BY <2>1, <2>2
<1>3. same(i) = same(j) /\ i \in same(i) /\ j \in same(i)
  OBVIOUS
<1>4. IsFiniteSet(same(i)) /\ IsFiniteSet(later(i)) /\ IsFiniteSet(later(j))
  <2>1. IsFiniteSet(DOMAIN s)
    BY <1>1, FS_Interval
  <2>2. same(i) \subseteq DOMAIN s /\ later(i) \subseteq DOMAIN s /\ later(j) \subseteq DOMAIN s
    OBVIOUS
  <2> HIDE DEF same, later
  <2>3. QED
    BY <2>1, <2>2, FS_Subset
<1>5. Cardinality(same(i)) # 1
  <2>1. SUFFICES ASSUME Cardinality(same(i)) = 1
                 PROVE  FALSE
    OBVIOUS
  <2>2. PICK x : same(i) = {x}
    <3> HIDE DEF same
    <3>1. QED
      BY <1>4, <2>1, FS_Singleton
  <2>3. QED
    BY <1>1, <1>3, <2>2
<1>6. a[2] = Cardinality(later(i)) /\ b[2] = Cardinality(later(j)) /\ a[3] = b[3]
  <2>1. a[2] = Cardinality(later(i)) /\ a[3] = Digits[Cardinality(same(i)) - 1]
    BY <1>1, <1>5, SaveNameIs
  <2>2. b[2] = Cardinality(later(j)) /\ b[3] = Digits[Cardinality(same(j)) - 1]
    BY <1>1, <1>3, <1>5, SaveNameIs
  <2> HIDE DEF same, later, a, b
  <2>3. QED
    BY <1>3, <2>1, <2>2
<1>7. Cardinality(later(i)) < Cardinality(later(j))
  <2>1. later(i) \subseteq later(j) /\ i \in later(j) /\ i \notin later(i)
    BY <1>1, <1>3
  <2>2. later(i) # later(j)
    BY <2>1
  <2> HIDE DEF same, later
  <2>3. Cardinality(later(i)) <= Cardinality(later(j)) /\ Cardinality(later(i)) # Cardinality(later(j))
    BY <1>4, <2>1, <2>2, FS_Subset
  <2>4. QED
    BY <1>4, <2>3, FS_CardinalityType
<1> HIDE DEF a, b, same, later
<1>8. a[1] = b[1] /\ a[3] = b[3] /\ a[2] < b[2]
  BY <1>2, <1>6, <1>7
<1>9. Before(a, b) /\ ~Before(b, a)
  BY <1>2, <1>8 DEF Before
<1>10. QED
  BY <1>9 DEF a, b

\* The saves of a branch have names of their own.
LEMMA NamesDiffer ==
    ASSUME NEW c, NEW s, RevList(s, c), NEW i \in DOMAIN s, NEW j \in DOMAIN s, i # j
    PROVE  SaveName(s, i) # SaveName(s, j)
<1>1. s \in Seq(Commit) /\ DOMAIN s = 1..Len(s) /\ Len(s) \in Nat
  BY DEF RevList
<1>2. i < j \/ j < i
  BY <1>1
<1>3. SaveName(s, i)[1] = Printed(s[i]) /\ SaveName(s, j)[1] = Printed(s[j])
  BY <1>1, SaveNameIs
<1>4. QED
  BY <1>2, <1>3, OlderIsBefore

\* As many saves as one takes, so many names.
LEMMA CountNames ==
    ASSUME NEW c, NEW s, RevList(s, c), NEW J \in SUBSET (DOMAIN s)
    PROVE  Cardinality({SaveName(s, j) : j \in J}) = Cardinality(J)
<1> DEFINE T == {SaveName(s, j) : j \in J}
           g == [j \in J |-> SaveName(s, j)]
<1>1. IsFiniteSet(J)
  <2>1. DOMAIN s = 1..Len(s) /\ Len(s) \in Nat
    BY DEF RevList
  <2>2. IsFiniteSet(DOMAIN s)
    BY <2>1, FS_Interval
  <2>3. QED
    BY <2>2, FS_Subset
<1>2. \A i, j \in J : i # j => SaveName(s, i) # SaveName(s, j)
  BY NamesDiffer
<1>3. g \in Bijection(J, T)
  BY <1>2 DEF Bijection, Injection, IsInjective, Surjection
<1>4. ExistsBijection(J, T)
  BY <1>3 DEF ExistsBijection
<1> HIDE DEF T
<1>5. Cardinality(T) = Cardinality(J)
  BY <1>1, <1>4, FS_Bijection
<1>6. QED
  BY <1>5 DEF T

\* What is kept of a branch is what SavesInOrder says of it.
LEMMA ListingIsInOrder ==
    ASSUME NEW c \in Commit, NEW e, Listing(e, c)
    PROVE  LET revs == Revs[c]
           IN /\ Cardinality(DOMAIN e.saves) = Len(revs)
              /\ \A i \in DOMAIN revs :
                   \E name \in DOMAIN e.saves :
                     /\ e.saves[name].commit = revs[i] /\ name[1] = Printed(revs[i])
                     /\ Cardinality({x \in DOMAIN e.saves : x[1] = name[1] /\ Before(name, x)})
                          = Cardinality({j \in DOMAIN revs : j < i /\ Printed(revs[j]) = name[1]})
              /\ e.saves[e.latest].commit = c
<1> DEFINE revs == Revs[c]
<1>1. RevList(revs, c)
  BY RevsAre
<1> HIDE DEF revs
<1>2. revs \in Seq(Commit) /\ revs[1] = c /\ DOMAIN revs = 1..Len(revs) /\ Len(revs) \in Nat /\ Len(revs) > 0
  BY <1>1 DEF RevList
<1>3. DOMAIN e.saves = {SaveName(revs, i) : i \in DOMAIN revs} /\ e.latest = SaveName(revs, 1)
  BY <1>2 DEF Listing, revs
<1>4. ASSUME NEW i \in DOMAIN revs
      PROVE  e.saves[SaveName(revs, i)].commit = revs[i]
  <2>1. e.saves[SaveName(revs, i)] \in {CommitItem(revs[i], m) : m \in BOOLEAN}
                                       \cup {RevListItem(revs[i], m) : m \in BOOLEAN}
    BY DEF Listing, revs
  <2>2. \A m : CommitItem(revs[i], m).commit = revs[i] /\ RevListItem(revs[i], m).commit = revs[i]
    BY DEF CommitItem, RevListItem
  <2>3. QED
    BY <2>1, <2>2
<1>5. Cardinality(DOMAIN e.saves) = Len(revs)
  <2>1. Cardinality(DOMAIN revs) = Len(revs)
    BY <1>2, FS_Interval
  <2>2. QED
    BY <1>1, <1>3, <2>1, CountNames
<1>6. \A i \in DOMAIN revs : SaveName(revs, i)[1] = Printed(revs[i])
  BY <1>2, SaveNameIs
<1>7. ASSUME NEW i \in DOMAIN revs
      PROVE  LET name == SaveName(revs, i)
             IN Cardinality({x \in DOMAIN e.saves : x[1] = name[1] /\ Before(name, x)})
                  = Cardinality({j \in DOMAIN revs : j < i /\ Printed(revs[j]) = name[1]})
  <2> DEFINE name == SaveName(revs, i)
             J == {j \in DOMAIN revs : j < i /\ Printed(revs[j]) = name[1]}
  <2>1. ASSUME NEW j \in DOMAIN revs, Printed(revs[j]) = Printed(revs[i])
        PROVE  Before(name, SaveName(revs, j)) <=> j < i
    <3>1. CASE j < i
      BY <1>1, <2>1, <3>1, OlderIsBefore
    <3>2. CASE i < j
      BY <1>1, <1>2, <2>1, <3>2, OlderIsBefore
    <3>3. CASE i = j
      <4>1. name[1] \in Nat /\ name[2] \in Nat
        BY <1>2, SaveNameIs
      <4> HIDE DEF name
      <4>2. ~Before(name, name)
        BY <4>1 DEF Before
      <4>3. QED
        BY <1>2, <3>3, <4>2 DEF name
    <3>4. QED
      BY <1>2, <3>1, <3>2, <3>3
  <2>2. {x \in DOMAIN e.saves : x[1] = name[1] /\ Before(name, x)} = {SaveName(revs, j) : j \in J}
    BY <1>3, <1>6, <2>1
  <2>3. J \in SUBSET (DOMAIN revs)
    OBVIOUS
  <2> HIDE DEF J
  <2>4. Cardinality({SaveName(revs, j) : j \in J}) = Cardinality(J)
    BY <1>1, <2>3, CountNames
  <2>5. QED
    BY <2>2, <2>4 DEF J
<1>8. e.saves[e.latest].commit = c
  BY <1>2, <1>3, <1>4
<1>9. \A i \in DOMAIN revs : SaveName(revs, i) \in DOMAIN e.saves
  BY <1>3
<1>10. QED
  BY <1>4, <1>5, <1>6, <1>7, <1>8, <1>9 DEF revs

LEMMA ListingsInOrder == ListingsKept(cache) => SavesInOrder
<1> SUFFICES ASSUME ListingsKept(cache), NEW c \in Commit, Cached(cache, Rvl(c))
             PROVE  LET e == cache[Rvl(c)]
                        revs == Revs[c]
                    IN /\ Cardinality(DOMAIN e.saves) = Len(revs)
                       /\ \A i \in DOMAIN revs :
                            \E name \in DOMAIN e.saves :
                              /\ e.saves[name].commit = revs[i] /\ name[1] = Printed(revs[i])
                              /\ Cardinality({x \in DOMAIN e.saves : x[1] = name[1] /\ Before(name, x)})
                                   = Cardinality({j \in DOMAIN revs : j < i /\ Printed(revs[j]) = name[1]})
                       /\ e.saves[e.latest].commit = c
  BY DEF SavesInOrder
<1>1. Listing(cache[Rvl(c)], c)
  BY DEF ListingsKept
<1>2. QED
  BY <1>1, ListingIsInOrder

-----------------------------------------------------------------------------
(***************************************************************************)
(* Items                                                                   *)
(***************************************************************************)

Kinds == {"root", "tags", "node", "commit", "revlist", "fakelink"}

LEMMA ItemFields ==
    ASSUME NEW x, NEW m
    PROVE  /\ NodeItem(x).is = "node" /\ NodeItem(x).node = x
           /\ CommitItem(x, m).is = "commit" /\ CommitItem(x, m).commit = x /\ CommitItem(x, m).meta = m
           /\ RevListItem(x, m).is = "revlist" /\ RevListItem(x, m).commit = x /\ RevListItem(x, m).meta = m
           /\ FakeLink(x).is = "fakelink" /\ FakeLink(x).to = x
           /\ RootItem.is = "root" /\ TagsItem.is = "tags" /\ Crash.is = "crash"
  BY DEF NodeItem, CommitItem, RevListItem, FakeLink, RootItem, TagsItem, Crash

LEMMA BareFields ==
    ASSUME NEW x
    PROVE  /\ CommitItem(x, FALSE).is = "commit" /\ CommitItem(x, FALSE).commit = x
           /\ RevListItem(x, FALSE).is = "revlist" /\ RevListItem(x, FALSE).commit = x
  BY DEF CommitItem, RevListItem

LEMMA NodeFields == ASSUME NEW x PROVE NodeItem(x).is = "node" /\ NodeItem(x).node = x
  BY DEF NodeItem

LEMMA LinkFields == ASSUME NEW x PROVE FakeLink(x).is = "fakelink" /\ FakeLink(x).to = x
  BY DEF FakeLink

\* What there is in a directory, kind by kind.
LEMMA ItemIs ==
    ASSUME NEW item \in Items
    PROVE  /\ item.is \in Kinds
           /\ item.is = "root" => item = RootItem
           /\ item.is = "tags" => item = TagsItem
           /\ item.is = "node" => item.node \in Node /\ item = NodeItem(item.node)
           /\ item.is = "commit" =>
                item.commit \in Commit /\ item.meta \in BOOLEAN /\ item = CommitItem(item.commit, item.meta)
           /\ item.is = "revlist" =>
                item.commit \in Commit /\ item.meta \in BOOLEAN /\ item = RevListItem(item.commit, item.meta)
           /\ item.is = "fakelink" => \E c \in Commit : item = FakeLink(SaveName(Revs[c], 1))
<1>1. CASE item = RootItem
  BY <1>1, ItemFields DEF Kinds
<1>2. CASE item = TagsItem
  BY <1>2, ItemFields DEF Kinds
<1>3. CASE \E n \in Node : item = NodeItem(n)
  BY <1>3, ItemFields DEF Kinds
<1>4. CASE \E c \in Commit, m \in BOOLEAN : item = CommitItem(c, m)
  BY <1>4, ItemFields DEF Kinds
<1>5. CASE \E c \in Commit, m \in BOOLEAN : item = RevListItem(c, m)
  BY <1>5, ItemFields DEF Kinds
<1>6. CASE \E c \in Commit : item = FakeLink(SaveName(Revs[c], 1))
  BY <1>6, ItemFields DEF Kinds
<1>7. QED
  BY <1>1, <1>2, <1>3, <1>4, <1>5, <1>6 DEF Items

LEMMA ItemsHave ==
    /\ RootItem \in Items /\ TagsItem \in Items
    /\ \A n \in Node : NodeItem(n) \in Items
    /\ \A c \in Commit : \A m \in BOOLEAN : CommitItem(c, m) \in Items /\ RevListItem(c, m) \in Items
    /\ \A c \in Commit : FakeLink(SaveName(Revs[c], 1)) \in Items
  BY DEF Items

LEMMA NoneIsNone == None \notin Items /\ None # Crash /\ Crash \notin Items
<1>1. Crash \notin Items
  BY ItemIs, ItemFields DEF Kinds
<1>2. QED
  BY <1>1, NoneIsNoItem

LEMMA BareCommit ==
    ASSUME NEW c \in Commit, NEW m \in BOOLEAN
    PROVE  BareItem(CommitItem(c, m)) = CommitItem(c, FALSE) /\ BareItem(RevListItem(c, m)) = RevListItem(c, FALSE)
<1> DEFINE x == CommitItem(c, m)
           y == RevListItem(c, m)
<1>1. x # None /\ y # None /\ x.is = "commit" /\ y.is = "revlist" /\ x.commit = c /\ y.commit = c
  BY ItemsHave, NoneIsNone, ItemFields
<1> HIDE DEF x, y
<1>2. BareItem(x) = CommitItem(c, FALSE) /\ BareItem(y) = RevListItem(c, FALSE)
  BY <1>1 DEF BareItem
<1>3. QED
  BY <1>2 DEF x, y

\* Metadata does not change what an item is.
LEMMA BareItemIs ==
    ASSUME NEW item \in Items
    PROVE  LET bare == BareItem(item)
           IN /\ bare \in Items /\ bare.is = item.is
              /\ item.is = "node" => bare = item
              /\ item.is = "root" => bare = item
              /\ item.is = "tags" => bare = item
              /\ item.is = "fakelink" => bare = item
              /\ item.is = "commit" => bare.commit = item.commit /\ bare = CommitItem(item.commit, FALSE)
              /\ item.is = "revlist" => bare.commit = item.commit /\ bare = RevListItem(item.commit, FALSE)
<1>1. CASE item.is \notin {"commit", "revlist"}
  BY <1>1, NoneIsNone DEF BareItem
<1>2. CASE item.is = "commit"
  <2>1. item.commit \in Commit /\ item.meta \in BOOLEAN /\ item = CommitItem(item.commit, item.meta)
    BY <1>2, ItemIs
  <2>2. BareItem(item) = CommitItem(item.commit, FALSE)
    BY <2>1, BareCommit
  <2>3. CommitItem(item.commit, FALSE) \in Items
    BY <2>1, ItemsHave
  <2> DEFINE c == item.commit
             bare == BareItem(item)
  <2> HIDE DEF c, bare
  <2>4. bare \in Items /\ bare.is = "commit" /\ bare.commit = c /\ bare = CommitItem(c, FALSE)
    BY <2>2, <2>3, BareFields DEF c, bare
  <2>5. QED
    BY <1>2, <2>4 DEF c, bare
<1>3. CASE item.is = "revlist"
  <2>1. item.commit \in Commit /\ item.meta \in BOOLEAN /\ item = RevListItem(item.commit, item.meta)
    BY <1>3, ItemIs
  <2>2. BareItem(item) = RevListItem(item.commit, FALSE)
    BY <2>1, BareCommit
  <2>3. RevListItem(item.commit, FALSE) \in Items
    BY <2>1, ItemsHave
  <2> DEFINE c == item.commit
             bare == BareItem(item)
  <2> HIDE DEF c, bare
  <2>4. bare \in Items /\ bare.is = "revlist" /\ bare.commit = c /\ bare = RevListItem(c, FALSE)
    BY <2>2, <2>3, BareFields DEF c, bare
  <2>5. QED
    BY <1>3, <2>4 DEF c, bare
<1>4. QED
  BY <1>1, <1>2, <1>3

LEMMA BareNone == BareItem(None) = None
  BY DEF BareItem

\* ... nor whether it is a link or a directory.
LEMMA BareKeepsKind ==
    ASSUME NEW item \in Items
    PROVE  LET bare == BareItem(item)
           IN /\ IsLink(bare) = IsLink(item)
              /\ IsDir(bare) = IsDir(item)
              /\ IsLink(item) => ReadLink(bare) = ReadLink(item) /\ bare = item
<1>1. item.is \in Kinds /\ (item.is # "commit" /\ item.is # "revlist" => BareItem(item) = item)
  BY ItemIs, BareItemIs DEF Kinds
<1>2. BareItem(item).is = item.is
  BY BareItemIs
<1>3. CASE item.is \in {"commit", "revlist"}
  BY <1>2, <1>3 DEF IsLink, IsDir
<1>4. CASE item.is \notin {"commit", "revlist"}
  BY <1>1, <1>4
<1>5. QED
  BY <1>3, <1>4

\* A directory is of one of five kinds; a link's target is a path.
LEMMA DirIs ==
    ASSUME NEW item \in Dirs
    PROVE  /\ item \in Items /\ item.is \in {"root", "tags", "node", "commit", "revlist"}
           /\ item.is = "node" => Kind[item.node] = "dir"
           /\ ~IsLink(item) /\ IsDir(item) /\ BareItem(item) \in Dirs
<1>1. item \in Items /\ IsDir(item) /\ item.is \in Kinds
  BY ItemIs DEF Dirs
<1>2. BareItem(item) \in Dirs
  BY <1>1, BareItemIs, BareKeepsKind DEF Dirs
<1>3. QED
  BY <1>1, <1>2 DEF IsDir, IsLink, Kinds

LEMMA CommitIsDir ==
    ASSUME NEW c \in Commit, NEW m \in BOOLEAN
    PROVE  CommitItem(c, m) \in Dirs /\ RevListItem(c, m) \in Dirs /\ RootItem \in Dirs /\ TagsItem \in Dirs
  BY ItemsHave, ItemFields DEF Dirs, IsDir, IsLink

LEMMA LinkTarget ==
    ASSUME NEW item \in Items, IsLink(item)
    PROVE  ReadLink(item) \in Seq(Names) \ {<<>>}
<1>1. CASE item.is = "fakelink"
  <2>1. PICK c \in Commit : item = FakeLink(SaveName(Revs[c], 1))
    BY <1>1, ItemIs
  <2>2. SaveName(Revs[c], 1) \in Names
    BY DEF Names
  <2>3. ReadLink(item) = <<SaveName(Revs[c], 1)>>
    BY <1>1, <2>1, ItemFields DEF ReadLink
  <2>4. QED
    BY <2>2, <2>3
<1>2. CASE item.is # "fakelink"
  <2>1. item.is = "node" /\ Kind[item.node] = "link"
    BY <1>2 DEF IsLink
  <2>2. item.node \in Links
    BY <2>1, ItemIs DEF Links
  <2>3. ReadLink(item) = Target[item.node]
    BY <1>2 DEF ReadLink
  <2>4. Range(Target[item.node]) \subseteq Names
    <3>1. UNION {Range(Target[n]) : n \in Links} \subseteq Names
      BY DEF Names
    <3>2. QED
      BY <2>2, <3>1
  <2>5. Target[item.node] \in Seq(Range(Target[item.node])) /\ Target[item.node] # <<>>
    BY <2>2, VfsParameters DEF IsPath
  <2>6. \A t : t \in Seq(Range(t)) /\ Range(t) \subseteq Names => t \in Seq(Names)
    OBVIOUS
  <2>7. QED
    BY <2>3, <2>4, <2>5, <2>6
<1>3. QED
  BY <1>1, <1>2

LEMMA RequestPath ==
    ASSUME NEW req \in Requests
    PROVE  /\ req.path \in Seq(Names) \ {<<>>}
           /\ req \in [path : {req.path}, meta : BOOLEAN, follow : BOOLEAN, try : BOOLEAN, relative : BOOLEAN]
<1>1. Range(req.path) \subseteq Names
  BY DEF Names
<1>2. req.path \in Seq(Range(req.path)) /\ req.path # <<>>
  BY VfsParameters DEF IsPath
<1>3. \A t : t \in Seq(Range(t)) /\ Range(t) \subseteq Names => t \in Seq(Names)
  OBVIOUS
<1>4. QED
  BY <1>1, <1>2, <1>3, VfsParameters

-----------------------------------------------------------------------------
(***************************************************************************)
(* The cache                                                               *)
(***************************************************************************)

\* The items of a commit: its own, or the list of the saves that end in it.
CommitItems(c) == {CommitItem(c, m) : m \in BOOLEAN}
RevListItemsOf(c) == {RevListItem(c, m) : m \in BOOLEAN}
About(c) == CommitItems(c) \cup RevListItemsOf(c)

LEMMA AboutItems ==
    ASSUME NEW c \in Commit, NEW item \in About(c)
    PROVE  item \in Items /\ item \in Dirs /\ item # None /\ item # Crash /\ item.commit = c /\ item.meta \in BOOLEAN
<1>1. item \in Dirs /\ item.commit = c /\ item.meta \in BOOLEAN
  BY CommitIsDir, ItemFields DEF About, CommitItems, RevListItemsOf
<1>2. item \in Items
  BY <1>1 DEF Dirs
<1>3. QED
  BY <1>1, <1>2, NoneIsNone

\* Keys of different kinds, and of different commits, are different.
LEMMA KeysDiffer ==
    ASSUME NEW c, NEW d
    PROVE  /\ Itm(c) # Rvl(d)
           /\ Itm(c) = Itm(d) => c = d
           /\ Rvl(c) = Rvl(d) => c = d
           /\ Itm(c)[1] # "res" /\ Rvl(c)[1] # "res"
  BY DEF Itm, Rvl

\* What is in the cache after something was kept is that, or was there.
LEMMA NoticeKeeps ==
    ASSUME NEW ca, NEW key, NEW value, NEW over, NEW x \in Notice(ca, key, value, over),
           NEW k \in DOMAIN x
    PROVE  (k \in DOMAIN ca /\ x[k] = ca[k]) \/ (k = key /\ x[k] = value)
<1>1. x = ca \/ x = Keep(ca, key, value)
      \/ \E victim \in DOMAIN ca : x = Keep(Restrict(ca, DOMAIN ca \ {victim}), key, value)
  BY DEF Notice
<1>2. CASE x = Keep(ca, key, value)
  BY <1>2 DEF Keep
<1>3. ASSUME NEW victim \in DOMAIN ca, x = Keep(Restrict(ca, DOMAIN ca \ {victim}), key, value)
      PROVE  (k \in DOMAIN ca /\ x[k] = ca[k]) \/ (k = key /\ x[k] = value)
  BY <1>3 DEF Keep, Restrict
<1>4. QED
  BY <1>1, <1>2, <1>3

\* What may be kept under a key.
Fits(key, value) ==
    /\ \A c \in Commit : key = Itm(c) => value \in CommitItems(c)
    /\ \A c \in Commit : key = Rvl(c) => Listing(value, c)
    /\ key[1] = "res" => value \in Pasts

LEMMA NoticeOK ==
    ASSUME NEW ca, CacheOK(ca), NEW key, NEW value, Fits(key, value), NEW over,
           NEW x \in Notice(ca, key, value, over)
    PROVE  CacheOK(x)
<1>1. \A k \in DOMAIN x : (k \in DOMAIN ca /\ x[k] = ca[k]) \/ (k = key /\ x[k] = value)
  BY NoticeKeeps
<1>2. ItemsKept(x)
  BY <1>1 DEF ItemsKept, CacheOK, Fits, Cached, CommitItems
<1>3. ListingsKept(x)
  BY <1>1 DEF ListingsKept, CacheOK, Fits, Cached
<1>4. PlacesKept(x)
  BY <1>1 DEF PlacesKept, CacheOK, Fits
<1>5. QED
  BY <1>2, <1>3, <1>4 DEF CacheOK

\* No resolution was added to the cache.
SamePlaces(ca, x) == \A k \in DOMAIN x : k[1] = "res" => k \in DOMAIN ca /\ x[k] = ca[k]

LEMMA KeepCommit ==
    ASSUME NEW ca, CacheOK(ca), NEW c \in Commit, NEW value \in CommitItems(c), NEW over,
           NEW x \in Notice(ca, Itm(c), value, over)
    PROVE  CacheOK(x) /\ SamePlaces(ca, x)
<1>1. Fits(Itm(c), value)
  BY KeysDiffer DEF Fits
<1>2. SamePlaces(ca, x)
  BY NoticeKeeps, KeysDiffer DEF SamePlaces
<1>3. QED
  BY <1>1, <1>2, NoticeOK

LEMMA KeepListing ==
    ASSUME NEW ca, CacheOK(ca), NEW c \in Commit, NEW value, Listing(value, c), NEW over,
           NEW x \in Notice(ca, Rvl(c), value, over)
    PROVE  CacheOK(x) /\ SamePlaces(ca, x)
<1>1. Fits(Rvl(c), value)
  BY KeysDiffer DEF Fits
<1>2. SamePlaces(ca, x)
  BY NoticeKeeps, KeysDiffer DEF SamePlaces
<1>3. QED
  BY <1>1, <1>2, NoticeOK

LEMMA GetCommitItemIs ==
    ASSUME NEW ca, CacheOK(ca), NEW c \in Commit, NEW need \in BOOLEAN
    PROVE  GetCommitItem(ca, c, need) \in About(c) \cup {None}
<1>1. Cached(ca, Itm(c)) => ca[Itm(c)] \in About(c)
  BY DEF CacheOK, ItemsKept, About, CommitItems
<1>2. Cached(ca, Rvl(c)) => ca[Rvl(c)].dot \in About(c)
  BY DEF CacheOK, ListingsKept, About, RevListItemsOf, Listing
<1>3. QED
  BY <1>1, <1>2 DEF GetCommitItem

\* A lookup leaves the cache right and its resolutions alone.
Looked(ca, o) == CacheOK(o.cache) /\ SamePlaces(ca, o.cache)

LEMMA SameCache == ASSUME NEW ca, CacheOK(ca), NEW item PROVE Looked(ca, With(ca, item)) /\ With(ca, item).item = item
  BY DEF Looked, With, SamePlaces

LEMMA RevListItemFromOK ==
    ASSUME NEW ca, CacheOK(ca), NEW c \in Commit, NEW need \in BOOLEAN, NEW o \in RevListItemFrom(ca, c, need)
    PROVE  Looked(ca, o) /\ o.item \in RevListItemsOf(c)
<1> DEFINE old == GetCommitItem(ca, c, need)
           meta == need /\ c \in HasMeta
<1>1. CASE old # None
  <2>1. o = With(ca, RevListItem(c, old.meta))
    BY <1>1 DEF RevListItemFrom
  <2>2. old.meta \in BOOLEAN
    BY <1>1, GetCommitItemIs, AboutItems
  <2>3. QED
    BY <2>1, <2>2, SameCache DEF RevListItemsOf
<1>2. CASE old = None
  <2>1. PICK x \in Notice(ca, Itm(c), CommitItem(c, meta), TRUE) : o = With(x, RevListItem(c, meta))
    BY <1>2 DEF RevListItemFrom
  <2>2. meta \in BOOLEAN
    OBVIOUS
  <2> HIDE DEF meta
  <2>3. CommitItem(c, meta) \in CommitItems(c) /\ RevListItem(c, meta) \in RevListItemsOf(c)
    BY <2>2 DEF CommitItems, RevListItemsOf
  <2>4. CacheOK(x) /\ SamePlaces(ca, x)
    BY <2>1, <2>3, KeepCommit
  <2>5. QED
    BY <2>1, <2>3, <2>4 DEF Looked, With
<1>3. QED
  BY <1>1, <1>2

LEMMA ItemForRevOK ==
    ASSUME NEW ca, CacheOK(ca), NEW c \in Commit, NEW o \in ItemForRev(ca, c)
    PROVE  Looked(ca, o) /\ o.item \in About(c)
<1> DEFINE old == GetCommitItem(ca, c, FALSE)
<1>1. CASE old # None
  <2>1. o = With(ca, old)
    BY <1>1 DEF ItemForRev
  <2>2. old \in About(c)
    BY <1>1, GetCommitItemIs
  <2>3. QED
    BY <2>1, <2>2, SameCache
<1>2. CASE old = None
  <2>1. PICK x \in Notice(ca, Itm(c), CommitItem(c, FALSE), FALSE) : o = With(x, CommitItem(c, FALSE))
    BY <1>2 DEF ItemForRev
  <2>2. CommitItem(c, FALSE) \in CommitItems(c) /\ CommitItem(c, FALSE) \in About(c)
    BY DEF CommitItems, About
  <2>3. CacheOK(x) /\ SamePlaces(ca, x)
    BY <2>1, <2>2, KeepCommit
  <2>4. QED
    BY <2>1, <2>2, <2>3 DEF Looked, With
<1>3. QED
  BY <1>1, <1>2

\* The list of a branch's saves has an item about each, whatever was evicted
\* while it was made.
LEMMA CacheCommitOK ==
    ASSUME NEW ca, CacheOK(ca), NEW c \in Commit, NEW need \in BOOLEAN, NEW o \in CacheCommit(ca, c, need)
    PROVE  Looked(ca, o) /\ (o.item = Crash \/ Listing(o.item, c))
<1> DEFINE revs == Revs[c]
           N == Len(revs)
           listing(x, items, dot) == [cache |-> x, items |-> items, dot |-> dot]
           begin == {listing(b.cache, <<>>, b.item) : b \in RevListItemFrom(ca, c, need)}
           next(S, rev) == UNION {{listing(b.cache, Append(x.items, b.item), x.dot) :
                                      b \in ItemForRev(x.cache, rev)} : x \in S}
           Body(g, n) == IF n = 0 THEN begin ELSE next(g[n - 1], revs[n])
           All(g) == [n \in 0..N |-> Body(g, n)]
           listed == CHOOSE g : g = All(g)
           entries(x) == [dot |-> x.dot, meta |-> need, latest |-> SaveName(revs, 1),
                          saves |-> [name \in {SaveName(revs, i) : i \in DOMAIN revs} |->
                             x.items[CHOOSE i \in DOMAIN revs : SaveName(revs, i) = name]]]
           keep(x) == IF x.items[1].is = "revlist" THEN {With(x.cache, Crash)}
                      ELSE {With(y, entries(x)) : y \in Notice(x.cache, Rvl(c), entries(x), TRUE)}
<1>1. RevList(revs, c)
  BY RevsAre
<1>2. N \in Nat /\ N > 0 /\ DOMAIN revs = 1..N /\ \A i \in 1..N : revs[i] \in Commit
  BY <1>1 DEF RevList
<1>3. \E g : g = All(g)
  <2> DEFINE Made(g, m) == \A n \in 0..m : g[n] = Body(g, n)
             T == {m \in 0..N : \E g : Made(g, m)}
  <2> HIDE DEF begin, next, N, revs
  <2>1. 0 \in T
    <3> DEFINE g == [n \in 0..0 |-> begin]
    <3>1. g[0] = begin
      OBVIOUS
    <3> HIDE DEF g
    <3>2. Made(g, 0)
      BY <3>1
    <3>3. QED
      BY <1>2, <3>2
  <2>2. ASSUME NEW m \in 0..N, m \in T, m < N
        PROVE  m + 1 \in T
    <3>1. PICK g : Made(g, m)
      BY <2>2
    <3> DEFINE h == [n \in 0..(m + 1) |-> IF n <= m THEN g[n] ELSE next(g[m], revs[m + 1])]
    <3>2. m \in Nat /\ m + 1 \in 0..N /\ ~(m + 1 <= m) /\ m + 1 \in 0..(m + 1)
      BY <1>2, <2>2
    <3>3. \A n \in 0..m : h[n] = g[n]
      BY <3>2
    <3>4. h[m + 1] = next(g[m], revs[m + 1])
      BY <3>2
    <3> HIDE DEF h
    <3>5. ASSUME NEW n \in 0..(m + 1)
          PROVE  h[n] = Body(h, n)
      <4>1. CASE n = m + 1
        <5>1. h[m] = g[m] /\ n - 1 = m /\ n # 0
          BY <3>2, <3>3, <4>1
        <5>2. QED
          BY <3>4, <4>1, <5>1
      <4>2. CASE n # m + 1
        <5>1. n \in 0..m
          BY <3>2, <4>2
        <5>2. h[n] = Body(g, n)
          BY <3>1, <3>3, <5>1
        <5>3. CASE n = 0
          BY <5>2, <5>3
        <5>4. CASE n # 0
          <6>1. n - 1 \in 0..m
            BY <5>1, <5>4
          <6>2. h[n - 1] = g[n - 1]
            BY <3>3, <6>1
          <6>3. QED
            BY <5>2, <5>4, <6>2
        <5>5. QED
          BY <5>3, <5>4
      <4>3. QED
        BY <4>1, <4>2
    <3> HIDE DEF Body
    <3>6. QED
      BY <3>2, <3>5
  <2>3. N \in T
    <3> HIDE DEF T
    <3>1. 0..N \subseteq T
      BY <1>2, <2>1, <2>2, UpTo
    <3>2. QED
      BY <1>2, <3>1
  <2> HIDE DEF Body
  <2>4. PICK g : Made(g, N)
    BY <2>3
  <2> DEFINE h == [n \in 0..N |-> g[n]]
  <2>5. \A n \in 0..N : h[n] = g[n]
    OBVIOUS
  <2>6. \A n \in 0..N : Body(h, n) = Body(g, n)
    <3>1. \A n \in 0..N : n # 0 => n - 1 \in 0..N
      BY <1>2
    <3> HIDE DEF h
    <3>2. QED
      BY <2>5, <3>1 DEF Body
  <2>7. h = All(h)
    BY <2>4, <2>6
  <2>8. QED
    BY <2>7
<1>4. \A n \in 0..N : listed[n] = Body(listed, n)
  <2>1. listed = All(listed)
    <3> HIDE DEF All
    <3>1. QED
      BY <1>3
  <2> HIDE DEF listed, Body, N
  <2>2. QED
    BY <2>1
<1>5. o \in UNION {keep(x) : x \in listed[N]}
  BY DEF CacheCommit
<1> DEFINE Good(x, n) == /\ CacheOK(x.cache) /\ SamePlaces(ca, x.cache) /\ x.dot \in RevListItemsOf(c)
                         /\ x.items \in Seq(Items) /\ Len(x.items) = n
                         /\ \A i \in 1..n : x.items[i] \in About(revs[i])
           T == {n \in 0..N : \A x \in listed[n] : Good(x, n)}
<1>6. 0 \in T
  <2>1. ASSUME NEW x \in begin
        PROVE  Good(x, 0)
    <3>1. PICK b \in RevListItemFrom(ca, c, need) : x = listing(b.cache, <<>>, b.item)
      OBVIOUS
    <3>2. CacheOK(b.cache) /\ SamePlaces(ca, b.cache) /\ b.item \in RevListItemsOf(c)
      BY RevListItemFromOK DEF Looked
    <3>3. x.cache = b.cache /\ x.items = <<>> /\ x.dot = b.item
      BY <3>1
    <3> HIDE DEF begin, listing, revs
    <3>4. QED
      BY <3>2, <3>3
  <2> HIDE DEF Good, listed, begin, N, next
  <2>2. 0 \in 0..N /\ listed[0] = begin
    BY <1>2, <1>4
  <2>3. QED
    BY <2>1, <2>2
<1>7. ASSUME NEW n \in 0..N, n \in T, n < N
      PROVE  n + 1 \in T
  <2>1. n + 1 \in 0..N /\ n + 1 # 0 /\ (n + 1) - 1 = n /\ n \in Nat /\ n + 1 \in 1..N
    BY <1>2, <1>7
  <2>2. listed[n + 1] = next(listed[n], revs[n + 1])
    <3> HIDE DEF listed, next, begin, N, revs
    <3>1. listed[n + 1] = Body(listed, n + 1)
      BY <1>4, <2>1
    <3>2. QED
      BY <2>1, <3>1
  <2>3. \A x \in listed[n] : Good(x, n)
    BY <1>7
  <2> HIDE DEF listed, N, T
  <2>4. ASSUME NEW x \in listed[n], NEW b \in ItemForRev(x.cache, revs[n + 1])
        PROVE  Good(listing(b.cache, Append(x.items, b.item), x.dot), n + 1)
    <3>1. Good(x, n)
      BY <2>3
    <3> HIDE DEF revs
    <3>2. revs[n + 1] \in Commit
      BY <1>2, <2>1
    <3>3. CacheOK(b.cache) /\ SamePlaces(x.cache, b.cache) /\ b.item \in About(revs[n + 1])
      BY <3>1, <3>2, ItemForRevOK DEF Looked
    <3>4. SamePlaces(ca, b.cache)
      BY <3>1, <3>3 DEF SamePlaces
    <3>5. b.item \in Items
      BY <3>2, <3>3, AboutItems
    <3> DEFINE s == Append(x.items, b.item)
    <3>6. s \in Seq(Items) /\ Len(s) = n + 1 /\ s[n + 1] = b.item /\ \A i \in 1..n : s[i] = x.items[i]
      BY <2>1, <3>1, <3>5
    <3> HIDE DEF s
    <3>7. \A i \in 1..(n + 1) : s[i] \in About(revs[i])
      <4>1. ASSUME NEW i \in 1..(n + 1)
            PROVE  s[i] \in About(revs[i])
        <5>1. i \in 1..n \/ i = n + 1
          BY <2>1
        <5>2. QED
          BY <3>1, <3>3, <3>6, <5>1
      <4>2. QED
        BY <4>1
    <3> DEFINE y == listing(b.cache, s, x.dot)
    <3>8. y.cache = b.cache /\ y.items = s /\ y.dot = x.dot
      OBVIOUS
    <3> HIDE DEF y, listing
    <3>9. Good(y, n + 1)
      BY <3>1, <3>3, <3>4, <3>6, <3>7, <3>8
    <3>10. QED
      BY <3>9 DEF y, s
  <2> HIDE DEF Good, listing, revs
  <2>5. \A y \in next(listed[n], revs[n + 1]) : Good(y, n + 1)
    BY <2>4
  <2>6. QED
    BY <2>1, <2>2, <2>5 DEF T
<1>8. \A x \in listed[N] : Good(x, N)
  <2> HIDE DEF listed, Good, N
  <2>1. 0..N \subseteq T
    <3> HIDE DEF T
    <3>1. QED
      BY <1>2, <1>6, <1>7, UpTo
  <2>2. N \in 0..N
    BY <1>2
  <2>3. QED
    BY <2>1, <2>2
<1> HIDE DEF listed, T
<1>9. PICK x \in listed[N] : o \in keep(x)
  <2> HIDE DEF keep, N
  <2>1. QED
    BY <1>5
<1>10. Good(x, N)
  BY <1>8
<1> HIDE DEF listing, begin, next, Body, All
<1>11. CASE x.items[1].is = "revlist"
  <2>1. o = With(x.cache, Crash)
    BY <1>9, <1>11
  <2> HIDE DEF revs
  <2>2. o.cache = x.cache /\ o.item = Crash
    BY <2>1 DEF With
  <2>3. QED
    BY <1>10, <2>2 DEF Looked
<1>12. CASE x.items[1].is # "revlist"
  <2> DEFINE e == entries(x)
  <2>1. PICK y \in Notice(x.cache, Rvl(c), e, TRUE) : o = With(y, e)
    BY <1>9, <1>12
  <2>2. Listing(e, c)
    <3>1. /\ DOMAIN e = {"dot", "meta", "latest", "saves"}
          /\ e.dot = x.dot /\ e.meta = need /\ e.latest = SaveName(revs, 1)
          /\ DOMAIN e.saves = {SaveName(revs, i) : i \in DOMAIN revs}
      <4> HIDE DEF revs
      <4>1. QED
        OBVIOUS
    <3>2. ASSUME NEW i \in DOMAIN revs
          PROVE  e.saves[SaveName(revs, i)] \in About(revs[i])
      <4> HIDE DEF revs, N
      <4>1. e.saves[SaveName(revs, i)] =
              x.items[CHOOSE j \in DOMAIN revs : SaveName(revs, j) = SaveName(revs, i)]
        OBVIOUS
      <4>2. \A j \in DOMAIN revs : SaveName(revs, j) = SaveName(revs, i) <=> j = i
        BY <1>1, NamesDiffer
      <4>3. (CHOOSE j \in DOMAIN revs : SaveName(revs, j) = SaveName(revs, i)) = i
        BY <4>2
      <4> HIDE DEF e
      <4>4. QED
        BY <1>2, <1>10, <4>1, <4>3
    <3> HIDE DEF e
    <3>3. QED
      BY <1>10, <3>1, <3>2 DEF Listing, About, CommitItems, RevListItemsOf
  <2> HIDE DEF e
  <2>3. CacheOK(y) /\ SamePlaces(x.cache, y)
    BY <1>10, <2>1, <2>2, KeepListing
  <2>4. SamePlaces(ca, y)
    BY <1>10, <2>3 DEF SamePlaces
  <2>5. QED
    BY <2>1, <2>2, <2>3, <2>4 DEF Looked, With
<1>13. QED
  BY <1>11, <1>12

-----------------------------------------------------------------------------
(***************************************************************************)
(* What a name is looked up to be is what it means                         *)
(***************************************************************************)

TreeOfItem(x) == IF x.is = "node" THEN x.node ELSE TreeOf[x.commit]

\* Means, kind by kind.
LEMMA MeansIs ==
    ASSUME NEW W, NEW x, NEW name
    PROVE  /\ x.is = "root" /\ name \in Branches => Means(W, x, name) = {BranchItem(w, name) : w \in W}
           /\ x.is = "root" /\ name \notin Branches =>
                Means(W, x, name) = {IF name = Name(".tag") THEN TagsItem ELSE None}
           /\ x.is = "tags" /\ name \in Tags => Means(W, x, name) = {TaggedItem(w, name) : w \in W}
           /\ x.is = "tags" /\ name \notin Tags => Means(W, x, name) = {None}
           /\ x.is = "revlist" => Means(W, x, name) = SavesMean(x.commit, name)
           /\ x.is \in {"node", "commit"} => Means(W, x, name) = TreeMeans(TreeOfItem(x), name)
<1> DEFINE branches == {BranchItem(w, name) : w \in W}
           tagged == {TaggedItem(w, name) : w \in W}
           other == {IF name = Name(".tag") THEN TagsItem ELSE None}
<1>1. Means(W, x, name) =
        CASE x.is = "root" /\ name \in Branches -> branches
          [] x.is = "root" /\ name \notin Branches -> other
          [] x.is = "tags" /\ name \in Tags -> tagged
          [] x.is = "tags" /\ name \notin Tags -> {None}
          [] x.is = "revlist" -> SavesMean(x.commit, name)
          [] x.is = "commit" -> TreeMeans(TreeOf[x.commit], name)
          [] x.is = "node" -> TreeMeans(x.node, name)
  BY DEF Means
<1> HIDE DEF branches, tagged, other
<1>2. x.is = "root" /\ name \in Branches => Means(W, x, name) = branches
  BY <1>1
<1>3. x.is = "root" /\ name \notin Branches => Means(W, x, name) = other
  BY <1>1
<1>4. x.is = "tags" /\ name \in Tags => Means(W, x, name) = tagged
  BY <1>1
<1>5. x.is = "tags" /\ name \notin Tags => Means(W, x, name) = {None}
  BY <1>1
<1>6. x.is = "revlist" => Means(W, x, name) = SavesMean(x.commit, name)
  BY <1>1
<1>7. x.is \in {"node", "commit"} => Means(W, x, name) = TreeMeans(TreeOfItem(x), name)
  BY <1>1 DEF TreeOfItem
<1>8. QED
  BY <1>2, <1>3, <1>4, <1>5, <1>6, <1>7 DEF branches, tagged, other

\* What may come of a lookup: what the name means; or a way out of it.
Found(W, item, name, got) ==
    \/ got = Crash
    \/ got \in Items /\ got.is = "revlist" /\ item.is \in {"revlist", "tags"}
    \/ got \in Items \cup {None} /\ BareItem(got) \in Means(W, BareItem(item), name)

LEMMA TreeItemsOK ==
    ASSUME NEW W, CacheOK(cache), NEW item \in Dirs, item.is \in {"node", "commit"}, NEW name,
           NEW o \in TreeItems(cache, TreeOfItem(item), name)
    PROVE  Looked(cache, o) /\ Found(W, item, name, o.item)
<1> DEFINE n == TreeOfItem(item)
<1>1. n \in Node /\ Kind[n] = "dir"
  <2>1. item \in Items /\ (item.is = "node" => item.node \in Node /\ Kind[item.node] = "dir")
    BY DirIs, ItemIs
  <2>2. item.is = "commit" => item.commit \in Commit
    BY <2>1, ItemIs
  <2>3. QED
    BY <2>1, <2>2, VfsParameters DEF TreeOfItem
<1>2. TreeOfItem(BareItem(item)) = n /\ BareItem(item).is \in {"node", "commit"}
  BY DirIs, BareItemIs DEF TreeOfItem
<1> HIDE DEF n
<1>3. o = With(cache, IF name \in DOMAIN Entries[n] THEN NodeItem(Entries[n][name]) ELSE None)
  BY DEF TreeItems, n
<1>4. CASE name \in DOMAIN Entries[n]
  <2> DEFINE x == Entries[n][name]
  <2>1. x \in Node
    BY <1>1, <1>4, VfsParameters DEF Range
  <2>2. NodeItem(x) \in Items /\ BareItem(NodeItem(x)) = NodeItem(x)
    BY <2>1, ItemsHave, NodeFields, BareItemIs
  <2>3. Looked(cache, o) /\ o.item = NodeItem(x)
    BY <1>3, <1>4, SameCache
  <2>4. Means(W, BareItem(item), name) = {NodeItem(x)}
    BY <1>2, <1>4, MeansIs DEF TreeMeans
  <2>5. QED
    BY <2>2, <2>3, <2>4 DEF Found
<1>5. CASE name \notin DOMAIN Entries[n]
  <2>1. Looked(cache, o) /\ o.item = None
    BY <1>3, <1>5, SameCache
  <2>2. Means(W, BareItem(item), name) = {None}
    BY <1>2, <1>5, MeansIs DEF TreeMeans
  <2>3. QED
    BY <2>1, <2>2, BareNone DEF Found
<1>6. QED
  BY <1>4, <1>5

LEMMA RootItemsOK ==
    ASSUME NEW W, refs \in W, IsRefs(refs), CacheOK(cache), NEW item \in Dirs, item.is = "root",
           NEW name, NEW meta \in BOOLEAN, NEW o \in RootItems(cache, name, meta)
    PROVE  Looked(cache, o) /\ Found(W, item, name, o.item)
<1>1. BareItem(item).is = "root"
  BY DirIs, BareItemIs
<1>2. CASE name = Name(".tag")
  <2>1. name \notin Branches
    BY <1>2, VfsParameters DEF Name
  <2>2. Looked(cache, o) /\ o.item = TagsItem
    BY <1>2, SameCache DEF RootItems
  <2>3. Means(W, BareItem(item), name) = {TagsItem}
    BY <1>1, <1>2, <2>1, MeansIs
  <2>4. TagsItem \in Items /\ BareItem(TagsItem) = TagsItem
    BY ItemsHave, BareItemIs DEF TagsItem
  <2>5. QED
    BY <2>2, <2>3, <2>4 DEF Found
<1>3. CASE name # Name(".tag") /\ name \in Branches /\ refs[name] # None
  <2> DEFINE c == refs[name]
  <2>1. c \in Commit
    <3>1. name \notin Tags /\ name \in DOMAIN refs
      BY <1>3, VfsParameters DEF IsRefs
    <3>2. QED
      BY <1>3, <3>1 DEF IsRefs, Pointees
  <2>2. o \in RevListItemFrom(cache, c, meta)
    BY <1>3 DEF RootItems
  <2>3. Looked(cache, o) /\ o.item \in RevListItemsOf(c)
    BY <2>1, <2>2, RevListItemFromOK
  <2>4. PICK m \in BOOLEAN : o.item = RevListItem(c, m)
    BY <2>3 DEF RevListItemsOf
  <2>5. o.item \in Items /\ BareItem(o.item) = RevListItem(c, FALSE)
    BY <2>1, <2>4, ItemsHave, BareCommit
  <2>6. RevListItem(c, FALSE) \in Means(W, BareItem(item), name)
    <3>1. BranchItem(refs, name) = RevListItem(c, FALSE)
      BY <1>3 DEF BranchItem
    <3>2. Means(W, BareItem(item), name) = {BranchItem(w, name) : w \in W}
      BY <1>1, <1>3, MeansIs
    <3>3. QED
      BY <3>1, <3>2
  <2>7. QED
    BY <2>3, <2>5, <2>6 DEF Found
<1>4. CASE name # Name(".tag") /\ ~(name \in Branches /\ refs[name] # None)
  <2>1. Looked(cache, o) /\ o.item = None
    BY <1>4, SameCache DEF RootItems
  <2>2. None \in Means(W, BareItem(item), name)
    <3>1. CASE name \in Branches
      <4>1. BranchItem(refs, name) = None
        BY <1>4, <3>1 DEF BranchItem
      <4>2. Means(W, BareItem(item), name) = {BranchItem(w, name) : w \in W}
        BY <1>1, <3>1, MeansIs
      <4>3. QED
        BY <4>1, <4>2
    <3>2. CASE name \notin Branches
      BY <1>1, <1>4, <3>2, MeansIs
    <3>3. QED
      BY <3>1, <3>2
  <2>3. QED
    BY <2>1, <2>2, BareNone DEF Found
<1>5. QED
  BY <1>2, <1>3, <1>4

LEMMA TagsItemsOK ==
    ASSUME NEW W, refs \in W, IsRefs(refs), CacheOK(cache), NEW item \in Dirs, item.is = "tags",
           NEW name, NEW o \in TagsItems(cache, name)
    PROVE  Looked(cache, o) /\ Found(W, item, name, o.item)
<1>1. BareItem(item).is = "tags"
  BY DirIs, BareItemIs
<1>2. CASE name \in Tags /\ refs[name] # None
  <2> DEFINE x == refs[name]
  <2>1. x \in Commit \cup Node
    <3>1. name \in DOMAIN refs
      BY <1>2 DEF IsRefs
    <3>2. QED
      BY <1>2, <3>1 DEF IsRefs, Pointees
  <2>2. Looked(cache, o) /\ o.item = TagItem(cache, x)
    BY <1>2, SameCache DEF TagsItems
  <2>3. (IF x \in Node THEN NodeItem(x) ELSE CommitItem(x, FALSE)) \in Means(W, BareItem(item), name)
    <3>1. TaggedItem(refs, name) = IF x \in Node THEN NodeItem(x) ELSE CommitItem(x, FALSE)
      BY <1>2 DEF TaggedItem
    <3>2. Means(W, BareItem(item), name) = {TaggedItem(w, name) : w \in W}
      BY <1>1, <1>2, MeansIs
    <3>3. QED
      BY <3>1, <3>2
  <2>4. CASE x \in Node
    <3>1. NodeItem(x) \in Items /\ BareItem(NodeItem(x)) = NodeItem(x)
      BY <2>4, ItemsHave, NodeFields, BareItemIs
    <3>2. QED
      BY <2>2, <2>3, <2>4, <3>1 DEF TagItem, Found
  <2>5. CASE x \notin Node
    <3> DEFINE old == GetCommitItem(cache, x, FALSE)
    <3>1. x \in Commit
      BY <2>1, <2>5
    <3>2. old \in About(x) \cup {None}
      BY <3>1, GetCommitItemIs
    <3>3. o.item \in About(x)
      <4>1. CommitItem(x, FALSE) \in About(x)
        BY DEF About, CommitItems
      <4>2. QED
        BY <2>2, <2>5, <3>2, <4>1 DEF TagItem
    <3> HIDE DEF x
    <3>4. CASE o.item \in CommitItems(x)
      <4>1. PICK m \in BOOLEAN : o.item = CommitItem(x, m)
        BY <3>4 DEF CommitItems
      <4>2. o.item \in Items /\ BareItem(o.item) = CommitItem(x, FALSE)
        BY <3>1, <4>1, ItemsHave, BareCommit
      <4>3. QED
        BY <2>2, <2>3, <2>5, <4>2 DEF Found
    <3>5. CASE o.item \in RevListItemsOf(x)
      <4>1. o.item.is = "revlist" /\ o.item \in Items
        BY <3>1, <3>3, <3>5, ItemFields, AboutItems DEF RevListItemsOf
      <4>2. QED
        BY <2>2, <4>1 DEF Found
    <3>6. QED
      BY <3>3, <3>4, <3>5 DEF About
  <2>6. QED
    BY <2>4, <2>5
<1>3. CASE ~(name \in Tags /\ refs[name] # None)
  <2>1. Looked(cache, o) /\ o.item = None
    BY <1>3, SameCache DEF TagsItems
  <2>2. None \in Means(W, BareItem(item), name)
    <3>1. CASE name \in Tags
      <4>1. TaggedItem(refs, name) = None
        BY <1>3, <3>1 DEF TaggedItem
      <4>2. Means(W, BareItem(item), name) = {TaggedItem(w, name) : w \in W}
        BY <1>1, <3>1, MeansIs
      <4>3. QED
        BY <4>1, <4>2
    <3>2. CASE name \notin Tags
      BY <1>1, <3>2, MeansIs
    <3>3. QED
      BY <3>1, <3>2
  <2>3. QED
    BY <2>1, <2>2, BareNone DEF Found
<1>4. QED
  BY <1>2, <1>3

\* A list of saves is never taken for a failure.
LEMMA ListingIsNoCrash == ASSUME NEW e, NEW c, Listing(e, c) PROVE e # Crash
<1>1. DOMAIN e = {"dot", "meta", "latest", "saves"} /\ DOMAIN Crash = {"is"}
  BY DEF Listing, Crash
<1>2. "dot" \in DOMAIN e /\ "dot" \notin DOMAIN Crash
  BY <1>1
<1>3. QED
  BY <1>2

LEMMA RevListItemsOK ==
    ASSUME NEW W, CacheOK(cache), NEW item \in Dirs, item.is = "revlist",
           NEW name, NEW meta \in BOOLEAN, NEW o \in RevListItems(cache, item.commit, name, meta)
    PROVE  Looked(cache, o) /\ Found(W, item, name, o.item)
<1> DEFINE c == item.commit
           revs == Revs[c]
           has == Cached(cache, Rvl(c)) /\ (meta => cache[Rvl(c)].meta)
           got == IF has THEN {With(cache, cache[Rvl(c)])} ELSE CacheCommit(cache, c, meta)
           pick(e) == IF e = Crash THEN Crash
                      ELSE IF name = Name("latest") THEN FakeLink(e.latest)
                      ELSE IF name \in DOMAIN e.saves THEN e.saves[name] ELSE None
<1>1. c \in Commit /\ BareItem(item).is = "revlist" /\ BareItem(item).commit = c
  BY DirIs, ItemIs, BareItemIs
<1>2. PICK g \in got : o = With(g.cache, pick(g.item))
  BY DEF RevListItems
<1>3. Looked(cache, g) /\ (g.item = Crash \/ Listing(g.item, c))
  <2>1. CASE has
    <3>1. g = With(cache, cache[Rvl(c)])
      BY <2>1
    <3>2. Listing(cache[Rvl(c)], c)
      BY <1>1, <2>1 DEF CacheOK, ListingsKept
    <3>3. QED
      BY <3>1, <3>2, SameCache
  <2>2. CASE ~has
    <3>1. g \in CacheCommit(cache, c, meta)
      BY <2>2
    <3> HIDE DEF c
    <3>2. QED
      BY <1>1, <3>1, CacheCommitOK
  <2>3. QED
    BY <2>1, <2>2
<1>4. Looked(cache, o) /\ o.item = pick(g.item)
  BY <1>2, <1>3 DEF Looked, With
<1>5. CASE g.item = Crash
  BY <1>4, <1>5 DEF Found
<1>6. CASE g.item # Crash
  <2> DEFINE e == g.item
  <2>1. Listing(e, c)
    BY <1>3, <1>6
  <2>2. CASE name = Name("latest")
    <3>1. o.item = FakeLink(SaveName(revs, 1))
      BY <1>4, <1>6, <2>1, <2>2 DEF Listing
    <3>2. o.item \in Items /\ o.item.is = "fakelink"
      BY <1>1, <3>1, ItemsHave, LinkFields
    <3>3. BareItem(o.item) = o.item
      BY <3>2, BareItemIs
    <3>4. Means(W, BareItem(item), name) = {FakeLink(SaveName(revs, 1))}
      BY <1>1, <2>2, MeansIs DEF SavesMean
    <3>5. QED
      BY <1>4, <3>1, <3>2, <3>3, <3>4 DEF Found
  <2>3. CASE name # Name("latest")
    <3> DEFINE found == {i \in DOMAIN revs : SaveName(revs, i) = name}
    <3>1. Means(W, BareItem(item), name) =
            IF found = {} THEN {None} ELSE {CommitItem(revs[i], FALSE) : i \in found}
      <4>1. Means(W, BareItem(item), name) = SavesMean(c, name)
        BY <1>1, MeansIs
      <4>2. SavesMean(c, name) = IF found = {} THEN {None} ELSE {CommitItem(revs[i], FALSE) : i \in found}
        BY <2>3 DEF SavesMean
      <4>3. QED
        BY <4>1, <4>2
    <3>2. DOMAIN e.saves = {SaveName(revs, i) : i \in DOMAIN revs}
      BY <2>1 DEF Listing
    <3>3. CASE name \notin DOMAIN e.saves
      <4>1. o.item = None
        BY <1>4, <1>6, <2>3, <3>3
      <4>2. found = {}
        BY <3>2, <3>3
      <4>3. QED
        BY <1>4, <3>1, <4>1, <4>2, BareNone DEF Found
    <3>4. CASE name \in DOMAIN e.saves
      <4>1. o.item = e.saves[name]
        BY <1>4, <1>6, <2>3, <3>4
      <4>2. PICK i \in DOMAIN revs : name = SaveName(revs, i)
        BY <3>2, <3>4
      <4>3. revs[i] \in Commit /\ i \in found
        <5>1. revs \in Seq(Commit)
          BY <1>1, RevsAre DEF RevList
        <5> HIDE DEF revs
        <5>2. QED
          BY <4>2, <5>1
      <4>4. o.item \in About(revs[i])
        BY <2>1, <4>1, <4>2 DEF Listing, About, CommitItems, RevListItemsOf
      <4>5. CASE o.item \in CommitItems(revs[i])
        <5>1. PICK m \in BOOLEAN : o.item = CommitItem(revs[i], m)
          BY <4>5 DEF CommitItems
        <5>2. o.item \in Items /\ BareItem(o.item) = CommitItem(revs[i], FALSE)
          BY <4>3, <5>1, ItemsHave, BareCommit
        <5>3. CommitItem(revs[i], FALSE) \in Means(W, BareItem(item), name)
          BY <3>1, <4>3
        <5>4. QED
          BY <1>4, <5>2, <5>3 DEF Found
      <4>6. CASE o.item \in RevListItemsOf(revs[i])
        <5>1. o.item.is = "revlist" /\ o.item \in Items
          BY <4>3, <4>4, <4>6, ItemFields, AboutItems DEF RevListItemsOf
        <5>2. QED
          BY <1>4, <5>1 DEF Found
      <4>7. QED
        BY <4>4, <4>5, <4>6 DEF About
    <3>5. QED
      BY <3>3, <3>4
  <2>4. QED
    BY <2>2, <2>3
<1>7. QED
  BY <1>5, <1>6

\* contents() of one name finds what the name means where it is asked.
LEMMA ContentsOK ==
    ASSUME NEW W, refs \in W, IsRefs(refs), CacheOK(cache), NEW item \in Dirs, NEW name,
           NEW meta \in BOOLEAN, NEW o \in Contents(cache, item, name, meta)
    PROVE  Looked(cache, o) /\ Found(W, item, name, o.item)
<1>1. item.is \in {"root", "tags", "node", "commit", "revlist"}
  BY DirIs
<1>2. CASE item.is = "root"
  <2>1. o \in RootItems(cache, name, meta)
    BY <1>2 DEF Contents
  <2>2. QED
    BY <1>2, <2>1, RootItemsOK
<1>3. CASE item.is = "tags"
  <2>1. o \in TagsItems(cache, name)
    BY <1>3 DEF Contents
  <2>2. QED
    BY <1>3, <2>1, TagsItemsOK
<1>4. CASE item.is \in {"node", "commit"}
  <2>1. o \in TreeItems(cache, TreeOfItem(item), name)
    BY <1>4 DEF Contents, TreeOfItem
  <2>2. QED
    BY <1>4, <2>1, TreeItemsOK
<1>5. CASE item.is = "revlist"
  <2>1. o \in RevListItems(cache, item.commit, name, meta)
    BY <1>5 DEF Contents
  <2>2. QED
    BY <1>5, <2>1, RevListItemsOK
<1>6. QED
  BY <1>1, <1>2, <1>3, <1>4, <1>5

-----------------------------------------------------------------------------
(***************************************************************************)
(* Places                                                                  *)
(***************************************************************************)

LEMMA PastIs ==
    ASSUME NEW past \in Pasts
    PROVE  /\ past \in Seq(Names \X (Items \cup {None})) /\ past # <<>> /\ Len(past) \in Nat /\ Len(past) > 0
           /\ DOMAIN past = 1..Len(past)
           /\ \A i \in 1..Len(past) : past[i][1] \in Names /\ past[i][2] \in Items \cup {None}
           /\ \A i \in 1..(Len(past) - 1) : past[i][2] \in Dirs
           /\ Last(past) = past[Len(past)]
           /\ Last(past)[1] \in Names /\ Last(past)[2] \in Items \cup {None}
<1>1. past \in Seq(Names \X (Items \cup {None})) /\ past # <<>>
  BY DEF Pasts
<1>2. Len(past) \in Nat /\ Len(past) > 0 /\ DOMAIN past = 1..Len(past)
  BY <1>1
<1>3. \A i \in 1..Len(past) : past[i] \in Names \X (Items \cup {None})
  BY <1>1, <1>2
<1>4. \A i \in 1..Len(past) : past[i][1] \in Names /\ past[i][2] \in Items \cup {None}
  BY <1>3
<1>5. Last(past) = past[Len(past)]
  BY DEF Last
<1>6. \A i \in 1..(Len(past) - 1) : past[i][2] \in Dirs
  BY DEF Pasts
<1>7. QED
  BY <1>1, <1>2, <1>4, <1>5, <1>6

LEMMA RootPast == <<Root>> \in Pasts /\ Last(<<Root>>) = Root /\ Root[1] = Name("") /\ Root[2] = RootItem /\ RootItem \in Dirs
<1>1. RootItem \in Dirs /\ RootItem \in Items
  BY ItemsHave DEF Dirs, IsDir, IsLink, RootItem
<1>2. Name("") \in Names
  BY DEF Names
<1>3. Root \in Names \X (Items \cup {None}) /\ Root[1] = Name("") /\ Root[2] = RootItem
  BY <1>1, <1>2 DEF Root
<1>4. Len(<<Root>>) = 1 /\ <<Root>> \in Seq(Names \X (Items \cup {None})) /\ <<Root>> # <<>> /\ <<Root>>[1] = Root
  <2> DEFINE E == Names \X (Items \cup {None})
  <2>1. Root \in E
    BY <1>3
  <2> HIDE DEF E
  <2>2. <<Root>> \in Seq(E)
    BY <2>1
  <2>3. QED
    BY <2>2 DEF E
<1>5. <<Root>> \in Pasts /\ Last(<<Root>>) = Root
  BY <1>4 DEF Pasts, Last
<1>6. QED
  BY <1>1, <1>3, <1>5

LEMMA ExtendPast ==
    ASSUME NEW past \in Pasts, Last(past)[2] \in Dirs, NEW name \in Names, NEW item \in Items \cup {None}
    PROVE  LET there == Append(past, <<name, item>>)
           IN /\ there \in Pasts /\ Last(there) = <<name, item>> /\ Last(there)[2] = item
              /\ Len(there) = Len(past) + 1 /\ there[Len(past) + 1] = <<name, item>>
              /\ \A i \in 1..Len(past) : there[i] = past[i]
<1> DEFINE there == Append(past, <<name, item>>)
           E == Names \X (Items \cup {None})
<1>1. past \in Seq(E) /\ <<name, item>> \in E /\ past[Len(past)][2] \in Dirs
  BY PastIs
<1>2. \A i \in 1..(Len(past) - 1) : past[i][2] \in Dirs
  BY PastIs
<1> HIDE DEF E
<1>3. /\ there \in Seq(E) /\ Len(there) = Len(past) + 1 /\ there[Len(past) + 1] = <<name, item>>
      /\ there # <<>> /\ Len(past) \in Nat /\ \A i \in 1..Len(past) : there[i] = past[i]
  BY <1>1
<1> HIDE DEF there
<1>4. \A i \in 1..(Len(there) - 1) : there[i][2] \in Dirs
  <2>1. \A i \in 1..(Len(there) - 1) : i \in 1..Len(past) /\ (i = Len(past) \/ i \in 1..(Len(past) - 1))
    BY <1>3
  <2>2. QED
    BY <1>1, <1>2, <1>3, <2>1
<1>5. there \in Pasts
  BY <1>3, <1>4 DEF Pasts, E
<1>6. Last(there) = <<name, item>>
  BY <1>3 DEF Last
<1>7. Last(there)[2] = item
  BY <1>6
<1>8. QED
  BY <1>3, <1>5, <1>6, <1>7 DEF there

LEMMA FrontPast ==
    ASSUME NEW past \in Pasts, Len(past) > 1
    PROVE  /\ Front(past) \in Pasts /\ Last(Front(past))[2] \in Dirs
           /\ Len(Front(past)) = Len(past) - 1 /\ \A i \in 1..(Len(past) - 1) : Front(past)[i] = past[i]
<1> DEFINE front == Front(past)
           E == Names \X (Items \cup {None})
<1>1. past \in Seq(E) /\ Len(past) \in Nat /\ \A i \in 1..(Len(past) - 1) : past[i][2] \in Dirs
  BY PastIs
<1> HIDE DEF E
<1>2. front = SubSeq(past, 1, Len(past) - 1)
  BY DEF Front
<1>3. front \in Seq(E) /\ Len(front) = Len(past) - 1 /\ \A i \in 1..(Len(past) - 1) : front[i] = past[i]
  BY <1>1, <1>2
<1> HIDE DEF front
<1>4. front # <<>> /\ \A i \in 1..(Len(front) - 1) : front[i][2] \in Dirs
  BY <1>1, <1>3
<1>5. front \in Pasts
  BY <1>3, <1>4 DEF Pasts, E
<1>6. Last(front)[2] \in Dirs
  BY <1>1, <1>3 DEF Last
<1>7. QED
  BY <1>3, <1>5, <1>6 DEF front

LEMMA FrontOfOne == ASSUME NEW past \in Pasts, Len(past) = 1 PROVE Front(past) = <<>>
<1>1. past \in Seq(Names \X (Items \cup {None}))
  BY PastIs
<1>2. QED
  BY <1>1 DEF Front

LEMMA NamesOfPast ==
    ASSUME NEW past \in Pasts \cup {<<>>}
    PROVE  NamesOf(past) \in Seq(Names) /\ Len(NamesOf(past)) = Len(past)
           /\ \A i \in 1..Len(past) : NamesOf(past)[i] = past[i][1]
<1>1. Len(past) \in Nat /\ DOMAIN past = 1..Len(past) /\ \A i \in 1..Len(past) : past[i][1] \in Names
  <2>1. CASE past = <<>>
    BY <2>1
  <2>2. CASE past \in Pasts
    BY <2>2, PastIs
  <2>3. QED
    BY <2>1, <2>2
<1>2. NamesOf(past) = [i \in 1..Len(past) |-> past[i][1]]
  BY <1>1 DEF NamesOf
<1>3. QED
  BY <1>1, <1>2

\* The key of a resolution.
LEMMA ResIs ==
    ASSUME NEW req, req.meta \in BOOLEAN, req.follow \in BOOLEAN, req.path \in Paths,
           NEW parent \in Pasts \cup {<<>>}
    PROVE  LET key == Res(req, parent)
           IN /\ key \in Keys
              /\ key[1] = "res" /\ key[3] = req.follow /\ key[4] = NamesOf(parent) /\ key[5] = req.path
<1>1. NamesOf(parent) \in Seq(Names)
  BY NamesOfPast
<1> DEFINE names == NamesOf(parent)
           f == req.follow
           m == req.meta
           path == req.path
<1>2. Res(req, parent) = <<"res", m, f, names, path>>
  BY DEF Res
<1>3. m \in BOOLEAN /\ f \in BOOLEAN /\ names \in Seq(Names) /\ path \in Paths
  BY <1>1
<1> HIDE DEF names, f, m, path
<1>4. <<"res", m, f, names, path>> \in Keys
  BY <1>3 DEF Keys
<1>5. /\ <<"res", m, f, names, path>>[1] = "res" /\ <<"res", m, f, names, path>>[3] = f
      /\ <<"res", m, f, names, path>>[4] = names /\ <<"res", m, f, names, path>>[5] = path
  OBVIOUS
<1>6. QED
  BY <1>2, <1>4, <1>5 DEF names, f, m, path

LEMMA KeyIs ==
    ASSUME NEW key \in Keys
    PROVE  key[1] = "res" /\ key[3] \in BOOLEAN /\ key[4] \in Seq(Names) /\ key[5] \in Paths
  BY DEF Keys

-----------------------------------------------------------------------------
(***************************************************************************)
(* The shape of every state                                                *)
(***************************************************************************)

IsThere(past) == Last(past)[2] # None

\* The end of a resolution.
LEMMA AnswerShape ==
    ASSUME NEW is \in {"ok", "enotdir", "eloop", "crash"}, NEW past \in Pasts, NEW ca, CacheOK(ca),
           NEW j \in Jobs, Answer(is, past, ca, j)
    PROVE  Shaped(cache', job', answer')
<1> DEFINE keep == IF is = "ok" /\ ~j.hit THEN Notice(ca, j.key, past, FALSE) ELSE {ca}
           leaf == Last(past)
           again == is = "ok" /\ j.req.try /\ j.held = <<>> /\ leaf[2] # None /\ IsLink(leaf[2])
           fallback == is = "ok" /\ j.held # <<>> /\ leaf[2] = None
<1>1. /\ cache' \in keep
      /\ \/ again /\ job' = [is |-> "again", req |-> j.req, parent |-> j.parent, held |-> past] /\ answer' = NoAnswer
         \/ ~again /\ job' = NoJob
            /\ answer' = [is |-> is, req |-> j.req, parent |-> j.parent, past |-> IF fallback THEN j.held ELSE past]
  BY DEF Answer
<1>2. j.req \in Requests /\ j.parent \in Pasts \cup {<<>>} /\ j.held \in Pasts \cup {<<>>} /\ j.key[1] = "res"
  BY KeyIs DEF Jobs
<1>3. CacheOK(cache')
  <2>1. Fits(j.key, past)
    BY <1>2, KeysDiffer DEF Fits
  <2>2. cache' = ca \/ cache' \in Notice(ca, j.key, past, FALSE)
    BY <1>1
  <2>3. QED
    BY <2>1, <2>2, NoticeOK
<1>4. CASE again
  <2>1. IsAgain(job')
    BY <1>1, <1>2, <1>4 DEF IsAgain
  <2>2. QED
    BY <1>1, <1>3, <1>4, <2>1 DEF Shaped
<1>5. CASE ~again
  <2> DEFINE kept == IF fallback THEN j.held ELSE past
  <2>1. kept \in Pasts
    BY <1>2
  <2> HIDE DEF kept, fallback, again
  <2>2. IsAnswer([is |-> is, req |-> j.req, parent |-> j.parent, past |-> kept])
    BY <1>2, <2>1 DEF IsAnswer
  <2>3. QED
    BY <1>1, <1>3, <1>5, <2>2 DEF Shaped, kept
<1>6. QED
  BY <1>4, <1>5

LEMMA DecomposeIs ==
    ASSUME NEW path \in Seq(Names) \ {<<>>}
    PROVE  LET d == Decompose(path)
           IN d.absolute \in BOOLEAN /\ d.mustBeDir \in BOOLEAN /\ d.future \in Seq(Names)
<1>1. Decompose(path) \in [absolute : BOOLEAN, mustBeDir : BOOLEAN, future : Seq(Names)]
  BY PartsOf
<1> DEFINE d == Decompose(path)
<1> HIDE DEF d
<1>2. d \in [absolute : BOOLEAN, mustBeDir : BOOLEAN, future : Seq(Names)]
  BY <1>1 DEF d
<1>3. d.absolute \in BOOLEAN /\ d.mustBeDir \in BOOLEAN /\ d.future \in Seq(Names)
  BY <1>2
<1>4. QED
  BY <1>3 DEF d

\* What one resolution is asked for.
Asked(req, path, parent, follow, held, origin) ==
    /\ req \in Requests /\ path \in Seq(Names) \ {<<>>} /\ follow \in BOOLEAN
    /\ parent \in Pasts \cup {<<>>} /\ (parent # <<>> => IsThere(parent))
    /\ held \in Pasts \cup {<<>>} /\ origin \in Pasts \cup {<<>>}

\* What its job is.
IsNewJob(j, req, path, parent, follow, held, origin) ==
    LET d == Decompose(path)
    IN /\ j \in Jobs
       /\ j.req = req /\ j.parent = origin /\ j.held = held /\ j.is = "busy"
       /\ j.key = Res([req EXCEPT !.follow = follow, !.path = path], parent)
       /\ j.key[3] = follow /\ j.key[4] = NamesOf(parent) /\ j.key[5] = path
       /\ j.past = (IF d.absolute \/ parent = <<>> THEN <<Root>> ELSE parent)
       /\ j.future = d.future /\ j.hops = 0 /\ j.follow = (follow \/ d.mustBeDir)
       /\ j.mustBeDir = d.mustBeDir /\ j.hit = Cached(cache, j.key)

LEMMA NewJobIs ==
    ASSUME NEW req, NEW path, NEW parent, NEW follow, NEW held, NEW origin,
           Asked(req, path, parent, follow, held, origin)
    PROVE  IsNewJob(NewJob(req, path, parent, follow, held, origin), req, path, parent, follow, held, origin)
<1> DEFINE d == Decompose(path)
           asked == [req EXCEPT !.follow = follow, !.path = path]
           key == Res(asked, parent)
           start == IF d.absolute \/ parent = <<>> THEN <<Root>> ELSE parent
           follows == follow \/ d.mustBeDir
           hit == Cached(cache, key)
           dir == d.mustBeDir
           names == d.future
<1>1. d.absolute \in BOOLEAN /\ dir \in BOOLEAN /\ names \in Seq(Names)
  BY DecomposeIs DEF Asked
<1>2. asked.meta \in BOOLEAN /\ asked.follow = follow /\ asked.path = path
  <2>1. req \in [path : {req.path}, meta : BOOLEAN, follow : BOOLEAN, try : BOOLEAN, relative : BOOLEAN]
    BY RequestPath DEF Asked
  <2> DEFINE rp == req.path
  <2> HIDE DEF rp
  <2>2. req \in [path : {rp}, meta : BOOLEAN, follow : BOOLEAN, try : BOOLEAN, relative : BOOLEAN]
    BY <2>1 DEF rp
  <2>3. QED
    BY <2>2
<1> HIDE DEF d, asked
<1>3. key \in Keys /\ key[3] = follow /\ key[4] = NamesOf(parent) /\ key[5] = path
  BY <1>2, ResIs DEF Asked, Paths
<1>4. start \in Pasts
  BY RootPast DEF Asked
<1>5. follows \in BOOLEAN /\ hit \in BOOLEAN /\ 0 \in 0..(MaxHops + 1)
  BY <1>1, VfsParameters DEF Asked, Cached
<1> DEFINE j == [is |-> "busy", req |-> req, parent |-> origin, key |-> key, past |-> start, future |-> names,
                 hops |-> 0, follow |-> follows, mustBeDir |-> dir, held |-> held, hit |-> hit]
<1>6. NewJob(req, path, parent, follow, held, origin) = j
  BY DEF NewJob, d, asked
<1> HIDE DEF key, start, follows, hit, dir, names
<1>7. j \in Jobs
  BY <1>1, <1>3, <1>4, <1>5 DEF Jobs, Asked
<1>8. /\ j.req = req /\ j.parent = origin /\ j.held = held /\ j.is = "busy" /\ j.key = key /\ j.past = start
      /\ j.future = names /\ j.hops = 0
  OBVIOUS
<1>9. j.follow = follows /\ j.mustBeDir = dir /\ j.hit = hit
  OBVIOUS
<1> HIDE DEF j
<1>10. QED
  BY <1>3, <1>6, <1>7, <1>8, <1>9 DEF IsNewJob, key, start, follows, hit, dir, names, d, asked

\* The three ways a resolution begins.
LEMMA BeginIs ==
    ASSUME NEW req, NEW path, NEW parent, NEW follow, NEW held, NEW origin,
           Begin(req, path, parent, follow, held, origin)
    PROVE  LET j == NewJob(req, path, parent, follow, held, origin)
           IN \/ j.hit /\ Answer("ok", cache[j.key], cache, j)
              \/ ~j.hit /\ parent # <<>> /\ ~IsDir(Last(parent)[2]) /\ Answer("enotdir", parent, cache, j)
              \/ ~j.hit /\ (parent = <<>> \/ IsDir(Last(parent)[2]))
                 /\ job' = j /\ answer' = NoAnswer /\ cache' = cache
  BY DEF Begin

LEMMA BeginShape ==
    ASSUME CacheOK(cache), NEW req, NEW path, NEW parent, NEW follow, NEW held, NEW origin,
           Asked(req, path, parent, follow, held, origin),
           Begin(req, path, parent, follow, held, origin)
    PROVE  Shaped(cache', job', answer')
<1> DEFINE j == NewJob(req, path, parent, follow, held, origin)
           d == Decompose(path)
<1>1. /\ j \in Jobs /\ j.past = (IF d.absolute \/ parent = <<>> THEN <<Root>> ELSE parent)
      /\ j.hit = Cached(cache, j.key)
  <2>1. IsNewJob(j, req, path, parent, follow, held, origin)
    BY NewJobIs
  <2> HIDE DEF j
  <2>2. QED
    BY <2>1 DEF IsNewJob
<1>2. \/ j.hit /\ Answer("ok", cache[j.key], cache, j)
      \/ ~j.hit /\ parent # <<>> /\ ~IsDir(Last(parent)[2]) /\ Answer("enotdir", parent, cache, j)
      \/ ~j.hit /\ (parent = <<>> \/ IsDir(Last(parent)[2])) /\ job' = j /\ answer' = NoAnswer /\ cache' = cache
  BY BeginIs
<1> HIDE DEF j
<1>3. j.key \in Keys /\ j.key[1] = "res"
  BY <1>1, KeyIs DEF Jobs
<1>4. CASE j.hit /\ Answer("ok", cache[j.key], cache, j)
  <2>1. cache[j.key] \in Pasts
    BY <1>1, <1>3, <1>4 DEF CacheOK, PlacesKept, Cached
  <2>2. QED
    BY <1>1, <1>4, <2>1, AnswerShape
<1>5. CASE parent # <<>> /\ Answer("enotdir", parent, cache, j)
  BY <1>1, <1>5, AnswerShape DEF Asked
<1>6. CASE (parent = <<>> \/ IsDir(Last(parent)[2])) /\ job' = j /\ answer' = NoAnswer /\ cache' = cache
  <2>1. Last(j.past)[2] \in Dirs /\ Last(j.past)[2] # None
    <3>1. CASE j.past = <<Root>>
      BY <3>1, RootPast, NoneIsNone DEF Dirs
    <3>2. CASE j.past # <<Root>>
      <4>1. j.past = parent /\ parent \in Pasts /\ parent # <<>> /\ Last(parent)[2] # None /\ IsDir(Last(parent)[2])
        BY <1>1, <1>6, <3>2 DEF Asked, IsThere
      <4>2. Last(parent)[2] \in Items
        BY <4>1, PastIs
      <4>3. QED
        BY <4>1, <4>2 DEF Dirs
    <3>3. QED
      BY <3>1, <3>2
  <2>2. IsBusy(j)
    BY <1>1, <2>1 DEF IsBusy
  <2>3. QED
    BY <1>6, <2>2 DEF Shaped
<1>7. QED
  BY <1>2, <1>4, <1>5, <1>6

\* A job that moves on is a job.
LEMMA MovedIs ==
    ASSUME NEW j \in Jobs, NEW past \in Pasts, NEW future \in Seq(Names), NEW hops \in 0..(MaxHops + 1)
    PROVE  LET k == Moved(j, past, future, hops)
           IN /\ k \in Jobs /\ k.past = past /\ k.future = future /\ k.hops = hops
              /\ k.is = "busy" /\ k.req = j.req /\ k.parent = j.parent /\ k.key = j.key
              /\ k.follow = j.follow /\ k.mustBeDir = j.mustBeDir /\ k.held = j.held /\ k.hit = j.hit
  BY DEF Moved, Jobs

\* A job that moves on keeps the shape of a busy one.
LEMMA MovedShape ==
    ASSUME IsBusy(job), NEW past \in Pasts, IsThere(past), NEW future \in Seq(Names), NEW hops \in 0..(MaxHops + 1),
           future # <<>> => Last(past)[2] \in Dirs, NEW ca, CacheOK(ca), NEW a, a = NoAnswer \/ IsAnswer(a)
    PROVE  Shaped(ca, Moved(job, past, future, hops), a)
<1> DEFINE k == Moved(job, past, future, hops)
<1>1. k \in Jobs /\ k.past = past /\ k.future = future
  BY MovedIs DEF IsBusy
<1> HIDE DEF k
<1>2. IsBusy(k)
  BY <1>1 DEF IsBusy, IsThere
<1>3. QED
  BY <1>2 DEF Shaped, k

\* A busy job's fields.
LEMMA BusyIs ==
    ASSUME IsBusy(job)
    PROVE  /\ job \in Jobs /\ job.past \in Pasts /\ IsThere(job.past) /\ job.future \in Seq(Names)
           /\ job.is = "busy" /\ job.hops \in 0..(MaxHops + 1) /\ job.req \in Requests /\ job.key \in Keys
           /\ job.parent \in Pasts \cup {<<>>} /\ job.held \in Pasts \cup {<<>>}
           /\ job.follow \in BOOLEAN /\ job.mustBeDir \in BOOLEAN
           /\ job.future # <<>> => Last(job.past)[2] \in Dirs
           /\ job.future # <<>> => Head(job.future) \in Names /\ Tail(job.future) \in Seq(Names)
  BY DEF IsBusy, Jobs, IsThere

LEMMA FollowLinkIs ==
    ASSUME NEW seg, NEW item, NEW ca, FollowLink(seg, item, ca)
    PROVE  LET d == Decompose(ReadLink(item))
               rest == Tail(job.future)
           IN \/ job.hops > MaxHops /\ Answer("eloop", Append(job.past, <<seg, item>>), ca, job) /\ met' = met
              \/ /\ ~(job.hops > MaxHops) /\ d.absolute /\ met' = met \cup (IF rest = <<>> THEN {} ELSE {"dropped"})
                 /\ \/ d.future = <<>> /\ Answer("ok", <<Root>>, ca, job)
                    \/ /\ d.future # <<>> /\ job' = Moved(job, <<Root>>, d.future, job.hops + 1)
                       /\ cache' = ca /\ answer' = answer
              \/ /\ ~(job.hops > MaxHops) /\ ~d.absolute
                 /\ job' = Moved(job, job.past, Splice(d.future, rest), job.hops + 1)
                 /\ cache' = ca /\ answer' = answer /\ met' = met
  BY DEF FollowLink

LEMMA FollowLinkShape ==
    ASSUME IsBusy(job), answer = NoAnswer \/ IsAnswer(answer), job.future # <<>>,
           NEW item \in Items, IsLink(item), NEW ca, CacheOK(ca),
           FollowLink(Head(job.future), item, ca)
    PROVE  Shaped(cache', job', answer')
<1> DEFINE seg == Head(job.future)
           d == Decompose(ReadLink(item))
           rest == Tail(job.future)
<1>1. /\ job \in Jobs /\ job.past \in Pasts /\ IsThere(job.past) /\ Last(job.past)[2] \in Dirs
      /\ seg \in Names /\ rest \in Seq(Names) /\ job.hops \in 0..(MaxHops + 1)
  BY BusyIs
<1>2. d.future \in Seq(Names) /\ d.future \o rest \in Seq(Names)
  <2>1. d.future \in Seq(Names)
    BY LinkTarget, DecomposeIs
  <2> HIDE DEF d, rest
  <2>2. QED
    BY <1>1, <2>1
<1>3. ~(job.hops > MaxHops) => job.hops + 1 \in 0..(MaxHops + 1)
  BY <1>1, VfsParameters
<1>4. CASE job.hops > MaxHops /\ Answer("eloop", Append(job.past, <<seg, item>>), ca, job)
  <2>1. Append(job.past, <<seg, item>>) \in Pasts
    BY <1>1, ExtendPast
  <2>2. QED
    BY <1>1, <1>4, <2>1, AnswerShape
<1>5. CASE Answer("ok", <<Root>>, ca, job)
  BY <1>1, <1>5, RootPast, AnswerShape
<1>6. CASE /\ ~(job.hops > MaxHops) /\ job' = Moved(job, <<Root>>, d.future, job.hops + 1)
           /\ cache' = ca /\ answer' = answer
  <2>1. <<Root>> \in Pasts /\ IsThere(<<Root>>) /\ Last(<<Root>>)[2] \in Dirs
    BY RootPast, NoneIsNone DEF IsThere, Dirs
  <2> HIDE DEF d
  <2>2. Shaped(ca, Moved(job, <<Root>>, d.future, job.hops + 1), answer)
    BY <1>2, <1>3, <1>6, <2>1, MovedShape
  <2>3. QED
    BY <1>6, <2>2
<1>7. CASE /\ ~(job.hops > MaxHops) /\ job' = Moved(job, job.past, Splice(d.future, rest), job.hops + 1)
           /\ cache' = ca /\ answer' = answer
  <2> HIDE DEF d, rest
  <2>1. Splice(d.future, rest) \in Seq(Names)
    BY <1>2 DEF Splice
  <2>2. Shaped(ca, Moved(job, job.past, Splice(d.future, rest), job.hops + 1), answer)
    BY <1>1, <1>3, <1>7, <2>1, MovedShape
  <2>3. QED
    BY <1>7, <2>2
<1>8. QED
  BY <1>4, <1>5, <1>6, <1>7, FollowLinkIs

\* What becomes of a name that is looked up, one way for each thing it may be.
Named(o) ==
    LET seg == Head(job.future)
        rest == Tail(job.future)
        item == o.item
        there(i) == Append(job.past, <<seg, i>>)
        confused == item.is = "revlist" /\ Here[2].is \in {"revlist", "tags"}
    IN \/ item = None /\ Answer("ok", there(None), o.cache, job) /\ met' = met
       \/ item = Crash /\ Answer("crash", job.past, o.cache, job) /\ met' = met \cup {"confused"}
       \/ /\ item \notin {None, Crash} /\ IsLink(item) /\ (rest # <<>> \/ job.follow)
          /\ FollowLink(seg, item, o.cache)
       \/ /\ item \notin {None, Crash} /\ IsLink(item) /\ rest = <<>> /\ ~job.follow
          /\ job' = Moved(job, there(item), <<>>, job.hops)
          /\ cache' = o.cache /\ answer' = answer /\ met' = met
       \/ /\ item \notin {None, Crash} /\ IsDir(item)
          /\ job' = Moved(job, there(WithMeta(item, job.req.meta)), rest, job.hops)
          /\ cache' = o.cache /\ met' = met \cup (IF confused THEN {"confused"} ELSE {}) /\ answer' = answer
       \/ /\ item \notin {None, Crash} /\ ~IsLink(item) /\ ~IsDir(item)
          /\ Answer(IF rest # <<>> \/ job.mustBeDir THEN "enotdir" ELSE "ok", there(item), o.cache, job)
          /\ met' = met

LEMMA ResolveNameIs ==
    ASSUME ResolveName
    PROVE  /\ job.is = "busy" /\ job.future # <<>> /\ Head(job.future) # Name("..")
           /\ refs' = refs /\ were' = were /\ asks' = asks
           /\ \E o \in Contents(cache, Here[2], Head(job.future), job.req.meta) : Named(o)
<1> DEFINE seg == Head(job.future)
           rest == Tail(job.future)
           there(item) == Append(job.past, <<seg, item>>)
           confused(item) == item # None /\ item.is = "revlist" /\ Here[2].is \in {"revlist", "tags"}
           note(item) == met \cup (IF confused(item) THEN {"confused"} ELSE {})
           Way(o) ==
             LET item == o.item
             IN CASE item = None -> Answer("ok", there(None), o.cache, job) /\ UNCHANGED met
                  [] item = Crash -> Answer("crash", job.past, o.cache, job) /\ met' = met \cup {"confused"}
                  [] item \notin {None, Crash} /\ IsLink(item) /\ (rest # <<>> \/ job.follow) ->
                       FollowLink(seg, item, o.cache)
                  [] item \notin {None, Crash} /\ IsLink(item) /\ rest = <<>> /\ ~job.follow ->
                       /\ job' = Moved(job, there(item), <<>>, job.hops)
                       /\ cache' = o.cache /\ UNCHANGED <<answer, met>>
                  [] item \notin {None, Crash} /\ IsDir(item) ->
                       /\ job' = Moved(job, there(WithMeta(item, job.req.meta)), rest, job.hops)
                       /\ cache' = o.cache /\ met' = note(item) /\ UNCHANGED answer
                  [] OTHER ->
                       /\ Answer(IF rest # <<>> \/ job.mustBeDir THEN "enotdir" ELSE "ok",
                                 there(item), o.cache, job)
                       /\ UNCHANGED met
<1>1. PICK o \in Contents(cache, Here[2], seg, job.req.meta) : Way(o)
  BY DEF ResolveName
<1>2. Named(o)
  <2> DEFINE item == o.item
  <2>1. CASE item = None
    <3>1. Answer("ok", there(None), o.cache, job) /\ met' = met
      BY <1>1, <2>1, NoneIsNone
    <3>2. QED
      BY <2>1, <3>1 DEF Named
  <2>2. CASE item = Crash
    <3>1. Answer("crash", job.past, o.cache, job) /\ met' = met \cup {"confused"}
      BY <1>1, <2>2, NoneIsNone
    <3>2. QED
      BY <2>2, <3>1 DEF Named
  <2>3. CASE item \notin {None, Crash} /\ IsLink(item) /\ (rest # <<>> \/ job.follow)
    <3>1. FollowLink(seg, item, o.cache)
      BY <1>1, <2>3 DEF IsDir
    <3>2. QED
      BY <2>3, <3>1 DEF Named
  <2>4. CASE item \notin {None, Crash} /\ IsLink(item) /\ rest = <<>> /\ ~job.follow
    <3>1. job' = Moved(job, there(item), <<>>, job.hops) /\ cache' = o.cache /\ answer' = answer /\ met' = met
      BY <1>1, <2>4 DEF IsDir
    <3>2. QED
      BY <2>4, <3>1 DEF Named
  <2>5. CASE item \notin {None, Crash} /\ IsDir(item)
    <3>1. ~IsLink(item)
      BY <2>5 DEF IsDir
    <3>2. /\ job' = Moved(job, there(WithMeta(item, job.req.meta)), rest, job.hops)
          /\ cache' = o.cache /\ met' = note(item) /\ answer' = answer
      BY <1>1, <2>5, <3>1
    <3>3. QED
      BY <2>5, <3>2 DEF Named
  <2>6. CASE item \notin {None, Crash} /\ ~IsLink(item) /\ ~IsDir(item)
    <3>1. /\ Answer(IF rest # <<>> \/ job.mustBeDir THEN "enotdir" ELSE "ok", there(item), o.cache, job)
          /\ met' = met
      BY <1>1, <2>6
    <3>2. QED
      BY <2>6, <3>1 DEF Named
  <2> HIDE DEF Way
  <2>7. (rest # <<>> \/ job.follow) \/ (rest = <<>> /\ ~job.follow)
    OBVIOUS
  <2> HIDE DEF item
  <2>8. QED
    BY <2>1, <2>2, <2>3, <2>4, <2>5, <2>6, <2>7
<1>3. QED
  BY <1>1, <1>2 DEF ResolveName, Busy

\* Metadata leaves an item what it is.
LEMMA WithMetaIs ==
    ASSUME NEW item \in Dirs, NEW meta \in BOOLEAN
    PROVE  WithMeta(item, meta) \in Dirs /\ WithMeta(item, meta) \in Items
           /\ BareItem(WithMeta(item, meta)) = BareItem(item)
<1>1. CASE item.is # "commit"
  BY <1>1 DEF WithMeta, Dirs
<1>2. CASE item.is = "commit"
  <2> DEFINE c == item.commit
             m == item.meta \/ (meta /\ c \in HasMeta)
  <2>1. c \in Commit /\ m \in BOOLEAN /\ BareItem(item) = CommitItem(c, FALSE)
    BY <1>2, DirIs, ItemIs, BareItemIs
  <2>2. WithMeta(item, meta) = CommitItem(c, m)
    BY <1>2 DEF WithMeta
  <2> HIDE DEF c, m
  <2>3. QED
    BY <2>1, <2>2, CommitIsDir, ItemsHave, BareCommit
<1>3. QED
  BY <1>1, <1>2

LEMMA ResolveNameShape == ASSUME Shape, ResolveName PROVE Shaped(cache', job', answer')
<1>1. /\ job.is = "busy" /\ job.future # <<>> /\ refs \in were /\ IsRefs(refs) /\ CacheOK(cache)
      /\ answer = NoAnswer \/ IsAnswer(answer)
  BY ResolveNameIs DEF Shape, Shaped
<1>2. IsBusy(job)
  BY <1>1 DEF Shape, Shaped, NoJob, IsAgain
<1>3. PICK o \in Contents(cache, Here[2], Head(job.future), job.req.meta) : Named(o)
  BY ResolveNameIs
<1> DEFINE seg == Head(job.future)
           rest == Tail(job.future)
           item == o.item
           there(i) == Append(job.past, <<seg, i>>)
<1>4. /\ job \in Jobs /\ job.past \in Pasts /\ IsThere(job.past) /\ Last(job.past)[2] \in Dirs
      /\ seg \in Names /\ rest \in Seq(Names) /\ job.hops \in 0..(MaxHops + 1) /\ job.req \in Requests
  BY <1>1, <1>2, BusyIs
<1>5. job.req.meta \in BOOLEAN
  <2> DEFINE req == job.req
             path == req.path
  <2>1. req \in [path : {path}, meta : BOOLEAN, follow : BOOLEAN, try : BOOLEAN, relative : BOOLEAN]
    BY <1>4, RequestPath
  <2> HIDE DEF req, path
  <2>2. req.meta \in BOOLEAN
    BY <2>1
  <2>3. QED
    BY <2>2 DEF req
<1>6. Here[2] \in Dirs
  BY <1>4 DEF Here
<1>7. Looked(cache, o) /\ Found({refs}, Here[2], seg, item)
  <2>1. refs \in {refs}
    OBVIOUS
  <2>2. QED
    BY <1>1, <1>3, <1>5, <1>6, <2>1, ContentsOK
<1>8. CacheOK(o.cache) /\ item \in Items \cup {None, Crash}
  BY <1>7 DEF Looked, Found
<1>9. \A i \in Items \cup {None} : there(i) \in Pasts /\ Last(there(i))[2] = i
  BY <1>4, ExtendPast
<1> HIDE DEF item, there
<1>10. CASE item = None /\ Answer("ok", there(None), o.cache, job)
  BY <1>4, <1>8, <1>9, <1>10, AnswerShape
<1>11. CASE item = Crash /\ Answer("crash", job.past, o.cache, job)
  BY <1>4, <1>8, <1>11, AnswerShape
<1>12. CASE item \notin {None, Crash} /\ IsLink(item) /\ FollowLink(seg, item, o.cache)
  BY <1>1, <1>2, <1>8, <1>12, FollowLinkShape
<1>13. CASE /\ item \notin {None, Crash} /\ job' = Moved(job, there(item), <<>>, job.hops)
            /\ cache' = o.cache /\ answer' = answer
  <2>1. there(item) \in Pasts /\ IsThere(there(item)) /\ <<>> \in Seq(Names)
    BY <1>8, <1>9, <1>13 DEF IsThere
  <2>2. Shaped(o.cache, Moved(job, there(item), <<>>, job.hops), answer)
    BY <1>1, <1>2, <1>4, <1>8, <2>1, MovedShape
  <2>3. QED
    BY <1>13, <2>2
<1>14. CASE /\ item \notin {None, Crash} /\ IsDir(item)
            /\ job' = Moved(job, there(WithMeta(item, job.req.meta)), rest, job.hops)
            /\ cache' = o.cache /\ answer' = answer
  <2> DEFINE x == WithMeta(item, job.req.meta)
  <2>1. x \in Dirs /\ x \in Items
    BY <1>5, <1>8, <1>14, WithMetaIs DEF Dirs
  <2> HIDE DEF x
  <2>2. there(x) \in Pasts /\ IsThere(there(x)) /\ Last(there(x))[2] \in Dirs
    BY <1>9, <2>1, NoneIsNone DEF IsThere
  <2>3. Shaped(o.cache, Moved(job, there(x), rest, job.hops), answer)
    BY <1>1, <1>2, <1>4, <1>8, <2>2, MovedShape
  <2>4. QED
    BY <1>14, <2>3 DEF x
<1>15. CASE /\ item \notin {None, Crash}
            /\ Answer(IF rest # <<>> \/ job.mustBeDir THEN "enotdir" ELSE "ok", there(item), o.cache, job)
  <2> DEFINE is == IF rest # <<>> \/ job.mustBeDir THEN "enotdir" ELSE "ok"
  <2>1. is \in {"ok", "enotdir", "eloop", "crash"}
    OBVIOUS
  <2> HIDE DEF is
  <2>2. Answer(is, there(item), o.cache, job)
    BY <1>15 DEF is
  <2>3. QED
    BY <1>4, <1>8, <1>9, <1>15, <2>1, <2>2, AnswerShape
<1>16. QED
  BY <1>3, <1>10, <1>11, <1>12, <1>13, <1>14, <1>15 DEF Named, item, there

LEMMA InitShape == Init => Shape
<1> SUFFICES ASSUME Init
             PROVE  Shape
  OBVIOUS
<1>1. refs \in InitRefs /\ were = {refs} /\ cache = <<>> /\ job = NoJob /\ answer = NoAnswer
  BY DEF Init
<1>2. IsRefs(refs)
  BY <1>1, VfsParameters DEF IsRefs
<1>3. DOMAIN cache = {}
  BY <1>1
<1>4. CacheOK(cache)
  BY <1>3 DEF CacheOK, ItemsKept, ListingsKept, PlacesKept, Cached
<1>5. QED
  BY <1>1, <1>2, <1>4 DEF Shape, Shaped

\* What is asked may be asked.
LEMMA AskIs ==
    ASSUME Shape, NEW req \in Requests, Ask(req)
    PROVE  LET parent == IF req.relative THEN answer.past ELSE <<>>
           IN /\ Asked(req, req.path, parent, req.follow /\ ~req.try, <<>>, parent)
              /\ Begin(req, req.path, parent, req.follow /\ ~req.try, <<>>, parent)
              /\ req.relative => IsAnswer(answer) /\ answer.is = "ok"
              /\ job = NoJob /\ refs' = refs /\ were' = were /\ met' = met
<1> DEFINE parent == IF req.relative THEN answer.past ELSE <<>>
           f == req.follow /\ ~req.try
<1>1. /\ req.relative => answer.is = "ok" /\ Last(answer.past)[2] # None
      /\ Begin(req, req.path, parent, f, <<>>, parent)
      /\ job = NoJob /\ refs' = refs /\ were' = were /\ met' = met
  BY DEF Ask, Idle
<1>2. req.relative => IsAnswer(answer)
  BY <1>1 DEF Shape, Shaped, NoAnswer
<1>3. parent \in Pasts \cup {<<>>} /\ (parent # <<>> => IsThere(parent))
  BY <1>1, <1>2 DEF IsAnswer, IsThere
<1>4. f \in BOOLEAN /\ req.path \in Seq(Names) \ {<<>>}
  BY RequestPath
<1> HIDE DEF parent, f
<1>5. Asked(req, req.path, parent, f, <<>>, parent)
  BY <1>3, <1>4 DEF Asked
<1>6. QED
  BY <1>1, <1>2, <1>5 DEF parent, f

LEMMA TryAgainIs ==
    ASSUME Shape, TryAgain
    PROVE  /\ IsAgain(job) /\ refs' = refs /\ were' = were /\ met' = met
           /\ Asked(job.req, <<Last(job.held)[1]>>, Front(job.held), TRUE, job.held, job.parent)
           /\ Begin(job.req, <<Last(job.held)[1]>>, Front(job.held), TRUE, job.held, job.parent)
<1>1. /\ job.is = "again" /\ refs' = refs /\ were' = were /\ met' = met
      /\ Begin(job.req, <<Last(job.held)[1]>>, Front(job.held), TRUE, job.held, job.parent)
  BY DEF TryAgain
<1>2. IsAgain(job)
  <2>1. ~IsBusy(job) /\ job # NoJob
    BY <1>1 DEF IsBusy, Jobs, NoJob
  <2>2. QED
    BY <2>1 DEF Shape, Shaped
<1>3. job.req \in Requests /\ job.held \in Pasts /\ job.parent \in Pasts \cup {<<>>}
  BY <1>2 DEF IsAgain
<1>4. <<Last(job.held)[1]>> \in Seq(Names) \ {<<>>}
  BY <1>3, PastIs
<1>5. Front(job.held) \in Pasts \cup {<<>>} /\ (Front(job.held) # <<>> => IsThere(Front(job.held)))
  <2>1. CASE Len(job.held) > 1
    BY <1>3, <2>1, FrontPast, NoneIsNone DEF IsThere, Dirs
  <2>2. CASE Len(job.held) = 1
    BY <1>3, <2>2, FrontOfOne
  <2>3. Len(job.held) \in Nat /\ Len(job.held) > 0
    BY <1>3, PastIs
  <2>4. Len(job.held) > 1 \/ Len(job.held) = 1
    <3> DEFINE n == Len(job.held)
    <3> HIDE DEF n
    <3>1. n \in Nat /\ n > 0
      BY <2>3 DEF n
    <3>2. n > 1 \/ n = 1
      BY <3>1
    <3>3. QED
      BY <3>2 DEF n
  <2>5. QED
    BY <2>1, <2>2, <2>4
<1>6. QED
  BY <1>1, <1>2, <1>3, <1>4, <1>5 DEF Asked

LEMMA BusyShape == ASSUME Shape, Busy PROVE IsBusy(job) /\ CacheOK(cache) /\ (answer = NoAnswer \/ IsAnswer(answer))
  BY DEF Shape, Shaped, Busy, NoJob, IsAgain

LEMMA ResolveDoneShape == ASSUME Shape, ResolveDone PROVE Shaped(cache', job', answer')
<1> DEFINE is == IF job.mustBeDir /\ ~IsDir(Here[2]) THEN "enotdir" ELSE "ok"
<1>1. Busy /\ Answer(is, job.past, cache, job)
  BY DEF ResolveDone
<1>2. is \in {"ok", "enotdir", "eloop", "crash"}
  OBVIOUS
<1> HIDE DEF is
<1>3. QED
  BY <1>1, <1>2, BusyShape, BusyIs, AnswerShape

LEMMA ResolveUpIs ==
    ASSUME Shape, ResolveUp
    PROVE  LET past == IF Len(job.past) > 1 THEN Front(job.past) ELSE job.past
           IN /\ Busy /\ job.future # <<>> /\ Head(job.future) = Name("..")
              /\ past \in Pasts /\ IsThere(past) /\ Last(past)[2] \in Dirs
              /\ job' = Moved(job, past, Tail(job.future), job.hops)
              /\ refs' = refs /\ were' = were /\ met' = met /\ cache' = cache /\ answer' = answer
<1> DEFINE past == IF Len(job.past) > 1 THEN Front(job.past) ELSE job.past
<1>1. /\ Busy /\ job.future # <<>> /\ Head(job.future) = Name("..")
      /\ job' = Moved(job, past, Tail(job.future), job.hops)
      /\ refs' = refs /\ were' = were /\ met' = met /\ cache' = cache /\ answer' = answer
  BY DEF ResolveUp
<1>2. job.past \in Pasts /\ IsThere(job.past) /\ Last(job.past)[2] \in Dirs
  BY <1>1, BusyShape, BusyIs
<1>3. past \in Pasts /\ Last(past)[2] \in Dirs
  BY <1>2, FrontPast
<1>4. IsThere(past)
  BY <1>3, NoneIsNone DEF IsThere, Dirs
<1>5. QED
  BY <1>1, <1>3, <1>4

LEMMA ResolveUpShape == ASSUME Shape, ResolveUp PROVE Shaped(cache', job', answer')
<1> DEFINE past == IF Len(job.past) > 1 THEN Front(job.past) ELSE job.past
<1>1. /\ Busy /\ job.future # <<>> /\ past \in Pasts /\ IsThere(past) /\ Last(past)[2] \in Dirs
      /\ job' = Moved(job, past, Tail(job.future), job.hops) /\ cache' = cache /\ answer' = answer
  BY ResolveUpIs
<1>2. /\ IsBusy(job) /\ CacheOK(cache) /\ (answer = NoAnswer \/ IsAnswer(answer))
      /\ Tail(job.future) \in Seq(Names) /\ job.hops \in 0..(MaxHops + 1)
  BY <1>1, BusyShape, BusyIs
<1> HIDE DEF past
<1>3. Shaped(cache, Moved(job, past, Tail(job.future), job.hops), answer)
  BY <1>1, <1>2, MovedShape
<1>4. QED
  BY <1>1, <1>3

LEMMA RefMovesIs ==
    ASSUME Shape, RefMoves
    PROVE  /\ IsRefs(refs') /\ were' = were \cup {refs'} /\ were \subseteq were'
           /\ cache' = cache /\ job' = job /\ answer' = answer /\ met' = met
<1>1. PICK mv \in Moves : refs' = [refs EXCEPT ![mv[1]] = mv[2]]
  BY DEF RefMoves
<1>2. IsRefs(refs) /\ mv[2] \in Pointees(mv[1])
  BY VfsParameters DEF Shape
<1>3. DOMAIN refs' = DOMAIN refs /\ \A b \in DOMAIN refs : refs'[b] = IF b = mv[1] THEN mv[2] ELSE refs[b]
  BY <1>1
<1>4. IsRefs(refs')
  BY <1>2, <1>3 DEF IsRefs
<1>5. QED
  BY <1>4 DEF RefMoves

\* Every step keeps the shape.
LEMMA NextShape == Shape /\ [Next]_vars => Shape'
<1> SUFFICES ASSUME Shape, [Next]_vars
             PROVE  Shape'
  OBVIOUS
<1>1. refs \in were /\ (\A w \in were : IsRefs(w)) /\ Shaped(cache, job, answer) /\ CacheOK(cache)
  BY DEF Shape, Shaped
<1>2. ASSUME NEW req \in Requests, Ask(req)
      PROVE  Shape'
  <2> DEFINE parent == IF req.relative THEN answer.past ELSE <<>>
  <2>1. /\ Asked(req, req.path, parent, req.follow /\ ~req.try, <<>>, parent)
        /\ Begin(req, req.path, parent, req.follow /\ ~req.try, <<>>, parent)
        /\ refs' = refs /\ were' = were
    BY <1>2, AskIs
  <2>2. Shaped(cache', job', answer')
    BY <1>1, <2>1, BeginShape
  <2>3. QED
    BY <1>1, <2>1, <2>2 DEF Shape
<1>3. CASE TryAgain
  <2>1. Shaped(cache', job', answer') /\ refs' = refs /\ were' = were
    BY <1>1, <1>3, TryAgainIs, BeginShape
  <2>2. QED
    BY <1>1, <2>1 DEF Shape
<1>4. CASE ResolveDone
  <2>1. Shaped(cache', job', answer') /\ refs' = refs /\ were' = were
    BY <1>4, ResolveDoneShape DEF ResolveDone
  <2>2. QED
    BY <1>1, <2>1 DEF Shape
<1>5. CASE ResolveUp
  <2>1. Shaped(cache', job', answer') /\ refs' = refs /\ were' = were
    BY <1>5, ResolveUpShape DEF ResolveUp
  <2>2. QED
    BY <1>1, <2>1 DEF Shape
<1>6. CASE ResolveName
  <2>1. Shaped(cache', job', answer') /\ refs' = refs /\ were' = were
    BY <1>6, ResolveNameShape DEF ResolveName
  <2>2. QED
    BY <1>1, <2>1 DEF Shape
<1>7. CASE RefMoves
  BY <1>1, <1>7, RefMovesIs DEF Shape
<1>8. CASE UNCHANGED vars
  BY <1>1, <1>8 DEF Shape, vars
<1>9. QED
  BY <1>2, <1>3, <1>4, <1>5, <1>6, <1>7, <1>8 DEF Next

\* What is resolved is a chain of directories up to its last name, what the
\* cache keeps under a key is of the key's kind, and the list of a branch
\* (cache_commit) names each of its saves, as a commit or as a branch.
THEOREM ShapeInvariant == Spec => []Shape
<1>1. QED
  BY InitShape, NextShape, PTL DEF Spec

\* The list of a branch (cache_commit) has every save once; sorted by name
\* they are sorted by age, whatever was evicted while the list was made.
THEOREM SavesInOrderAlways == Spec => []SavesInOrder
<1>1. Shape => SavesInOrder
  BY ListingsInOrder DEF Shape, Shaped, CacheOK
<1>2. QED
  BY <1>1, ShapeInvariant, PTL

-----------------------------------------------------------------------------
(***************************************************************************)
(* Where a path leads                                                      *)
(***************************************************************************)

\* A link's target has no more names than the longest.
LEMMA LongestIs ==
    /\ LongestTarget \in Nat /\ LongestTarget >= 1
    /\ \A n \in Links : Len(Decompose(Target[n]).future) <= LongestTarget
<1> DEFINE len(n) == Len(Decompose(Target[n]).future)
           L == {len(n) : n \in Links}
           S == {1} \cup L
           g == [n \in Links |-> len(n)]
<1>1. \A n \in Links : len(n) \in Nat
  <2>1. ASSUME NEW n \in Links
        PROVE  len(n) \in Nat
    <3> DEFINE R == Range(Target[n])
    <3>1. Target[n] \in Seq(R) /\ Target[n] # <<>>
      BY VfsParameters DEF IsPath
    <3> HIDE DEF R
    <3>2. Decompose(Target[n]) \in [absolute : BOOLEAN, mustBeDir : BOOLEAN, future : Seq(R)]
      BY <3>1, PartsOf
    <3> DEFINE d == Decompose(Target[n])
    <3> HIDE DEF d
    <3>3. d \in [absolute : BOOLEAN, mustBeDir : BOOLEAN, future : Seq(R)]
      BY <3>2 DEF d
    <3>4. Len(d.future) \in Nat
      BY <3>3
    <3>5. QED
      BY <3>4 DEF d
  <2>2. QED
    BY <2>1
<1>2. IsFiniteSet(Links)
  <2>1. IsFiniteSet(Node) /\ Links \subseteq Node
    BY VfsParameters DEF Links
  <2>2. QED
    BY <2>1, FS_Subset
<1> HIDE DEF len
<1>3. g \in Surjection(Links, L)
  BY DEF Surjection
<1>4. IsFiniteSet(L)
  <2> HIDE DEF g, L
  <2>1. QED
    BY <1>2, <1>3, FS_Surjection
<1>5. IsFiniteSet(S) /\ S \subseteq Nat /\ 1 \in S /\ L \subseteq S
  <2>1. IsFiniteSet(L \cup {1}) /\ S = L \cup {1}
    <3> HIDE DEF L
    <3>1. QED
      BY <1>4, FS_AddElement
  <2>2. S \subseteq Nat
    BY <1>1
  <2>3. QED
    BY <2>1, <2>2
<1>6. LongestTarget = Max(S)
  BY DEF LongestTarget, len
<1>7. Max(S) \in S /\ \A x \in S : x <= Max(S)
  <2> HIDE DEF S
  <2>1. S # {}
    BY <1>5
  <2>2. QED
    BY <1>5, <2>1, MaxIs
<1>8. Max(S) \in Nat /\ Max(S) >= 1
  <2> HIDE DEF S
  <2>1. QED
    BY <1>5, <1>7
<1>9. \A n \in Links : len(n) <= Max(S)
  BY <1>7
<1>10. QED
  BY <1>6, <1>8, <1>9 DEF len

\* So has that of any link.
LEMMA TargetIs ==
    ASSUME NEW item \in Items, IsLink(item)
    PROVE  LET d == Decompose(ReadLink(item))
           IN /\ d.absolute \in BOOLEAN /\ d.mustBeDir \in BOOLEAN /\ d.future \in Seq(Names)
              /\ Len(d.future) <= LongestTarget
<1> DEFINE d == Decompose(ReadLink(item))
<1>1. ReadLink(item) \in Seq(Names) \ {<<>>}
  BY LinkTarget
<1>2. d.absolute \in BOOLEAN /\ d.mustBeDir \in BOOLEAN /\ d.future \in Seq(Names)
  BY <1>1, DecomposeIs
<1>3. CASE item.is = "fakelink"
  <2>1. Len(ReadLink(item)) = 1
    <3>1. ReadLink(item) = <<item.to>>
      BY <1>3 DEF ReadLink
    <3>2. QED
      BY <3>1
  <2>2. Len(d.future) <= Len(ReadLink(item))
    BY <1>1, PartsOf
  <2>3. Len(d.future) \in Nat
    BY <1>2
  <2> HIDE DEF d
  <2>4. Len(d.future) <= LongestTarget
    BY <2>1, <2>2, <2>3, LongestIs
  <2>5. QED
    BY <1>2, <2>4 DEF d
<1>4. CASE item.is # "fakelink"
  <2>1. item.node \in Links /\ ReadLink(item) = Target[item.node]
    BY <1>4, ItemIs DEF Links, IsLink, ReadLink
  <2>2. Len(d.future) <= LongestTarget
    BY <2>1, LongestIs
  <2>3. QED
    BY <1>2, <2>2
<1>5. QED
  BY <1>3, <1>4

\* Where one may be on a way.
IsAt(p) ==
    /\ p = At(p.past, p.future, p.hops)
    /\ p.past \in Pasts /\ IsThere(p.past) /\ p.future \in Seq(Names) /\ p.hops \in 0..(MaxHops + 1)
    /\ p.future # <<>> => Last(p.past)[2] \in Dirs
IsEnd(p) == p.is \in {"ok", "enotdir", "eloop"} /\ p = End(p.is, p.past) /\ p.past \in Pasts
IsPosition(p) == IsAt(p) \/ IsEnd(p)

LEMMA AtIs ==
    ASSUME NEW past \in Pasts, IsThere(past), NEW future \in Seq(Names), NEW hops \in 0..(MaxHops + 1),
           future # <<>> => Last(past)[2] \in Dirs
    PROVE  LET p == At(past, future, hops)
           IN IsAt(p) /\ p.is = "at" /\ p.past = past /\ p.future = future /\ p.hops = hops
  BY DEF At, IsAt

LEMMA EndIs ==
    ASSUME NEW is \in {"ok", "enotdir", "eloop"}, NEW past \in Pasts
    PROVE  LET p == End(is, past) IN IsEnd(p) /\ p.is = is /\ p.past = past /\ p.is # "at"
  BY DEF End, IsEnd

LEMMA KindOfPosition == ASSUME NEW p PROVE (IsAt(p) => p.is = "at") /\ (IsEnd(p) => p.is # "at")
  BY DEF IsAt, IsEnd, At

LEMMA EnoughIs == ASSUME NEW p, IsAt(p) PROVE Enough(p) \in Nat /\ Enough(p) >= 1
<1> DEFINE n == Len(p.future)
           m == MaxHops + 1 - p.hops
<1>1. n \in Nat /\ m \in Nat
  BY VfsParameters DEF IsAt
<1>2. LongestTarget \in Nat
  BY LongestIs
<1>3. Enough(p) = n + 1 + m * LongestTarget
  BY DEF Enough
<1> HIDE DEF n, m
<1>4. \A x, y, z \in Nat : x + 1 + y * z \in Nat /\ x + 1 + y * z >= 1
  <2>1. \A y, z \in Nat : y * z \in Nat
    OBVIOUS
  <2>2. QED
    BY <2>1
<1>5. QED
  BY <1>1, <1>2, <1>3, <1>4

\* A way is walked step by step.
LEMMA WalkIs ==
    ASSUME NEW W, NEW p, NEW follow, Enough(p) \in Nat
    PROVE  LET walk == Walk(W, p, follow)
           IN /\ walk[0] = {p}
              /\ \A n \in 1..Enough(p) : walk[n] = UNION {Onward(W, q, follow) : q \in walk[n - 1]}
<1> DEFINE N == Enough(p)
           next(S) == UNION {Onward(W, q, follow) : q \in S}
           Body(g, n) == IF n = 0 THEN {p} ELSE next(g[n - 1])
           All(g) == [n \in 0..N |-> Body(g, n)]
           walk == CHOOSE g : g = All(g)
<1>1. N \in Nat
  OBVIOUS
<1>2. \E g : g = All(g)
  <2> DEFINE Made(g, m) == \A n \in 0..m : g[n] = Body(g, n)
             T == {m \in 0..N : \E g : Made(g, m)}
  <2> HIDE DEF next, N
  <2>1. 0 \in T
    <3> DEFINE g == [n \in 0..0 |-> {p}]
    <3>1. g[0] = {p}
      OBVIOUS
    <3> HIDE DEF g
    <3>2. Made(g, 0)
      BY <3>1
    <3>3. 0 \in 0..N
      BY <1>1
    <3> HIDE DEF Made
    <3>4. QED
      BY <3>2, <3>3
  <2>2. ASSUME NEW m \in 0..N, m \in T, m < N
        PROVE  m + 1 \in T
    <3>1. PICK g : Made(g, m)
      BY <2>2
    <3> DEFINE h == [n \in 0..(m + 1) |-> IF n <= m THEN g[n] ELSE next(g[m])]
    <3>2. m \in Nat /\ m + 1 \in 0..N /\ ~(m + 1 <= m) /\ m + 1 \in 0..(m + 1)
      BY <1>1, <2>2
    <3>3. \A n \in 0..m : h[n] = g[n]
      BY <3>2
    <3>4. h[m + 1] = next(g[m])
      BY <3>2
    <3> HIDE DEF h
    <3>5. ASSUME NEW n \in 0..(m + 1)
          PROVE  h[n] = Body(h, n)
      <4>1. CASE n = m + 1
        <5>1. h[m] = g[m] /\ n - 1 = m /\ n # 0
          BY <3>2, <3>3, <4>1
        <5>2. QED
          BY <3>4, <4>1, <5>1
      <4>2. CASE n # m + 1
        <5>1. n \in 0..m
          BY <3>2, <4>2
        <5>2. h[n] = Body(g, n)
          BY <3>1, <3>3, <5>1
        <5>3. CASE n = 0
          BY <5>2, <5>3
        <5>4. CASE n # 0
          <6>1. n - 1 \in 0..m
            BY <5>1, <5>4
          <6>2. h[n - 1] = g[n - 1]
            BY <3>3, <6>1
          <6>3. QED
            BY <5>2, <5>4, <6>2
        <5>5. QED
          BY <5>3, <5>4
      <4>3. QED
        BY <4>1, <4>2
    <3> HIDE DEF Body
    <3>6. QED
      BY <3>2, <3>5
  <2>3. N \in T
    <3> HIDE DEF T
    <3>1. 0..N \subseteq T
      BY <1>1, <2>1, <2>2, UpTo
    <3>2. QED
      BY <1>1, <3>1
  <2> HIDE DEF Body
  <2>4. PICK g : Made(g, N)
    BY <2>3
  <2> DEFINE h == [n \in 0..N |-> g[n]]
  <2>5. \A n \in 0..N : h[n] = g[n]
    OBVIOUS
  <2>6. \A n \in 0..N : Body(h, n) = Body(g, n)
    <3>1. \A n \in 0..N : n # 0 => n - 1 \in 0..N
      BY <1>1
    <3> HIDE DEF h
    <3>2. QED
      BY <2>5, <3>1 DEF Body
  <2>7. h = All(h)
    BY <2>4, <2>6
  <2>8. QED
    BY <2>7
<1>3. walk = All(walk)
  <2> HIDE DEF All
  <2>1. QED
    BY <1>2
<1>4. Walk(W, p, follow) = walk
  BY DEF Walk
<1> HIDE DEF walk
<1>5. \A n \in 0..N : walk[n] = Body(walk, n)
  <2> HIDE DEF Body, N
  <2>1. QED
    BY <1>3
<1> HIDE DEF N, next
<1>6. walk[0] = {p} /\ \A n \in 1..N : walk[n] = next(walk[n - 1])
  BY <1>1, <1>5
<1>7. QED
  BY <1>4, <1>6 DEF N, next

\* What names mean is what there is.
LEMMA MeansTyped ==
    ASSUME NEW W, \A w \in W : IsRefs(w), NEW x \in Dirs, NEW name
    PROVE  Means(W, x, name) \subseteq Items \cup {None}
<1>1. \A n \in Node : Kind[n] = "dir" => TreeMeans(n, name) \subseteq Items \cup {None}
  <2>1. ASSUME NEW n \in Node, Kind[n] = "dir", name \in DOMAIN Entries[n]
        PROVE  Entries[n][name] \in Node
    <3>1. Range(Entries[n]) \subseteq Node
      BY <2>1, VfsParameters
    <3>2. Entries[n][name] \in Range(Entries[n])
      BY <2>1 DEF Range
    <3>3. QED
      BY <3>1, <3>2
  <2>2. QED
    BY <2>1, ItemsHave DEF TreeMeans
<1>2. x \in Items /\ x.is \in {"root", "tags", "node", "commit", "revlist"} /\ (x.is = "node" => Kind[x.node] = "dir")
  BY DirIs
<1>3. CASE x.is \in {"node", "commit"}
  <2>1. TreeOfItem(x) \in Node /\ Kind[TreeOfItem(x)] = "dir"
    BY <1>2, <1>3, ItemIs, VfsParameters DEF TreeOfItem
  <2>2. Means(W, x, name) = TreeMeans(TreeOfItem(x), name)
    BY <1>3, MeansIs
  <2>3. QED
    BY <1>1, <2>1, <2>2
<1>4. CASE x.is = "root" /\ name \in Branches
  <2>1. Means(W, x, name) = {BranchItem(w, name) : w \in W}
    BY <1>4, MeansIs
  <2>2. \A w \in W : w[name] \in Commit \cup {None}
    BY <1>4, VfsParameters DEF IsRefs, Pointees
  <2>3. \A w \in W : BranchItem(w, name) \in Items \cup {None}
    BY <2>2, ItemsHave DEF BranchItem
  <2>4. QED
    BY <2>1, <2>3
<1>5. CASE x.is = "root" /\ name \notin Branches
  <2>1. Means(W, x, name) = {IF name = Name(".tag") THEN TagsItem ELSE None}
    BY <1>5, MeansIs
  <2>2. QED
    BY <2>1, ItemsHave
<1>6. CASE x.is = "tags" /\ name \in Tags
  <2>1. Means(W, x, name) = {TaggedItem(w, name) : w \in W}
    BY <1>6, MeansIs
  <2>2. \A w \in W : w[name] \in Commit \cup Node \cup {None}
    BY <1>6, VfsParameters DEF IsRefs, Pointees
  <2>3. \A w \in W : TaggedItem(w, name) \in Items \cup {None}
    BY <2>2, ItemsHave DEF TaggedItem
  <2>4. QED
    BY <2>1, <2>3
<1>7. CASE x.is = "tags" /\ name \notin Tags
  <2>1. Means(W, x, name) = {None}
    BY <1>7, MeansIs
  <2>2. QED
    BY <2>1
<1>8. CASE x.is = "revlist"
  <2> DEFINE c == x.commit
             revs == Revs[c]
  <2>1. c \in Commit /\ Means(W, x, name) = SavesMean(c, name)
    BY <1>2, <1>8, ItemIs, MeansIs
  <2> HIDE DEF c
  <2>2. \A i \in DOMAIN revs : revs[i] \in Commit
    BY <2>1, RevsAre DEF RevList
  <2>3. \A i \in DOMAIN revs : CommitItem(revs[i], FALSE) \in Items
    BY <2>2, ItemsHave
  <2>4. FakeLink(SaveName(revs, 1)) \in Items
    BY <2>1, ItemsHave
  <2> HIDE DEF revs
  <2>5. SavesMean(c, name) \subseteq Items \cup {None}
    BY <2>3, <2>4 DEF SavesMean, revs
  <2>6. QED
    BY <2>1, <2>5
<1>9. QED
  BY <1>2, <1>3, <1>4, <1>5, <1>6, <1>7, <1>8

\* A step uses up a name, or a link that may be followed.
LEMMA StepUses ==
    ASSUME NEW p, IsAt(p), NEW q, IsAt(q),
           \/ q.hops = p.hops /\ Len(q.future) + 1 <= Len(p.future)
           \/ q.hops = p.hops + 1 /\ Len(q.future) + 1 <= Len(p.future) + LongestTarget
    PROVE  Enough(q) + 1 <= Enough(p)
<1> DEFINE n == Len(p.future)
           m == Len(q.future)
           k == MaxHops + 1 - q.hops
           L == LongestTarget
<1>1. n \in Nat /\ m \in Nat /\ k \in Nat /\ L \in Nat
  <2>1. p.future \in Seq(Names) /\ q.future \in Seq(Names) /\ q.hops \in 0..(MaxHops + 1)
    BY DEF IsAt
  <2>2. n \in Nat /\ m \in Nat
    BY <2>1
  <2>3. k \in Nat
    BY <2>1, VfsParameters
  <2>4. QED
    BY <2>2, <2>3, LongestIs
<1>2. Enough(q) = m + 1 + k * L
  BY DEF Enough
<1>3. CASE q.hops = p.hops /\ m + 1 <= n
  <2>1. Enough(p) = n + 1 + k * L
    BY <1>3 DEF Enough
  <2> HIDE DEF n, m, k, L
  <2>2. k * L \in Nat
    BY <1>1
  <2> DEFINE x == k * L
  <2> HIDE DEF x
  <2>3. (m + 1 + x) + 1 <= n + 1 + x
    BY <1>1, <1>3, <2>2 DEF x
  <2>4. QED
    BY <1>2, <2>1, <2>3 DEF x
<1>4. CASE q.hops = p.hops + 1 /\ m + 1 <= n + L
  <2>1. Enough(p) = n + 1 + (k + 1) * L
    <3>1. MaxHops + 1 - p.hops = k + 1
      BY <1>4, VfsParameters DEF IsAt
    <3>2. QED
      BY <3>1 DEF Enough
  <2> HIDE DEF n, m, k, L
  <2>2. k * L \in Nat /\ (k + 1) * L = k * L + L
    BY <1>1
  <2> DEFINE x == k * L
  <2> HIDE DEF x
  <2>3. (m + 1 + x) + 1 <= n + 1 + (x + L)
    BY <1>1, <1>4, <2>2 DEF x
  <2>4. QED
    BY <1>2, <2>1, <2>2, <2>3 DEF x
<1>5. QED
  BY <1>3, <1>4

\* Where a name leads, by what it is.
LEMMA ThroughIs ==
    ASSUME NEW p, NEW item, NEW follow
    PROVE  LET name == Head(p.future)
               rest == Tail(p.future)
               there == Append(p.past, <<name, item>>)
               to == Decompose(ReadLink(item))
               q == Through(p, item, follow)
           IN /\ item = None => q = End("ok", there)
              /\ item # None /\ IsLink(item) /\ (follow \/ rest # <<>>) /\ p.hops > MaxHops => q = End("eloop", there)
              /\ item # None /\ IsLink(item) /\ (follow \/ rest # <<>>) /\ ~(p.hops > MaxHops) =>
                   q = At(IF to.absolute THEN <<Root>> ELSE p.past, to.future \o rest, p.hops + 1)
              /\ item # None /\ ~(IsLink(item) /\ (follow \/ rest # <<>>)) /\ ~IsDir(item) /\ rest # <<>> =>
                   q = End("enotdir", there)
              /\ item # None /\ ~(IsLink(item) /\ (follow \/ rest # <<>>)) /\ (IsDir(item) \/ rest = <<>>) =>
                   q = At(there, rest, p.hops)
  BY DEF Through

LEMMA OnwardIs ==
    ASSUME NEW W, NEW p, IsAt(p), NEW follow
    PROVE  /\ p.future = <<>> => Onward(W, p, follow) = {End("ok", p.past)}
           /\ p.future # <<>> /\ Head(p.future) = Name("..") =>
                Onward(W, p, follow) = {At(IF Len(p.past) = 1 THEN p.past ELSE Front(p.past), Tail(p.future), p.hops)}
           /\ p.future # <<>> /\ Head(p.future) # Name("..") =>
                Onward(W, p, follow) = {Through(p, item, follow) : item \in Means(W, Last(p.past)[2], Head(p.future))}
<1>1. p.is = "at"
  BY KindOfPosition
<1>2. QED
  BY <1>1 DEF Onward

LEMMA EndStays == ASSUME NEW W, NEW e, e.is # "at", NEW follow PROVE Onward(W, e, follow) = {e}
  BY DEF Onward

\* From a place to a place, with less of the way left.
Goes(p, q) == IsPosition(q) /\ (IsAt(q) => Enough(q) + 1 <= Enough(p))

LEMMA GoesIs ==
    /\ \A p, q : IsEnd(q) => Goes(p, q)
    /\ \A p, q : IsAt(p) /\ IsAt(q) /\ q.hops = p.hops /\ Len(q.future) + 1 <= Len(p.future) => Goes(p, q)
    /\ \A p, q : IsAt(p) /\ IsAt(q) /\ q.hops = p.hops + 1 /\ Len(q.future) + 1 <= Len(p.future) + LongestTarget
                 => Goes(p, q)
<1>1. \A p, q : IsEnd(q) => Goes(p, q)
  BY KindOfPosition DEF Goes, IsPosition
<1>2. QED
  BY <1>1, StepUses DEF Goes, IsPosition

LEMMA ThroughGoes ==
    ASSUME NEW p, IsAt(p), p.future # <<>>, NEW item \in Items \cup {None}, NEW follow
    PROVE  Goes(p, Through(p, item, follow))
<1> DEFINE name == Head(p.future)
           rest == Tail(p.future)
           there == Append(p.past, <<name, item>>)
           to == Decompose(ReadLink(item))
           q == Through(p, item, follow)
<1>1. /\ p.past \in Pasts /\ IsThere(p.past) /\ Last(p.past)[2] \in Dirs /\ p.future \in Seq(Names)
      /\ p.hops \in 0..(MaxHops + 1)
  BY DEF IsAt
<1>2. name \in Names /\ rest \in Seq(Names) /\ Len(rest) + 1 = Len(p.future) /\ Len(rest) \in Nat
  BY <1>1
<1>3. there \in Pasts /\ Last(there)[2] = item
  BY <1>1, <1>2, ExtendPast
<1> HIDE DEF name, rest, there, to
<1>4. CASE q = End("ok", there) \/ q = End("eloop", there) \/ q = End("enotdir", there)
  <2>1. IsEnd(q)
    BY <1>3, <1>4, EndIs
  <2>2. QED
    BY <2>1, GoesIs
<1>5. CASE /\ item # None /\ IsLink(item) /\ ~(p.hops > MaxHops)
           /\ q = At(IF to.absolute THEN <<Root>> ELSE p.past, to.future \o rest, p.hops + 1)
  <2> DEFINE past == IF to.absolute THEN <<Root>> ELSE p.past
             future == to.future \o rest
  <2>1. past \in Pasts /\ IsThere(past) /\ Last(past)[2] \in Dirs
    BY <1>1, RootPast, NoneIsNone DEF IsThere, Dirs
  <2>2. to.future \in Seq(Names) /\ Len(to.future) <= LongestTarget /\ Len(to.future) \in Nat
    <3>1. item \in Items
      BY <1>5
    <3>2. to.future \in Seq(Names) /\ Len(to.future) <= LongestTarget
      BY <1>5, <3>1, TargetIs DEF to
    <3>3. QED
      BY <3>2
  <2>3. future \in Seq(Names) /\ Len(future) = Len(to.future) + Len(rest)
    BY <1>2, <2>2
  <2>4. p.hops + 1 \in 0..(MaxHops + 1)
    BY <1>1, <1>5, VfsParameters
  <2>5. Len(future) + 1 <= Len(p.future) + LongestTarget
    <3> HIDE DEF future
    <3> DEFINE a == Len(to.future)
               b == Len(rest)
    <3>1. a \in Nat /\ b \in Nat /\ a <= LongestTarget /\ Len(p.future) = b + 1 /\ Len(future) = a + b
      BY <1>2, <2>2, <2>3
    <3> HIDE DEF a, b
    <3>2. (a + b) + 1 <= (b + 1) + LongestTarget
      BY <3>1, LongestIs
    <3>3. QED
      BY <3>1, <3>2
  <2> DEFINE hops == p.hops + 1
  <2> HIDE DEF past, future, hops
  <2>6. IsAt(q) /\ q.future = future /\ q.hops = hops
    <3>1. q = At(past, future, hops)
      BY <1>5 DEF past, future, hops
    <3>2. hops \in 0..(MaxHops + 1)
      BY <2>4 DEF hops
    <3> HIDE DEF q
    <3>3. QED
      BY <2>1, <2>3, <3>1, <3>2, AtIs
  <2>7. q.hops = p.hops + 1
    BY <2>6 DEF hops
  <2>8. QED
    BY <2>5, <2>6, <2>7, GoesIs
<1>6. CASE item # None /\ (IsDir(item) \/ rest = <<>>) /\ q = At(there, rest, p.hops)
  <2>1. IsThere(there) /\ (rest # <<>> => Last(there)[2] \in Dirs)
    BY <1>3, <1>6 DEF IsThere, Dirs
  <2>2. IsAt(q) /\ q.future = rest /\ q.hops = p.hops
    BY <1>1, <1>2, <1>3, <1>6, <2>1, AtIs
  <2>3. Len(q.future) + 1 <= Len(p.future)
    BY <1>2, <2>2
  <2>4. QED
    BY <2>2, <2>3, GoesIs
<1> HIDE DEF q
<1>7. QED
  BY <1>4, <1>5, <1>6, ThroughIs DEF q, name, rest, there, to

\* Every step goes on, on what there is.
LEMMA OnwardGoes ==
    ASSUME NEW W, \A w \in W : IsRefs(w), NEW p, IsAt(p), NEW follow, NEW q \in Onward(W, p, follow)
    PROVE  Goes(p, q)
<1>1. p.past \in Pasts /\ IsThere(p.past) /\ p.future \in Seq(Names) /\ p.hops \in 0..(MaxHops + 1)
  BY DEF IsAt
<1>2. CASE p.future = <<>>
  <2>1. q = End("ok", p.past)
    BY <1>2, OnwardIs
  <2>2. IsEnd(q)
    BY <1>1, <2>1, EndIs
  <2>3. QED
    BY <2>2, GoesIs
<1>3. CASE p.future # <<>> /\ Head(p.future) = Name("..")
  <2> DEFINE past == IF Len(p.past) = 1 THEN p.past ELSE Front(p.past)
             rest == Tail(p.future)
  <2>1. q = At(past, rest, p.hops)
    BY <1>3, OnwardIs
  <2>2. rest \in Seq(Names) /\ Len(rest) + 1 <= Len(p.future)
    BY <1>1, <1>3
  <2>3. past \in Pasts /\ Last(past)[2] \in Dirs
    <3>1. CASE Len(p.past) = 1
      BY <1>3, <3>1 DEF IsAt
    <3>2. CASE Len(p.past) # 1
      <4>1. Len(p.past) > 1
        <5>1. Len(p.past) \in Nat /\ Len(p.past) > 0
          BY <1>1, PastIs
        <5> DEFINE n == Len(p.past)
        <5> HIDE DEF n
        <5>2. n \in Nat /\ n > 0 /\ n # 1
          BY <3>2, <5>1 DEF n
        <5>3. n > 1
          BY <5>2
        <5>4. QED
          BY <5>3 DEF n
      <4>2. QED
        BY <1>1, <3>2, <4>1, FrontPast
    <3>3. QED
      BY <3>1, <3>2
  <2>4. IsThere(past)
    BY <2>3, NoneIsNone DEF IsThere, Dirs
  <2> HIDE DEF past, rest
  <2>5. IsAt(q) /\ q.future = rest /\ q.hops = p.hops
    BY <1>1, <2>1, <2>2, <2>3, <2>4, AtIs
  <2>6. QED
    BY <2>2, <2>5, GoesIs
<1>4. CASE p.future # <<>> /\ Head(p.future) # Name("..")
  <2> DEFINE x == Last(p.past)[2]
             name == Head(p.future)
  <2>1. Onward(W, p, follow) = {Through(p, item, follow) : item \in Means(W, x, name)}
    BY <1>4, OnwardIs
  <2>2. x \in Dirs
    BY <1>4 DEF IsAt
  <2> HIDE DEF x, name
  <2>3. PICK item \in Means(W, x, name) : q = Through(p, item, follow)
    BY <2>1
  <2>4. item \in Items \cup {None}
    BY <2>2, MeansTyped
  <2>5. QED
    BY <1>4, <2>3, <2>4, ThroughGoes
<1>5. QED
  BY <1>2, <1>3, <1>4

\* On a way from a place there are places, and it ends.
Typed(W) == \A w \in W : IsRefs(w)

LEMMA WalkGoes ==
    ASSUME NEW W, Typed(W), NEW p, IsAt(p), NEW follow
    PROVE  \A k \in 0..Enough(p) : \A q \in Walk(W, p, follow)[k] :
             IsPosition(q) /\ (IsAt(q) => k + Enough(q) <= Enough(p))
<1> DEFINE N == Enough(p)
           walk == Walk(W, p, follow)
           Good(k, q) == IsPosition(q) /\ (IsAt(q) => k + Enough(q) <= N)
           T == {k \in 0..N : \A q \in walk[k] : Good(k, q)}
<1>1. N \in Nat
  BY EnoughIs
<1>2. walk[0] = {p} /\ \A n \in 1..N : walk[n] = UNION {Onward(W, q, follow) : q \in walk[n - 1]}
  BY <1>1, WalkIs
<1> HIDE DEF walk
<1>3. 0 \in T
  <2>1. Good(0, p)
    BY <1>1 DEF IsPosition
  <2> HIDE DEF Good, N
  <2>2. QED
    BY <1>1, <1>2, <2>1
<1>4. ASSUME NEW n \in 0..N, n \in T, n < N
      PROVE  n + 1 \in T
  <2>1. n + 1 \in 1..N /\ (n + 1) - 1 = n /\ n \in Nat /\ n + 1 \in 0..N
    BY <1>1, <1>4
  <2>2. ASSUME NEW q \in walk[n + 1]
        PROVE  Good(n + 1, q)
    <3>1. PICK c \in walk[n] : q \in Onward(W, c, follow)
      <4> HIDE DEF N
      <4>1. QED
        BY <1>2, <2>1
    <3>2. Good(n, c)
      BY <1>4, <3>1
    <3>3. CASE IsEnd(c)
      <4>1. q = c /\ ~IsAt(c)
        BY <3>1, <3>3, EndStays, KindOfPosition
      <4>2. QED
        BY <3>2, <4>1
    <3>4. CASE IsAt(c)
      <4>1. Goes(c, q)
        BY <3>1, <3>4, OnwardGoes DEF Typed
      <4>2. n + Enough(c) <= N /\ Enough(c) \in Nat
        BY <3>2, <3>4, EnoughIs
      <4>3. IsAt(q) => Enough(q) \in Nat
        BY EnoughIs
      <4> HIDE DEF N
      <4>4. IsAt(q) => n + 1 + Enough(q) <= N
        BY <1>1, <2>1, <4>1, <4>2, <4>3 DEF Goes
      <4>5. QED
        BY <4>1, <4>4 DEF Goes
    <3>5. QED
      BY <3>2, <3>3, <3>4 DEF IsPosition
  <2> HIDE DEF Good, N
  <2>3. QED
    BY <2>1, <2>2
<1>5. 0..N \subseteq T
  <2> HIDE DEF T, N
  <2>1. QED
    BY <1>1, <1>3, <1>4, UpTo
<1>6. QED
  BY <1>5 DEF walk

LEMMA LeadsToEnds ==
    ASSUME NEW W, Typed(W), NEW p, IsAt(p), NEW follow, NEW e \in Leads(W, p, follow)
    PROVE  IsEnd(e)
<1>1. Enough(p) \in Nat /\ Enough(p) \in 0..Enough(p)
  BY EnoughIs
<1>2. IsPosition(e) /\ (IsAt(e) => Enough(p) + Enough(e) <= Enough(p))
  BY <1>1, WalkGoes DEF Leads
<1>3. IsAt(e) => Enough(e) \in Nat /\ Enough(e) >= 1
  BY EnoughIs
<1>4. ~IsAt(e)
  BY <1>1, <1>2, <1>3
<1>5. QED
  BY <1>2, <1>4 DEF IsPosition

\* From a place on the way one goes on along it, until it ends.
LEMMA OnWayStart == ASSUME NEW W, NEW p, IsAt(p), NEW follow PROVE OnWay(W, p, p, follow)
<1>1. Enough(p) \in Nat /\ 0 \in 0..Enough(p)
  BY EnoughIs
<1>2. Walk(W, p, follow)[0] = {p}
  BY <1>1, WalkIs
<1>3. QED
  BY <1>1, <1>2 DEF OnWay

LEMMA OnWayOn ==
    ASSUME NEW W, Typed(W), NEW p, IsAt(p), NEW c, IsAt(c), NEW follow, OnWay(W, p, c, follow),
           NEW q \in Onward(W, c, follow)
    PROVE  OnWay(W, p, q, follow)
<1> DEFINE N == Enough(p)
           walk == Walk(W, p, follow)
<1>1. N \in Nat /\ \A n \in 1..N : walk[n] = UNION {Onward(W, x, follow) : x \in walk[n - 1]}
  BY EnoughIs, WalkIs
<1>2. PICK k \in 0..N : c \in walk[k]
  BY DEF OnWay
<1>3. k + Enough(c) <= N /\ Enough(c) \in Nat /\ Enough(c) >= 1
  BY <1>2, WalkGoes, EnoughIs
<1> HIDE DEF N, walk
<1>4. k + 1 \in 1..N /\ (k + 1) - 1 = k /\ k + 1 \in 0..N
  BY <1>1, <1>3
<1>5. walk[k + 1] = UNION {Onward(W, x, follow) : x \in walk[k]}
  BY <1>1, <1>4
<1>6. q \in walk[k + 1]
  BY <1>2, <1>5
<1>7. QED
  BY <1>4, <1>6 DEF OnWay, N, walk

LEMMA OnWayEnd ==
    ASSUME NEW W, NEW p, IsAt(p), NEW e, IsEnd(e), NEW follow, OnWay(W, p, e, follow)
    PROVE  e \in Leads(W, p, follow)
<1> DEFINE N == Enough(p)
           walk == Walk(W, p, follow)
<1>1. N \in Nat /\ \A n \in 1..N : walk[n] = UNION {Onward(W, x, follow) : x \in walk[n - 1]}
  BY EnoughIs, WalkIs
<1>2. PICK k \in 0..N : e \in walk[k]
  BY DEF OnWay
<1>3. Onward(W, e, follow) = {e}
  BY EndStays, KindOfPosition
<1> HIDE DEF N, walk
<1> DEFINE T == {n \in 0..N : n >= k => e \in walk[n]}
<1>4. 0 \in T
  BY <1>1, <1>2
<1>5. ASSUME NEW n \in 0..N, n \in T, n < N
      PROVE  n + 1 \in T
  <2>1. n + 1 \in 1..N /\ (n + 1) - 1 = n /\ n + 1 \in 0..N /\ (n + 1 >= k => n >= k \/ n + 1 = k)
    BY <1>1, <1>5
  <2>2. walk[n + 1] = UNION {Onward(W, x, follow) : x \in walk[n]}
    BY <1>1, <2>1
  <2>3. n >= k => e \in walk[n + 1]
    BY <1>3, <1>5, <2>2
  <2>4. QED
    BY <1>2, <2>1, <2>3
<1>6. 0..N \subseteq T
  <2> HIDE DEF T
  <2>1. QED
    BY <1>1, <1>4, <1>5, UpTo
<1>7. N \in 0..N /\ N >= k
  BY <1>1
<1>8. QED
  BY <1>6, <1>7 DEF Leads, N, walk

-----------------------------------------------------------------------------
(***************************************************************************)
(* What was so when the refs had been W is so when they have been more     *)
(***************************************************************************)

LEMMA MeansMore ==
    ASSUME NEW W, NEW V, W \subseteq V, NEW x \in Dirs, NEW name
    PROVE  Means(W, x, name) \subseteq Means(V, x, name)
<1>1. x.is \in {"root", "tags", "node", "commit", "revlist"}
  BY DirIs
<1>2. CASE x.is = "root" /\ name \in Branches
  <2>1. Means(W, x, name) = {BranchItem(w, name) : w \in W} /\ Means(V, x, name) = {BranchItem(w, name) : w \in V}
    BY <1>2, MeansIs
  <2>2. QED
    BY <2>1
<1>3. CASE x.is = "tags" /\ name \in Tags
  <2>1. Means(W, x, name) = {TaggedItem(w, name) : w \in W} /\ Means(V, x, name) = {TaggedItem(w, name) : w \in V}
    BY <1>3, MeansIs
  <2>2. QED
    BY <2>1
<1>4. CASE (x.is = "root" /\ name \notin Branches) \/ (x.is = "tags" /\ name \notin Tags)
           \/ x.is \in {"node", "commit", "revlist"}
  <2>1. Means(W, x, name) = Means(V, x, name)
    <3>1. CASE x.is = "root" /\ name \notin Branches
      BY <3>1, MeansIs
    <3>2. CASE x.is = "tags" /\ name \notin Tags
      BY <3>2, MeansIs
    <3>3. CASE x.is = "revlist"
      BY <3>3, MeansIs
    <3>4. CASE x.is \in {"node", "commit"}
      BY <3>4, MeansIs
    <3>5. QED
      BY <1>4, <3>1, <3>2, <3>3, <3>4
  <2>2. QED
    BY <2>1
<1>5. QED
  BY <1>1, <1>2, <1>3, <1>4

LEMMA OnwardMore ==
    ASSUME NEW W, NEW V, W \subseteq V, NEW p, IsPosition(p), NEW follow
    PROVE  Onward(W, p, follow) \subseteq Onward(V, p, follow)
<1>1. CASE IsEnd(p)
  BY <1>1, EndStays, KindOfPosition
<1>2. CASE IsAt(p) /\ (p.future = <<>> \/ Head(p.future) = Name(".."))
  <2>1. p.is = "at"
    BY <1>2, KindOfPosition
  <2>2. Onward(W, p, follow) = Onward(V, p, follow)
    BY <1>2, <2>1 DEF Onward
  <2>3. QED
    BY <2>2
<1>3. CASE IsAt(p) /\ p.future # <<>> /\ Head(p.future) # Name("..")
  <2> DEFINE x == Last(p.past)[2]
             name == Head(p.future)
  <2>1. /\ Onward(W, p, follow) = {Through(p, item, follow) : item \in Means(W, x, name)}
        /\ Onward(V, p, follow) = {Through(p, item, follow) : item \in Means(V, x, name)}
    BY <1>3, OnwardIs
  <2>2. x \in Dirs
    BY <1>3 DEF IsAt
  <2> HIDE DEF x, name
  <2>3. Means(W, x, name) \subseteq Means(V, x, name)
    BY <2>2, MeansMore
  <2>4. QED
    BY <2>1, <2>3
<1>4. QED
  BY <1>1, <1>2, <1>3 DEF IsPosition

LEMMA WalkMore ==
    ASSUME NEW W, NEW V, W \subseteq V, Typed(W), NEW p, IsAt(p), NEW follow
    PROVE  \A k \in 0..Enough(p) : Walk(W, p, follow)[k] \subseteq Walk(V, p, follow)[k]
<1> DEFINE N == Enough(p)
           a == Walk(W, p, follow)
           b == Walk(V, p, follow)
           T == {k \in 0..N : a[k] \subseteq b[k]}
<1>1. N \in Nat
  BY EnoughIs
<1>2. a[0] = {p} /\ \A n \in 1..N : a[n] = UNION {Onward(W, q, follow) : q \in a[n - 1]}
  BY <1>1, WalkIs
<1>3. b[0] = {p} /\ \A n \in 1..N : b[n] = UNION {Onward(V, q, follow) : q \in b[n - 1]}
  BY <1>1, WalkIs
<1>4. \A n \in 0..N : \A q \in a[n] : IsPosition(q)
  BY WalkGoes
<1> HIDE DEF N, a, b
<1>5. 0 \in T
  BY <1>1, <1>2, <1>3
<1>6. ASSUME NEW n \in 0..N, n \in T, n < N
      PROVE  n + 1 \in T
  <2>1. n + 1 \in 1..N /\ (n + 1) - 1 = n /\ n + 1 \in 0..N
    BY <1>1, <1>6
  <2>2. /\ a[n + 1] = UNION {Onward(W, q, follow) : q \in a[n]}
        /\ b[n + 1] = UNION {Onward(V, q, follow) : q \in b[n]}
    BY <1>2, <1>3, <2>1
  <2>3. \A q \in a[n] : q \in b[n] /\ Onward(W, q, follow) \subseteq Onward(V, q, follow)
    BY <1>4, <1>6, OnwardMore
  <2>4. a[n + 1] \subseteq b[n + 1]
    BY <2>2, <2>3
  <2>5. QED
    BY <2>1, <2>4
<1>7. 0..N \subseteq T
  <2> HIDE DEF T
  <2>1. QED
    BY <1>1, <1>5, <1>6, UpTo
<1>8. QED
  BY <1>7 DEF N, a, b

LEMMA LeadsMore ==
    ASSUME NEW W, NEW V, W \subseteq V, Typed(W), NEW p, IsAt(p), NEW follow
    PROVE  Leads(W, p, follow) \subseteq Leads(V, p, follow)
<1>1. Enough(p) \in 0..Enough(p)
  BY EnoughIs
<1>2. QED
  BY <1>1, WalkMore DEF Leads

LEMMA OnWayMore ==
    ASSUME NEW W, NEW V, W \subseteq V, Typed(W), NEW p, IsAt(p), NEW c, NEW follow, OnWay(W, p, c, follow)
    PROVE  OnWay(V, p, c, follow)
  BY WalkMore DEF OnWay

-----------------------------------------------------------------------------
(***************************************************************************)
(* What a path denotes                                                     *)
(***************************************************************************)

StartOf(path, q) == At(IF Decompose(path).absolute THEN <<Root>> ELSE q, Decompose(path).future, 0)
From(W, path, q, follow) ==
    IF ~IsDir(Last(q)[2]) THEN {End("enotdir", q)}
    ELSE Leads(W, StartOf(path, q), follow \/ Decompose(path).mustBeDir)
Ended(path, e) ==
    IF e.is = "ok" /\ Decompose(path).mustBeDir /\ ~Dangling(e) /\ ~IsDir(Last(e.past)[2])
    THEN End("enotdir", e.past) ELSE e

LEMMA DenotedIs ==
    ASSUME NEW W, NEW path, NEW P, NEW follow
    PROVE  Denoted(W, path, P, follow) = {Ended(path, e) : e \in UNION {From(W, path, q, follow) : q \in P}}
  BY DEF Denoted, Ended, From, StartOf

Place(q) == q \in Pasts /\ IsThere(q)

\* A place to start from.
LEMMA RootPlace == Place(<<Root>>) /\ IsDir(Last(<<Root>>)[2]) /\ Last(<<Root>>)[2] \in Dirs
<1>1. <<Root>> \in Pasts /\ Last(<<Root>>)[2] \in Dirs
  BY RootPast
<1>2. QED
  BY <1>1, NoneIsNone DEF Place, IsThere, Dirs

LEMMA StartIs ==
    ASSUME NEW path \in Paths, NEW q, Place(q), IsDir(Last(q)[2])
    PROVE  IsAt(StartOf(path, q))
<1> DEFINE d == Decompose(path)
           past == IF d.absolute THEN <<Root>> ELSE q
           future == d.future
<1>1. future \in Seq(Names)
  BY DecomposeIs DEF Paths
<1>2. Last(q)[2] \in Dirs
  <2>1. Last(q)[2] \in Items
    BY PastIs DEF Place, IsThere
  <2>2. QED
    BY <2>1 DEF Dirs
<1>3. past \in Pasts /\ IsThere(past) /\ Last(past)[2] \in Dirs
  BY <1>2, RootPlace DEF Place
<1>4. 0 \in 0..(MaxHops + 1)
  BY VfsParameters
<1>5. StartOf(path, q) = At(past, future, 0)
  BY DEF StartOf
<1> HIDE DEF past, future
<1>6. QED
  BY <1>1, <1>3, <1>4, <1>5, AtIs

LEMMA EndedIs ==
    ASSUME NEW path, NEW e, IsEnd(e)
    PROVE  IsEnd(Ended(path, e))
<1>1. e.past \in Pasts
  BY DEF IsEnd
<1>2. IsEnd(End("enotdir", e.past))
  BY <1>1, EndIs
<1>3. QED
  BY <1>2 DEF Ended

LEMMA FromEnds ==
    ASSUME NEW W, Typed(W), NEW path \in Paths, NEW q, Place(q), NEW follow, NEW e \in From(W, path, q, follow)
    PROVE  IsEnd(e)
<1>1. CASE ~IsDir(Last(q)[2])
  BY <1>1, EndIs DEF From, Place
<1>2. CASE IsDir(Last(q)[2])
  BY <1>2, StartIs, LeadsToEnds DEF From
<1>3. QED
  BY <1>1, <1>2

LEMMA DenotedEnds ==
    ASSUME NEW W, Typed(W), NEW path \in Paths, NEW P, \A q \in P : Place(q), NEW follow,
           NEW e \in Denoted(W, path, P, follow)
    PROVE  IsEnd(e)
<1>1. PICK q \in P : \E x \in From(W, path, q, follow) : e = Ended(path, x)
  BY DenotedIs
<1>2. PICK x \in From(W, path, q, follow) : e = Ended(path, x)
  BY <1>1
<1>3. IsEnd(x)
  BY FromEnds
<1>4. QED
  BY <1>2, <1>3, EndedIs

LEMMA FromMore ==
    ASSUME NEW W, NEW V, W \subseteq V, Typed(W), NEW path \in Paths, NEW q, Place(q), NEW follow
    PROVE  From(W, path, q, follow) \subseteq From(V, path, q, follow)
  BY StartIs, LeadsMore DEF From

LEMMA DenotedMore ==
    ASSUME NEW W, NEW V, W \subseteq V, Typed(W), NEW path \in Paths,
           NEW P, NEW Q, P \subseteq Q, \A q \in P : Place(q), NEW follow
    PROVE  Denoted(W, path, P, follow) \subseteq Denoted(V, path, Q, follow)
<1>1. /\ Denoted(W, path, P, follow) = {Ended(path, e) : e \in UNION {From(W, path, q, follow) : q \in P}}
      /\ Denoted(V, path, Q, follow) = {Ended(path, e) : e \in UNION {From(V, path, q, follow) : q \in Q}}
  BY DenotedIs
<1>2. \A q \in P : From(W, path, q, follow) \subseteq From(V, path, q, follow)
  BY FromMore
<1>3. QED
  BY <1>1, <1>2

\* The places that have some names.
StartOfNames(names) == At(<<Root>>, Tail(names), 0)

LEMMA NamesStart == ASSUME NEW names \in Seq(Names), names # <<>> PROVE IsAt(StartOfNames(names))
<1>1. Tail(names) \in Seq(Names) /\ 0 \in 0..(MaxHops + 1)
  BY VfsParameters
<1>2. QED
  BY <1>1, RootPlace, AtIs DEF StartOfNames, Place

LEMMA ParentsIs ==
    ASSUME NEW W, NEW names
    PROVE  /\ names = <<>> => Parents(W, names) = {<<Root>>}
           /\ names # <<>> => Parents(W, names) =
                {e.past : e \in {x \in Leads(W, StartOfNames(names), FALSE) : x.is = "ok" /\ ~Dangling(x)}}
  BY DEF Parents, StartOfNames

LEMMA ParentsArePlaces ==
    ASSUME NEW W, Typed(W), NEW names \in Seq(Names)
    PROVE  \A q \in Parents(W, names) : Place(q)
<1>1. CASE names = <<>>
  BY <1>1, ParentsIs, RootPlace
<1>2. CASE names # <<>>
  <2>1. ASSUME NEW e \in Leads(W, StartOfNames(names), FALSE), e.is = "ok" /\ ~Dangling(e)
        PROVE  Place(e.past)
    <3>1. IsEnd(e)
      BY <1>2, NamesStart, LeadsToEnds
    <3>2. QED
      BY <2>1, <3>1 DEF Place, IsEnd, IsThere, Dangling
  <2> DEFINE A == Leads(W, StartOfNames(names), FALSE)
  <2>2. Parents(W, names) = {e.past : e \in {x \in A : x.is = "ok" /\ ~Dangling(x)}}
    BY <1>2, ParentsIs
  <2> HIDE DEF A
  <2>3. \A e \in A : e.is = "ok" /\ ~Dangling(e) => Place(e.past)
    BY <2>1 DEF A
  <2>4. QED
    BY <2>2, <2>3
<1>3. QED
  BY <1>1, <1>2

LEMMA ParentsMore ==
    ASSUME NEW W, NEW V, W \subseteq V, Typed(W), NEW names \in Seq(Names)
    PROVE  Parents(W, names) \subseteq Parents(V, names)
<1>1. CASE names = <<>>
  BY <1>1, ParentsIs
<1>2. CASE names # <<>>
  <2> DEFINE A == Leads(W, StartOfNames(names), FALSE)
             B == Leads(V, StartOfNames(names), FALSE)
  <2>1. A \subseteq B
    BY <1>2, NamesStart, LeadsMore
  <2>2. /\ Parents(W, names) = {e.past : e \in {x \in A : x.is = "ok" /\ ~Dangling(x)}}
        /\ Parents(V, names) = {e.past : e \in {x \in B : x.is = "ok" /\ ~Dangling(x)}}
    BY <1>2, ParentsIs
  <2> HIDE DEF A, B
  <2>3. QED
    BY <2>1, <2>2
<1>3. QED
  BY <1>1, <1>2

\* What a path denotes where the names lead.
Denotes(W, path, names, follow) == Denoted(W, path, Parents(W, names), follow)

LEMMA DenotesEnds ==
    ASSUME NEW W, Typed(W), NEW path \in Paths, NEW names \in Seq(Names), NEW follow,
           NEW e \in Denotes(W, path, names, follow)
    PROVE  IsEnd(e)
<1>1. \A q \in Parents(W, names) : Place(q)
  BY ParentsArePlaces
<1>2. QED
  BY <1>1, DenotedEnds DEF Denotes

LEMMA DenotesMore ==
    ASSUME NEW W, NEW V, W \subseteq V, Typed(W), NEW path \in Paths, NEW names \in Seq(Names), NEW follow
    PROVE  Denotes(W, path, names, follow) \subseteq Denotes(V, path, names, follow)
<1>1. Parents(W, names) \subseteq Parents(V, names) /\ \A q \in Parents(W, names) : Place(q)
  BY ParentsMore, ParentsArePlaces
<1>2. QED
  BY <1>1, DenotedMore DEF Denotes

-----------------------------------------------------------------------------
(***************************************************************************)
(* Places without metadata, and their chains                               *)
(***************************************************************************)

LEMMA BareItemThere ==
    ASSUME NEW item \in Items \cup {None}
    PROVE  BareItem(item) \in Items \cup {None} /\ (BareItem(item) = None <=> item = None)
<1>1. CASE item = None
  BY <1>1, BareNone
<1>2. CASE item \in Items
  BY <1>2, BareItemIs, NoneIsNone
<1>3. QED
  BY <1>1, <1>2

LEMMA BarePast ==
    ASSUME NEW past \in Pasts
    PROVE  /\ Bare(past) \in Pasts /\ Len(Bare(past)) = Len(past)
           /\ \A i \in 1..Len(past) : Bare(past)[i] = <<past[i][1], BareItem(past[i][2])>>
           /\ Last(Bare(past)) = <<Last(past)[1], BareItem(Last(past)[2])>>
           /\ Last(Bare(past))[1] = Last(past)[1] /\ Last(Bare(past))[2] = BareItem(Last(past)[2])
           /\ (Last(Bare(past))[2] = None <=> Last(past)[2] = None)
<1> DEFINE n == Len(past)
           bare == Bare(past)
           E == Names \X (Items \cup {None})
           at(i) == <<past[i][1], BareItem(past[i][2])>>
<1>1. /\ n \in Nat /\ n > 0 /\ DOMAIN past = 1..n /\ Last(past) = past[n]
      /\ \A i \in 1..n : past[i][1] \in Names /\ past[i][2] \in Items \cup {None}
      /\ \A i \in 1..(n - 1) : past[i][2] \in Dirs
  BY PastIs
<1>2. bare = [i \in 1..n |-> at(i)]
  BY <1>1 DEF Bare
<1>3. \A i \in 1..n : at(i) \in E
  BY <1>1, BareItemThere
<1>4. \A i \in 1..(n - 1) : at(i)[2] \in Dirs
  BY <1>1, DirIs
<1> HIDE DEF n, bare, E, at
<1>5. bare \in Seq(E) /\ Len(bare) = n /\ bare # <<>> /\ \A i \in 1..n : bare[i] = at(i)
  BY <1>1, <1>2, <1>3
<1>6. \A i \in 1..(Len(bare) - 1) : bare[i][2] \in Dirs
  <2>1. \A i \in 1..(n - 1) : i \in 1..n
    BY <1>1
  <2>2. QED
    BY <1>4, <1>5, <2>1
<1>7. bare \in Pasts
  BY <1>5, <1>6 DEF Pasts, E
<1>8. n \in 1..n
  BY <1>1
<1>9. Last(bare) = at(n) /\ Last(past) = past[n]
  BY <1>1, <1>5, <1>8 DEF Last
<1>10. past[n][2] \in Items \cup {None} /\ at(n)[1] = past[n][1] /\ at(n)[2] = BareItem(past[n][2])
  BY <1>1, <1>8 DEF at
<1>11. at(n) = <<past[n][1], BareItem(past[n][2])>> /\ \A i \in 1..n : bare[i] = <<past[i][1], BareItem(past[i][2])>>
  BY <1>5 DEF at
<1>12. BareItem(past[n][2]) = None <=> past[n][2] = None
  BY <1>10, BareItemThere
<1>13. QED
  BY <1>5, <1>7, <1>9, <1>10, <1>11, <1>12 DEF bare, n

\* Places are the same when they have the same in every position.
LEMMA SamePast ==
    ASSUME NEW a \in Pasts, NEW b \in Pasts, Len(a) = Len(b), \A i \in 1..Len(a) : a[i] = b[i]
    PROVE  a = b
<1> DEFINE E == Names \X (Items \cup {None})
<1>1. a \in Seq(E) /\ b \in Seq(E)
  BY PastIs
<1> HIDE DEF E
<1>2. QED
  BY <1>1

LEMMA BareAppend ==
    ASSUME NEW past \in Pasts, Last(past)[2] \in Dirs, NEW name \in Names, NEW item \in Items \cup {None}
    PROVE  Bare(Append(past, <<name, item>>)) = Append(Bare(past), <<name, BareItem(item)>>)
<1> DEFINE n == Len(past)
           there == Append(past, <<name, item>>)
           bare == Bare(past)
           x == BareItem(item)
           a == Bare(there)
           b == Append(bare, <<name, x>>)
<1>1. there \in Pasts /\ Len(there) = n + 1 /\ there[n + 1] = <<name, item>> /\ \A i \in 1..n : there[i] = past[i]
  BY ExtendPast
<1>2. bare \in Pasts /\ Len(bare) = n /\ \A i \in 1..n : bare[i] = <<past[i][1], BareItem(past[i][2])>>
  BY BarePast
<1>3. Last(bare)[2] \in Dirs
  BY BarePast, DirIs
<1>4. x \in Items \cup {None}
  BY BareItemThere
<1>5. a \in Pasts /\ Len(a) = n + 1 /\ \A i \in 1..(n + 1) : a[i] = <<there[i][1], BareItem(there[i][2])>>
  <2>1. /\ a \in Pasts /\ Len(a) = Len(there)
        /\ \A i \in 1..Len(there) : a[i] = <<there[i][1], BareItem(there[i][2])>>
    BY <1>1, BarePast
  <2> HIDE DEF there, a
  <2>2. QED
    BY <1>1, <2>1
<1>6. b \in Pasts /\ Len(b) = n + 1 /\ b[n + 1] = <<name, x>> /\ \A i \in 1..n : b[i] = bare[i]
  <2> HIDE DEF bare, x, n
  <2>1. /\ b \in Pasts /\ Len(b) = Len(bare) + 1 /\ b[Len(bare) + 1] = <<name, x>>
        /\ \A i \in 1..Len(bare) : b[i] = bare[i]
    BY <1>2, <1>3, <1>4, ExtendPast
  <2> HIDE DEF b
  <2>2. QED
    BY <1>2, <2>1
<1>7. n \in Nat
  BY PastIs
<1>8. there[n + 1][1] = name /\ BareItem(there[n + 1][2]) = x
  BY <1>1
<1> HIDE DEF n, there, bare, x, a, b
<1>9. ASSUME NEW i \in 1..(n + 1)
      PROVE  a[i] = b[i]
  <2>1. CASE i = n + 1
    BY <1>5, <1>6, <1>8, <2>1
  <2>2. CASE i # n + 1
    <3>1. i \in 1..n
      BY <1>7, <2>2
    <3>2. QED
      BY <1>1, <1>2, <1>5, <1>6, <3>1
  <2>3. QED
    BY <2>1, <2>2
<1>10. a = b
  BY <1>5, <1>6, <1>9, SamePast
<1>11. QED
  BY <1>10 DEF a, b, there, bare, x

LEMMA BareFront ==
    ASSUME NEW past \in Pasts, Len(past) > 1
    PROVE  Bare(Front(past)) = Front(Bare(past))
<1> DEFINE n == Len(past)
           front == Front(past)
           bare == Bare(past)
           a == Bare(front)
           b == Front(bare)
<1>1. front \in Pasts /\ Len(front) = n - 1 /\ \A i \in 1..(n - 1) : front[i] = past[i]
  BY FrontPast
<1>2. bare \in Pasts /\ Len(bare) = n /\ \A i \in 1..n : bare[i] = <<past[i][1], BareItem(past[i][2])>>
  BY BarePast
<1>3. a \in Pasts /\ Len(a) = Len(front) /\ \A i \in 1..Len(front) : a[i] = <<front[i][1], BareItem(front[i][2])>>
  <2> HIDE DEF front
  <2>1. QED
    BY <1>1, BarePast
<1>4. b \in Pasts /\ Len(b) = Len(bare) - 1 /\ \A i \in 1..(Len(bare) - 1) : b[i] = bare[i]
  <2> HIDE DEF bare, n
  <2>1. Len(bare) > 1
    BY <1>2 DEF n
  <2>2. QED
    BY <1>2, <2>1, FrontPast
<1>5. n \in Nat
  BY PastIs
<1> HIDE DEF n, front, bare, a, b
<1>6. Len(a) = n - 1 /\ Len(b) = n - 1 /\ \A i \in 1..(n - 1) : i \in 1..n
  BY <1>1, <1>2, <1>3, <1>4, <1>5
<1>7. \A i \in 1..(n - 1) : a[i] = b[i]
  BY <1>1, <1>2, <1>3, <1>4, <1>6
<1>8. a = b
  BY <1>3, <1>4, <1>6, <1>7, SamePast
<1>9. QED
  BY <1>8 DEF a, b, front, bare

LEMMA BareRoot == Bare(<<Root>>) = <<Root>>
<1> DEFINE a == Bare(<<Root>>)
<1>1. <<Root>> \in Pasts /\ Len(<<Root>>) = 1 /\ <<Root>>[1] = Root
  BY RootPast
<1>2. /\ a \in Pasts /\ Len(a) = Len(<<Root>>)
      /\ \A i \in 1..Len(<<Root>>) : a[i] = <<<<Root>>[i][1], BareItem(<<Root>>[i][2])>>
  BY <1>1, BarePast
<1>3. BareItem(RootItem) = RootItem
  BY ItemsHave, ItemFields, BareItemIs
<1> HIDE DEF a
<1>4. a[1] = <<Root[1], BareItem(Root[2])>>
  BY <1>1, <1>2
<1>5. Root[1] = Name("") /\ Root[2] = RootItem
  BY RootPast
<1>6. a[1] = Root
  BY <1>3, <1>4, <1>5 DEF Root
<1>7. QED
  BY <1>1, <1>2, <1>6, SamePast DEF a

\* The names of a place do not depend on metadata.
LEMMA BareNames == ASSUME NEW past \in Pasts PROVE NamesOf(Bare(past)) = NamesOf(past)
<1>1. Bare(past) \in Pasts /\ Len(Bare(past)) = Len(past)
      /\ \A i \in 1..Len(past) : Bare(past)[i] = <<past[i][1], BareItem(past[i][2])>>
  BY BarePast
<1>2. DOMAIN past = 1..Len(past) /\ DOMAIN Bare(past) = 1..Len(past)
  BY <1>1, PastIs
<1> DEFINE bare == Bare(past)
<1> HIDE DEF bare
<1>3. \A i \in 1..Len(past) : bare[i][1] = past[i][1]
  BY <1>1 DEF bare
<1>4. QED
  BY <1>2, <1>3 DEF NamesOf, bare

LEMMA ChainRoot == ASSUME NEW W PROVE Chain(W, <<Root>>)
<1>1. Len(<<Root>>) = 1 /\ <<Root>>[1] = Root
  OBVIOUS
<1>2. QED
  BY <1>1 DEF Chain

LEMMA ChainAppend ==
    ASSUME NEW W, NEW past \in Pasts, Last(past)[2] \in Dirs, Chain(W, past),
           NEW name \in Names, name # Name(".."), NEW item \in Items \cup {None},
           BareItem(item) \in Means(W, BareItem(Last(past)[2]), name)
    PROVE  Chain(W, Append(past, <<name, item>>))
<1> DEFINE n == Len(past)
           there == Append(past, <<name, item>>)
           x == Last(past)[2]
<1>1. there \in Pasts /\ Len(there) = n + 1 /\ there[n + 1] = <<name, item>> /\ \A i \in 1..n : there[i] = past[i]
  BY ExtendPast
<1>2. n \in Nat /\ n > 0 /\ x = past[n][2]
  BY PastIs
<1>3. there[n + 1][1] = name /\ there[n + 1][2] = item
  BY <1>1
<1>4. past[1] = Root /\ \A i \in 2..n : past[i][1] # Name("..")
                          /\ BareItem(past[i][2]) \in Means(W, BareItem(past[i - 1][2]), past[i][1])
  BY DEF Chain
<1>5. BareItem(item) \in Means(W, BareItem(x), name)
  OBVIOUS
<1> HIDE DEF n, there, x
<1>6. there[1] = Root
  BY <1>1, <1>2, <1>4
<1>7. ASSUME NEW i \in 2..(n + 1)
      PROVE  there[i][1] # Name("..") /\ BareItem(there[i][2]) \in Means(W, BareItem(there[i - 1][2]), there[i][1])
  <2>1. CASE i = n + 1
    <3>1. i - 1 = n /\ n \in 1..n
      BY <1>2, <2>1
    <3>2. there[i - 1][2] = x
      BY <1>1, <1>2, <3>1
    <3>3. QED
      BY <1>3, <1>5, <2>1, <3>2
  <2>2. CASE i # n + 1
    <3>1. i \in 2..n /\ i \in 1..n /\ i - 1 \in 1..n
      BY <1>2, <2>2
    <3>2. QED
      BY <1>1, <1>4, <3>1
  <2>3. QED
    BY <2>1, <2>2
<1>8. QED
  BY <1>1, <1>6, <1>7 DEF Chain, there

LEMMA ChainFront ==
    ASSUME NEW W, NEW past \in Pasts, Len(past) > 1, Chain(W, past)
    PROVE  Chain(W, Front(past))
<1> DEFINE n == Len(past)
           front == Front(past)
<1>1. Len(front) = n - 1 /\ \A i \in 1..(n - 1) : front[i] = past[i]
  BY FrontPast
<1>2. n \in Nat /\ n > 1
  BY PastIs
<1>3. past[1] = Root /\ \A i \in 2..n : past[i][1] # Name("..")
                          /\ BareItem(past[i][2]) \in Means(W, BareItem(past[i - 1][2]), past[i][1])
  BY DEF Chain
<1> HIDE DEF n, front
<1>4. 1 \in 1..(n - 1) /\ \A i \in 2..(n - 1) : i \in 2..n /\ i \in 1..(n - 1) /\ i - 1 \in 1..(n - 1)
  BY <1>2
<1>5. QED
  BY <1>1, <1>3, <1>4 DEF Chain, front

-----------------------------------------------------------------------------
(***************************************************************************)
(* What is right stays right while the refs move                           *)
(***************************************************************************)

LEMMA ChainMore ==
    ASSUME NEW W, NEW V, W \subseteq V, NEW past \in Pasts, Chain(W, past)
    PROVE  Chain(V, past)
<1> DEFINE n == Len(past)
<1>1. n \in Nat /\ \A i \in 1..(n - 1) : past[i][2] \in Dirs
  BY PastIs
<1>2. past[1] = Root /\ \A i \in 2..n : past[i][1] # Name("..")
                          /\ BareItem(past[i][2]) \in Means(W, BareItem(past[i - 1][2]), past[i][1])
  BY DEF Chain
<1> HIDE DEF n
<1>3. ASSUME NEW i \in 2..n
      PROVE  past[i][1] # Name("..") /\ BareItem(past[i][2]) \in Means(V, BareItem(past[i - 1][2]), past[i][1])
  <2> DEFINE x == BareItem(past[i - 1][2])
             name == past[i][1]
             item == BareItem(past[i][2])
  <2>1. i - 1 \in 1..(n - 1)
    BY <1>1
  <2>2. x \in Dirs
    BY <1>1, <2>1, DirIs
  <2>3. name # Name("..") /\ item \in Means(W, x, name)
    BY <1>2
  <2> HIDE DEF x, name, item
  <2>4. item \in Means(V, x, name)
    BY <2>2, <2>3, MeansMore
  <2>5. QED
    BY <2>3, <2>4 DEF x, name, item
<1>4. QED
  BY <1>2, <1>3 DEF Chain, n

LEMMA KeyDenotesIs == ASSUME NEW W, NEW key PROVE KeyDenotes(W, key) = Denotes(W, key[5], key[4], key[3])
  BY DEF KeyDenotes, Denotes

LEMMA KeyDenotesMore ==
    ASSUME NEW W, NEW V, W \subseteq V, Typed(W), NEW key \in Keys
    PROVE  KeyDenotes(W, key) \subseteq KeyDenotes(V, key)
<1>1. key[4] \in Seq(Names) /\ key[5] \in Paths
  BY KeyIs
<1> DEFINE path == key[5]
           names == key[4]
           f == key[3]
<1> HIDE DEF path, names, f
<1>2. Denotes(W, path, names, f) \subseteq Denotes(V, path, names, f)
  BY <1>1, DenotesMore DEF path, names
<1>3. QED
  BY <1>2, KeyDenotesIs DEF path, names, f

LEMMA MeaningMore ==
    ASSUME NEW W, NEW V, W \subseteq V, Typed(W), NEW ca, PlacesKept(ca), MeaningKept(W, ca)
    PROVE  MeaningKept(V, ca)
<1>1. ASSUME NEW key \in DOMAIN ca, key[1] = "res"
      PROVE  key \in Keys /\ Chain(V, ca[key]) /\ End("ok", Bare(ca[key])) \in KeyDenotes(V, key)
  <2>1. ca[key] \in Pasts /\ key \in Keys /\ Chain(W, ca[key]) /\ End("ok", Bare(ca[key])) \in KeyDenotes(W, key)
    BY <1>1 DEF PlacesKept, MeaningKept
  <2>2. QED
    BY <2>1, ChainMore, KeyDenotesMore
<1>2. QED
  BY <1>1 DEF MeaningKept

Origins == Pasts \cup {<<>>}

LEMMA HeldIs ==
    ASSUME NEW W, NEW req, NEW parent, NEW held
    PROVE  HeldRight(W, req, parent, held) <=>
             /\ req.try /\ Chain(W, held) /\ AtLink(End("ok", Bare(held)))
             /\ End("ok", Bare(held)) \in Denotes(W, req.path, NamesOf(parent), FALSE)
  BY DEF HeldRight, Denotes

LEMMA HeldMore ==
    ASSUME NEW W, NEW V, W \subseteq V, Typed(W), NEW req \in Requests, NEW parent \in Origins, NEW held \in Pasts,
           HeldRight(W, req, parent, held)
    PROVE  HeldRight(V, req, parent, held)
<1>1. req.path \in Paths /\ NamesOf(parent) \in Seq(Names)
  BY RequestPath, NamesOfPast DEF Paths, Origins
<1>2. Denotes(W, req.path, NamesOf(parent), FALSE) \subseteq Denotes(V, req.path, NamesOf(parent), FALSE)
  BY <1>1, DenotesMore
<1>3. Chain(W, held) => Chain(V, held)
  BY ChainMore
<1>4. QED
  BY <1>2, <1>3, HeldIs

\* Where a job has come or may come along the way that its key means.
Reaches(W, j, c) ==
    \E q \in Parents(W, j.key[4]) : IsDir(Last(q)[2]) /\ OnWay(W, StartOf(j.key[5], q), c, j.follow)
JobAt(j) == At(Bare(j.past), j.future, j.hops)

LEMMA BusyRightIs ==
    ASSUME NEW W, NEW j
    PROVE  BusyRight(W, j) <=>
             /\ KeyRight(W, j) /\ Chain(W, j.past) /\ Reaches(W, j, JobAt(j))
             /\ j.mustBeDir = Decompose(j.key[5]).mustBeDir
             /\ j.follow = (j.key[3] \/ Decompose(j.key[5]).mustBeDir)
  BY DEF BusyRight, Reaches, JobAt, StartOf

LEMMA KeyRightMore ==
    ASSUME NEW W, NEW V, W \subseteq V, Typed(W), NEW j \in Jobs, KeyRight(W, j)
    PROVE  KeyRight(V, j)
<1>1. j.req \in Requests /\ j.parent \in Origins /\ j.held \in Origins
  BY DEF Jobs, Origins
<1>2. CASE j.held = <<>>
  BY <1>2 DEF KeyRight
<1>3. CASE j.held # <<>>
  <2>1. j.held \in Pasts /\ HeldRight(W, j.req, j.parent, j.held)
    BY <1>1, <1>3 DEF KeyRight, Origins
  <2>2. HeldRight(V, j.req, j.parent, j.held)
    BY <1>1, <2>1, HeldMore
  <2>3. QED
    BY <1>3, <2>2 DEF KeyRight
<1>4. QED
  BY <1>2, <1>3

LEMMA BusyMore ==
    ASSUME NEW W, NEW V, W \subseteq V, Typed(W), NEW j \in Jobs, BusyRight(W, j)
    PROVE  BusyRight(V, j)
<1> DEFINE path == j.key[5]
           names == j.key[4]
           c == JobAt(j)
<1>1. j.past \in Pasts /\ path \in Paths /\ names \in Seq(Names)
  BY KeyIs DEF Jobs
<1>2. KeyRight(V, j) /\ Chain(V, j.past)
  BY <1>1, KeyRightMore, ChainMore, BusyRightIs
<1>3. Reaches(W, j, JobAt(j))
  BY BusyRightIs
<1>4. PICK q \in Parents(W, names) : IsDir(Last(q)[2]) /\ OnWay(W, StartOf(path, q), c, j.follow)
  BY <1>3 DEF Reaches
<1> HIDE DEF path, names, c
<1>5. Place(q) /\ q \in Parents(V, names)
  BY <1>1, ParentsArePlaces, ParentsMore
<1>6. IsAt(StartOf(path, q))
  BY <1>1, <1>4, <1>5, StartIs
<1>7. OnWay(V, StartOf(path, q), c, j.follow)
  BY <1>4, <1>6, OnWayMore
<1>8. Reaches(V, j, JobAt(j))
  BY <1>4, <1>5, <1>7 DEF Reaches, path, names, c
<1>9. QED
  BY <1>2, <1>8, BusyRightIs

\* What try_resolve finds where it has found a link.
Again(W, e) == Denotes(W, <<Last(e.past)[1]>>, NamesOf(Front(e.past)), TRUE)

LEMMA TriedIs ==
    ASSUME NEW W, NEW path, NEW names
    PROVE  Tried(W, path, names) =
             UNION {IF ~AtLink(e) THEN {e} ELSE {IF Dangling(x) THEN e ELSE x : x \in Again(W, e)} :
                      e \in Denotes(W, path, names, FALSE)}
  BY DEF Tried, Again, Denotes

LEMMA LeafPath ==
    ASSUME NEW past \in Pasts
    PROVE  <<Last(past)[1]>> \in Paths /\ Front(past) \in Origins /\ NamesOf(Front(past)) \in Seq(Names)
<1>1. Last(past)[1] \in Names /\ Len(past) \in Nat /\ Len(past) > 0
  BY PastIs
<1>2. Front(past) \in Origins
  <2>1. CASE Len(past) > 1
    BY <2>1, FrontPast DEF Origins
  <2>2. CASE ~(Len(past) > 1)
    <3> DEFINE n == Len(past)
    <3>1. n \in Nat /\ n > 0 /\ ~(n > 1)
      BY <1>1, <2>2
    <3> HIDE DEF n
    <3>2. n = 1
      BY <3>1
    <3>3. QED
      BY <3>2, FrontOfOne DEF n, Origins
  <2>3. QED
    BY <2>1, <2>2
<1> DEFINE name == Last(past)[1]
<1> HIDE DEF name
<1>3. <<name>> \in Seq(Names) /\ <<name>> # <<>>
  BY <1>1 DEF name
<1>4. QED
  BY <1>2, <1>3, NamesOfPast DEF name, Paths, Origins

LEMMA TriedMore ==
    ASSUME NEW W, NEW V, W \subseteq V, Typed(W), NEW path \in Paths, NEW names \in Seq(Names)
    PROVE  Tried(W, path, names) \subseteq Tried(V, path, names)
<1> DEFINE A == Denotes(W, path, names, FALSE)
           B == Denotes(V, path, names, FALSE)
<1>1. A \subseteq B
  BY DenotesMore
<1>2. ASSUME NEW e \in A
      PROVE  Again(W, e) \subseteq Again(V, e)
  <2>1. IsEnd(e)
    BY DenotesEnds
  <2> DEFINE past == e.past
             leaf == <<Last(past)[1]>>
             front == NamesOf(Front(past))
  <2>2. past \in Pasts
    BY <2>1 DEF IsEnd
  <2>3. leaf \in Paths /\ front \in Seq(Names)
    BY <2>2, LeafPath
  <2>4. Again(W, e) = Denotes(W, leaf, front, TRUE) /\ Again(V, e) = Denotes(V, leaf, front, TRUE)
    BY DEF Again
  <2> HIDE DEF leaf, front
  <2>5. Denotes(W, leaf, front, TRUE) \subseteq Denotes(V, leaf, front, TRUE)
    BY <2>3, DenotesMore
  <2>6. QED
    BY <2>4, <2>5
<1> HIDE DEF A, B
<1> DEFINE F(Z, e) == IF ~AtLink(e) THEN {e} ELSE {IF Dangling(x) THEN e ELSE x : x \in Again(Z, e)}
<1>3. Tried(W, path, names) = UNION {F(W, e) : e \in A} /\ Tried(V, path, names) = UNION {F(V, e) : e \in B}
  BY TriedIs DEF A, B
<1>4. \A e \in A : F(W, e) \subseteq F(V, e)
  BY <1>2
<1> HIDE DEF F
<1>5. QED
  BY <1>1, <1>3, <1>4

LEMMA AnswerRightIs ==
    ASSUME NEW W, NEW a
    PROVE  AnswerRight(W, a) <=>
             /\ a.is = "ok" => Chain(W, a.past)
             /\ a.req.try => End(a.is, Bare(a.past)) \in Tried(W, a.req.path, NamesOf(a.parent))
             /\ ~a.req.try => End(a.is, Bare(a.past)) \in Denotes(W, a.req.path, NamesOf(a.parent), a.req.follow)
  BY DEF AnswerRight, Denotes

LEMMA AnswerMore ==
    ASSUME NEW W, NEW V, W \subseteq V, Typed(W), NEW a, IsAnswer(a), AnswerRight(W, a)
    PROVE  AnswerRight(V, a)
<1> DEFINE path == a.req.path
           names == NamesOf(a.parent)
           f == a.req.follow
           e == End(a.is, Bare(a.past))
<1>1. path \in Paths /\ names \in Seq(Names) /\ a.past \in Pasts
  BY RequestPath, NamesOfPast DEF IsAnswer, Paths
<1>2. a.is = "ok" => Chain(V, a.past)
  BY <1>1, ChainMore, AnswerRightIs
<1>3. (a.req.try => e \in Tried(W, path, names)) /\ (~a.req.try => e \in Denotes(W, path, names, f))
  BY AnswerRightIs
<1> HIDE DEF path, names, f, e
<1>4. (a.req.try => e \in Tried(V, path, names)) /\ (~a.req.try => e \in Denotes(V, path, names, f))
  BY <1>1, <1>3, TriedMore, DenotesMore
<1>5. QED
  BY <1>2, <1>4, AnswerRightIs DEF path, names, f, e

-----------------------------------------------------------------------------
(***************************************************************************)
(* The names of a place lead to it                                         *)
(***************************************************************************)

\* The first k of a place's names, and those after them.
LEMMA FirstOf ==
    ASSUME NEW past \in Pasts, NEW k \in 1..Len(past)
    PROVE  LET first == SubSeq(past, 1, k)
           IN /\ first \in Pasts /\ Len(first) = k /\ \A i \in 1..k : first[i] = past[i]
              /\ Last(first) = past[k]
<1> DEFINE E == Names \X (Items \cup {None})
           first == SubSeq(past, 1, k)
<1>1. past \in Seq(E) /\ Len(past) \in Nat /\ \A i \in 1..(Len(past) - 1) : past[i][2] \in Dirs
  BY PastIs
<1> HIDE DEF E
<1>2. first \in Seq(E) /\ Len(first) = k /\ \A i \in 1..k : first[i] = past[i]
  BY <1>1
<1> HIDE DEF first
<1>3. first # <<>> /\ \A i \in 1..(Len(first) - 1) : first[i][2] \in Dirs
  BY <1>1, <1>2
<1>4. first \in Pasts
  BY <1>2, <1>3 DEF Pasts, E
<1>5. Last(first) = past[k]
  BY <1>2 DEF Last
<1>6. QED
  BY <1>2, <1>4, <1>5 DEF first

LEMMA NextOf ==
    ASSUME NEW past \in Pasts, NEW k \in 1..(Len(past) - 1)
    PROVE  /\ SubSeq(past, 1, k + 1) = Append(SubSeq(past, 1, k), past[k + 1])
           /\ past[k + 1] = <<past[k + 1][1], past[k + 1][2]>>
<1> DEFINE E == Names \X (Items \cup {None})
<1>1. past \in Seq(E) /\ Len(past) \in Nat
  BY PastIs
<1>2. past[k + 1] \in E
  <2> HIDE DEF E
  <2>1. QED
    BY <1>1
<1>3. past[k + 1] = <<past[k + 1][1], past[k + 1][2]>>
  BY <1>2
<1> HIDE DEF E
<1>4. SubSeq(past, 1, k + 1) = Append(SubSeq(past, 1, k), past[k + 1])
  BY <1>1
<1>5. QED
  BY <1>3, <1>4

LEMMA RestOfNames ==
    ASSUME NEW names \in Seq(Names), NEW k \in 1..(Len(names) - 1)
    PROVE  LET rest == SubSeq(names, k + 1, Len(names))
           IN /\ rest \in Seq(Names) /\ rest # <<>> /\ Head(rest) = names[k + 1]
              /\ Tail(rest) = SubSeq(names, k + 2, Len(names)) /\ Len(rest) = Len(names) - k
              /\ (Tail(rest) # <<>> <=> k + 1 < Len(names))
<1> DEFINE n == Len(names)
           rest == SubSeq(names, k + 1, n)
<1>1. n \in Nat /\ rest \in Seq(Names) /\ Len(rest) = n - k /\ \A i \in 1..(n - k) : rest[i] = names[k + i]
  OBVIOUS
<1>2. Head(rest) = names[k + 1] /\ rest # <<>>
  <2>1. 1 \in 1..(n - k) /\ n - k > 0 /\ k \in Nat
    BY <1>1
  <2> HIDE DEF rest, n
  <2>2. rest # <<>> /\ Head(rest) = rest[1]
    BY <1>1, <2>1
  <2>3. QED
    BY <1>1, <2>1, <2>2
<1>3. Tail(rest) = SubSeq(names, k + 2, n)
  OBVIOUS
<1>4. Tail(rest) # <<>> <=> k + 1 < n
  <2> DEFINE m == n - k
  <2> HIDE DEF rest, n
  <2>0. m \in Nat /\ (k + 1 < n <=> m - 1 # 0)
    <3>1. k \in 1..(n - 1) /\ n \in Nat
      BY <1>1 DEF n
    <3>2. QED
      BY <3>1
  <2>4. rest \in Seq(Names) /\ Len(rest) = m /\ rest # <<>>
    BY <1>1, <1>2
  <2> HIDE DEF m
  <2>1. Len(Tail(rest)) = m - 1 /\ Tail(rest) \in Seq(Names)
    BY <2>0, <2>4
  <2>2. \A t \in Seq(Names) : t # <<>> <=> Len(t) # 0
    OBVIOUS
  <2>3. QED
    BY <2>0, <2>1, <2>2
<1>5. QED
  BY <1>1, <1>2, <1>3, <1>4

\* A place that its names have led to at some time is among those they lead to.
LEMMA ChainParents ==
    ASSUME NEW W, Typed(W), NEW past, Place(past), Chain(W, past)
    PROVE  Bare(past) \in Parents(W, NamesOf(past))
<1> DEFINE n == Len(past)
           names == NamesOf(past)
           p == StartOfNames(names)
           first(k) == SubSeq(past, 1, k)
           rest(k) == SubSeq(names, k + 1, n)
           c(k) == At(Bare(first(k)), rest(k), 0)
           Reached(k) == OnWay(W, p, c(k), FALSE)
           T == {k \in 0..n : k > 0 => Reached(k)}
<1>1. /\ past \in Pasts /\ Last(past)[2] # None /\ Last(past) = past[n] /\ n \in Nat /\ n > 0
      /\ \A i \in 1..n : past[i][1] \in Names /\ past[i][2] \in Items \cup {None}
      /\ \A i \in 1..(n - 1) : past[i][2] \in Dirs
  BY PastIs DEF Place, IsThere
<1>2. names \in Seq(Names) /\ Len(names) = n /\ (\A i \in 1..n : names[i] = past[i][1]) /\ names # <<>>
  BY <1>1, NamesOfPast
<1>3. past[1] = Root /\ \A i \in 2..n : past[i][1] # Name("..")
                          /\ BareItem(past[i][2]) \in Means(W, BareItem(past[i - 1][2]), past[i][1])
  BY DEF Chain
<1>4. \A k \in 1..n : first(k) \in Pasts /\ Len(first(k)) = k /\ Last(first(k)) = past[k]
  BY <1>1, FirstOf
<1>5. \A k \in 1..(n - 1) : /\ rest(k) \in Seq(Names) /\ rest(k) # <<>> /\ Head(rest(k)) = names[k + 1]
                            /\ Tail(rest(k)) = rest(k + 1) /\ (rest(k + 1) # <<>> <=> k + 1 < n)
  <2>1. \A k \in 1..(n - 1) : (k + 1) + 1 = k + 2
    BY <1>1
  <2>2. ASSUME NEW k \in 1..(n - 1)
        PROVE  /\ rest(k) \in Seq(Names) /\ rest(k) # <<>> /\ Head(rest(k)) = names[k + 1]
               /\ Tail(rest(k)) = SubSeq(names, k + 2, n) /\ (Tail(rest(k)) # <<>> <=> k + 1 < n)
    <3> HIDE DEF names
    <3>1. k \in 1..(Len(names) - 1)
      BY <1>2
    <3>2. QED
      BY <1>2, <3>1, RestOfNames
  <2> HIDE DEF names, n
  <2>3. QED
    BY <2>1, <2>2
<1>6. rest(n) = <<>>
  <2> HIDE DEF names, n
  <2>1. QED
    BY <1>1, <1>2
<1>7. IsAt(p)
  BY <1>2, NamesStart
<1>8. \A k \in 1..n : /\ Bare(first(k)) \in Pasts /\ Last(Bare(first(k)))[2] = BareItem(past[k][2])
                      /\ (past[k][2] # None => IsThere(Bare(first(k))))
                      /\ (past[k][2] \in Dirs => Last(Bare(first(k)))[2] \in Dirs)
  <2>1. ASSUME NEW k \in 1..n
        PROVE  /\ Bare(first(k)) \in Pasts /\ Last(Bare(first(k)))[2] = BareItem(past[k][2])
               /\ (past[k][2] # None => IsThere(Bare(first(k))))
               /\ (past[k][2] \in Dirs => Last(Bare(first(k)))[2] \in Dirs)
    <3>1. first(k) \in Pasts /\ Last(first(k)) = past[k]
      BY <1>4
    <3> HIDE DEF first
    <3>2. /\ Bare(first(k)) \in Pasts /\ Last(Bare(first(k)))[2] = BareItem(past[k][2])
          /\ (Last(Bare(first(k)))[2] = None <=> past[k][2] = None)
      BY <3>1, BarePast
    <3>3. QED
      BY <3>2, DirIs DEF IsThere
  <2> HIDE DEF first, n
  <2>2. QED
    BY <2>1
<1>9. \A k \in 1..n : past[k][2] # None
  <2>1. \A k \in 1..n : k = n \/ k \in 1..(n - 1)
    BY <1>1
  <2>2. QED
    BY <1>1, <2>1, NoneIsNone DEF Dirs
<1> HIDE DEF n, names, first, rest
<1>10. \A k \in 1..n : IsAt(c(k)) /\ c(k).past = Bare(first(k)) /\ c(k).future = rest(k) /\ c(k).hops = 0
  <2>1. ASSUME NEW k \in 1..n
        PROVE  IsAt(c(k)) /\ c(k).past = Bare(first(k)) /\ c(k).future = rest(k) /\ c(k).hops = 0
    <3> DEFINE a == Bare(first(k))
               b == rest(k)
    <3>1. a \in Pasts /\ IsThere(a)
      BY <1>8, <1>9
    <3>2. b \in Seq(Names) /\ (b # <<>> => Last(a)[2] \in Dirs)
      <4>1. CASE k = n
        BY <1>6, <4>1
      <4>2. CASE k # n
        <5>1. k \in 1..(n - 1)
          BY <1>1, <4>2
        <5>2. QED
          BY <1>1, <1>5, <1>8, <5>1
      <4>3. QED
        BY <4>1, <4>2
    <3>3. 0 \in 0..(MaxHops + 1)
      BY VfsParameters
    <3> HIDE DEF a, b
    <3>4. LET x == At(a, b, 0) IN IsAt(x) /\ x.past = a /\ x.future = b /\ x.hops = 0
      BY <3>1, <3>2, <3>3, AtIs
    <3>5. QED
      BY <3>4 DEF a, b
  <2>2. QED
    BY <2>1
<1>11. c(1) = p
  <2>1. first(1) = <<Root>>
    <3>0. 1 \in 1..n
      BY <1>1
    <3>1. first(1) \in Pasts /\ Len(first(1)) = 1 /\ Last(first(1)) = Root
      BY <1>3, <1>4, <3>0
    <3>2. first(1)[1] = Root
      BY <3>1, PastIs
    <3>3. <<Root>> \in Pasts /\ Len(<<Root>>) = 1 /\ <<Root>>[1] = Root
      BY RootPast
    <3>4. QED
      BY <3>1, <3>2, <3>3, SamePast
  <2>2. rest(1) = Tail(names)
    BY <1>1, <1>2 DEF rest
  <2>3. QED
    BY <2>1, <2>2, BareRoot DEF StartOfNames
<1> HIDE DEF c, p, Reached
<1>12. 0 \in T
  BY <1>1
<1>13. ASSUME NEW k \in 0..n, k \in T, k < n
       PROVE  k + 1 \in T
  <2>1. CASE k = 0
    <3>1. k + 1 = 1 /\ 1 \in 0..n
      BY <1>1, <2>1
    <3>2. Reached(1)
      BY <1>7, <1>11, OnWayStart DEF Reached
    <3>3. 1 \in T
      BY <3>1, <3>2
    <3> HIDE DEF T
    <3>4. QED
      BY <3>1, <3>3
  <2>2. CASE k # 0
    <3>1. k \in 1..(n - 1) /\ k \in 1..n /\ k + 1 \in 1..n /\ k + 1 \in 2..n /\ (k + 1) - 1 = k /\ k + 1 \in 0..n
      BY <1>1, <1>13, <2>2
    <3> DEFINE a == Bare(first(k))
               x == BareItem(past[k][2])
               name == past[k + 1][1]
               item == BareItem(past[k + 1][2])
    <3>0. Reached(k)
      BY <1>13, <3>1
    <3>2. OnWay(W, p, c(k), FALSE) /\ IsAt(c(k)) /\ c(k).past = a /\ c(k).future = rest(k) /\ c(k).hops = 0
      BY <1>10, <3>0, <3>1 DEF Reached
    <3>3. /\ rest(k) # <<>> /\ Head(rest(k)) = name /\ Tail(rest(k)) = rest(k + 1)
          /\ (rest(k + 1) # <<>> <=> k + 1 < n)
      BY <1>2, <1>5, <3>1
    <3>4. name # Name("..") /\ item \in Means(W, x, name)
      BY <1>3, <3>1
    <3>5. past[k + 1][2] \in Items /\ item \in Items /\ item # None
      BY <1>1, <1>9, <3>1, BareItemThere
    <3>6. rest(k + 1) # <<>> => IsDir(item)
      <4>1. SUFFICES ASSUME k + 1 < n
                     PROVE  IsDir(item)
        BY <3>3
      <4>2. k + 1 \in 1..(n - 1)
        BY <1>1, <3>1, <4>1
      <4>3. QED
        BY <1>1, <4>2, DirIs DEF Dirs
    <3>7. c(k + 1) = At(Append(a, <<name, item>>), rest(k + 1), 0)
      <4>1. first(k + 1) = Append(first(k), <<name, past[k + 1][2]>>)
        <5>1. first(k + 1) = Append(first(k), past[k + 1]) /\ past[k + 1] = <<name, past[k + 1][2]>>
          BY <1>1, <3>1, NextOf DEF first, n
        <5> DEFINE y == past[k + 1][2]
        <5> HIDE DEF name, y
        <5>2. QED
          BY <5>1 DEF y
      <4>2. first(k) \in Pasts /\ Last(first(k))[2] \in Dirs /\ name \in Names
        BY <1>1, <1>4, <3>1
      <4>3. Bare(first(k + 1)) = Append(a, <<name, item>>)
        <5> DEFINE f == first(k)
                   y == past[k + 1][2]
        <5> HIDE DEF f, y, name
        <5>1. f \in Pasts /\ Last(f)[2] \in Dirs /\ name \in Names /\ y \in Items \cup {None}
          BY <3>5, <4>2 DEF f, y
        <5>2. Bare(Append(f, <<name, y>>)) = Append(Bare(f), <<name, BareItem(y)>>)
          BY <5>1, BareAppend
        <5>3. QED
          BY <4>1, <5>2 DEF f, y
      <4>4. QED
        BY <4>3 DEF c
    <3>8. Last(a)[2] = x
      BY <1>8, <3>1
    <3> HIDE DEF a, x, name, item
    <3>9. c(k + 1) = Through(c(k), item, FALSE)
      <4> DEFINE d == c(k)
                 q == Through(d, item, FALSE)
                 there == Append(d.past, <<Head(d.future), item>>)
      <4>1. Head(d.future) = name /\ Tail(d.future) = rest(k + 1) /\ there = Append(a, <<name, item>>) /\ d.hops = 0
        BY <3>2, <3>3
      <4>2. IsDir(item) => ~IsLink(item)
        BY DEF IsDir
      <4> HIDE DEF d, there
      <4>3. ~(IsLink(item) /\ (FALSE \/ Tail(d.future) # <<>>)) /\ (IsDir(item) \/ Tail(d.future) = <<>>)
        BY <3>6, <4>1, <4>2
      <4>4. q = At(there, Tail(d.future), d.hops)
        BY <3>5, <4>3, ThroughIs DEF there
      <4>5. QED
        BY <3>7, <4>1, <4>4 DEF d
    <3>10. c(k + 1) \in Onward(W, c(k), FALSE)
      <4> DEFINE d == c(k)
      <4> HIDE DEF d
      <4>1. /\ IsAt(d) /\ d.future # <<>> /\ Head(d.future) # Name("..") /\ item \in Means(W, Last(d.past)[2], Head(d.future))
        BY <3>2, <3>3, <3>4, <3>8 DEF d
      <4>2. Onward(W, d, FALSE) = {Through(d, i, FALSE) : i \in Means(W, Last(d.past)[2], Head(d.future))}
        BY <4>1, OnwardIs
      <4>3. Through(d, item, FALSE) \in Onward(W, d, FALSE)
        BY <4>1, <4>2
      <4>4. QED
        BY <3>9, <4>3 DEF d
    <3>11. Reached(k + 1)
      BY <1>7, <3>2, <3>10, OnWayOn DEF Reached
    <3>12. QED
      BY <3>1, <3>11
  <2>3. QED
    BY <2>1, <2>2
<1>14. OnWay(W, p, c(n), FALSE)
  <2>1. 0..n \subseteq T
    <3> HIDE DEF T
    <3>1. QED
      BY <1>1, <1>12, <1>13, UpTo
  <2>2. n \in 0..n
    BY <1>1
  <2>3. QED
    BY <1>1, <2>1, <2>2 DEF Reached
<1>15. first(n) = past
  <2>1. first(n) \in Pasts /\ Len(first(n)) = n /\ (\A i \in 1..n : first(n)[i] = past[i])
    BY <1>1, FirstOf DEF first, n
  <2>2. QED
    BY <1>1, <2>1, SamePast DEF n
<1> DEFINE e == End("ok", Bare(past))
<1>16. n \in 1..n
  BY <1>1
<1>17. IsAt(c(n)) /\ c(n).past = Bare(past) /\ c(n).future = <<>>
  BY <1>6, <1>10, <1>15, <1>16
<1>18. e \in Onward(W, c(n), FALSE)
  <2> DEFINE d == c(n)
  <2> HIDE DEF d
  <2>1. IsAt(d) /\ d.future = <<>> /\ d.past = Bare(past)
    BY <1>17 DEF d
  <2>2. Onward(W, d, FALSE) = {End("ok", d.past)}
    BY <2>1, OnwardIs
  <2>3. QED
    BY <2>1, <2>2 DEF d
<1>19. Bare(past) \in Pasts /\ Last(Bare(past))[2] # None
  BY <1>1, BarePast
<1>20. IsEnd(e) /\ e.is = "ok" /\ e.past = Bare(past)
  BY <1>19, EndIs
<1>21. ~Dangling(e)
  BY <1>19, <1>20 DEF Dangling
<1> HIDE DEF e
<1>22. OnWay(W, p, e, FALSE)
  BY <1>7, <1>14, <1>17, <1>18, OnWayOn
<1>23. e \in Leads(W, p, FALSE)
  BY <1>7, <1>20, <1>22, OnWayEnd
<1>24. Parents(W, names) = {x.past : x \in {y \in Leads(W, p, FALSE) : y.is = "ok" /\ ~Dangling(y)}}
  BY <1>2, ParentsIs DEF p
<1>25. e.past \in Parents(W, names)
  BY <1>20, <1>21, <1>23, <1>24
<1>26. QED
  BY <1>20, <1>25 DEF names

-----------------------------------------------------------------------------
(***************************************************************************)
(* The end of a resolution                                                 *)
(***************************************************************************)

\* A request with another way to treat its links, and another path.
LEMMA AskedAs ==
    ASSUME NEW req \in Requests, NEW follow \in BOOLEAN, NEW path
    PROVE  LET a == [req EXCEPT !.follow = follow]
               b == [req EXCEPT !.follow = follow, !.path = path]
           IN /\ a.meta = req.meta /\ a.follow = follow /\ a.path = req.path
              /\ b.meta = req.meta /\ b.follow = follow /\ b.path = path
              /\ req.meta \in BOOLEAN /\ req.try \in BOOLEAN /\ req.follow \in BOOLEAN
<1> DEFINE rp == req.path
<1>1. req \in [path : {rp}, meta : BOOLEAN, follow : BOOLEAN, try : BOOLEAN, relative : BOOLEAN]
  BY RequestPath
<1> HIDE DEF rp
<1>2. req.path = rp /\ req.meta \in BOOLEAN /\ req.try \in BOOLEAN /\ req.follow \in BOOLEAN
  BY <1>1
<1>3. LET a == [req EXCEPT !.follow = follow]
      IN a.meta = req.meta /\ a.follow = follow /\ a.path = req.path
  BY <1>1
<1>4. LET b == [req EXCEPT !.follow = follow, !.path = path]
      IN b.meta = req.meta /\ b.follow = follow /\ b.path = path
  BY <1>1
<1>5. QED
  BY <1>2, <1>3, <1>4

\* The key of what is asked first, and of what try_resolve asks again.
FirstKey(req, parent) == Res([req EXCEPT !.follow = @ /\ ~req.try], parent)
AgainKey(req, held) == Res([req EXCEPT !.follow = TRUE, !.path = <<Last(held)[1]>>], Front(held))

LEMMA FirstKeyIs ==
    ASSUME NEW req \in Requests, NEW parent
    PROVE  LET key == FirstKey(req, parent)
               f == req.follow /\ ~req.try
           IN /\ key = <<"res", req.meta, f, NamesOf(parent), req.path>>
              /\ key = Res([req EXCEPT !.follow = f, !.path = req.path], parent)
              /\ key[3] = f /\ key[4] = NamesOf(parent) /\ key[5] = req.path
<1> DEFINE f == req.follow /\ ~req.try
           a == [req EXCEPT !.follow = f]
           b == [req EXCEPT !.follow = f, !.path = req.path]
           names == NamesOf(parent)
           path == req.path
           meta == req.meta
<1>1. f \in BOOLEAN
  OBVIOUS
<1>2. FirstKey(req, parent) = Res(a, parent)
  BY DEF FirstKey
<1> HIDE DEF f
<1>3. a.meta = meta /\ a.follow = f /\ a.path = path /\ b.meta = meta /\ b.follow = f /\ b.path = path
  BY <1>1, AskedAs
<1> HIDE DEF a, b
<1>4. Res(a, parent) = <<"res", meta, f, names, path>> /\ Res(b, parent) = <<"res", meta, f, names, path>>
  BY <1>3 DEF Res
<1> HIDE DEF names, path, meta
<1> DEFINE key == <<"res", meta, f, names, path>>
<1>5. key[3] = f /\ key[4] = names /\ key[5] = path
  OBVIOUS
<1> HIDE DEF key
<1>6. QED
  BY <1>2, <1>4, <1>5 DEF key, b, f, names, path, meta

LEMMA AgainKeyIs ==
    ASSUME NEW req \in Requests, NEW held
    PROVE  LET key == AgainKey(req, held)
           IN key[3] = TRUE /\ key[4] = NamesOf(Front(held)) /\ key[5] = <<Last(held)[1]>>
<1> DEFINE path == <<Last(held)[1]>>
           b == [req EXCEPT !.follow = TRUE, !.path = path]
           names == NamesOf(Front(held))
<1>1. AgainKey(req, held) = Res(b, Front(held))
  BY DEF AgainKey
<1> HIDE DEF path
<1>2. b.follow = TRUE /\ b.path = path
  BY AskedAs
<1> DEFINE meta == b.meta
<1> HIDE DEF b, meta
<1>3. Res(b, Front(held)) = <<"res", meta, TRUE, names, path>>
  BY <1>2 DEF Res, meta
<1> HIDE DEF names
<1>4. LET key == <<"res", meta, TRUE, names, path>> IN key[3] = TRUE /\ key[4] = names /\ key[5] = path
  OBVIOUS
<1>5. QED
  BY <1>1, <1>3, <1>4 DEF names, path

LEMMA KeyRightIs ==
    ASSUME NEW W, NEW j
    PROVE  /\ j.held = <<>> => (KeyRight(W, j) <=> j.key = FirstKey(j.req, j.parent))
           /\ j.held # <<>> =>
                (KeyRight(W, j) <=> j.key = AgainKey(j.req, j.held) /\ HeldRight(W, j.req, j.parent, j.held))
  BY DEF KeyRight, FirstKey, AgainKey

\* An end is dangling, or at a link, whatever metadata it has.
LEMMA BareEnd ==
    ASSUME NEW is, NEW past \in Pasts
    PROVE  LET e == End(is, Bare(past))
           IN /\ e.is = is /\ e.past = Bare(past)
              /\ Dangling(e) <=> is = "ok" /\ Last(past)[2] = None
              /\ AtLink(e) <=> is = "ok" /\ Last(past)[2] # None /\ IsLink(Last(past)[2])
<1> DEFINE e == End(is, Bare(past))
           x == Last(past)[2]
<1>1. e.is = is /\ e.past = Bare(past)
  BY DEF End
<1>2. Last(Bare(past))[2] = BareItem(x) /\ (BareItem(x) = None <=> x = None) /\ x \in Items \cup {None}
  <2>1. Last(Bare(past))[2] = BareItem(x) /\ x \in Items \cup {None}
    BY BarePast, PastIs
  <2>2. QED
    BY <2>1, BareItemThere
<1>3. x # None => IsLink(BareItem(x)) = IsLink(x)
  BY <1>2, BareKeepsKind
<1> HIDE DEF e, x
<1>4. Dangling(e) <=> is = "ok" /\ x = None
  BY <1>1, <1>2 DEF Dangling
<1>5. AtLink(e) <=> is = "ok" /\ x # None /\ IsLink(BareItem(x))
  BY <1>1, <1>2 DEF AtLink
<1>6. QED
  BY <1>1, <1>3, <1>4, <1>5 DEF e, x

\* What is right of the cache, the job and the answer.
RightIn(W, ca, j, a) ==
    /\ MeaningKept(W, ca)
    /\ j.is = "again" => HeldRight(W, j.req, j.parent, j.held)
    /\ j.is = "busy" => BusyRight(W, j)
    /\ a.is # "none" => AnswerRight(W, a)

LEMMA RightIs == Right <=> (met = {} => RightIn(were, cache, job, answer))
  BY DEF Right, RightIn

\* What is asked first is told as it was found; if try_resolve finds a link
\* it is held.
LEMMA FirstAnswer ==
    ASSUME NEW W, NEW j \in Jobs, KeyRight(W, j), j.held = <<>>,
           NEW is, NEW past \in Pasts,
           End(is, Bare(past)) \in KeyDenotes(W, j.key), is = "ok" => Chain(W, past)
    PROVE  LET link == AtLink(End(is, Bare(past)))
           IN /\ j.req.try /\ link => HeldRight(W, j.req, j.parent, past)
              /\ ~(j.req.try /\ link) =>
                   AnswerRight(W, [is |-> is, req |-> j.req, parent |-> j.parent, past |-> past])
<1> DEFINE req == j.req
           parent == j.parent
           path == req.path
           names == NamesOf(parent)
           f == req.follow /\ ~req.try
           e == End(is, Bare(past))
           a == [is |-> is, req |-> req, parent |-> parent, past |-> past]
<1>1. req \in Requests
  BY DEF Jobs
<1>2. j.key = FirstKey(req, parent)
  BY KeyRightIs
<1>3. j.key[3] = f /\ j.key[4] = names /\ j.key[5] = path
  <2> HIDE DEF req, parent
  <2>1. LET key == FirstKey(req, parent) IN key[3] = f /\ key[4] = names /\ key[5] = path
    BY <1>1, FirstKeyIs
  <2> HIDE DEF f, names, path
  <2>2. QED
    BY <1>2, <2>1
<1>4. e \in Denotes(W, path, names, f)
  <2>1. KeyDenotes(W, j.key) = Denotes(W, j.key[5], j.key[4], j.key[3])
    BY KeyDenotesIs
  <2> HIDE DEF f, names, path
  <2>2. QED
    BY <1>3, <2>1
<1>5. req.try \in BOOLEAN /\ req.follow \in BOOLEAN
  BY <1>1, AskedAs
<1>6. req.try => f = FALSE
  OBVIOUS
<1>7. ~req.try => f = req.follow
  BY <1>5
<1> HIDE DEF f, e
<1>8. CASE req.try /\ AtLink(e)
  <2>1. is = "ok"
    BY <1>8, BareEnd DEF e
  <2>2. HeldRight(W, req, parent, past)
    BY <1>4, <1>6, <1>8, <2>1, HeldIs DEF e
  <2>3. QED
    BY <1>8, <2>2 DEF e
<1>9. CASE ~(req.try /\ AtLink(e))
  <2>1. a.is = is /\ a.req = req /\ a.parent = parent /\ a.past = past
    OBVIOUS
  <2> HIDE DEF a, req, parent
  <2>2. req.try => e \in Tried(W, path, names)
    <3>1. SUFFICES ASSUME req.try
                   PROVE  e \in Tried(W, path, names)
      OBVIOUS
    <3> HIDE DEF path, names
    <3> DEFINE A == Denotes(W, path, names, FALSE)
               F(x) == IF ~AtLink(x) THEN {x} ELSE {IF Dangling(y) THEN x ELSE y : y \in Again(W, x)}
    <3>2. Tried(W, path, names) = UNION {F(x) : x \in A}
      BY TriedIs
    <3>3. e \in A /\ e \in F(e)
      BY <1>4, <1>6, <1>9, <3>1
    <3> HIDE DEF A, F
    <3>4. QED
      BY <3>2, <3>3
  <2>3. ~req.try => e \in Denotes(W, path, names, req.follow)
    BY <1>4, <1>7
  <2>4. AnswerRight(W, a)
    <3>1. End(a.is, Bare(a.past)) = e
      BY <2>1 DEF e
    <3>2. (a.is = "ok" => Chain(W, a.past)) /\ a.req = req /\ a.parent = parent
      BY <2>1
    <3> HIDE DEF e
    <3>3. QED
      BY <2>2, <2>3, <3>1, <3>2, AnswerRightIs DEF path, names
  <2>5. QED
    BY <1>9, <2>4 DEF a, req, parent, e
<1>10. QED
  BY <1>8, <1>9 DEF e

\* What try_resolve asks again is told, or if it is not there the link.
LEMMA AgainAnswer ==
    ASSUME NEW W, NEW j \in Jobs, KeyRight(W, j), j.held # <<>>,
           NEW is, NEW past \in Pasts,
           End(is, Bare(past)) \in KeyDenotes(W, j.key), is = "ok" => Chain(W, past)
    PROVE  LET told == IF is = "ok" /\ Last(past)[2] = None THEN j.held ELSE past
           IN AnswerRight(W, [is |-> is, req |-> j.req, parent |-> j.parent, past |-> told])
<1> DEFINE req == j.req
           parent == j.parent
           held == j.held
           path == req.path
           names == NamesOf(parent)
           e == End("ok", Bare(held))
           x == End(is, Bare(past))
           told == IF is = "ok" /\ Last(past)[2] = None THEN held ELSE past
           a == [is |-> is, req |-> req, parent |-> parent, past |-> told]
<1>1. req \in Requests /\ held \in Pasts
  BY DEF Jobs
<1>2. j.key = AgainKey(req, held) /\ HeldRight(W, req, parent, held)
  BY KeyRightIs
<1>3. j.key[3] = TRUE /\ j.key[4] = NamesOf(Front(held)) /\ j.key[5] = <<Last(held)[1]>>
  BY <1>1, <1>2, AgainKeyIs
<1>4. req.try /\ Chain(W, held) /\ AtLink(e) /\ e \in Denotes(W, path, names, FALSE)
  BY <1>2, HeldIs
<1>5. x \in Again(W, e)
  <2>1. e.past = Bare(held)
    BY <1>1, BareEnd
  <2>2. Last(e.past)[1] = Last(held)[1]
    BY <1>1, <2>1, BarePast
  <2>3. NamesOf(Front(e.past)) = NamesOf(Front(held))
    <3>1. CASE Len(held) > 1
      <4>1. Front(e.past) = Bare(Front(held)) /\ Front(held) \in Pasts
        BY <1>1, <2>1, <3>1, BareFront, FrontPast
      <4>2. QED
        BY <4>1, BareNames
    <3>2. CASE ~(Len(held) > 1)
      <4> DEFINE n == Len(held)
      <4>1. n \in Nat /\ n > 0 /\ ~(n > 1)
        BY <1>1, <3>2, PastIs
      <4> HIDE DEF n
      <4>2. n = 1
        BY <4>1
      <4>3. Len(held) = 1 /\ Len(Bare(held)) = 1 /\ Bare(held) \in Pasts
        BY <1>1, <4>2, BarePast DEF n
      <4>4. Front(held) = <<>> /\ Front(Bare(held)) = <<>>
        BY <1>1, <4>3, FrontOfOne
      <4>5. QED
        BY <2>1, <4>4
    <3>3. QED
      BY <3>1, <3>2
  <2>4. KeyDenotes(W, j.key) = Denotes(W, j.key[5], j.key[4], j.key[3])
    BY KeyDenotesIs
  <2>5. Again(W, e) = Denotes(W, <<Last(held)[1]>>, NamesOf(Front(held)), TRUE)
    BY <2>2, <2>3 DEF Again
  <2> HIDE DEF e, x
  <2>6. x \in KeyDenotes(W, j.key)
    BY DEF x
  <2>7. QED
    BY <1>3, <2>4, <2>5, <2>6
<1>6. Dangling(x) <=> is = "ok" /\ Last(past)[2] = None
  BY BareEnd
<1> HIDE DEF e, x
<1> DEFINE y == IF Dangling(x) THEN e ELSE x
<1>7. y \in Tried(W, path, names)
  <2> HIDE DEF path, names
  <2> DEFINE A == Denotes(W, path, names, FALSE)
             G(c) == {IF Dangling(z) THEN c ELSE z : z \in Again(W, c)}
             F(c) == IF ~AtLink(c) THEN {c} ELSE G(c)
  <2>1. Tried(W, path, names) = UNION {F(c) : c \in A}
    BY TriedIs
  <2>2. y \in G(e)
    BY <1>5
  <2>3. e \in A /\ F(e) = G(e)
    BY <1>4
  <2> HIDE DEF A, F, G, y
  <2>4. QED
    BY <2>1, <2>2, <2>3
<1>8. a.is = is /\ a.req = req /\ a.parent = parent /\ a.past = told
  OBVIOUS
<1>9. End(is, Bare(told)) = y
  BY <1>6 DEF e, x
<1>10. is = "ok" => Chain(W, told)
  BY <1>4
<1> HIDE DEF a, told, y
<1>11. /\ a.is = "ok" => Chain(W, a.past)
       /\ End(a.is, Bare(a.past)) \in Tried(W, a.req.path, NamesOf(a.parent)) /\ a.req.try
  BY <1>4, <1>7, <1>8, <1>9, <1>10
<1>12. AnswerRight(W, a)
  BY <1>11, AnswerRightIs
<1>13. QED
  BY <1>12 DEF a, told

LEMMA AnswerIsRight ==
    ASSUME NEW W, NEW is, NEW past \in Pasts, NEW ca, MeaningKept(W, ca),
           NEW j \in Jobs, KeyRight(W, j), Answer(is, past, ca, j),
           End(is, Bare(past)) \in KeyDenotes(W, j.key), is = "ok" => Chain(W, past)
    PROVE  RightIn(W, cache', job', answer')
<1> DEFINE leaf == Last(past)
           again == is = "ok" /\ j.req.try /\ j.held = <<>> /\ leaf[2] # None /\ IsLink(leaf[2])
           fallback == is = "ok" /\ j.held # <<>> /\ leaf[2] = None
           told == IF fallback THEN j.held ELSE past
           link == AtLink(End(is, Bare(past)))
<1>1. /\ cache' \in (IF is = "ok" /\ ~j.hit THEN Notice(ca, j.key, past, FALSE) ELSE {ca})
      /\ \/ again /\ job' = [is |-> "again", req |-> j.req, parent |-> j.parent, held |-> past] /\ answer' = NoAnswer
         \/ ~again /\ job' = NoJob
            /\ answer' = [is |-> is, req |-> j.req, parent |-> j.parent, past |-> told]
  BY DEF Answer
<1>2. link <=> is = "ok" /\ leaf[2] # None /\ IsLink(leaf[2])
  BY BareEnd
<1>3. MeaningKept(W, cache')
  <2>1. CASE cache' = ca
    BY <2>1
  <2>2. CASE is = "ok" /\ cache' \in Notice(ca, j.key, past, FALSE)
    <3>1. Chain(W, past) /\ End("ok", Bare(past)) \in KeyDenotes(W, j.key) /\ j.key \in Keys
      BY <2>2 DEF Jobs
    <3>2. \A k \in DOMAIN cache' : (k \in DOMAIN ca /\ cache'[k] = ca[k]) \/ (k = j.key /\ cache'[k] = past)
      <4> DEFINE x == cache'
                 over == FALSE
                 key == j.key
      <4>1. x \in Notice(ca, key, past, over)
        BY <2>2
      <4> HIDE DEF x, over, key
      <4>2. \A k \in DOMAIN x : (k \in DOMAIN ca /\ x[k] = ca[k]) \/ (k = key /\ x[k] = past)
        BY <4>1, NoticeKeeps
      <4>3. QED
        BY <4>2 DEF x, key
    <3>3. QED
      BY <3>1, <3>2 DEF MeaningKept
  <2>3. QED
    BY <1>1, <2>1, <2>2
<1>4. CASE again
  <2>1. j.req.try /\ link /\ j.held = <<>>
    BY <1>2, <1>4
  <2>2. HeldRight(W, j.req, j.parent, past)
    BY <2>1, FirstAnswer
  <2>3. job'.is = "again" /\ job'.req = j.req /\ job'.parent = j.parent /\ job'.held = past /\ answer'.is = "none"
    BY <1>1, <1>4 DEF NoAnswer
  <2>4. QED
    BY <1>3, <2>2, <2>3 DEF RightIn
<1>5. CASE ~again
  <2>1. AnswerRight(W, [is |-> is, req |-> j.req, parent |-> j.parent, past |-> told])
    <3>1. CASE j.held = <<>>
      <4>1. ~(j.req.try /\ link) /\ told = past
        BY <1>2, <1>5, <3>1
      <4>2. QED
        BY <3>1, <4>1, FirstAnswer
    <3>2. CASE j.held # <<>>
      <4>1. told = IF is = "ok" /\ Last(past)[2] = None THEN j.held ELSE past
        BY <3>2
      <4> HIDE DEF told
      <4>2. QED
        BY <3>2, <4>1, AgainAnswer
    <3>3. QED
      BY <3>1, <3>2
  <2> HIDE DEF told, again
  <2>2. job'.is = "none" /\ AnswerRight(W, answer')
    BY <1>1, <1>5, <2>1 DEF NoJob
  <2>3. QED
    BY <1>3, <2>2 DEF RightIn
<1>6. QED
  BY <1>4, <1>5

-----------------------------------------------------------------------------
(***************************************************************************)
(* The steps of a resolution are steps along a way                         *)
(***************************************************************************)

LEMMA JobAtIs ==
    ASSUME NEW j, IsBusy(j)
    PROVE  LET c == JobAt(j)
           IN /\ IsAt(c) /\ c.past = Bare(j.past) /\ c.future = j.future /\ c.hops = j.hops
              /\ Last(c.past)[2] = BareItem(Last(j.past)[2])
<1> DEFINE a == Bare(j.past)
           b == j.future
           h == j.hops
<1>1. j.past \in Pasts /\ b \in Seq(Names) /\ h \in 0..(MaxHops + 1) /\ Last(j.past)[2] # None
      /\ (b # <<>> => Last(j.past)[2] \in Dirs)
  BY DEF IsBusy, Jobs
<1>2. a \in Pasts /\ Last(a)[2] = BareItem(Last(j.past)[2]) /\ Last(a)[2] # None
  BY <1>1, BarePast
<1>3. b # <<>> => Last(a)[2] \in Dirs
  BY <1>1, <1>2, DirIs
<1>4. JobAt(j) = At(a, b, h)
  BY DEF JobAt
<1> HIDE DEF a, b, h
<1>5. LET c == At(a, b, h) IN IsAt(c) /\ c.past = a /\ c.future = b /\ c.hops = h
  BY <1>1, <1>2, <1>3, AtIs DEF IsThere
<1>6. QED
  BY <1>2, <1>4, <1>5 DEF a, b, h

LEMMA WayOfJob ==
    ASSUME NEW W, Typed(W), NEW j \in Jobs, NEW q \in Parents(W, j.key[4]), IsDir(Last(q)[2])
    PROVE  IsAt(StartOf(j.key[5], q)) /\ Place(q) /\ j.key[5] \in Paths /\ j.key[4] \in Seq(Names)
<1> DEFINE path == j.key[5]
           names == j.key[4]
<1>1. path \in Paths /\ names \in Seq(Names)
  BY KeyIs DEF Jobs
<1> HIDE DEF path, names
<1>2. Place(q)
  BY <1>1, ParentsArePlaces DEF names
<1>3. IsAt(StartOf(path, q))
  BY <1>1, <1>2, StartIs
<1>4. QED
  BY <1>1, <1>2, <1>3 DEF path, names

LEMMA ReachesOn ==
    ASSUME NEW W, Typed(W), NEW j \in Jobs, NEW c, IsAt(c), Reaches(W, j, c), NEW q \in Onward(W, c, j.follow)
    PROVE  Reaches(W, j, q)
<1>1. PICK x \in Parents(W, j.key[4]) : IsDir(Last(x)[2]) /\ OnWay(W, StartOf(j.key[5], x), c, j.follow)
  BY DEF Reaches
<1>2. IsAt(StartOf(j.key[5], x))
  BY <1>1, WayOfJob
<1> DEFINE p == StartOf(j.key[5], x)
           f == j.follow
<1> HIDE DEF p, f
<1>3. OnWay(W, p, q, f)
  BY <1>1, <1>2, OnWayOn DEF p, f
<1>4. QED
  BY <1>1, <1>3 DEF Reaches, p, f

LEMMA ReachesEnd ==
    ASSUME NEW W, Typed(W), NEW j \in Jobs, BusyRight(W, j), NEW e, IsEnd(e), Reaches(W, j, e)
    PROVE  Ended(j.key[5], e) \in KeyDenotes(W, j.key)
<1> DEFINE path == j.key[5]
           names == j.key[4]
           f == j.key[3]
           follow == j.follow
<1>1. follow = (f \/ Decompose(path).mustBeDir)
  BY BusyRightIs
<1>2. PICK x \in Parents(W, names) : IsDir(Last(x)[2]) /\ OnWay(W, StartOf(path, x), e, follow)
  BY DEF Reaches
<1>3. IsAt(StartOf(path, x))
  BY <1>2, WayOfJob
<1> HIDE DEF path, names, f, follow
<1>4. e \in Leads(W, StartOf(path, x), follow)
  BY <1>2, <1>3, OnWayEnd
<1>5. e \in From(W, path, x, f)
  BY <1>1, <1>2, <1>4 DEF From
<1> DEFINE P == Parents(W, names)
<1>6. Denoted(W, path, P, f) = {Ended(path, y) : y \in UNION {From(W, path, z, f) : z \in P}}
  BY DenotedIs
<1>7. Ended(path, e) \in Denoted(W, path, P, f)
  BY <1>2, <1>5, <1>6
<1>8. QED
  BY <1>7 DEF KeyDenotes, path, names, f

\* A job on its way, with a cache that may have been looked into.
Ready(W, ca) ==
    /\ Typed(W) /\ IsBusy(job) /\ BusyRight(W, job) /\ MeaningKept(W, ca)
    /\ answer.is # "none" => AnswerRight(W, answer)

LEMMA EndRight ==
    ASSUME NEW W, NEW ca, Ready(W, ca), NEW e, IsEnd(e), Reaches(W, job, e),
           NEW is, NEW past \in Pasts, Ended(job.key[5], e) = End(is, Bare(past)),
           is = "ok" => Chain(W, past), Answer(is, past, ca, job)
    PROVE  RightIn(W, cache', job', answer')
<1>1. job \in Jobs /\ Typed(W) /\ MeaningKept(W, ca) /\ BusyRight(W, job)
  BY DEF Ready, IsBusy
<1>2. KeyRight(W, job)
  BY <1>1, BusyRightIs
<1>3. End(is, Bare(past)) \in KeyDenotes(W, job.key)
  BY <1>1, ReachesEnd
<1>4. QED
  BY <1>1, <1>2, <1>3, AnswerIsRight

LEMMA MoveRight ==
    ASSUME NEW W, NEW ca, Ready(W, ca), NEW past \in Pasts, NEW future \in Seq(Names), NEW hops \in 0..(MaxHops + 1),
           Chain(W, past), Reaches(W, job, At(Bare(past), future, hops)),
           job' = Moved(job, past, future, hops), cache' = ca, answer' = answer
    PROVE  RightIn(W, cache', job', answer')
<1> DEFINE k == Moved(job, past, future, hops)
<1>1. job \in Jobs /\ BusyRight(W, job)
  BY DEF Ready, IsBusy
<1>2. /\ k.past = past /\ k.future = future /\ k.hops = hops /\ k.is = "busy"
      /\ k.req = job.req /\ k.parent = job.parent /\ k.key = job.key
      /\ k.follow = job.follow /\ k.mustBeDir = job.mustBeDir /\ k.held = job.held
  BY <1>1, MovedIs
<1> HIDE DEF k
<1>3. /\ KeyRight(W, job) /\ job.mustBeDir = Decompose(job.key[5]).mustBeDir
      /\ job.follow = (job.key[3] \/ Decompose(job.key[5]).mustBeDir)
  BY <1>1, BusyRightIs
<1>4. KeyRight(W, k)
  BY <1>2, <1>3 DEF KeyRight
<1>5. Reaches(W, k, JobAt(k))
  <2>1. JobAt(k) = At(Bare(past), future, hops)
    BY <1>2 DEF JobAt
  <2> DEFINE c == At(Bare(past), future, hops)
  <2> HIDE DEF c
  <2>2. Reaches(W, job, c)
    BY DEF c
  <2>3. Reaches(W, k, c)
    BY <1>2, <2>2 DEF Reaches
  <2>4. QED
    BY <2>1, <2>3 DEF c
<1>6. BusyRight(W, k)
  BY <1>2, <1>3, <1>4, <1>5, BusyRightIs
<1>7. job'.is = "busy" /\ BusyRight(W, job') /\ MeaningKept(W, cache') /\ (answer'.is # "none" => AnswerRight(W, answer'))
  BY <1>2, <1>6 DEF k, Ready
<1>8. QED
  BY <1>7 DEF RightIn

\* What becomes of an end when the path must be a directory.
LEMMA EndedCases ==
    ASSUME NEW path, NEW is, NEW past \in Pasts
    PROVE  LET e == End(is, Bare(past))
               must == Decompose(path).mustBeDir
               x == Last(past)[2]
           IN /\ is # "ok" \/ x = None \/ ~must \/ IsDir(x) => Ended(path, e) = e
              /\ is = "ok" /\ x # None /\ must /\ ~IsDir(x) => Ended(path, e) = End("enotdir", Bare(past))
<1> DEFINE e == End(is, Bare(past))
           must == Decompose(path).mustBeDir
           x == Last(past)[2]
<1>1. e.is = is /\ e.past = Bare(past) /\ (Dangling(e) <=> is = "ok" /\ x = None)
  BY BareEnd
<1>2. x # None => (IsDir(Last(e.past)[2]) <=> IsDir(x))
  <2>1. Last(Bare(past))[2] = BareItem(x) /\ x \in Items \cup {None}
    BY BarePast, PastIs
  <2> HIDE DEF x, e
  <2>2. QED
    BY <1>1, <2>1, BareKeepsKind
<1> HIDE DEF e, must, x
<1>3. Ended(path, e) = IF e.is = "ok" /\ must /\ ~Dangling(e) /\ ~IsDir(Last(e.past)[2])
                       THEN End("enotdir", e.past) ELSE e
  BY DEF Ended, must
<1>4. QED
  BY <1>1, <1>2, <1>3 DEF e, must, x

LEMMA ResolveDoneRight ==
    ASSUME NEW W, Ready(W, cache), ResolveDone
    PROVE  RightIn(W, cache', job', answer')
<1> DEFINE x == Here[2]
           is == IF job.mustBeDir /\ ~IsDir(x) THEN "enotdir" ELSE "ok"
           c == JobAt(job)
           e == End("ok", Bare(job.past))
<1>1. job.future = <<>> /\ Answer(is, job.past, cache, job)
  BY DEF ResolveDone
<1>2. IsBusy(job) /\ Typed(W) /\ job \in Jobs /\ job.past \in Pasts /\ x # None /\ x = Last(job.past)[2]
  BY DEF Ready, IsBusy, Jobs, Here
<1>3. Reaches(W, job, c) /\ Chain(W, job.past) /\ job.mustBeDir = Decompose(job.key[5]).mustBeDir
  BY BusyRightIs DEF Ready
<1>4. IsAt(c) /\ c.past = Bare(job.past) /\ c.future = <<>>
  BY <1>1, <1>2, JobAtIs
<1> HIDE DEF c, x
<1>5. e \in Onward(W, c, job.follow)
  <2> DEFINE f == job.follow
  <2> HIDE DEF f
  <2>1. Onward(W, c, f) = {End("ok", c.past)}
    BY <1>4, OnwardIs
  <2>2. QED
    BY <1>4, <2>1 DEF f
<1>6. IsEnd(e)
  BY <1>2, BarePast, EndIs
<1>7. Ended(job.key[5], e) = End(is, Bare(job.past))
  BY <1>2, <1>3, EndedCases
<1> HIDE DEF e, is
<1>8. Reaches(W, job, e)
  BY <1>2, <1>3, <1>4, <1>5, ReachesOn
<1>9. QED
  BY <1>1, <1>2, <1>3, <1>6, <1>7, <1>8, EndRight

LEMMA ResolveUpRight ==
    ASSUME Shape, NEW W, Ready(W, cache), ResolveUp
    PROVE  RightIn(W, cache', job', answer')
<1> DEFINE past == IF Len(job.past) > 1 THEN Front(job.past) ELSE job.past
           rest == Tail(job.future)
           c == JobAt(job)
<1>1. /\ job.future # <<>> /\ Head(job.future) = Name("..") /\ past \in Pasts
      /\ job' = Moved(job, past, rest, job.hops) /\ cache' = cache /\ answer' = answer
  BY ResolveUpIs
<1>2. IsBusy(job) /\ Typed(W) /\ job \in Jobs /\ job.past \in Pasts /\ rest \in Seq(Names) /\ job.hops \in 0..(MaxHops + 1)
  BY <1>1, BusyIs DEF Ready
<1>3. Reaches(W, job, c) /\ Chain(W, job.past)
  BY BusyRightIs DEF Ready
<1>4. IsAt(c) /\ c.past = Bare(job.past) /\ c.future = job.future /\ c.hops = job.hops
  BY <1>2, JobAtIs
<1>5. Chain(W, past)
  BY <1>2, <1>3, ChainFront
<1>6. Bare(past) = IF Len(c.past) = 1 THEN c.past ELSE Front(c.past)
  <2> DEFINE n == Len(job.past)
  <2>0. Len(Bare(job.past)) = n /\ n \in Nat /\ n > 0
    BY <1>2, BarePast, PastIs
  <2> HIDE DEF n, c
  <2>1. Len(c.past) = n /\ n \in Nat /\ n > 0 /\ (n > 1 => n # 1) /\ (~(n > 1) => n = 1)
    BY <1>4, <2>0
  <2>2. CASE Len(job.past) > 1
    <3>1. Len(c.past) # 1
      BY <2>1, <2>2 DEF n
    <3>2. Bare(Front(job.past)) = Front(Bare(job.past))
      BY <1>2, <2>2, BareFront
    <3>3. QED
      BY <1>4, <2>2, <3>1, <3>2
  <2>3. CASE ~(Len(job.past) > 1)
    <3>1. Len(c.past) = 1
      BY <2>1, <2>3 DEF n
    <3>2. QED
      BY <1>4, <2>3, <3>1
  <2>4. QED
    BY <2>2, <2>3
<1> HIDE DEF c, past, rest
<1>7. At(Bare(past), rest, job.hops) \in Onward(W, c, job.follow)
  <2> DEFINE f == job.follow
  <2> HIDE DEF f
  <2>1. Onward(W, c, f) = {At(IF Len(c.past) = 1 THEN c.past ELSE Front(c.past), Tail(c.future), c.hops)}
    BY <1>1, <1>4, OnwardIs
  <2>2. QED
    BY <1>4, <1>6, <2>1 DEF f, rest
<1>8. Reaches(W, job, At(Bare(past), rest, job.hops))
  BY <1>2, <1>3, <1>4, <1>7, ReachesOn
<1> DEFINE hops == job.hops
<1> HIDE DEF hops
<1>9. QED
  BY <1>1, <1>2, <1>5, <1>8, MoveRight DEF hops

\* Where a job comes with a name that means an item: in the terms of the job.
Comes(W, item, q) ==
    LET name == Head(job.future)
        rest == Tail(job.future)
        there == Append(job.past, <<name, item>>)
        to == Decompose(ReadLink(item))
        followed == IsLink(item) /\ (rest # <<>> \/ job.follow)
    IN /\ Reaches(W, job, q) /\ IsPosition(q)
       /\ there \in Pasts /\ Last(there)[2] = item /\ Chain(W, there)
       /\ item = None => q = End("ok", Bare(there))
       /\ item # None /\ followed /\ job.hops > MaxHops => q = End("eloop", Bare(there))
       /\ item # None /\ followed /\ ~(job.hops > MaxHops) =>
            q = At(IF to.absolute THEN <<Root>> ELSE Bare(job.past), to.future \o rest, job.hops + 1)
       /\ item # None /\ ~followed /\ ~IsDir(item) /\ rest # <<>> => q = End("enotdir", Bare(there))
       /\ item # None /\ ~followed /\ (IsDir(item) \/ rest = <<>>) => q = At(Bare(there), rest, job.hops)

LEMMA NameComes ==
    ASSUME NEW W, NEW ca, Ready(W, ca), job.future # <<>>, Head(job.future) # Name(".."),
           NEW item \in Items \cup {None},
           BareItem(item) \in Means(W, BareItem(Last(job.past)[2]), Head(job.future))
    PROVE  \E q : Comes(W, item, q)
<1> DEFINE name == Head(job.future)
           rest == Tail(job.future)
           there == Append(job.past, <<name, item>>)
           bare == BareItem(item)
           c == JobAt(job)
           f == job.follow
           q == Through(c, bare, f)
           x == Last(job.past)[2]
<1>1. /\ IsBusy(job) /\ Typed(W) /\ job \in Jobs /\ job.past \in Pasts /\ x \in Dirs /\ name \in Names
      /\ rest \in Seq(Names) /\ job.hops \in 0..(MaxHops + 1)
  BY BusyIs DEF Ready
<1>2. Reaches(W, job, c) /\ Chain(W, job.past)
  BY BusyRightIs DEF Ready
<1>3. IsAt(c) /\ c.past = Bare(job.past) /\ c.future = job.future /\ c.hops = job.hops /\ Last(c.past)[2] = BareItem(x)
  BY <1>1, JobAtIs
<1>4. there \in Pasts /\ Last(there)[2] = item
  BY <1>1, ExtendPast
<1>5. Chain(W, there)
  BY <1>1, <1>2, ChainAppend
<1>6. Bare(there) = Append(c.past, <<name, bare>>)
  BY <1>1, <1>3, BareAppend
<1>7. bare \in Items \cup {None} /\ (bare = None <=> item = None)
  BY BareItemThere
<1>8. item # None => IsLink(bare) = IsLink(item) /\ IsDir(bare) = IsDir(item)
                     /\ (IsLink(item) => ReadLink(bare) = ReadLink(item))
  BY BareKeepsKind
<1>9. bare \in Means(W, BareItem(x), name)
  OBVIOUS
<1> HIDE DEF c, bare, x, f
<1>10. q \in Onward(W, c, f)
  <2> HIDE DEF name
  <2>1. c.future # <<>> /\ Head(c.future) = name /\ name # Name("..")
    BY <1>3 DEF name
  <2>2. Onward(W, c, f) = {Through(c, i, f) : i \in Means(W, Last(c.past)[2], Head(c.future))}
    BY <1>3, <2>1, OnwardIs
  <2>3. QED
    BY <1>3, <1>9, <2>1, <2>2
<1>11. Reaches(W, job, q)
  BY <1>1, <1>2, <1>3, <1>10, ReachesOn DEF f
<1>12. IsPosition(q)
  <2>1. c.future # <<>>
    BY <1>3
  <2>2. Goes(c, q)
    BY <1>3, <1>7, <2>1, ThroughGoes
  <2>3. QED
    BY <2>2 DEF Goes
<1> DEFINE cthere == Append(c.past, <<Head(c.future), bare>>)
           crest == Tail(c.future)
           cto == Decompose(ReadLink(bare))
           to == Decompose(ReadLink(item))
<1>13. /\ bare = None => q = End("ok", cthere)
       /\ bare # None /\ IsLink(bare) /\ (f \/ crest # <<>>) /\ c.hops > MaxHops => q = End("eloop", cthere)
       /\ bare # None /\ IsLink(bare) /\ (f \/ crest # <<>>) /\ ~(c.hops > MaxHops) =>
            q = At(IF cto.absolute THEN <<Root>> ELSE c.past, cto.future \o crest, c.hops + 1)
       /\ bare # None /\ ~(IsLink(bare) /\ (f \/ crest # <<>>)) /\ ~IsDir(bare) /\ crest # <<>> =>
            q = End("enotdir", cthere)
       /\ bare # None /\ ~(IsLink(bare) /\ (f \/ crest # <<>>)) /\ (IsDir(bare) \/ crest = <<>>) =>
            q = At(cthere, crest, c.hops)
  BY ThroughIs
<1>14. cthere = Bare(there) /\ crest = rest /\ c.hops = job.hops /\ c.past = Bare(job.past)
  BY <1>3, <1>6
<1>15. item # None /\ IsLink(item) => cto = to
  BY <1>8
<1> HIDE DEF q, cthere, crest, cto, to, there, rest, name
<1>16. /\ item = None => q = End("ok", Bare(there))
       /\ item # None /\ IsLink(item) /\ (rest # <<>> \/ f) /\ job.hops > MaxHops => q = End("eloop", Bare(there))
       /\ item # None /\ ~(IsLink(item) /\ (rest # <<>> \/ f)) /\ ~IsDir(item) /\ rest # <<>> =>
            q = End("enotdir", Bare(there))
       /\ item # None /\ ~(IsLink(item) /\ (rest # <<>> \/ f)) /\ (IsDir(item) \/ rest = <<>>) =>
            q = At(Bare(there), rest, job.hops)
  BY <1>7, <1>8, <1>13, <1>14
<1>17. item # None /\ IsLink(item) /\ (rest # <<>> \/ f) /\ ~(job.hops > MaxHops) =>
         q = At(IF to.absolute THEN <<Root>> ELSE Bare(job.past), to.future \o rest, job.hops + 1)
  BY <1>7, <1>8, <1>13, <1>14, <1>15
<1>18. Comes(W, item, q)
  BY <1>4, <1>5, <1>11, <1>12, <1>16, <1>17 DEF Comes, there, rest, name, to, f
<1>19. QED
  BY <1>18

LEMMA FollowLinkRight ==
    ASSUME NEW W, NEW ca, Ready(W, ca), job.future # <<>>, NEW item \in Items, IsLink(item),
           Tail(job.future) # <<>> \/ job.follow, NEW q, Comes(W, item, q),
           FollowLink(Head(job.future), item, ca), met' = {}
    PROVE  RightIn(W, cache', job', answer')
<1> DEFINE name == Head(job.future)
           rest == Tail(job.future)
           there == Append(job.past, <<name, item>>)
           to == Decompose(ReadLink(item))
           path == job.key[5]
<1>1. /\ IsBusy(job) /\ Typed(W) /\ job \in Jobs /\ job.past \in Pasts /\ rest \in Seq(Names)
      /\ job.hops \in 0..(MaxHops + 1)
  BY BusyIs DEF Ready
<1>2. item # None
  BY NoneIsNone
<1>3. /\ Reaches(W, job, q) /\ IsPosition(q) /\ there \in Pasts /\ Chain(W, there)
      /\ job.hops > MaxHops => q = End("eloop", Bare(there))
      /\ ~(job.hops > MaxHops) =>
            q = At(IF to.absolute THEN <<Root>> ELSE Bare(job.past), to.future \o rest, job.hops + 1)
  BY <1>2 DEF Comes
<1>4. to.future \in Seq(Names) /\ to.future \o rest \in Seq(Names)
  <2>1. to.future \in Seq(Names)
    BY TargetIs
  <2> HIDE DEF to, rest
  <2>2. QED
    BY <1>1, <2>1
<1>5. Chain(W, job.past)
  BY BusyRightIs DEF Ready
<1>6. ~(job.hops > MaxHops) => job.hops + 1 \in 0..(MaxHops + 1)
  BY <1>1, VfsParameters
<1> HIDE DEF to, there, rest
<1>7. CASE job.hops > MaxHops /\ Answer("eloop", there, ca, job)
  <2>1. q = End("eloop", Bare(there)) /\ IsEnd(q)
    <3>1. q = End("eloop", Bare(there))
      BY <1>3, <1>7
    <3>2. Bare(there) \in Pasts
      BY <1>3, BarePast
    <3>3. QED
      BY <3>1, <3>2, EndIs
  <2>2. Ended(path, q) = q
    BY <1>3, <2>1, EndedCases
  <2> HIDE DEF path
  <2>3. Ended(path, q) = End("eloop", Bare(there))
    BY <2>1, <2>2
  <2>4. QED
    BY <1>3, <1>7, <2>1, <2>3, EndRight DEF path
<1>8. CASE ~(job.hops > MaxHops) /\ to.absolute /\ rest = <<>> /\ to.future = <<>> /\ Answer("ok", <<Root>>, ca, job)
  <2> DEFINE e == End("ok", Bare(<<Root>>))
             f == job.follow
  <2>1. q = At(<<Root>>, <<>>, job.hops + 1)
    <3>1. to.future \o rest = <<>>
      BY <1>8
    <3>2. QED
      BY <1>3, <1>8, <3>1
  <2>2. IsAt(q) /\ q.past = <<Root>> /\ q.future = <<>>
    <3>1. q.is = "at" /\ q.past = <<Root>> /\ q.future = <<>>
      BY <2>1 DEF At
    <3>2. QED
      BY <1>3, <3>1, KindOfPosition DEF IsPosition
  <2> HIDE DEF f
  <2>3. Onward(W, q, f) = {End("ok", q.past)}
    BY <2>2, OnwardIs
  <2>4. e \in Onward(W, q, f)
    BY <2>2, <2>3, BareRoot
  <2>5. Reaches(W, job, e)
    BY <1>1, <1>3, <2>2, <2>4, ReachesOn DEF f
  <2>6. <<Root>> \in Pasts /\ IsDir(Last(<<Root>>)[2]) /\ Bare(<<Root>>) \in Pasts
    BY RootPast, BareRoot DEF Dirs
  <2>7. IsEnd(e)
    BY <2>6, EndIs
  <2>8. Ended(path, e) = e
    BY <2>6, EndedCases
  <2>9. Chain(W, <<Root>>)
    BY ChainRoot
  <2> DEFINE past == <<Root>>
  <2>10. past \in Pasts /\ Chain(W, past) /\ Ended(path, e) = End("ok", Bare(past)) /\ Answer("ok", past, ca, job)
    BY <1>8, <2>6, <2>8, <2>9
  <2> HIDE DEF e, past, path
  <2>11. QED
    BY <2>5, <2>7, <2>10, EndRight DEF path
<1>9. CASE /\ ~(job.hops > MaxHops) /\ to.absolute /\ rest = <<>>
           /\ job' = Moved(job, <<Root>>, to.future, job.hops + 1) /\ cache' = ca /\ answer' = answer
  <2> DEFINE past == <<Root>>
             future == to.future
             hops == job.hops + 1
  <2>1. q = At(Bare(past), future, hops)
    <3>1. to.future \o rest = to.future
      BY <1>4, <1>9
    <3>2. QED
      BY <1>3, <1>9, <3>1, BareRoot
  <2>2. past \in Pasts /\ Chain(W, past)
    BY RootPast, ChainRoot
  <2>3. hops \in 0..(MaxHops + 1) /\ future \in Seq(Names)
    BY <1>4, <1>6, <1>9
  <2>4. job' = Moved(job, past, future, hops) /\ cache' = ca /\ answer' = answer
    BY <1>9
  <2> HIDE DEF past, future, hops
  <2>5. QED
    BY <1>3, <2>1, <2>2, <2>3, <2>4, MoveRight
<1>10. CASE /\ ~(job.hops > MaxHops) /\ ~to.absolute
            /\ job' = Moved(job, job.past, Splice(to.future, rest), job.hops + 1) /\ cache' = ca /\ answer' = answer
  <2> DEFINE past == job.past
             future == to.future \o rest
             hops == job.hops + 1
  <2>1. q = At(Bare(past), future, hops)
    BY <1>3, <1>10
  <2>2. hops \in 0..(MaxHops + 1) /\ future \in Seq(Names) /\ past \in Pasts /\ Chain(W, past)
    BY <1>1, <1>4, <1>5, <1>6, <1>10
  <2>3. job' = Moved(job, past, future, hops) /\ cache' = ca /\ answer' = answer
    BY <1>10 DEF Splice
  <2> HIDE DEF past, future, hops
  <2>4. QED
    BY <1>3, <2>1, <2>2, <2>3, MoveRight
<1>11. \/ job.hops > MaxHops /\ Answer("eloop", there, ca, job)
       \/ /\ ~(job.hops > MaxHops) /\ to.absolute /\ rest = <<>>
          /\ \/ to.future = <<>> /\ Answer("ok", <<Root>>, ca, job)
             \/ job' = Moved(job, <<Root>>, to.future, job.hops + 1) /\ cache' = ca /\ answer' = answer
       \/ /\ ~(job.hops > MaxHops) /\ ~to.absolute
          /\ job' = Moved(job, job.past, Splice(to.future, rest), job.hops + 1) /\ cache' = ca /\ answer' = answer
  BY FollowLinkIs DEF there, rest, to
<1>12. QED
  BY <1>7, <1>8, <1>9, <1>10, <1>11

\* What was found, if it is not a way out of what the name means.
LEMMA PlainName ==
    ASSUME NEW o, Named(o), met' = {}, NEW W, Found(W, Here[2], Head(job.future), o.item)
    PROVE  /\ o.item \in Items \cup {None}
           /\ BareItem(o.item) \in Means(W, BareItem(Here[2]), Head(job.future))
<1> DEFINE item == o.item
           x == Here[2]
<1>1. item # Crash
  <2>1. SUFFICES ASSUME item = Crash
                 PROVE  FALSE
    OBVIOUS
  <2>2. met' = met \cup {"confused"}
    BY <2>1, NoneIsNone DEF Named
  <2>3. QED
    BY <2>2
<1>2. ~(item \in Items /\ item.is = "revlist" /\ x.is \in {"revlist", "tags"})
  <2>1. SUFFICES ASSUME item \in Items, item.is = "revlist", x.is \in {"revlist", "tags"}
                 PROVE  FALSE
    OBVIOUS
  <2>2. item # None /\ item # Crash /\ ~IsLink(item) /\ IsDir(item)
    BY <2>1, NoneIsNone DEF IsLink, IsDir
  <2>3. met' = met \cup {"confused"}
    BY <2>1, <2>2 DEF Named
  <2>4. QED
    BY <2>3
<1> HIDE DEF item, x
<1>3. item \in Items \cup {None} /\ BareItem(item) \in Means(W, BareItem(x), Head(job.future))
  BY <1>1, <1>2 DEF Found, item, x
<1>4. QED
  BY <1>3 DEF item, x

LEMMA NameRight ==
    ASSUME NEW W, NEW o, Ready(W, o.cache), job.future # <<>>, Head(job.future) # Name(".."),
           Named(o), met' = {}, o.item \in Items \cup {None},
           BareItem(o.item) \in Means(W, BareItem(Here[2]), Head(job.future)), job.req.meta \in BOOLEAN
    PROVE  RightIn(W, cache', job', answer')
<1> DEFINE name == Head(job.future)
           rest == Tail(job.future)
           item == o.item
           ca == o.cache
           there(i) == Append(job.past, <<name, i>>)
           path == job.key[5]
           x == Last(job.past)[2]
           followed == IsLink(item) /\ (rest # <<>> \/ job.follow)
           dir == IF rest # <<>> \/ job.mustBeDir THEN "enotdir" ELSE "ok"
<1>1. /\ IsBusy(job) /\ Typed(W) /\ job \in Jobs /\ job.past \in Pasts /\ x \in Dirs /\ name \in Names
      /\ rest \in Seq(Names) /\ job.hops \in 0..(MaxHops + 1) /\ job.follow \in BOOLEAN
  BY BusyIs DEF Ready
<1>2. Chain(W, job.past) /\ job.mustBeDir = Decompose(path).mustBeDir
  BY BusyRightIs DEF Ready
<1>3. x = Here[2]
  BY DEF Here
<1>4. BareItem(item) \in Means(W, BareItem(x), name)
  BY <1>3
<1>5. PICK q : Comes(W, item, q)
  <2> HIDE DEF item, ca
  <2>1. Ready(W, ca) /\ item \in Items \cup {None} /\ BareItem(item) \in Means(W, BareItem(Last(job.past)[2]), Head(job.future))
    BY <1>4 DEF ca, item
  <2>2. QED
    BY <2>1, NameComes
<1>6. /\ Reaches(W, job, q) /\ IsPosition(q) /\ there(item) \in Pasts /\ Last(there(item))[2] = item /\ Chain(W, there(item))
      /\ item = None => q = End("ok", Bare(there(item)))
      /\ item # None /\ ~followed /\ ~IsDir(item) /\ rest # <<>> => q = End("enotdir", Bare(there(item)))
      /\ item # None /\ ~followed /\ (IsDir(item) \/ rest = <<>>) => q = At(Bare(there(item)), rest, job.hops)
  BY <1>5 DEF Comes
<1>7. Bare(there(item)) \in Pasts
  <2> HIDE DEF there
  <2>1. QED
    BY <1>6, BarePast
<1>8. Ready(W, ca) /\ item \in Items \cup {None}
  OBVIOUS
<1>9. \/ item = None /\ Answer("ok", there(None), ca, job)
      \/ item = Crash
      \/ item \notin {None, Crash} /\ followed /\ FollowLink(name, item, ca)
      \/ /\ item \notin {None, Crash} /\ IsLink(item) /\ rest = <<>> /\ ~job.follow
         /\ job' = Moved(job, there(item), <<>>, job.hops) /\ cache' = ca /\ answer' = answer
      \/ /\ item \notin {None, Crash} /\ IsDir(item)
         /\ job' = Moved(job, there(WithMeta(item, job.req.meta)), rest, job.hops)
         /\ cache' = ca /\ answer' = answer
      \/ item \notin {None, Crash} /\ ~IsLink(item) /\ ~IsDir(item) /\ Answer(dir, there(item), ca, job)
  BY DEF Named
<1> HIDE DEF item, ca, x
<1>10. CASE item = None /\ Answer("ok", there(None), ca, job)
  <2> DEFINE past == there(item)
  <2> HIDE DEF there, path
  <2>1. past \in Pasts /\ Last(past)[2] = None /\ q = End("ok", Bare(past)) /\ Chain(W, past) /\ Bare(past) \in Pasts
        /\ Answer("ok", past, ca, job)
    BY <1>6, <1>7, <1>10
  <2> HIDE DEF past
  <2>2. IsEnd(q)
    BY <2>1, EndIs
  <2>3. Ended(path, q) = End("ok", Bare(past))
    BY <2>1, EndedCases
  <2>4. QED
    BY <1>6, <1>8, <2>1, <2>2, <2>3, EndRight DEF path
<1>11. CASE item \notin {None, Crash} /\ followed /\ FollowLink(name, item, ca)
  BY <1>5, <1>8, <1>11, FollowLinkRight
<1>12. CASE /\ item \notin {None, Crash} /\ IsLink(item) /\ rest = <<>> /\ ~job.follow
            /\ job' = Moved(job, there(item), <<>>, job.hops) /\ cache' = ca /\ answer' = answer
  <2> DEFINE past == there(item)
             hops == job.hops
  <2>1. past \in Pasts /\ Chain(W, past) /\ q = At(Bare(past), rest, hops) /\ hops \in 0..(MaxHops + 1)
    BY <1>1, <1>6, <1>12
  <2>2. job' = Moved(job, past, rest, hops) /\ cache' = ca /\ answer' = answer
    BY <1>12
  <2> HIDE DEF past, hops, rest
  <2>3. QED
    BY <1>1, <1>6, <1>8, <2>1, <2>2, MoveRight
<1>13. CASE /\ item \notin {None, Crash} /\ IsDir(item)
            /\ job' = Moved(job, there(WithMeta(item, job.req.meta)), rest, job.hops) /\ cache' = ca /\ answer' = answer
  <2> DEFINE y == WithMeta(item, job.req.meta)
             past == there(y)
             hops == job.hops
  <2>1. ~IsLink(item) /\ item \in Dirs
    BY <1>8, <1>13 DEF IsDir, Dirs
  <2>2. y \in Items /\ BareItem(y) = BareItem(item)
    BY <2>1, WithMetaIs
  <2>3. job' = Moved(job, past, rest, hops) /\ cache' = ca /\ answer' = answer
    BY <1>13
  <2> HIDE DEF y
  <2>4. past \in Pasts
    BY <1>1, <2>2, ExtendPast DEF x
  <2>5. Bare(past) = Bare(there(item))
    <3>1. Bare(past) = Append(Bare(job.past), <<name, BareItem(y)>>)
      BY <1>1, <2>2, BareAppend DEF x
    <3>2. Bare(there(item)) = Append(Bare(job.past), <<name, BareItem(item)>>)
      BY <1>1, <1>8, BareAppend DEF x
    <3>3. QED
      BY <2>2, <3>1, <3>2
  <2>6. Chain(W, past)
    <3>1. BareItem(y) \in Means(W, BareItem(x), name)
      BY <1>4, <2>2
    <3> HIDE DEF name
    <3>2. name # Name("..")
      BY DEF name
    <3>3. QED
      BY <1>1, <1>2, <2>2, <3>1, <3>2, ChainAppend DEF x
  <2>7. q = At(Bare(past), rest, hops) /\ hops \in 0..(MaxHops + 1)
    BY <1>1, <1>6, <1>13, <2>1, <2>5
  <2> HIDE DEF past, hops, rest
  <2>8. QED
    BY <1>1, <1>6, <1>8, <2>3, <2>4, <2>6, <2>7, MoveRight
<1>14. CASE item \notin {None, Crash} /\ ~IsLink(item) /\ ~IsDir(item) /\ Answer(dir, there(item), ca, job)
  <2> DEFINE past == there(item)
  <2>1. past \in Pasts /\ Last(past)[2] = item /\ Chain(W, past) /\ Bare(past) \in Pasts /\ Answer(dir, past, ca, job)
    BY <1>6, <1>7, <1>14
  <2>2. rest # <<>> => q = End("enotdir", Bare(past))
    BY <1>6, <1>14
  <2>3. rest = <<>> => q = At(Bare(past), rest, job.hops)
    BY <1>6, <1>14
  <2> HIDE DEF past, there, rest, path
  <2>4. CASE rest # <<>>
    <3>1. IsEnd(q) /\ dir = "enotdir"
      BY <2>1, <2>2, <2>4, EndIs
    <3>2. Ended(path, q) = End(dir, Bare(past))
      BY <2>1, <2>2, <2>4, <3>1, EndedCases
    <3> HIDE DEF dir
    <3>3. QED
      BY <1>6, <1>8, <2>1, <3>1, <3>2, EndRight DEF path
  <2>5. CASE rest = <<>>
    <3> DEFINE e == End("ok", Bare(past))
               f == job.follow
    <3>1. IsAt(q) /\ q.past = Bare(past) /\ q.future = <<>>
      <4>1. q.is = "at" /\ q.past = Bare(past) /\ q.future = <<>>
        BY <2>3, <2>5 DEF At
      <4>2. QED
        BY <1>6, <4>1, KindOfPosition DEF IsPosition
    <3> HIDE DEF f
    <3>2. Onward(W, q, f) = {End("ok", q.past)}
      BY <3>1, OnwardIs
    <3>3. e \in Onward(W, q, f)
      BY <3>1, <3>2
    <3>4. IsEnd(e)
      BY <2>1, EndIs
    <3> HIDE DEF e
    <3>5. Reaches(W, job, e)
      BY <1>1, <1>6, <3>1, <3>3, ReachesOn DEF f
    <3>6. Ended(path, e) = End(dir, Bare(past))
      <4>1. Decompose(path).mustBeDir = job.mustBeDir
        BY <1>2
      <4>2. CASE job.mustBeDir
        BY <1>14, <2>1, <2>5, <4>1, <4>2, EndedCases DEF e
      <4>3. CASE ~job.mustBeDir
        BY <1>14, <2>1, <2>5, <4>1, <4>3, EndedCases DEF e
      <4>4. QED
        BY <4>2, <4>3
    <3> HIDE DEF dir
    <3>7. QED
      BY <1>8, <2>1, <3>4, <3>5, <3>6, EndRight DEF path
  <2>6. QED
    BY <2>4, <2>5
<1>15. item # Crash
  BY <1>8, NoneIsNone
<1>16. QED
  BY <1>9, <1>10, <1>11, <1>12, <1>13, <1>14, <1>15

LEMMA ResolveNameRight ==
    ASSUME Shape, RightIn(were, cache, job, answer), ResolveName, met' = {}
    PROVE  RightIn(were, cache', job', answer')
<1>1. job.is = "busy" /\ job.future # <<>> /\ Head(job.future) # Name("..")
  BY ResolveNameIs
<1>2. PICK o \in Contents(cache, Here[2], Head(job.future), job.req.meta) : Named(o)
  BY ResolveNameIs
<1>3. IsBusy(job) /\ Typed(were) /\ refs \in were /\ IsRefs(refs) /\ CacheOK(cache)
  BY <1>1, BusyShape DEF Shape, Typed, Busy
<1>4. Here[2] \in Dirs /\ job.req \in Requests
  BY <1>1, <1>3, BusyIs DEF Here
<1>5. job.req.meta \in BOOLEAN
  BY <1>4, AskedAs
<1> DEFINE x == Here[2]
           name == Head(job.future)
           meta == job.req.meta
<1>6. Looked(cache, o) /\ Found(were, x, name, o.item)
  <2>1. o \in Contents(cache, x, name, meta) /\ x \in Dirs /\ meta \in BOOLEAN
    BY <1>2, <1>4, <1>5
  <2> HIDE DEF x, name, meta
  <2>2. QED
    BY <1>3, <2>1, ContentsOK
<1>7. MeaningKept(were, o.cache)
  <2>1. MeaningKept(were, cache) /\ SamePlaces(cache, o.cache)
    BY <1>6 DEF RightIn, Looked
  <2>2. QED
    BY <2>1 DEF MeaningKept, SamePlaces
<1>8. Ready(were, o.cache)
  BY <1>1, <1>3, <1>7 DEF Ready, RightIn
<1>9. o.item \in Items \cup {None} /\ BareItem(o.item) \in Means(were, BareItem(x), name)
  BY <1>2, <1>6, PlainName
<1>10. QED
  BY <1>1, <1>2, <1>5, <1>8, <1>9, NameRight

\* A resolution that begins starts from a place that its key names; what the
\* cache has for its key is what the key stands for.
LEMMA BeginRight ==
    ASSUME NEW W, Typed(W), CacheOK(cache), MeaningKept(W, cache),
           NEW req, NEW path, NEW parent, NEW follow, NEW held, NEW origin,
           Asked(req, path, parent, follow, held, origin),
           Begin(req, path, parent, follow, held, origin),
           KeyRight(W, NewJob(req, path, parent, follow, held, origin)),
           parent # <<>> => Chain(W, parent)
    PROVE  RightIn(W, cache', job', answer')
<1> DEFINE j == NewJob(req, path, parent, follow, held, origin)
           d == Decompose(path)
           names == NamesOf(parent)
           from == IF parent = <<>> THEN <<Root>> ELSE parent
<1>1. IsNewJob(j, req, path, parent, follow, held, origin) /\ KeyRight(W, j)
  BY NewJobIs
<1>2. \/ j.hit /\ Answer("ok", cache[j.key], cache, j)
      \/ ~j.hit /\ parent # <<>> /\ ~IsDir(Last(parent)[2]) /\ Answer("enotdir", parent, cache, j)
      \/ ~j.hit /\ (parent = <<>> \/ IsDir(Last(parent)[2])) /\ job' = j /\ answer' = NoAnswer /\ cache' = cache
  BY BeginIs
<1> HIDE DEF j
<1>3. /\ j \in Jobs /\ j.is = "busy" /\ j.key[3] = follow /\ j.key[4] = names /\ j.key[5] = path
      /\ j.past = (IF d.absolute \/ parent = <<>> THEN <<Root>> ELSE parent)
      /\ j.future = d.future /\ j.hops = 0 /\ j.mustBeDir = d.mustBeDir /\ j.hit = Cached(cache, j.key)
  BY <1>1 DEF IsNewJob
<1>4. j.follow = (follow \/ d.mustBeDir)
  BY <1>1 DEF IsNewJob
<1>5. j.key \in Keys /\ j.key[1] = "res" /\ names \in Seq(Names) /\ path \in Paths
  BY <1>3, KeyIs DEF Jobs
<1>6. Place(from) /\ Chain(W, from) /\ Bare(from) \in Parents(W, names)
  <2>1. CASE parent = <<>>
    <3>1. names = <<>>
      BY <2>1 DEF NamesOf
    <3>2. from = <<Root>> /\ Bare(from) = <<Root>>
      BY <2>1, BareRoot
    <3>3. QED
      BY <3>1, <3>2, RootPlace, ChainRoot, ParentsIs
  <2>2. CASE parent # <<>>
    <3>1. from = parent /\ Place(parent) /\ Chain(W, parent)
      BY <2>2 DEF Asked, Place
    <3>2. QED
      BY <3>1, ChainParents
  <2>3. QED
    BY <2>1, <2>2
<1>7. Place(Bare(from)) /\ (IsDir(Last(Bare(from))[2]) <=> IsDir(Last(from)[2]))
  <2> DEFINE x == Last(from)[2]
  <2>1. x \in Items /\ from \in Pasts
    BY <1>6, PastIs DEF Place, IsThere
  <2>2. Bare(from) \in Pasts /\ Last(Bare(from))[2] = BareItem(x) /\ BareItem(x) # None
    BY <2>1, BarePast, NoneIsNone
  <2> HIDE DEF x
  <2>3. IsDir(BareItem(x)) <=> IsDir(x)
    BY <2>1, BareKeepsKind
  <2>4. QED
    BY <2>2, <2>3 DEF Place, IsThere, x
<1> HIDE DEF names, from
<1>8. CASE j.hit /\ Answer("ok", cache[j.key], cache, j)
  <2> DEFINE past == cache[j.key]
  <2>1. j.key \in DOMAIN cache
    BY <1>3, <1>8 DEF Cached
  <2>2. past \in Pasts
    BY <1>5, <2>1 DEF CacheOK, PlacesKept
  <2>3. Chain(W, past) /\ End("ok", Bare(past)) \in KeyDenotes(W, j.key)
    BY <1>5, <2>1 DEF MeaningKept
  <2>4. Answer("ok", past, cache, j)
    BY <1>8
  <2> HIDE DEF past
  <2>5. QED
    BY <1>1, <1>3, <2>2, <2>3, <2>4, AnswerIsRight
<1>9. CASE parent # <<>> /\ ~IsDir(Last(parent)[2]) /\ Answer("enotdir", parent, cache, j)
  <2>1. from = parent /\ parent \in Pasts
    BY <1>6, <1>9 DEF from, Place
  <2> DEFINE q == Bare(parent)
             e == End("enotdir", q)
  <2>2. q \in Parents(W, names) /\ ~IsDir(Last(q)[2])
    BY <1>6, <1>7, <1>9, <2>1
  <2>3. From(W, path, q, follow) = {e}
    BY <2>2 DEF From
  <2>4. Ended(path, e) = e
    BY <2>1, EndedCases
  <2> HIDE DEF q, e
  <2>5. e \in KeyDenotes(W, j.key)
    <3>1. KeyDenotes(W, j.key) = Denoted(W, path, Parents(W, names), follow)
      BY <1>3 DEF KeyDenotes
    <3>2. Ended(path, e) \in Denoted(W, path, Parents(W, names), follow)
      BY <2>2, <2>3, DenotedIs
    <3>3. QED
      BY <2>4, <3>1, <3>2
  <2>6. QED
    BY <1>1, <1>3, <1>9, <2>1, <2>5, AnswerIsRight DEF e, q
<1>10. CASE (parent = <<>> \/ IsDir(Last(parent)[2])) /\ job' = j /\ answer' = NoAnswer /\ cache' = cache
  <2>1. IsDir(Last(from)[2])
    BY <1>10, RootPlace DEF from
  <2> DEFINE q == Bare(from)
             p == StartOf(path, q)
  <2>2. q \in Parents(W, names) /\ Place(q) /\ IsDir(Last(q)[2])
    BY <1>6, <1>7, <2>1
  <2> HIDE DEF q
  <2>3. IsAt(p)
    BY <1>5, <2>2, StartIs
  <2>4. Bare(j.past) = (IF d.absolute THEN <<Root>> ELSE q) /\ Chain(W, j.past)
    BY <1>3, <1>6, BareRoot, ChainRoot DEF q, from
  <2>5. JobAt(j) = p
    BY <1>3, <2>4 DEF JobAt, StartOf
  <2> DEFINE f == j.follow
  <2> HIDE DEF p, f
  <2>6. OnWay(W, p, p, f)
    BY <2>3, OnWayStart
  <2>7. Reaches(W, j, JobAt(j))
    BY <1>3, <2>2, <2>5, <2>6 DEF Reaches, p, f
  <2>8. BusyRight(W, j)
    BY <1>1, <1>3, <1>4, <2>4, <2>7, BusyRightIs
  <2>9. QED
    BY <1>3, <1>10, <2>8 DEF RightIn, NoAnswer
<1>11. QED
  BY <1>2, <1>8, <1>9, <1>10

LEMMA AskRight ==
    ASSUME Shape, RightIn(were, cache, job, answer), NEW req \in Requests, Ask(req)
    PROVE  RightIn(were, cache', job', answer')
<1> DEFINE parent == IF req.relative THEN answer.past ELSE <<>>
           f == req.follow /\ ~req.try
           j == NewJob(req, req.path, parent, f, <<>>, parent)
<1>1. /\ Asked(req, req.path, parent, f, <<>>, parent)
      /\ Begin(req, req.path, parent, f, <<>>, parent)
      /\ req.relative => IsAnswer(answer) /\ answer.is = "ok"
  BY AskIs
<1>2. parent # <<>> => Chain(were, parent)
  <2>1. req.relative => AnswerRight(were, answer)
    BY <1>1 DEF RightIn
  <2>2. req.relative => Chain(were, answer.past)
    BY <1>1, <2>1, AnswerRightIs
  <2>3. QED
    BY <2>2
<1> HIDE DEF parent, f
<1>3. IsNewJob(j, req, req.path, parent, f, <<>>, parent)
  BY <1>1, NewJobIs
<1> HIDE DEF j
<1>4. KeyRight(were, j)
  <2>1. j.req = req /\ j.parent = parent /\ j.held = <<>>
        /\ j.key = Res([req EXCEPT !.follow = f, !.path = req.path], parent)
    BY <1>3 DEF IsNewJob
  <2>2. FirstKey(req, parent) = Res([req EXCEPT !.follow = f, !.path = req.path], parent)
    BY FirstKeyIs DEF f
  <2>3. QED
    BY <2>1, <2>2, KeyRightIs
<1>5. Typed(were) /\ CacheOK(cache) /\ MeaningKept(were, cache)
  BY DEF Shape, Shaped, Typed, RightIn
<1>6. QED
  BY <1>1, <1>2, <1>4, <1>5, BeginRight DEF j

LEMMA TryAgainRight ==
    ASSUME Shape, RightIn(were, cache, job, answer), TryAgain
    PROVE  RightIn(were, cache', job', answer')
<1> DEFINE held == job.held
           path == <<Last(held)[1]>>
           parent == Front(held)
           j == NewJob(job.req, path, parent, TRUE, held, job.parent)
<1>1. IsAgain(job) /\ Asked(job.req, path, parent, TRUE, held, job.parent)
      /\ Begin(job.req, path, parent, TRUE, held, job.parent)
  BY TryAgainIs
<1>2. HeldRight(were, job.req, job.parent, held) /\ held \in Pasts
  BY <1>1 DEF RightIn, IsAgain
<1>3. parent # <<>> => Chain(were, parent)
  <2>1. CASE Len(held) > 1
    BY <1>2, <2>1, ChainFront, HeldIs
  <2>2. CASE Len(held) = 1
    BY <1>2, <2>2, FrontOfOne
  <2>3. Len(held) > 1 \/ Len(held) = 1
    <3> DEFINE n == Len(held)
    <3>1. n \in Nat /\ n > 0
      BY <1>2, PastIs
    <3> HIDE DEF n
    <3>2. n > 1 \/ n = 1
      BY <3>1
    <3>3. QED
      BY <3>2 DEF n
  <2>4. QED
    BY <2>1, <2>2, <2>3
<1> HIDE DEF path, parent
<1>4. IsNewJob(j, job.req, path, parent, TRUE, held, job.parent)
  BY <1>1, NewJobIs
<1> HIDE DEF j
<1>5. KeyRight(were, j)
  <2>1. j.req = job.req /\ j.parent = job.parent /\ j.held = held
        /\ j.key = Res([job.req EXCEPT !.follow = TRUE, !.path = path], parent)
    BY <1>4 DEF IsNewJob
  <2>2. AgainKey(job.req, held) = Res([job.req EXCEPT !.follow = TRUE, !.path = path], parent)
    BY DEF AgainKey, path, parent
  <2>3. j.held # <<>>
    BY <1>2, <2>1 DEF Pasts
  <2>4. j.key = AgainKey(j.req, j.held) /\ HeldRight(were, j.req, j.parent, j.held)
    BY <1>2, <2>1, <2>2
  <2>5. QED
    BY <2>3, <2>4, KeyRightIs
<1>6. Typed(were) /\ CacheOK(cache) /\ MeaningKept(were, cache)
  BY DEF Shape, Shaped, Typed, RightIn
<1>7. QED
  BY <1>1, <1>3, <1>5, <1>6, BeginRight DEF j

\* No step unlearns what was met.
LEMMA MetStays == ASSUME Shape, [Next]_vars, met' = {} PROVE met = {}
<1>1. ASSUME NEW req \in Requests, Ask(req) PROVE met = {}
  BY <1>1, AskIs
<1>2. CASE TryAgain \/ ResolveDone \/ ResolveUp \/ RefMoves \/ UNCHANGED vars
  BY <1>2 DEF TryAgain, ResolveDone, ResolveUp, RefMoves, vars
<1>3. CASE ResolveName
  <2>1. PICK o : Named(o)
    BY <1>3, ResolveNameIs
  <2>2. ASSUME FollowLink(Head(job.future), o.item, o.cache) PROVE met = {}
    BY <2>2, FollowLinkIs
  <2>3. QED
    BY <2>1, <2>2 DEF Named
<1>4. QED
  BY <1>1, <1>2, <1>3 DEF Next

\* When another process moves a ref, what was right stays right.
LEMMA RefMovesRight ==
    ASSUME Shape, RightIn(were, cache, job, answer), RefMoves
    PROVE  RightIn(were', cache', job', answer')
<1>1. were \subseteq were' /\ cache' = cache /\ job' = job /\ answer' = answer
  BY RefMovesIs
<1> DEFINE V == were'
<1>2. Typed(were) /\ were \subseteq V /\ PlacesKept(cache)
  BY <1>1 DEF Shape, Shaped, CacheOK, Typed
<1>3. MeaningKept(were, cache) /\ (job.is = "again" => HeldRight(were, job.req, job.parent, job.held))
  BY DEF RightIn
<1>4. (job.is = "busy" => BusyRight(were, job)) /\ (answer.is # "none" => AnswerRight(were, answer))
  BY DEF RightIn
<1>5. /\ job.is = "again" => job.req \in Requests /\ job.parent \in Origins /\ job.held \in Pasts
      /\ job.is = "busy" => job \in Jobs
      /\ answer.is # "none" => IsAnswer(answer)
  BY DEF Shape, Shaped, NoJob, IsAgain, IsBusy, NoAnswer, Jobs, Origins
<1> HIDE DEF V
<1>6. MeaningKept(V, cache)
  BY <1>2, <1>3, MeaningMore
<1>7. job.is = "again" => HeldRight(V, job.req, job.parent, job.held)
  BY <1>2, <1>3, <1>5, HeldMore
<1>8. job.is = "busy" => BusyRight(V, job)
  BY <1>2, <1>4, <1>5, BusyMore
<1>9. answer.is # "none" => AnswerRight(V, answer)
  BY <1>2, <1>4, <1>5, AnswerMore
<1>10. RightIn(V, cache, job, answer)
  BY <1>6, <1>7, <1>8, <1>9 DEF RightIn
<1>11. QED
  BY <1>1, <1>10 DEF V

LEMMA NextRight ==
    ASSUME Shape, RightIn(were, cache, job, answer), [Next]_vars, met' = {}
    PROVE  RightIn(were', cache', job', answer')
<1>1. ASSUME NEW req \in Requests, Ask(req)
      PROVE  RightIn(were', cache', job', answer')
  <2>1. were' = were
    BY <1>1, AskIs
  <2>2. QED
    BY <1>1, <2>1, AskRight
<1>2. CASE TryAgain
  <2>1. were' = were
    BY <1>2, TryAgainIs
  <2>2. QED
    BY <1>2, <2>1, TryAgainRight
<1>3. ASSUME Busy PROVE Ready(were, cache)
  <2>1. IsBusy(job) /\ job.is = "busy"
    BY <1>3, BusyShape DEF Busy
  <2>2. QED
    BY <2>1 DEF Ready, RightIn, Shape, Typed
<1>4. CASE ResolveDone
  <2>1. were' = were /\ Busy
    BY <1>4 DEF ResolveDone
  <2>2. QED
    BY <1>3, <1>4, <2>1, ResolveDoneRight
<1>5. CASE ResolveUp
  <2>1. were' = were /\ Busy
    BY <1>5 DEF ResolveUp
  <2>2. QED
    BY <1>3, <1>5, <2>1, ResolveUpRight
<1>6. CASE ResolveName
  <2>1. were' = were
    BY <1>6 DEF ResolveName
  <2>2. QED
    BY <1>6, <2>1, ResolveNameRight
<1>7. CASE RefMoves
  BY <1>7, RefMovesRight
<1>8. CASE UNCHANGED vars
  <2>1. were' = were /\ cache' = cache /\ job' = job /\ answer' = answer
    BY <1>8 DEF vars
  <2>2. QED
    BY <2>1
<1>9. QED
  BY <1>1, <1>2, <1>4, <1>5, <1>6, <1>7, <1>8 DEF Next

LEMMA InitRight == Init => Right
<1> SUFFICES ASSUME Init PROVE RightIn(were, cache, job, answer)
  BY RightIs
<1>1. cache = <<>> /\ job = NoJob /\ answer = NoAnswer
  BY DEF Init
<1>2. DOMAIN cache = {}
  BY <1>1
<1>3. QED
  BY <1>1, <1>2 DEF RightIn, MeaningKept, NoJob, NoAnswer

LEMMA NextIInv == IInv /\ [Next]_vars => IInv'
<1> SUFFICES ASSUME IInv, [Next]_vars
             PROVE  IInv'
  OBVIOUS
<1>1. Shape /\ Right /\ Shape'
  BY NextShape DEF IInv
<1>2. ASSUME met' = {} PROVE RightIn(were', cache', job', answer')
  <2>1. RightIn(were, cache, job, answer)
    BY <1>1, <1>2, MetStays, RightIs
  <2>2. QED
    BY <1>1, <1>2, <2>1, NextRight
<1>3. Right'
  BY <1>2 DEF Right, RightIn
<1>4. QED
  BY <1>1, <1>3 DEF IInv

\* What the cache keeps, what is being resolved and what was answered stay
\* true to the names and links on the way, through evictions, through refs
\* that move between two lookups, and in directories resolved before
\* (_resolve_path, resolve, try_resolve, cache_notice).
THEOREM RightAlways == Spec => []IInv
<1>1. Init => IInv
  BY InitShape, InitRight DEF IInv
<1>2. QED
  BY <1>1, NextIInv, PTL DEF Spec

\* With all the caching and with refs that move meanwhile, what resolve and
\* try_resolve answer is a place that the path could denote at the times its
\* refs were read, but for the two exceptions in met.
THEOREM AnswersDenoteAlways == Spec => []AnswersDenote
<1>1. IInv => AnswersDenote
  <2> SUFFICES ASSUME Right, answer.is # "none", met = {} PROVE AnswersDenote
    BY DEF IInv, AnswersDenote
  <2>1. AnswerRight(were, answer)
    BY DEF Right
  <2>2. QED
    BY <2>1 DEF AnswerRight, AnswersDenote
<1>2. QED
  BY <1>1, RightAlways, PTL
=============================================================================
