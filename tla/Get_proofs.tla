----------------------------- MODULE Get_proofs -----------------------------
(***************************************************************************)
(* Whatever a ref names is whole, branches only grow, rewritten saves are  *)
(* what the conversion makes of their sources and repaired ones say so,    *)
(* for any objects and any damage, any targets of a command and any        *)
(* commands in turn, whoever moves the refs meanwhile and wherever a       *)
(* command dies.                                                           *)
(***************************************************************************)
EXTENDS Get, FiniteSetTheorems, SequenceTheorems, WellFoundedInduction, TLAPS

-----------------------------------------------------------------------------
(***************************************************************************)
(* The walk                                                                *)
(***************************************************************************)

\* The objects a walk from x may meet.
Around(x) == Node \cup (IF x \in Node THEN {} ELSE {SubSeq(x, 1, k) : k \in 1..Len(x)})
ClosedBut(S, stop) == \A y \in S : Kids(y) \ stop \subseteq S
More(S, stop) == S \cup ((UNION {Kids(y) : y \in S}) \ stop)

LEMMA InMore ==
    ASSUME NEW S, NEW stop, NEW z
    PROVE  z \in More(S, stop) <=> z \in S \/ (z \notin stop /\ \E y \in S : z \in Kids(y))
BY DEF More

\* A set to which nothing is added is closed.
LEMMA FullIsClosed ==
    ASSUME NEW S, NEW stop, More(S, stop) = S
    PROVE  ClosedBut(S, stop)
BY InMore DEF ClosedBut

\* What is closed and has a set has what the set grows to.
LEMMA ClosedHasMore ==
    ASSUME NEW S, NEW stop, NEW T, ClosedBut(T, stop)
    PROVE  S \subseteq T <=> More(S, stop) \subseteq T
BY InMore DEF ClosedBut

\* A nonempty set of numbers has a least one.
LEMMA LeastNat ==
    ASSUME NEW T, T \subseteq Nat, T # {}
    PROVE  \E n \in T : \A m \in T : n <= m
<1> DEFINE Less == {p \in Nat \X Nat : p[1] < p[2]}
<1>1. IsWellFoundedOn(Less, Nat)
  BY NatLessThanWellFounded DEF OpToRel
<1>2. PICK n \in T : \A m \in T : <<m, n>> \notin Less
  <2> HIDE DEF Less
  <2>1. QED
    BY <1>1, WFMin
<1>3. \A m \in T : m < n => <<m, n>> \in Less
  OBVIOUS
<1> HIDE DEF Less
<1>4. \A m \in T : ~(m < n)
  BY <1>2, <1>3
<1>5. QED
  BY <1>4

\* What a function that grows a set until nothing is added comes to: the
\* least set with what it began with that is closed but for stop.
LEMMA GrowthIsLeast ==
    ASSUME NEW U, IsFiniteSet(U), NEW stop, \A y \in U : Kids(y) \subseteq U,
           NEW g, g = [S \in SUBSET U |-> IF More(S, stop) = S THEN S ELSE g[More(S, stop)]],
           NEW S \in SUBSET U
    PROVE  /\ S \subseteq g[S] /\ g[S] \subseteq U
           /\ ClosedBut(g[S], stop)
           /\ \A T : S \subseteq T /\ ClosedBut(T, stop) => g[S] \subseteq T
<1> DEFINE P(R) == /\ R \subseteq g[R] /\ g[R] \subseteq U
                   /\ ClosedBut(g[R], stop)
                   /\ \A T : R \subseteq T /\ ClosedBut(T, stop) => g[R] \subseteq T
           Left(R) == Cardinality(U \ R)
           Bad == {Left(R) : R \in {Q \in SUBSET U : ~P(Q)}}
<1>1. \A R \in SUBSET U : Left(R) \in Nat
  BY FS_CardinalityType, FS_Difference
<1>2. SUFFICES ASSUME Bad # {}
              PROVE  FALSE
  OBVIOUS
<1>3. PICK n \in Bad : \A m \in Bad : n <= m
  <2>1. Bad \subseteq Nat
    BY <1>1
  <2> HIDE DEF Bad
  <2>2. QED
    BY <1>2, <2>1, LeastNat
<1>4. PICK R \in SUBSET U : ~P(R) /\ n = Left(R)
  OBVIOUS
<1> DEFINE R2 == More(R, stop)
<1>5. R2 \in SUBSET U /\ R \subseteq R2
  BY DEF More
<1>6. g[R] = IF R2 = R THEN R ELSE g[R2]
  <2> HIDE DEF R2
  <2>1. QED
    BY DEF R2
<1>7. CASE R2 = R
  <2>1. ClosedBut(R, stop)
    BY <1>7, FullIsClosed
  <2>2. g[R] = R
    BY <1>6, <1>7
  <2>3. QED
    BY <1>4, <2>1, <2>2
<1>8. CASE R2 # R
  <2>1. PICK y \in R2 : y \notin R
    BY <1>5, <1>8
  <2>2. Left(R2) < Left(R)
    <3>1. U \ R2 \subseteq U \ R /\ U \ R2 # U \ R /\ IsFiniteSet(U \ R)
      BY <1>5, <2>1, FS_Difference
    <3>2. QED
      <4> DEFINE A == U \ R2
                 B == U \ R
      <4> HIDE DEF A, B
      <4>1. A \subseteq B /\ A # B /\ IsFiniteSet(B)
        BY <3>1 DEF A, B
      <4>2. Cardinality(A) < Cardinality(B)
        BY <4>1, FS_Subset, FS_CardinalityType
      <4>3. QED
        BY <4>2 DEF A, B
  <2>3. P(R2)
    <3>1. Left(R2) \in Nat /\ Left(R) \in Nat
      BY <1>1, <1>5
    <3>2. ~(Left(R) <= Left(R2))
      BY <2>2, <3>1
    <3>3. ~P(R2) => Left(R2) \in Bad
      BY <1>5
    <3> HIDE DEF Bad, P, Left
    <3>4. QED
      BY <1>3, <1>4, <3>2, <3>3
  <2>4. g[R] = g[R2]
    BY <1>6, <1>8
  <2>5. \A T : R \subseteq T /\ ClosedBut(T, stop) => R2 \subseteq T
    BY ClosedHasMore
  <2>6. P(R)
    <3>1. R \subseteq g[R] /\ g[R] \subseteq U /\ ClosedBut(g[R], stop)
      BY <1>5, <2>3, <2>4
    <3>2. ASSUME NEW T, R \subseteq T, ClosedBut(T, stop)
          PROVE  g[R] \subseteq T
      <4>1. R2 \subseteq T
        BY <2>5, <3>2
      <4>2. g[R2] \subseteq T
        BY <2>3, <3>2, <4>1
      <4>3. QED
        BY <2>4, <4>2
    <3>3. QED
      BY <3>1, <3>2
  <2>7. QED
    BY <1>4, <2>6
<1>9. QED
  BY <1>7, <1>8

\* The walk's function exists: one that closes a set at once is like it.
LEMMA WalkGrows ==
    ASSUME NEW x, NEW stop, x \notin stop, \A y \in Around(x) : Kids(y) \subseteq Around(x)
    PROVE  \E g : /\ g = [S \in SUBSET Around(x) |->
                             IF More(S, stop) = S THEN S ELSE g[More(S, stop)]]
                  /\ Walk(x, stop) = g[{x}]
<1> DEFINE U == Around(x)
           F(g) == [S \in SUBSET U |-> IF More(S, stop) = S THEN S ELSE g[More(S, stop)]]
           grow == CHOOSE g : g = F(g)
           Least(S) == {y \in U : \A T \in SUBSET U : S \subseteq T /\ ClosedBut(T, stop) => y \in T}
           h == [S \in SUBSET U |-> Least(S)]
<1>1. Walk(x, stop) = grow[{x}]
  BY DEF Walk, More, Around
<1>2. ASSUME NEW S \in SUBSET U
      PROVE  h[S] = IF More(S, stop) = S THEN S ELSE h[More(S, stop)]
  <2>1. More(S, stop) \in SUBSET U
    BY DEF More
  <2>2. \A T \in SUBSET U : ClosedBut(T, stop) =>
            (S \subseteq T <=> More(S, stop) \subseteq T)
    BY ClosedHasMore
  <2>3. Least(S) = Least(More(S, stop))
    BY <2>2
  <2>4. CASE More(S, stop) = S
    <3>1. ClosedBut(S, stop)
      BY <2>4, FullIsClosed
    <3>2. QED
      BY <2>4, <3>1
  <2>5. QED
    BY <2>1, <2>3, <2>4
<1>3. h = F(h)
  <2> HIDE DEF Least
  <2>1. QED
    BY <1>2
<1> HIDE DEF h, F
<1>4. grow = F(grow)
  BY <1>3
<1>5. QED
  BY <1>1, <1>4 DEF F

\* A walk has what it began with, stops at nothing but stop, and goes no
\* further than what is below.
LEMMA WalkIsLeast ==
    ASSUME NEW x, NEW stop, x \notin stop, x \in Around(x), IsFiniteSet(Around(x)),
           \A y \in Around(x) : Kids(y) \subseteq Around(x)
    PROVE  /\ x \in Walk(x, stop) /\ Walk(x, stop) \subseteq Around(x)
           /\ ClosedBut(Walk(x, stop), stop)
           /\ \A T : x \in T /\ ClosedBut(T, stop) => Walk(x, stop) \subseteq T
<1> DEFINE U == Around(x)
           R == {x}
<1>1. PICK g : /\ g = [S \in SUBSET U |->
                          IF More(S, stop) = S THEN S ELSE g[More(S, stop)]]
               /\ Walk(x, stop) = g[R]
  BY WalkGrows
<1>2. R \in SUBSET U /\ IsFiniteSet(U) /\ \A y \in U : Kids(y) \subseteq U
  OBVIOUS
<1>3. /\ R \subseteq g[R] /\ g[R] \subseteq U
      /\ ClosedBut(g[R], stop)
      /\ \A T : R \subseteq T /\ ClosedBut(T, stop) => g[R] \subseteq T
  <2> HIDE DEF U, R
  <2>1. QED
    BY <1>1, <1>2, GrowthIsLeast
<1>4. QED
  BY <1>1, <1>3

-----------------------------------------------------------------------------
(***************************************************************************)
(* Objects                                                                 *)
(***************************************************************************)

\* A commit's name is never that of a directory or a file.
NodesAreNoCommits == \A n \in Node : n \notin Seq(Range(n))

\* A history, whose copied saves have directories that there are.
IsHistory(c) ==
    /\ c \in Seq(Range(c)) /\ c # <<>>
    /\ \A i \in DOMAIN c : NodesOf(c[i]) \subseteq Node
IsObject(x) == x \in Node \/ IsHistory(x)

LEMMA NodesFinite == IsFiniteSet(Node)
BY RewriteParameters

LEMMA NodeKids ==
    ASSUME NEW n \in Node
    PROVE  Kids(n) \subseteq Node
BY RewriteParameters DEF Kids, Dirs

LEMMA HistoryKids ==
    ASSUME NodesAreNoCommits, NEW c, IsHistory(c)
    PROVE  /\ c \notin Node /\ Len(c) \in Nat \ {0}
           /\ Kids(c) = NodesOf(c[Len(c)]) \cup (IF Len(c) > 1 THEN {SubSeq(c, 1, Len(c) - 1)} ELSE {})
           /\ NodesOf(c[Len(c)]) \subseteq Node
<1>1. c \in Seq(Range(c)) /\ c # <<>>
  BY DEF IsHistory
<1>2. Len(c) \in Nat \ {0} /\ DOMAIN c = 1..Len(c)
  <2> DEFINE S == Range(c)
  <2> HIDE DEF S
  <2>1. c \in Seq(S)
    BY <1>1 DEF S
  <2>2. QED
    BY <1>1, <2>1
<1>3. c \notin Node
  BY <1>1 DEF NodesAreNoCommits
<1>4. c \notin Dirs
  BY <1>3 DEF Dirs
<1>5. NodesOf(c[Len(c)]) \subseteq Node
  BY <1>2 DEF IsHistory
<1>6. QED
  BY <1>2, <1>3, <1>4, <1>5 DEF Kids, Last, Front

\* The beginnings of a history are histories.
LEMMA HistoryBegins ==
    ASSUME NEW c, IsHistory(c), NEW k \in 1..Len(c)
    PROVE  IsHistory(SubSeq(c, 1, k)) /\ Len(SubSeq(c, 1, k)) = k
<1> DEFINE S == Range(c)
           b == SubSeq(c, 1, k)
<1>1. c \in Seq(S) /\ \A i \in DOMAIN c : NodesOf(c[i]) \subseteq Node
  BY DEF IsHistory
<1> HIDE DEF S
<1>2. /\ b \in Seq(S) /\ Len(b) = k /\ DOMAIN b = 1..k
      /\ \A i \in 1..k : b[i] = c[i] /\ i \in DOMAIN c
  BY <1>1
<1> HIDE DEF b
<1>3. b \in Seq(Range(b))
  BY <1>2 DEF Range
<1>4. b # <<>>
  BY <1>2
<1>5. \A i \in DOMAIN b : NodesOf(b[i]) \subseteq Node
  BY <1>1, <1>2
<1>6. IsHistory(b)
  BY <1>3, <1>4, <1>5 DEF IsHistory
<1>7. QED
  BY <1>2, <1>6 DEF b

\* A walk from an object stays around it.
LEMMA AroundIsWhole ==
    ASSUME NodesAreNoCommits, NEW x, IsObject(x)
    PROVE  /\ x \in Around(x) /\ IsFiniteSet(Around(x))
           /\ \A y \in Around(x) : Kids(y) \subseteq Around(x)
           /\ \A y \in Around(x) : IsObject(y)
<1>1. CASE x \in Node
  <2>1. Around(x) = Node
    BY <1>1 DEF Around
  <2>2. QED
    BY <1>1, <2>1, NodeKids, NodesFinite DEF IsObject
<1>2. CASE x \notin Node
  <2>1. IsHistory(x)
    BY <1>2 DEF IsObject
  <2>2. Len(x) \in Nat \ {0} /\ x \in Seq(Range(x))
    BY <2>1, HistoryKids DEF IsHistory
  <2> DEFINE older == {SubSeq(x, 1, k) : k \in 1..Len(x)}
  <2>3. Around(x) = Node \cup older
    BY <1>2 DEF Around
  <2>4. SubSeq(x, 1, Len(x)) = x
    BY <2>2
  <2>5. x \in Around(x)
    <3>1. x = SubSeq(x, 1, Len(x)) /\ Len(x) \in 1..Len(x)
      BY <2>2, <2>4
    <3>2. x \in older
      BY <3>1
    <3> HIDE DEF older
    <3>3. QED
      BY <2>3, <3>2
  <2>6. IsFiniteSet(Around(x))
    <3>1. IsFiniteSet(1..Len(x))
      BY <2>2, FS_Interval
    <3>2. IsFiniteSet(older)
      <4> DEFINE I == 1..Len(x)
                 f == [k \in I |-> SubSeq(x, 1, k)]
      <4>1. f \in Surjection(I, older)
        BY DEF Surjection
      <4> HIDE DEF I, f, older
      <4>2. QED
        BY <3>1, <4>1, FS_Surjection DEF I
    <3>3. QED
      BY <2>3, <3>2, FS_Union, NodesFinite
  <2>7. ASSUME NEW k \in 1..Len(x)
        PROVE  /\ IsHistory(SubSeq(x, 1, k))
               /\ Kids(SubSeq(x, 1, k)) \subseteq Around(x)
    <3> DEFINE b == SubSeq(x, 1, k)
    <3>1. IsHistory(b) /\ Len(b) = k
      BY <2>1, HistoryBegins
    <3>2. k > 1 => SubSeq(b, 1, k - 1) = SubSeq(x, 1, k - 1) /\ k - 1 \in 1..Len(x)
      BY <2>2
    <3> HIDE DEF b
    <3>3. Kids(b) = NodesOf(b[k]) \cup (IF k > 1 THEN {SubSeq(b, 1, k - 1)} ELSE {})
      BY <3>1, HistoryKids
    <3>4. NodesOf(b[k]) \subseteq Node
      BY <3>1, HistoryKids
    <3>5. QED
      BY <2>3, <3>1, <3>2, <3>3, <3>4 DEF b
  <2>8. QED
    BY <2>3, <2>5, <2>6, <2>7, NodeKids DEF IsObject
<1>3. QED
  BY <1>1, <1>2

\* What walk_object finds, when nothing stops it and when something does.
LEMMA WholeIsLeast ==
    ASSUME NodesAreNoCommits, NEW x, IsObject(x)
    PROVE  /\ x \in Whole(x)
           /\ \A y \in Whole(x) : IsObject(y) /\ Kids(y) \subseteq Whole(x)
           /\ \A T : x \in T /\ (\A y \in T : Kids(y) \subseteq T) => Whole(x) \subseteq T
<1>1. /\ x \in Walk(x, {}) /\ Walk(x, {}) \subseteq Around(x)
      /\ ClosedBut(Walk(x, {}), {})
      /\ \A T : x \in T /\ ClosedBut(T, {}) => Walk(x, {}) \subseteq T
  BY AroundIsWhole, WalkIsLeast
<1>2. QED
  BY <1>1, AroundIsWhole DEF Whole, ClosedBut

LEMMA WalkSeesRoot ==
    ASSUME NodesAreNoCommits, NEW x, IsObject(x), NEW stop, Walk(x, stop) = {}
    PROVE  x \in stop
<1>1. SUFFICES ASSUME x \notin stop
              PROVE  FALSE
  OBVIOUS
<1>2. x \in Walk(x, stop)
  BY <1>1, AroundIsWhole, WalkIsLeast
<1>3. QED
  BY <1>2

LEMMA WalkMeetsObjects ==
    ASSUME NodesAreNoCommits, NEW x, IsObject(x), NEW stop, NEW y \in Walk(x, stop)
    PROVE  IsObject(y)
<1>1. x \notin stop
  BY DEF Walk
<1>2. Walk(x, stop) \subseteq Around(x)
  BY <1>1, AroundIsWhole, WalkIsLeast
<1>3. QED
  BY <1>2, AroundIsWhole

\* A save appended to a history, or to none.
LEMMA HistoryGrows ==
    ASSUME NodesAreNoCommits, NEW c, IsHistory(c) \/ c = <<>>, NEW save, NodesOf(save) \subseteq Node
    PROVE  /\ IsHistory(Append(c, save))
           /\ Kids(Append(c, save)) \subseteq NodesOf(save) \cup ({c} \ {<<>>})
           /\ Len(Append(c, save)) = Len(c) + 1
           /\ IsHistory(c) => IsPrefix(c, Append(c, save))
           /\ \A b : IsHistory(b) /\ IsHistory(c) /\ IsPrefix(b, c) => IsPrefix(b, Append(c, save))
<1> DEFINE S == Range(c) \cup {save}
           d == Append(c, save)
<1>1. c \in Seq(Range(c))
  <2>1. CASE c = <<>>
    BY <2>1, EmptySeq DEF Range
  <2>2. QED
    BY <2>1 DEF IsHistory
<1>2. c \in Seq(S) /\ save \in S
  BY <1>1
<1>3. \A i \in DOMAIN c : NodesOf(c[i]) \subseteq Node
  BY DEF IsHistory
<1> HIDE DEF S
<1>4. /\ d \in Seq(S) /\ Len(d) = Len(c) + 1 /\ Len(c) \in Nat /\ DOMAIN d = 1..(Len(c) + 1)
      /\ DOMAIN c = 1..Len(c)
      /\ \A i \in 1..Len(c) : d[i] = c[i]
      /\ d[Len(c) + 1] = save
  BY <1>2
<1>5. Len(c) > 0 => SubSeq(d, 1, Len(c)) = c /\ c # <<>>
  BY <1>2
<1>6. Len(c) = 0 => c = <<>>
  BY <1>2
<1> HIDE DEF d
<1>7. IsHistory(d)
  <2>1. d \in Seq(Range(d))
    BY <1>4 DEF Range
  <2>2. d # <<>>
    BY <1>4
  <2>3. \A i \in DOMAIN d : NodesOf(d[i]) \subseteq Node
    BY <1>3, <1>4
  <2>4. QED
    BY <2>1, <2>2, <2>3 DEF IsHistory
<1>8. Kids(d) \subseteq NodesOf(save) \cup ({c} \ {<<>>})
  <2>1. Kids(d) = NodesOf(d[Len(d)]) \cup (IF Len(d) > 1 THEN {SubSeq(d, 1, Len(d) - 1)} ELSE {})
    BY <1>7, HistoryKids
  <2>2. Len(d) - 1 = Len(c) /\ (Len(d) > 1 <=> Len(c) > 0)
    BY <1>4
  <2>3. QED
    BY <1>4, <1>5, <2>1, <2>2
<1>9. IsHistory(c) => IsPrefix(c, d)
  <2>1. SubSeq(c, 1, Len(c)) = c
    BY <1>2
  <2>2. SUFFICES ASSUME IsHistory(c)
                PROVE  IsPrefix(c, d)
    OBVIOUS
  <2>3. Len(c) > 0
    BY <2>2, HistoryKids
  <2>4. QED
    BY <1>4, <1>5, <2>1, <2>3 DEF IsPrefix
<1>10. ASSUME NEW b, IsHistory(b), IsPrefix(b, c)
       PROVE  IsPrefix(b, d)
  <2>1. Len(b) \in Nat /\ Len(b) <= Len(c) /\ SubSeq(b, 1, Len(b)) = SubSeq(c, 1, Len(b))
    BY <1>10, HistoryKids DEF IsPrefix
  <2>2. SubSeq(d, 1, Len(b)) = SubSeq(c, 1, Len(b))
    BY <1>2, <1>4, <2>1
  <2>3. QED
    BY <1>4, <2>1, <2>2 DEF IsPrefix
<1>11. QED
  BY <1>4, <1>7, <1>8, <1>9, <1>10 DEF d

-----------------------------------------------------------------------------
(***************************************************************************)
(* The invariant                                                           *)
(***************************************************************************)

\* What the destination has is whole, unless there is a hole.
StoreInv ==
    /\ \A x \in have : IsObject(x)
    /\ ~holed => \A x \in have : Kids(x) \subseteq have

\* Refs name what is there, branches commits.
RefsInv ==
    /\ refs = [r \in Refs |-> refs[r]]
    /\ \A r \in Refs : refs[r] # None => refs[r] \in have
    /\ \A r \in Branches : refs[r] # None => IsHistory(refs[r])

\* What the command line and resolve_targets let through.
Suits(spec) ==
    /\ ~Misuse(spec)
    /\ spec.method \in {"pick", "force-pick"} => spec.src \notin Node
    /\ spec.method = "append" /\ spec.mode # "copy" => spec.src \notin Node
    /\ spec.dest \in Branches =>
         spec.method # "new-tag" /\ (spec.method = "append" \/ spec.src \notin Node)

\* All targets of one ref have found it at the same place.
TargetsInv ==
    /\ targets \in Seq([spec : Specs, hash : have \cup {None}])
    /\ pc \in {"next", "append", "copy"} <=> targets # <<>>
    /\ \A i \in DOMAIN targets :
         LET at == targets[i]
         IN /\ Suits(at.spec)
            /\ at.spec.dest \in Branches /\ at.hash # None => IsHistory(at.hash)
            /\ \A j \in DOMAIN targets :
                 at.spec.dest # None /\ targets[j].spec.dest = at.spec.dest => targets[j].hash = at.hash

Picking(spec) == spec.method \in {"append", "pick", "force-pick"}

\* What is appended to is there, and goes on from what the branch was.
AppendInv ==
    pc = "append" =>
        /\ Picking(Spec0) /\ todo \in Seq({Original(n) : n \in Node})
        /\ tip = <<>> \/ (IsHistory(tip) /\ tip \in have)
        /\ todo = <<>> => tip # <<>>
        /\ Spec0.dest \in Branches /\ Target.hash # None => tip # <<>> /\ IsPrefix(Target.hash, tip)

CopyInv == pc = "copy" => ~Picking(Spec0) /\ tip = Source(Spec0) /\ ~NotAhead

\* A save is rewritten only while one is to be appended, and never taken for
\* a copy.
WorkInv ==
    Busy => /\ pc = "append" /\ todo # <<>> /\ Spec0.mode # "copy"
            /\ "mode" \in DOMAIN work /\ work.mode # "copy"

\* What refs will be moved to is there, and goes on from where they were.
UpdatedInv ==
    \A r \in DOMAIN updated :
        LET u == updated[r]
        IN /\ r \in Refs /\ u.new \in have
           /\ r \in Branches =>
                IsHistory(u.new) /\ (u.how = "replace" \/ u.old = None \/ IsPrefix(u.old, u.new))
           /\ \A i \in DOMAIN targets : targets[i].spec.dest = r => targets[i].hash = u.old

GetInv ==
    /\ StoreInv /\ RefsInv /\ TargetsInv
    /\ AppendInv /\ CopyInv /\ WorkInv /\ UpdatedInv

\* The saves of the source, and what a target has for a source.
LEMMA SourceIsObject ==
    /\ \A k \in DOMAIN SrcSaves : IsHistory(SrcCommit(k))
    /\ \A spec \in Specs : /\ IsObject(Source(spec))
                           /\ spec.src \notin Node => IsHistory(Source(spec))
<1>1. ASSUME NEW k \in DOMAIN SrcSaves
      PROVE  IsHistory(SrcCommit(k))
  <2> DEFINE c == SrcCommit(k)
  <2>1. DOMAIN SrcSaves = 1..Len(SrcSaves) /\ Len(SrcSaves) \in Nat
    BY GetParameters
  <2>2. k \in Nat \ {0} /\ \A i \in 1..k : SrcSaves[i] \in Dirs
    BY <2>1, GetParameters
  <2>3. c = [i \in 1..k |-> Original(SrcSaves[i])]
    BY DEF SrcCommit
  <2> HIDE DEF c
  <2>4. DOMAIN c = 1..k /\ Range(c) = {c[i] : i \in 1..k}
    BY <2>3 DEF Range
  <2>5. c \in [1..k -> Range(c)]
    BY <2>3, <2>4
  <2>6. c \in Seq(Range(c)) /\ c # <<>>
    BY <2>2, <2>4, <2>5
  <2>7. \A i \in 1..k : NodesOf(c[i]) \subseteq Node
    BY <2>2, <2>3 DEF NodesOf, Original, Dirs
  <2>8. QED
    BY <2>4, <2>6, <2>7 DEF IsHistory, c
<1>2. ASSUME NEW spec \in Specs
      PROVE  /\ IsObject(Source(spec))
             /\ spec.src \notin Node => IsHistory(Source(spec))
  <2>1. spec.src \in Node \cup DOMAIN SrcSaves /\ Node \cap Nat = {}
    BY GetParameters
  <2>2. DOMAIN SrcSaves \subseteq Nat
    BY GetParameters
  <2>3. CASE spec.src \in Node
    BY <2>1, <2>3 DEF Source, IsObject
  <2>4. CASE spec.src \notin Node
    <3>1. Source(spec) = SrcCommit(spec.src)
      BY <2>1, <2>2, <2>4 DEF Source
    <3>2. QED
      BY <1>1, <2>1, <2>4, <3>1 DEF IsObject
  <2>5. QED
    BY <2>3, <2>4
<1>3. QED
  BY <1>1, <1>2

\* The first target's part of the invariant.
LEMMA FirstTarget ==
    ASSUME TargetsInv, targets # <<>>
    PROVE  /\ Len(targets) \in Nat \ {0} /\ 1 \in DOMAIN targets /\ DOMAIN targets = 1..Len(targets)
           /\ Target = targets[1] /\ Spec0 = targets[1].spec
           /\ Spec0 \in Specs /\ Suits(Spec0)
           /\ Target.hash \in have \cup {None}
           /\ Spec0.dest \in Branches /\ Target.hash # None => IsHistory(Target.hash)
<1> DEFINE S == [spec : Specs, hash : have \cup {None}]
<1>1. targets \in Seq(S)
  BY DEF TargetsInv
<1> HIDE DEF S
<1>2. /\ Len(targets) \in Nat \ {0} /\ DOMAIN targets = 1..Len(targets)
      /\ Head(targets) = targets[1] /\ targets[1] \in S
  BY <1>1
<1>3. 1 \in DOMAIN targets
  BY <1>2
<1>4. QED
  BY <1>2, <1>3 DEF TargetsInv, Target, Spec0, S

-----------------------------------------------------------------------------
(***************************************************************************)
(* Every step keeps the invariant                                          *)
(***************************************************************************)

LEMMA StoreGrows ==
    ASSUME StoreInv, NEW x, IsObject(x), have' = have \cup {x},
           ~holed' => ~holed /\ Kids(x) \subseteq have \cup {x}
    PROVE  StoreInv'
BY DEF StoreInv

LEMMA RefsStay ==
    ASSUME RefsInv, UNCHANGED refs, have \subseteq have'
    PROVE  RefsInv'
BY DEF RefsInv

LEMMA TargetsStay ==
    ASSUME TargetsInv, UNCHANGED targets, have \subseteq have',
           pc' \in {"next", "append", "copy"} <=> pc \in {"next", "append", "copy"}
    PROVE  TargetsInv'
<1> DEFINE S == [spec : Specs, hash : have \cup {None}]
           S2 == [spec : Specs, hash : have' \cup {None}]
<1>1. S \subseteq S2
  OBVIOUS
<1>2. targets \in Seq(S)
  BY DEF TargetsInv
<1> HIDE DEF S, S2
<1>3. targets \in Seq(S2)
  BY <1>1, <1>2
<1>4. QED
  BY <1>3 DEF TargetsInv, S2

LEMMA UpdatedStays ==
    ASSUME UpdatedInv, UNCHANGED <<updated, targets>>, have \subseteq have'
    PROVE  UpdatedInv'
BY DEF UpdatedInv

LEMMA AppendStays ==
    ASSUME AppendInv, UNCHANGED <<pc, targets, todo, tip>>, have \subseteq have'
    PROVE  AppendInv'
BY DEF AppendInv, Spec0, Target

LEMMA CopyStays ==
    ASSUME CopyInv, UNCHANGED <<pc, targets, tip>>
    PROVE  CopyInv'
BY DEF CopyInv, Spec0, Target, NotAhead

LEMMA WorkStays ==
    ASSUME WorkInv, UNCHANGED <<pc, targets, todo, work>>
    PROVE  WorkInv'
BY DEF WorkInv, Spec0, Target, Busy

\* A command that dies leaves its targets.
LEMMA DieStep ==
    ASSUME GetInv, Die, UNCHANGED <<refs, have, holed>>, work' = NoWork
    PROVE  GetInv'
<1>1. StoreInv' /\ RefsInv'
  BY DEF StoreInv, RefsInv, GetInv
<1>2. TargetsInv'
  <2>1. targets' = <<>> /\ pc' = "idle"
    BY DEF Die
  <2>2. QED
    BY <2>1, EmptySeq DEF TargetsInv
<1>3. AppendInv' /\ CopyInv'
  BY DEF Die, AppendInv, CopyInv
<1>4. WorkInv'
  BY DEF WorkInv, Busy
<1>5. UpdatedInv'
  BY DEF Die, UpdatedInv
<1>6. QED
  BY <1>1, <1>2, <1>3, <1>4, <1>5 DEF GetInv

LEMMA InitEstablishes ==
    ASSUME NodesAreNoCommits, Init
    PROVE  GetInv
<1>1. /\ refs \in [Refs -> {None} \cup {SrcCommit(k) : k \in DOMAIN SrcSaves}]
      /\ have = UNION {Whole(refs[r]) : r \in {q \in Refs : refs[q] # None}}
      /\ pc = "idle" /\ targets = <<>> /\ updated = <<>> /\ work = NoWork
  BY DEF Init
<1>2. \A r \in Refs : refs[r] # None => IsHistory(refs[r])
  BY <1>1, SourceIsObject
<1>3. \A r \in Refs : refs[r] # None =>
          /\ refs[r] \in Whole(refs[r])
          /\ \A y \in Whole(refs[r]) : IsObject(y) /\ Kids(y) \subseteq Whole(refs[r])
  BY <1>2, WholeIsLeast DEF IsObject
<1>4. StoreInv
  BY <1>1, <1>3 DEF StoreInv
<1>5. RefsInv
  BY <1>1, <1>2, <1>3 DEF RefsInv, Refs
<1>6. TargetsInv
  BY <1>1, EmptySeq DEF TargetsInv
<1>7. AppendInv /\ CopyInv /\ WorkInv /\ UpdatedInv
  BY <1>1 DEF AppendInv, CopyInv, WorkInv, UpdatedInv, Busy
<1>8. QED
  BY <1>4, <1>5, <1>6, <1>7 DEF GetInv

\* All targets are resolved at once: what they find is what the refs are.
LEMMA ResolveTargetsStep ==
    ASSUME GetInv, ResolveTargets
    PROVE  GetInv'
<1>1. /\ pc = "idle" /\ pc' = "next" /\ updated' = <<>>
      /\ UNCHANGED <<work, refs, have, holed>>
  BY DEF ResolveTargets
<1>2. PICK specs \in BoundedSeq(Specs, MaxTargets - named) :
          /\ specs # <<>>
          /\ \A i \in DOMAIN specs : ~Misuse(specs[i]) /\ Resolved(specs[i])
          /\ targets' = [i \in DOMAIN specs |->
                [spec |-> specs[i],
                 hash |-> IF specs[i].dest = None THEN None ELSE refs[specs[i].dest]]]
  BY DEF ResolveTargets
<1>3. PICK n \in Nat : specs \in [1..n -> Specs] /\ n # 0
  <2>1. PICK n \in 0..(MaxTargets - named) : specs \in [1..n -> Specs]
    BY DEF BoundedSeq, SeqOf
  <2>2. n # 0
    BY <1>2, <2>1
  <2>3. QED
    BY <2>1, <2>2
<1>4. StoreInv' /\ RefsInv'
  BY <1>1 DEF StoreInv, RefsInv, GetInv
<1>5. ASSUME NEW i \in 1..n
      PROVE  /\ targets'[i].spec = specs[i] /\ specs[i] \in Specs
             /\ targets'[i].hash = IF specs[i].dest = None THEN None ELSE refs[specs[i].dest]
             /\ targets'[i].hash \in have \cup {None}
             /\ targets'[i] \in [spec : Specs, hash : have \cup {None}]
             /\ specs[i].dest \in Branches /\ targets'[i].hash # None => IsHistory(targets'[i].hash)
  <2>1. specs[i].dest \in Refs \cup {None}
    BY <1>3, GetParameters
  <2>2. QED
    BY <1>2, <1>3, <2>1 DEF GetInv, RefsInv
<1>6. ASSUME NEW i \in 1..n
      PROVE  Suits(specs[i])
  <2> DEFINE spec == specs[i]
  <2>1. spec \in Specs /\ ~Misuse(spec) /\ Resolved(spec)
    BY <1>2, <1>3
  <2> HIDE DEF spec
  <2>2. spec.method \in Methods /\ (spec.dest = None <=> spec.method = "unnamed") /\ None \notin Branches
        /\ Branches \cap Tags = {}
    BY <2>1, GetParameters DEF Refs
  <2>3. spec.method \in {"pick", "force-pick"} => spec.src \notin Node
    BY <2>1 DEF Resolved, resolve_pick
  <2>4. spec.dest \in Branches => spec.method # "new-tag"
    BY <2>1, <2>2 DEF Resolved, resolve_new_tag, IsTag
  <2>5. spec.dest \in Branches => spec.method = "append" \/ spec.src \notin Node
    <3>1. CASE spec.method = "ff"
      BY <2>1, <3>1 DEF Resolved, resolve_ff
    <3>2. CASE spec.method = "replace"
      BY <2>1, <2>2, <3>2 DEF Resolved, resolve_replace, IsTag
    <3>3. QED
      BY <2>2, <2>3, <2>4, <3>1, <3>2 DEF Methods
  <2>6. spec.method = "append" /\ spec.mode # "copy" => spec.src \notin Node
    BY <2>1 DEF Resolved, resolve_append
  <2>7. QED
    BY <2>1, <2>3, <2>4, <2>5, <2>6 DEF Suits, spec
<1>7. TargetsInv'
  <2> DEFINE S == [spec : Specs, hash : have \cup {None}]
  <2>1. DOMAIN targets' = 1..n
    BY <1>2, <1>3
  <2>2. targets' \in [1..n -> S]
    BY <1>2, <1>3, <1>5
  <2> HIDE DEF S
  <2>3. targets' \in Seq(S) /\ targets' # <<>>
    BY <1>3, <2>1, <2>2
  <2>4. targets' \in Seq([spec : Specs, hash : have' \cup {None}])
    BY <1>1, <2>3 DEF S
  <2>5. \A i, j \in 1..n : targets'[i].spec.dest # None /\ targets'[j].spec.dest = targets'[i].spec.dest
                               => targets'[j].hash = targets'[i].hash
    BY <1>5
  <2>6. QED
    BY <1>1, <1>5, <1>6, <2>1, <2>3, <2>4, <2>5 DEF TargetsInv
<1>8. AppendInv' /\ CopyInv'
  BY <1>1 DEF AppendInv, CopyInv
<1>9. WorkInv'
  BY <1>1 DEF WorkInv, GetInv, Busy
<1>10. UpdatedInv'
  BY <1>1 DEF UpdatedInv
<1>11. QED
  BY <1>4, <1>7, <1>8, <1>9, <1>10 DEF GetInv

\* What is to be appended: at least one save, as it is in the source.
LEMMA AppendsAreOriginal ==
    ASSUME NEW at, at.spec \in Specs, Suits(at.spec), Picking(at.spec)
    PROVE  Appends(at) \in Seq({Original(n) : n \in Node}) /\ Appends(at) # <<>>
<1> DEFINE spec == at.spec
           S == {Original(n) : n \in Node}
<1>1. spec.src \in Node \cup DOMAIN SrcSaves /\ Node \cap Nat = {}
  BY GetParameters
<1>2. DOMAIN SrcSaves = 1..Len(SrcSaves) /\ Len(SrcSaves) \in Nat
  BY GetParameters
<1>3. CASE spec.src \in Node
  <2>1. spec.method = "append"
    BY <1>3 DEF Suits, Picking
  <2>2. Appends(at) = <<Original(spec.src)>>
    BY <1>3, <2>1 DEF Appends
  <2>3. Original(spec.src) \in S
    BY <1>3
  <2> HIDE DEF S
  <2>4. QED
    BY <2>2, <2>3 DEF S
<1>4. CASE spec.src \notin Node
  <2> DEFINE c == SrcCommit(spec.src)
             k == spec.src
  <2>1. k \in 1..Len(SrcSaves)
    BY <1>1, <1>2, <1>4
  <2>2. Source(spec) = c
    BY <1>2, <2>1 DEF Source
  <2>3. \A i \in 1..k : SrcSaves[i] \in Node
    BY <1>2, <2>1, GetParameters DEF Dirs
  <2>4. c \in [1..k -> S]
    BY <2>3 DEF SrcCommit
  <2> HIDE DEF c, S
  <2>5. c \in Seq(S) /\ Len(c) = k /\ c # <<>> /\ c[k] \in S
    BY <1>2, <2>1, <2>4
  <2>6. CASE spec.method = "append"
    <3>1. Appends(at) = c
      BY <1>4, <2>2, <2>6 DEF Appends
    <3>2. QED
      BY <2>5, <3>1 DEF S
  <2>7. CASE spec.method # "append"
    <3>1. Appends(at) = <<c[k]>>
      BY <2>2, <2>5, <2>7 DEF Appends, Last, Picking
    <3>2. QED
      BY <2>5, <3>1 DEF S
  <2>8. QED
    BY <2>6, <2>7
<1>5. QED
  BY <1>3, <1>4

LEMMA BeginStep ==
    ASSUME NodesAreNoCommits, GetInv, Begin
    PROVE  GetInv'
<1>1. /\ pc = "next" /\ targets # <<>> /\ UNCHANGED <<work, refs, have, targets, updated, holed>>
  BY DEF Begin
<1>2. pc' \in {"append", "copy"}
  BY DEF Begin
<1>3. StoreInv' /\ RefsInv' /\ TargetsInv' /\ UpdatedInv'
  BY <1>1, <1>2, RefsStay, TargetsStay, UpdatedStays DEF GetInv, StoreInv
<1>4. WorkInv'
  BY <1>1 DEF GetInv, WorkInv, Busy
<1>5. /\ Target = targets[1] /\ Spec0 = Target.spec /\ Spec0 \in Specs /\ Suits(Spec0)
      /\ Target.hash \in have \cup {None}
      /\ Spec0.dest \in Branches /\ Target.hash # None => IsHistory(Target.hash)
  BY <1>1, FirstTarget DEF GetInv, Spec0
<1>6. Target' = Target /\ Spec0' = Spec0
  BY <1>1 DEF Target, Spec0
<1>7. AppendInv'
  <2>1. SUFFICES ASSUME pc' = "append"
                PROVE  AppendInv'
    BY DEF AppendInv
  <2>2. /\ Picking(Spec0) /\ todo' = Appends(Target)
        /\ tip' = IF IsCommit(Target.hash) THEN Target.hash ELSE <<>>
    BY <2>1 DEF Begin, Picking
  <2>3. todo' \in Seq({Original(n) : n \in Node}) /\ todo' # <<>>
    BY <1>5, <2>2, AppendsAreOriginal
  <2>4. IsCommit(Target.hash) => IsHistory(Target.hash) /\ Target.hash \in have
    BY <1>5 DEF IsCommit, GetInv, StoreInv, IsObject
  <2>5. ASSUME Spec0.dest \in Branches, Target.hash # None
        PROVE  tip' # <<>> /\ IsPrefix(Target.hash, tip')
    <3>1. IsHistory(Target.hash)
      BY <1>5, <2>5
    <3>2. CASE IsCommit(Target.hash)
      BY <2>2, <3>1, <3>2 DEF IsHistory, IsPrefix
    <3>3. CASE ~IsCommit(Target.hash)
      BY <2>5, <3>1, <3>3, HistoryKids DEF IsCommit
    <3>4. QED
      BY <3>2, <3>3
  <2>6. QED
    BY <1>1, <1>6, <2>2, <2>3, <2>4, <2>5 DEF AppendInv
<1>8. CopyInv'
  <2>1. SUFFICES ASSUME pc' = "copy"
                PROVE  CopyInv'
    BY DEF CopyInv
  <2>2. ~Picking(Spec0) /\ ~NotAhead /\ tip' = Source(Spec0)
    BY <2>1 DEF Begin, Picking
  <2>3. NotAhead' = NotAhead
    BY <1>6 DEF NotAhead
  <2>4. QED
    BY <1>6, <2>2, <2>3 DEF CopyInv
<1>9. QED
  BY <1>3, <1>4, <1>7, <1>8 DEF GetInv

LEMMA CopyObjectStep ==
    ASSUME NodesAreNoCommits, GetInv, CopyObject
    PROVE  GetInv'
<1>1. /\ Copying /\ targets # <<>>
      /\ UNCHANGED <<work, refs, pc, targets, todo, tip, updated>>
  BY DEF CopyObject, Copying, GetInv, TargetsInv
<1>2. PICK x \in Walk(CopyRoot, have) :
          /\ MayWrite(x) /\ have' = have \cup {x}
          /\ holed' = (holed \/ (Spec0.ignore /\ ~(Kids(x) \subseteq have)))
  BY DEF CopyObject
<1>3. IsObject(CopyRoot)
  <2>1. CASE pc = "append"
    <3>1. todo \in Seq({Original(n) : n \in Node}) /\ todo # <<>>
      BY <1>1, <2>1 DEF GetInv, AppendInv, Copying
    <3>2. PICK n \in Node : Head(todo) = Original(n)
      BY <3>1
    <3>3. Head(todo).from \in Node
      BY <3>2 DEF Original
    <3>4. QED
      BY <2>1, <3>3 DEF CopyRoot, IsObject
  <2>2. CASE pc # "append"
    <3>1. tip = Source(Spec0)
      BY <1>1, <2>2 DEF GetInv, CopyInv, Copying
    <3>2. Spec0 \in Specs
      BY <1>1, FirstTarget DEF GetInv
    <3>3. QED
      BY <2>2, <3>1, <3>2, SourceIsObject DEF CopyRoot
  <2>3. QED
    BY <2>1, <2>2
<1>4. IsObject(x)
  BY <1>3, WalkMeetsObjects
<1>5. ~holed' => ~holed /\ Kids(x) \subseteq have
  <2>1. SUFFICES ASSUME ~holed'
                PROVE  Kids(x) \subseteq have
    BY <1>2
  <2>2. CASE Spec0.ignore
    BY <1>2, <2>1, <2>2
  <2>3. CASE ~Spec0.ignore
    BY <1>2, <2>3 DEF MayWrite
  <2>4. QED
    BY <2>2, <2>3
<1>6. StoreInv'
  BY <1>2, <1>4, <1>5, StoreGrows DEF GetInv
<1>7. QED
  BY <1>1, <1>2, <1>6, RefsStay, TargetsStay, UpdatedStays, AppendStays, CopyStays, WorkStays DEF GetInv

LEMMA CopyFailsStep ==
    ASSUME GetInv, CopyFails
    PROVE  GetInv'
<1>1. ~Busy
  BY DEF GetInv, WorkInv, CopyFails, Copying
<1>2. QED
  BY <1>1, DieStep DEF CopyFails, Busy

LEMMA RefuseFfStep ==
    ASSUME GetInv, RefuseFf
    PROVE  GetInv'
<1>1. ~Busy
  BY DEF GetInv, WorkInv, RefuseFf
<1>2. QED
  BY <1>1, DieStep DEF RefuseFf, Busy

\* One save more on what will be the branch, written with all it names.
LEMMA AppendStep ==
    ASSUME NodesAreNoCommits, GetInv, pc = "append", todo # <<>>, NEW save,
           NodesOf(save) \subseteq have \cap Node,
           tip' = Append(tip, save), todo' = Tail(todo), have' = have \cup {tip'},
           UNCHANGED <<refs, pc, targets, updated, holed>>, work' = NoWork
    PROVE  GetInv'
<1>1. /\ Picking(Spec0) /\ todo \in Seq({Original(n) : n \in Node})
      /\ tip = <<>> \/ (IsHistory(tip) /\ tip \in have)
      /\ Spec0.dest \in Branches /\ Target.hash # None => tip # <<>> /\ IsPrefix(Target.hash, tip)
  BY DEF GetInv, AppendInv
<1>2. targets # <<>>
  BY DEF GetInv, TargetsInv
<1>3. /\ IsHistory(tip') /\ Kids(tip') \subseteq NodesOf(save) \cup ({tip} \ {<<>>})
      /\ \A c : IsHistory(c) /\ IsHistory(tip) /\ IsPrefix(c, tip) => IsPrefix(c, tip')
  BY <1>1, HistoryGrows
<1>4. StoreInv'
  <2>1. IsObject(tip') /\ Kids(tip') \subseteq have
    BY <1>1, <1>3 DEF IsObject
  <2> DEFINE x == tip'
  <2> HIDE DEF x
  <2>2. IsObject(x) /\ Kids(x) \subseteq have /\ have' = have \cup {x}
    BY <2>1 DEF x
  <2>3. QED
    BY <2>2, StoreGrows DEF GetInv
<1>5. RefsInv' /\ TargetsInv' /\ UpdatedInv'
  BY RefsStay, TargetsStay, UpdatedStays DEF GetInv
<1>6. Spec0' = Spec0 /\ Target' = Target
  BY DEF Spec0, Target
<1>7. AppendInv'
  <2>1. todo' \in Seq({Original(n) : n \in Node})
    <3> DEFINE S == {Original(n) : n \in Node}
    <3> HIDE DEF S
    <3>1. todo \in Seq(S)
      BY <1>1 DEF S
    <3>2. todo' \in Seq(S)
      BY <3>1
    <3>3. QED
      BY <3>2 DEF S
  <2>2. tip' # <<>> /\ tip' \in have'
    BY <1>3 DEF IsHistory
  <2>3. Spec0.dest \in Branches /\ Target.hash # None => IsPrefix(Target.hash, tip')
    BY <1>1, <1>2, <1>3, FirstTarget DEF GetInv
  <2>4. QED
    BY <1>1, <1>3, <1>6, <2>1, <2>2, <2>3 DEF AppendInv
<1>8. CopyInv' /\ WorkInv'
  BY DEF CopyInv, WorkInv, Busy
<1>9. QED
  BY <1>4, <1>5, <1>7, <1>8 DEF GetInv

LEMMA AppendCopiedStep ==
    ASSUME NodesAreNoCommits, GetInv, AppendCopied
    PROVE  GetInv'
<1>1. /\ pc = "append" /\ Copying /\ Copied
      /\ tip' = Append(tip, Head(todo)) /\ todo' = Tail(todo) /\ have' = have \cup {tip'}
      /\ UNCHANGED <<refs, pc, targets, updated, holed, work>>
  BY DEF AppendCopied
<1>2. todo # <<>> /\ Spec0.mode = "copy" /\ CopyRoot = Head(todo).from
  BY <1>1 DEF Copying, CopyRoot
<1>3. work = NoWork
  BY <1>2 DEF GetInv, WorkInv, Busy
<1>4. PICK n \in Node : Head(todo) = Original(n)
  <2>1. todo \in Seq({Original(n) : n \in Node})
    BY <1>1 DEF GetInv, AppendInv
  <2>2. QED
    BY <1>2, <2>1
<1>5. ~Spec0.ignore
  <2>1. targets # <<>> /\ Picking(Spec0)
    BY <1>1 DEF GetInv, TargetsInv, AppendInv
  <2>2. Suits(Spec0)
    BY <2>1, FirstTarget DEF GetInv
  <2>3. QED
    BY <2>1, <2>2 DEF Suits, Misuse, Picking
<1>6. n \in have
  <2>1. CopyRoot = n
    BY <1>2, <1>4 DEF Original
  <2>2. Walk(n, have) = {}
    BY <1>1, <1>5, <2>1 DEF Copied
  <2>3. QED
    BY <2>2, WalkSeesRoot DEF IsObject
<1>7. NodesOf(Original(n)) \subseteq have \cap Node
  BY <1>6 DEF NodesOf, Original
<1> DEFINE save == Original(n)
<1>8. NodesOf(save) \subseteq have \cap Node /\ tip' = Append(tip, save)
  BY <1>1, <1>4, <1>7
<1> HIDE DEF save
<1>9. QED
  BY <1>1, <1>2, <1>3, <1>8, AppendStep

LEMMA BeginRewriteStep ==
    ASSUME GetInv, BeginRewrite
    PROVE  GetInv'
<1>1. pc = "append" /\ todo # <<>> /\ Spec0.mode # "copy" /\ UNCHANGED getVars
  BY DEF BeginRewrite
<1>2. UNCHANGED <<refs, have, pc, targets, todo, tip, updated, holed>>
  BY <1>1 DEF getVars
<1>3. work'.mode = Spec0.mode /\ "mode" \in DOMAIN work'
  BY DEF BeginRewrite, BeginSave
<1>4. Spec0' = Spec0
  BY <1>2 DEF Spec0, Target
<1>5. WorkInv'
  BY <1>1, <1>2, <1>3, <1>4 DEF WorkInv
<1>6. StoreInv'
  BY <1>2 DEF GetInv, StoreInv
<1>7. QED
  BY <1>2, <1>5, <1>6, RefsStay, TargetsStay, UpdatedStays, AppendStays, CopyStays DEF GetInv

\* A step of a rewriting does not change which one it is.
LEMMA RewriteStepKeeps ==
    ASSUME RewriteStep, NEW field \in DOMAIN work, field \notin {"frames", "notes"}
    PROVE  work'[field] = work[field] /\ field \in DOMAIN work'
<1>1. ASSUME NEW F, NEW N, work' = [work EXCEPT !.frames = F, !.notes = N]
      PROVE  work'[field] = work[field] /\ field \in DOMAIN work'
  BY <1>1
<1>2. ASSUME NEW F, work' = [work EXCEPT !.frames = F]
      PROVE  work'[field] = work[field] /\ field \in DOMAIN work'
  BY <1>2
<1>3. ASSUME NEW name, NEW made, NEW notes, Done(name, made, notes)
      PROVE  work'[field] = work[field] /\ field \in DOMAIN work'
  BY <1>1, <1>3 DEF Done
<1>4. ASSUME NEW name, EnterDir(name)
      PROVE  work'[field] = work[field] /\ field \in DOMAIN work'
  BY <1>2, <1>4 DEF EnterDir
<1>5. CASE FinishDir
  BY <1>2, <1>5 DEF FinishDir
<1>6. ASSUME NEW name, \/ Exclude(name) \/ ReuseDir(name) \/ ReplaceDir(name)
                       \/ RewriteSpecial(name) \/ RewriteFile(name) \/ ReplaceFile(name)
                       \/ RewriteLink(name) \/ ReplaceLink(name)
      PROVE  \E made, notes : Done(name, made, notes)
  <2>1. CASE Exclude(name)
    BY <2>1 DEF Exclude
  <2>2. CASE ReuseDir(name)
    BY <2>2 DEF ReuseDir, Put
  <2>3. CASE ReplaceDir(name)
    BY <2>3 DEF ReplaceDir, Put, PutReplacement
  <2>4. CASE RewriteSpecial(name)
    BY <2>4 DEF RewriteSpecial, Put
  <2>5. CASE RewriteFile(name)
    BY <2>5 DEF RewriteFile, Put
  <2>6. CASE ReplaceFile(name)
    BY <2>6 DEF ReplaceFile, Put, PutReplacement
  <2>7. CASE RewriteLink(name)
    BY <2>7 DEF RewriteLink, Put
  <2>8. CASE ReplaceLink(name)
    BY <2>8 DEF ReplaceLink, Put, PutReplacement
  <2>9. QED
    BY <1>6, <2>1, <2>2, <2>3, <2>4, <2>5, <2>6, <2>7, <2>8
<1>7. QED
  BY <1>3, <1>4, <1>5, <1>6 DEF RewriteStep

LEMMA RewritingStep ==
    ASSUME GetInv, Rewriting
    PROVE  GetInv'
<1>1. UNCHANGED <<refs, have, pc, targets, todo, tip, updated, holed>> /\ RewriteStep
  BY DEF Rewriting, getVars
<1>2. Busy /\ WorkInv
  BY <1>1 DEF RewriteStep, GetInv
<1>3. work'.mode = work.mode /\ "mode" \in DOMAIN work'
  BY <1>1, <1>2, RewriteStepKeeps DEF WorkInv
<1>4. Spec0' = Spec0
  BY <1>1 DEF Spec0, Target
<1>5. WorkInv'
  BY <1>1, <1>2, <1>3, <1>4 DEF WorkInv
<1>6. StoreInv'
  BY <1>1 DEF GetInv, StoreInv
<1>7. QED
  BY <1>1, <1>5, <1>6, RefsStay, TargetsStay, UpdatedStays, AppendStays, CopyStays DEF GetInv

LEMMA RewriteFailsStep ==
    ASSUME GetInv, RewriteFails
    PROVE  GetInv'
BY DieStep DEF RewriteFails

LEMMA AppendRewrittenStep ==
    ASSUME NodesAreNoCommits, GetInv, AppendRewritten
    PROVE  GetInv'
<1>1. Busy /\ pc = "append" /\ todo # <<>> /\ work.mode # "copy"
  BY DEF AppendRewritten, SaveRewritten, GetInv, WorkInv
<1>2. NodesOf(NewSave) = {}
  BY <1>1 DEF NodesOf, NewSave
<1>3. /\ tip' = Append(tip, NewSave) /\ todo' = Tail(todo) /\ have' = have \cup {tip'}
      /\ UNCHANGED <<refs, pc, targets, updated, holed>> /\ work' = NoWork
  BY DEF AppendRewritten
<1> DEFINE save == NewSave
<1>4. NodesOf(save) \subseteq have \cap Node /\ tip' = Append(tip, save)
  BY <1>2, <1>3
<1> HIDE DEF save
<1>5. QED
  BY <1>1, <1>3, <1>4, AppendStep

\* What a finished target moves its ref to: what is there, and on a branch
\* what goes on from the branch.
LEMMA HandledTip ==
    ASSUME NodesAreNoCommits, GetInv, Handled, Spec0.dest # None
    PROVE  /\ Spec0.dest \in Refs /\ tip \in have
           /\ Spec0.dest \in Branches =>
                /\ IsHistory(tip)
                /\ Spec0.method = "replace" \/ Target.hash = None \/ IsPrefix(Target.hash, tip)
<1>1. (pc = "append" /\ todo = <<>>) \/ (pc = "copy" /\ Copied)
  BY DEF Handled
<1>2. targets # <<>>
  BY <1>1 DEF GetInv, TargetsInv
<1>3. Spec0 \in Specs /\ Suits(Spec0)
  BY <1>2, FirstTarget DEF GetInv
<1>4. Spec0.dest \in Refs /\ Spec0.method \in Methods /\ Spec0.method # "unnamed"
  BY <1>3, GetParameters
<1>5. CASE pc = "append" /\ todo = <<>>
  BY <1>4, <1>5 DEF GetInv, AppendInv
<1>6. CASE pc = "copy" /\ Copied
  <2>1. ~Picking(Spec0) /\ tip = Source(Spec0) /\ ~NotAhead
    BY <1>6 DEF GetInv, CopyInv
  <2>2. ~Spec0.ignore
    BY <1>3, <1>4 DEF Suits, Misuse
  <2>3. Walk(tip, have) = {}
    BY <1>6, <2>2 DEF Copied, CopyRoot
  <2>4. tip \in have
    BY <1>3, <2>1, <2>3, SourceIsObject, WalkSeesRoot
  <2>5. ASSUME Spec0.dest \in Branches
        PROVE  /\ IsHistory(tip)
               /\ Spec0.method = "replace" \/ Target.hash = None \/ IsPrefix(Target.hash, tip)
    <3>1. Spec0.method \in {"ff", "replace"} /\ Spec0.src \notin Node
      BY <1>3, <1>4, <2>1, <2>5 DEF Suits, Picking, Methods
    <3>2. IsHistory(tip)
      BY <1>3, <2>1, <3>1, SourceIsObject
    <3>3. Spec0.method = "ff" => Target.hash = None \/ IsPrefix(Target.hash, tip)
      BY <2>1 DEF NotAhead
    <3>4. QED
      BY <3>1, <3>2, <3>3
  <2>6. QED
    BY <1>4, <2>4, <2>5
<1>7. QED
  BY <1>1, <1>5, <1>6

LEMMA HandledStep ==
    ASSUME NodesAreNoCommits, GetInv, Handled
    PROVE  GetInv'
<1>1. /\ (pc = "append" /\ todo = <<>>) \/ pc = "copy"
      /\ targets' = Tail(targets)
      /\ pc' = IF Len(targets) > 1 THEN "next" ELSE "refs"
      /\ UNCHANGED <<work, refs, have, holed>>
  BY DEF Handled
<1>2. targets # <<>>
  BY <1>1 DEF GetInv, TargetsInv
<1>3. work = NoWork
  BY <1>1 DEF GetInv, WorkInv, Busy
<1>4. /\ Len(targets) \in Nat \ {0} /\ DOMAIN targets = 1..Len(targets)
      /\ Target = targets[1] /\ Spec0 = targets[1].spec
  BY <1>2, FirstTarget DEF GetInv
<1>5. /\ targets' \in Seq([spec : Specs, hash : have \cup {None}])
      /\ Len(targets') = Len(targets) - 1
      /\ DOMAIN targets' = 1..(Len(targets) - 1)
      /\ \A i \in DOMAIN targets' : i + 1 \in DOMAIN targets /\ targets'[i] = targets[i + 1]
  <2> DEFINE S == [spec : Specs, hash : have \cup {None}]
  <2>1. targets \in Seq(S)
    BY DEF GetInv, TargetsInv
  <2> HIDE DEF S
  <2>2. /\ targets' \in Seq(S) /\ Len(targets') = Len(targets) - 1
        /\ \A i \in 1..(Len(targets) - 1) : targets'[i] = targets[i + 1]
    BY <1>1, <1>2, <1>4, <2>1
  <2>3. DOMAIN targets' = 1..(Len(targets) - 1)
    BY <1>4, <2>2
  <2>4. QED
    BY <1>4, <2>2, <2>3 DEF S
<1>6. StoreInv' /\ RefsInv'
  BY <1>1, RefsStay DEF GetInv, StoreInv
<1>7. TargetsInv'
  <2>1. targets' \in Seq([spec : Specs, hash : have' \cup {None}])
    BY <1>1, <1>5
  <2>2. pc' \in {"next", "append", "copy"} <=> targets' # <<>>
    <3>1. targets' = <<>> <=> Len(targets') = 0
      BY <2>1
    <3>2. QED
      BY <1>1, <1>4, <1>5, <3>1
  <2>3. ASSUME NEW i \in DOMAIN targets'
        PROVE  /\ Suits(targets'[i].spec)
               /\ targets'[i].spec.dest \in Branches /\ targets'[i].hash # None => IsHistory(targets'[i].hash)
               /\ \A j \in DOMAIN targets' :
                    targets'[i].spec.dest # None /\ targets'[j].spec.dest = targets'[i].spec.dest
                        => targets'[j].hash = targets'[i].hash
    <3>1. TargetsInv
      BY DEF GetInv
    <3>2. QED
      BY <1>5, <2>3, <3>1 DEF TargetsInv
  <2>4. QED
    BY <2>1, <2>2, <2>3 DEF TargetsInv
<1>8. AppendInv' /\ CopyInv' /\ WorkInv'
  BY <1>1, <1>3 DEF AppendInv, CopyInv, WorkInv, Busy
<1>9. UpdatedInv'
  <2>1. CASE Spec0.dest = None
    <3>1. updated' = updated
      BY <2>1 DEF Handled
    <3>2. QED
      BY <1>1, <1>5, <3>1 DEF GetInv, UpdatedInv
  <2>2. CASE Spec0.dest # None
    <3> DEFINE d == Spec0.dest
               u == [old |-> IF d \in DOMAIN updated /\ updated[d].old # None
                             THEN updated[d].old ELSE Target.hash,
                     new |-> tip, how |-> Spec0.method]
    <3>1. updated' = [r \in DOMAIN updated \cup {d} |-> IF r # d THEN updated[r] ELSE u]
      BY <2>2 DEF Handled
    <3>2. /\ DOMAIN updated' = DOMAIN updated \cup {d} /\ updated'[d] = u
          /\ \A r \in DOMAIN updated : r # d => updated'[r] = updated[r]
      <4> HIDE DEF u, d
      <4>1. QED
        BY <3>1
    <3>3. /\ d \in Refs /\ tip \in have
          /\ d \in Branches =>
               /\ IsHistory(tip)
               /\ Spec0.method = "replace" \/ Target.hash = None \/ IsPrefix(Target.hash, tip)
      BY <2>2, HandledTip
    <3>4. u.old = Target.hash
      BY <1>4 DEF GetInv, UpdatedInv
    <3>5. \A i \in DOMAIN targets : targets[i].spec.dest = d => targets[i].hash = Target.hash
      <4>1. 1 \in DOMAIN targets
        BY <1>4
      <4>2. QED
        BY <1>4, <2>2, <4>1 DEF GetInv, TargetsInv
    <3>6. u.new = tip /\ u.how = Spec0.method
      OBVIOUS
    <3> HIDE DEF u, d
    <3>7. ASSUME NEW r \in DOMAIN updated'
          PROVE  /\ r \in Refs /\ updated'[r].new \in have'
                 /\ r \in Branches =>
                      /\ IsHistory(updated'[r].new)
                      /\ \/ updated'[r].how = "replace" \/ updated'[r].old = None
                         \/ IsPrefix(updated'[r].old, updated'[r].new)
                 /\ \A i \in DOMAIN targets' : targets'[i].spec.dest = r => targets'[i].hash = updated'[r].old
      <4>1. CASE r = d
        BY <1>1, <1>5, <3>2, <3>3, <3>4, <3>5, <3>6, <4>1
      <4>2. CASE r # d
        <5>1. r \in DOMAIN updated /\ updated'[r] = updated[r]
          BY <3>2, <4>2
        <5>2. QED
          BY <1>1, <1>5, <5>1 DEF GetInv, UpdatedInv
      <4>3. QED
        BY <4>1, <4>2
    <3>8. QED
      BY <3>7 DEF UpdatedInv
  <2>3. QED
    BY <2>1, <2>2
<1>10. QED
  BY <1>6, <1>7, <1>8, <1>9 DEF GetInv

LEMMA UpdateRefStep ==
    ASSUME GetInv, NEW r \in Refs, UpdateRef(r)
    PROVE  GetInv'
<1>1. /\ pc = "refs" /\ r \in DOMAIN updated
      /\ refs' = IF MayMove(r) THEN [refs EXCEPT ![r] = updated[r].new] ELSE refs
      /\ updated' = Restrict(updated, (DOMAIN updated) \ {r})
      /\ UNCHANGED <<work, have, pc, targets, todo, tip, holed>>
  BY DEF UpdateRef
<1>2. updated[r].new \in have /\ (r \in Branches => IsHistory(updated[r].new))
  BY <1>1 DEF GetInv, UpdatedInv
<1>3. RefsInv'
  <2> DEFINE n == updated[r].new
  <2> HIDE DEF n
  <2>1. refs' = refs \/ refs' = [refs EXCEPT ![r] = n]
    BY <1>1 DEF n
  <2>2. n \in have /\ (r \in Branches => IsHistory(n))
    BY <1>2 DEF n
  <2>3. QED
    BY <1>1, <2>1, <2>2 DEF GetInv, RefsInv
<1>4. UpdatedInv'
  <2>1. /\ DOMAIN updated' = DOMAIN updated \ {r}
        /\ \A q \in DOMAIN updated' : updated'[q] = updated[q]
    BY <1>1 DEF Restrict
  <2>2. QED
    BY <1>1, <2>1 DEF GetInv, UpdatedInv
<1>5. StoreInv'
  BY <1>1 DEF GetInv, StoreInv
<1>6. QED
  BY <1>1, <1>3, <1>4, <1>5, TargetsStay, AppendStays, CopyStays, WorkStays DEF GetInv

LEMMA FinishStep ==
    ASSUME GetInv, Finish
    PROVE  GetInv'
<1>1. /\ pc = "refs" /\ pc' = "idle" /\ UNCHANGED <<work, refs, have, targets, todo, tip, updated, holed>>
  BY DEF Finish
<1>2. StoreInv' /\ AppendInv' /\ CopyInv'
  BY <1>1 DEF GetInv, StoreInv, AppendInv, CopyInv
<1>3. WorkInv'
  BY <1>1 DEF GetInv, WorkInv, Busy
<1>4. QED
  BY <1>1, <1>2, <1>3, RefsStay, TargetsStay, UpdatedStays DEF GetInv

LEMMA OtherMovesStep ==
    ASSUME NodesAreNoCommits, GetInv, NEW r \in Branches, OtherMoves(r)
    PROVE  /\ GetInv' /\ refs = [q \in Refs |-> refs[q]]
           /\ \A q \in Refs \ {r} : refs'[q] = refs[q]
           /\ refs[r] # None => IsPrefix(refs[r], refs'[r])
<1> DEFINE save == [Original(SrcSaves[1]) EXCEPT !.mode = "other"]
           old == IF refs[r] = None THEN <<>> ELSE refs[r]
           new == Append(old, save)
<1>1. RefsInv /\ r \in Refs
  BY DEF GetInv, Refs
<1>2. /\ refs' = [refs EXCEPT ![r] = new] /\ have' = have \cup {refs'[r]}
      /\ UNCHANGED <<work, pc, targets, todo, tip, updated, holed>>
  BY DEF OtherMoves
<1>3. NodesOf(save) = {}
  BY DEF NodesOf, Original
<1>4. old = <<>> \/ (IsHistory(old) /\ old \in have)
  BY <1>1 DEF RefsInv
<1> HIDE DEF save
<1>5. IsHistory(new) /\ Kids(new) \subseteq {old} \ {<<>>}
      /\ (IsHistory(old) => IsPrefix(old, new))
  BY <1>3, <1>4, HistoryGrows
<1>6. refs[r] # None => old = refs[r] /\ IsHistory(old)
  BY <1>1 DEF RefsInv
<1> HIDE DEF new, old
<1>7. refs'[r] = new /\ \A q \in Refs \ {r} : refs'[q] = refs[q]
  BY <1>1, <1>2 DEF RefsInv
<1>8. StoreInv'
  BY <1>2, <1>4, <1>5, <1>7, StoreGrows DEF GetInv, IsObject
<1>9. RefsInv'
  BY <1>1, <1>2, <1>5, <1>7 DEF RefsInv
<1>10. GetInv'
  BY <1>2, <1>8, <1>9, TargetsStay, UpdatedStays, AppendStays, CopyStays, WorkStays DEF GetInv
<1>11. QED
  BY <1>1, <1>5, <1>6, <1>7, <1>10 DEF RefsInv

LEMMA StutterStep ==
    ASSUME GetInv, UNCHANGED allVars
    PROVE  GetInv'
<1>1. UNCHANGED <<work, refs, have, pc, targets, todo, tip, updated, holed>>
  BY DEF allVars, getVars
<1>2. StoreInv'
  BY <1>1 DEF GetInv, StoreInv
<1>3. QED
  BY <1>1, <1>2, RefsStay, TargetsStay, UpdatedStays, AppendStays, CopyStays, WorkStays DEF GetInv

LEMMA NextKeeps ==
    ASSUME NodesAreNoCommits, GetInv, [Next]_allVars
    PROVE  GetInv'
<1>1. CASE ResolveTargets
  BY <1>1, ResolveTargetsStep
<1>2. CASE Begin
  BY <1>2, BeginStep
<1>3. CASE RefuseFf
  BY <1>3, RefuseFfStep
<1>4. CASE CopyObject
  BY <1>4, CopyObjectStep
<1>5. CASE CopyFails
  BY <1>5, CopyFailsStep
<1>6. CASE AppendCopied
  BY <1>6, AppendCopiedStep
<1>7. CASE BeginRewrite
  BY <1>7, BeginRewriteStep
<1>8. CASE Rewriting
  BY <1>8, RewritingStep
<1>9. CASE RewriteFails
  BY <1>9, RewriteFailsStep
<1>10. CASE AppendRewritten
  BY <1>10, AppendRewrittenStep
<1>11. CASE Handled
  BY <1>11, HandledStep
<1>12. CASE \E r \in Refs : UpdateRef(r)
  BY <1>12, UpdateRefStep
<1>13. CASE Finish
  BY <1>13, FinishStep
<1>14. CASE \E r \in Branches : OtherMoves(r)
  BY <1>14, OtherMovesStep
<1>15. CASE UNCHANGED allVars
  BY <1>15, StutterStep
<1>16. QED
  BY <1>1, <1>2, <1>3, <1>4, <1>5, <1>6, <1>7, <1>8, <1>9, <1>10, <1>11, <1>12, <1>13,
     <1>14, <1>15 DEF Next

-----------------------------------------------------------------------------
(***************************************************************************)
(* The theorems                                                            *)
(***************************************************************************)

\* Every target's ref, what was copied and what is under way agree, whatever
\* is asked for and whoever moves the refs.
THEOREM GetAlways ==
    ASSUME NodesAreNoCommits
    PROVE  Spec => []GetInv
<1>1. Init => GetInv
  BY InitEstablishes
<1>2. GetInv /\ [Next]_allVars => GetInv'
  BY NextKeeps
<1>3. QED
  BY <1>1, <1>2, PTL DEF Spec

\* walk_object writes what an object names before the object, and stops at
\* what is there: so whatever a ref names is there with all below it, after
\* any number of transfers that ended half way.
THEOREM RefsWholeAlways ==
    ASSUME NodesAreNoCommits
    PROVE  Spec => []RefsWhole
<1>1. GetInv => RefsWhole
  <2>1. SUFFICES ASSUME GetInv, ~holed, NEW r \in Refs, refs[r] # None
                PROVE  Whole(refs[r]) \subseteq have
    BY DEF RefsWhole
  <2>2. refs[r] \in have /\ IsObject(refs[r]) /\ \A y \in have : Kids(y) \subseteq have
    BY <2>1 DEF GetInv, RefsInv, StoreInv
  <2> DEFINE c == refs[r]
  <2> HIDE DEF c
  <2>3. c \in have /\ IsObject(c) /\ \A y \in have : Kids(y) \subseteq have
    BY <2>2 DEF c
  <2>4. Whole(c) \subseteq have
    BY <2>3, WholeIsLeast
  <2>5. QED
    BY <2>4 DEF c
<1>2. QED
  BY <1>1, GetAlways, PTL

\* A branch is only extended, by a get whose targets all resolved it before
\* and by others meanwhile, unless it was to be replaced.
THEOREM BranchesGrowAlways ==
    ASSUME NodesAreNoCommits
    PROVE  Spec => BranchesGrow
<1> DEFINE Grow == \A b \in Branches : (refs'[b] # refs[b] /\ refs[b] # None) =>
                       \/ IsPrefix(refs[b], refs'[b])
                       \/ pc = "refs" /\ updated[b].how = "replace"
<1>1. ASSUME GetInv, Next
      PROVE  Grow
  <2>1. CASE UNCHANGED refs
    BY <2>1
  <2>2. ASSUME NEW r \in Refs, UpdateRef(r)
        PROVE  Grow
    <3>1. /\ pc = "refs" /\ r \in DOMAIN updated
          /\ refs' = IF MayMove(r) THEN [refs EXCEPT ![r] = updated[r].new] ELSE refs
      BY <2>2 DEF UpdateRef
    <3>2. refs = [q \in Refs |-> refs[q]]
      BY <1>1 DEF GetInv, RefsInv
    <3>3. CASE MayMove(r)
      <4> DEFINE n == updated[r].new
      <4>1. r \in Branches => \/ updated[r].how = "replace" \/ updated[r].old = None
                              \/ IsPrefix(updated[r].old, n)
        BY <1>1, <3>1 DEF GetInv, UpdatedInv
      <4> HIDE DEF n
      <4>2. refs' = [refs EXCEPT ![r] = n]
        BY <3>1, <3>3 DEF n
      <4>3. refs'[r] = n /\ \A q \in Refs \ {r} : refs'[q] = refs[q]
        BY <3>2, <4>2
      <4>4. refs[r] = updated[r].old
        BY <3>3 DEF MayMove
      <4>5. QED
        BY <3>1, <4>1, <4>3, <4>4 DEF Refs
    <3>4. QED
      BY <2>1, <3>1, <3>3
  <2>3. ASSUME NEW r \in Branches, OtherMoves(r)
        PROVE  Grow
    <3>1. /\ \A q \in Refs \ {r} : refs'[q] = refs[q]
          /\ refs[r] # None => IsPrefix(refs[r], refs'[r])
      <4> HIDE DEF Grow
      <4>1. QED
        BY <1>1, <2>3, OtherMovesStep
    <3>2. QED
      BY <3>1 DEF Refs
  <2>4. QED
    BY <1>1, <2>1, <2>2, <2>3 DEF Next, ResolveTargets, Begin, RefuseFf, CopyObject, CopyFails,
       AppendCopied, BeginRewrite, Rewriting, getVars, RewriteFails, AppendRewritten, Handled, Finish
<1>2. GetInv /\ [Next]_allVars => [Grow]_allVars
  BY <1>1
<1>3. QED
  BY <1>2, GetAlways, PTL DEF Spec, BranchesGrow

-----------------------------------------------------------------------------
(***************************************************************************)
(* The conversion                                                          *)
(***************************************************************************)

OutBody(d, id, excl, out, n, p) ==
    IF ReplacedIn(d, n)
    THEN [obj |-> Replacement(n, id), notes |-> {<<"replaced", p>>}]
    ELSE IF n \notin Dirs
    THEN [obj |-> Copy(n),
          notes |-> IF n \in d.mismatched \ d.missing THEN {<<"fixed", p>>} ELSE {}]
    ELSE [obj |-> Tree([x \in Kept(n, p, excl) |->
                      Entry(out[Entries[n][x]][Append(p, x)].obj,
                            /\ n \in d.abridged /\ Entries[n][x] \notin Dirs
                            /\ ~ReplacedIn(d, Entries[n][x]))]),
          notes |-> (UNION {out[Entries[n][x]][Append(p, x)].notes : x \in Kept(n, p, excl)})
                    \cup {<<"lost", Append(p, x)>> :
                             x \in {y \in Kept(n, p, excl) :
                                      n \in d.abridged /\ Entries[n][y] \notin Dirs}}]

LEMMA NamesOf ==
    ASSUME NEW n \in Dirs, NEW x \in DOMAIN Entries[n]
    PROVE  x \in Names /\ Entries[n][x] \in Node /\ \A p \in Seq(Names) : Append(p, x) \in Seq(Names)
<1>1. x \in Names
  BY RewriteParameters DEF Names
<1>2. Entries[n][x] \in Node
  BY RewriteParameters DEF Range
<1> HIDE DEF Names
<1>3. QED
  BY <1>1, <1>2

\* What a node becomes rests on what its entries become.
LEMMA BodyRestsOnEntries ==
    ASSUME NEW d, NEW id, NEW excl, NEW out, NEW out2, NEW n, NEW p,
           n \in Dirs => \A x \in Kept(n, p, excl) :
               out[Entries[n][x]][Append(p, x)] = out2[Entries[n][x]][Append(p, x)]
    PROVE  OutBody(d, id, excl, out, n, p) = OutBody(d, id, excl, out2, n, p)
<1>1. CASE ReplacedIn(d, n) \/ n \notin Dirs
  BY <1>1 DEF OutBody
<1>2. CASE ~ReplacedIn(d, n) /\ n \in Dirs
  <2> DEFINE K == Kept(n, p, excl)
             lost(x) == /\ n \in d.abridged /\ Entries[n][x] \notin Dirs
                        /\ ~ReplacedIn(d, Entries[n][x])
             T(o) == [x \in K |-> Entry(o[Entries[n][x]][Append(p, x)].obj, lost(x))]
             N(o) == UNION {o[Entries[n][x]][Append(p, x)].notes : x \in K}
             L == {<<"lost", Append(p, x)>> : x \in {y \in K : n \in d.abridged /\ Entries[n][y] \notin Dirs}}
  <2>1. \A x \in K : out[Entries[n][x]][Append(p, x)] = out2[Entries[n][x]][Append(p, x)]
    BY <1>2
  <2>2. OutBody(d, id, excl, out, n, p) = [obj |-> Tree(T(out)), notes |-> N(out) \cup L]
    BY <1>2 DEF OutBody
  <2>3. OutBody(d, id, excl, out2, n, p) = [obj |-> Tree(T(out2)), notes |-> N(out2) \cup L]
    BY <1>2 DEF OutBody
  <2> HIDE DEF K, lost
  <2>4. T(out) = T(out2)
    BY <2>1
  <2>5. N(out) = N(out2)
    BY <2>1
  <2> HIDE DEF T, N, L
  <2>6. QED
    BY <2>2, <2>3, <2>4, <2>5
<1>3. QED
  BY <1>1, <1>2

\* The conversion exists: if it is known for all but some nodes, one of those
\* is a directory whose entries are known.
LEMMA OutcomeIs ==
    ASSUME NEW d, NEW id, NEW excl
    PROVE  \A n \in Node, p \in Seq(Names) :
               Outcome(d, id, excl)[n][p] = OutBody(d, id, excl, Outcome(d, id, excl), n, p)
<1> DEFINE P == Seq(Names)
           F(out) == [n \in Node |-> [p \in P |-> OutBody(d, id, excl, out, n, p)]]
           o == CHOOSE out : out = F(out)
           Known(D) == \E g : \A n \in D, p \in P : g[n][p] = OutBody(d, id, excl, g, n, p)
           Lower(D) == /\ Node \ Dirs \subseteq D
                       /\ \A n \in D \cap Dirs : Range(Entries[n]) \subseteq D
           Ds == {D \in SUBSET Node : Lower(D) /\ Known(D)}
<1>1. Outcome(d, id, excl) = o
  BY DEF Outcome, OutBody
<1>2. (Node \ Dirs) \in Ds
  <2> DEFINE g == [n \in Node |-> [p \in P |-> OutBody(d, id, excl, <<>>, n, p)]]
  <2>1. ASSUME NEW n \in Node \ Dirs, NEW p \in P
        PROVE  g[n][p] = OutBody(d, id, excl, g, n, p)
    <3> HIDE DEF P
    <3>1. g[n][p] = OutBody(d, id, excl, <<>>, n, p)
      OBVIOUS
    <3> HIDE DEF g
    <3>2. QED
      BY <3>1, BodyRestsOnEntries
  <2>2. Known(Node \ Dirs)
    <3> HIDE DEF g
    <3>1. QED
      BY <2>1
  <2>3. QED
    BY <2>2
<1>3. ASSUME NEW D \in Ds, D # Node
      PROVE  \E D2 \in Ds : D \subseteq D2 /\ D # D2
  <2>1. PICK n0 \in Node \ D : n0 \in Dirs /\ Range(Entries[n0]) \subseteq D
    <3> DEFINE S == Node \ D
    <3>1. S \subseteq Dirs /\ S # {}
      BY <1>3
    <3>2. PICK n0 \in S : Range(Entries[n0]) \cap S = {}
      BY <3>1, RewriteParameters
    <3>3. n0 \in Dirs /\ Range(Entries[n0]) \subseteq Node
      BY <3>1, RewriteParameters
    <3>4. QED
      BY <3>2, <3>3
  <2> DEFINE D2 == D \cup {n0}
  <2>2. D2 \in SUBSET Node /\ D \subseteq D2 /\ D # D2
    OBVIOUS
  <2>3. Lower(D2)
    BY <2>1
  <2>4. PICK g : \A n \in D, p \in P : g[n][p] = OutBody(d, id, excl, g, n, p)
    OBVIOUS
  <2> DEFINE g2 == [n \in Node |-> [p \in P |->
                       IF n \in D THEN g[n][p] ELSE OutBody(d, id, excl, g, n, p)]]
  <2>5. ASSUME NEW n \in D2, NEW p \in P
        PROVE  g2[n][p] = OutBody(d, id, excl, g2, n, p)
    <3>1. n \in Node /\ (n \in Dirs => Range(Entries[n]) \subseteq D)
      BY <2>1
    <3>2. g2[n][p] = OutBody(d, id, excl, g, n, p)
      <4> HIDE DEF P, Ds
      <4>1. QED
        BY <2>4, <3>1
    <3>3. ASSUME n \in Dirs, NEW x \in Kept(n, p, excl)
          PROVE  g[Entries[n][x]][Append(p, x)] = g2[Entries[n][x]][Append(p, x)]
      <4>1. x \in DOMAIN Entries[n]
        BY DEF Kept
      <4>2. Entries[n][x] \in D /\ Entries[n][x] \in Node
        BY <3>1, <3>3, <4>1 DEF Range
      <4>3. Append(p, x) \in P
        BY <3>3, <4>1, NamesOf
      <4> HIDE DEF P, Ds
      <4>4. QED
        BY <4>2, <4>3
    <3> HIDE DEF g2
    <3>4. OutBody(d, id, excl, g, n, p) = OutBody(d, id, excl, g2, n, p)
      BY <3>3, BodyRestsOnEntries
    <3>5. QED
      BY <3>2, <3>4
  <2>6. Known(D2)
    <3> HIDE DEF g2
    <3>1. QED
      BY <2>5
  <2>7. QED
    BY <2>2, <2>3, <2>6
<1>4. Node \in Ds
  <2> DEFINE Left(D) == Cardinality(Node \ D)
             T == {Left(D) : D \in Ds}
  <2>1. \A D \in SUBSET Node : Left(D) \in Nat
    BY NodesFinite, FS_CardinalityType, FS_Difference
  <2>2. T \subseteq Nat /\ T # {}
    BY <1>2, <2>1
  <2>3. PICK m \in T : \A k \in T : m <= k
    <3> HIDE DEF T
    <3>1. QED
      BY <2>2, LeastNat
  <2>4. PICK D \in Ds : m = Left(D)
    OBVIOUS
  <2>5. SUFFICES ASSUME D # Node
                PROVE  FALSE
    OBVIOUS
  <2>6. PICK D2 \in Ds : D \subseteq D2 /\ D # D2
    BY <1>3, <2>5
  <2>7. Left(D2) < Left(D)
    <3> DEFINE A == Node \ D2
               B == Node \ D
    <3>1. A \subseteq B /\ A # B /\ IsFiniteSet(B)
      BY <2>6, NodesFinite, FS_Difference
    <3> HIDE DEF A, B
    <3>2. Cardinality(A) < Cardinality(B)
      BY <3>1, FS_Subset, FS_CardinalityType
    <3>3. QED
      BY <3>2 DEF A, B
  <2>8. Left(D2) \in T /\ Left(D2) \in Nat /\ Left(D) \in Nat
    BY <2>1
  <2> HIDE DEF T, Left, Ds
  <2>9. QED
    BY <2>3, <2>4, <2>7, <2>8
<1>5. PICK g : \A n \in Node, p \in P : g[n][p] = OutBody(d, id, excl, g, n, p)
  BY <1>4
<1> DEFINE g2 == [n \in Node |-> [p \in P |-> g[n][p]]]
<1>6. ASSUME NEW n \in Node, NEW p \in P
      PROVE  g2[n][p] = OutBody(d, id, excl, g2, n, p)
  <2>1. g2[n][p] = OutBody(d, id, excl, g, n, p)
    <3> HIDE DEF P
    <3>1. QED
      BY <1>5
  <2>2. ASSUME n \in Dirs, NEW x \in Kept(n, p, excl)
        PROVE  g[Entries[n][x]][Append(p, x)] = g2[Entries[n][x]][Append(p, x)]
    <3>1. Entries[n][x] \in Node /\ Append(p, x) \in P
      BY <2>2, NamesOf DEF Kept
    <3> HIDE DEF P
    <3>2. QED
      BY <3>1
  <2> HIDE DEF g2
  <2>3. OutBody(d, id, excl, g, n, p) = OutBody(d, id, excl, g2, n, p)
    BY <2>2, BodyRestsOnEntries
  <2>4. QED
    BY <2>1, <2>3
<1>7. g2 = F(g2)
  <2> DEFINE B(n, p) == OutBody(d, id, excl, g2, n, p)
  <2>1. \A n \in Node, p \in P : g[n][p] = B(n, p)
    <3> HIDE DEF P, B
    <3>1. \A n \in Node, p \in P : g2[n][p] = g[n][p]
      OBVIOUS
    <3> HIDE DEF g2
    <3>2. QED
      BY <1>6, <3>1 DEF B
  <2> HIDE DEF P, B
  <2>2. g2 = [n \in Node |-> [p \in P |-> B(n, p)]]
    BY <2>1
  <2>3. QED
    BY <2>2 DEF B
<1> HIDE DEF g2, F
<1>8. o = F(o)
  BY <1>7
<1>9. ASSUME NEW n \in Node, NEW p \in P
      PROVE  o[n][p] = OutBody(d, id, excl, o, n, p)
  <2> HIDE DEF o, P
  <2>1. QED
    BY <1>8 DEF F
<1>10. QED
  BY <1>1, <1>9


-----------------------------------------------------------------------------
(***************************************************************************)
(* What has been rewritten.  Damage is d, a rewriting w, an open directory *)
(* f and the name of an entry x.                                           *)
(***************************************************************************)

\* An object that a node becomes whatever the repair id and its path.
Always(d, n, obj) ==
    \A id : \A p \in Seq(Names) : Outcome(d, id, {})[n][p] = [obj |-> obj, notes |-> {}]

UnlistedIn(d, w, n) == n \in d.missing \/ (n \in d.abridged /\ w.mode # "repair")
Remembers(w) == w.mode # "repair" /\ w.excl = {}
KeptIn(w, f) == Kept(f.dir, f.path, w.excl)
OutAt(d, w, f, x) == Outcome(d, w.id, w.excl)[Entries[f.dir][x]][Append(f.path, x)]
LostAt(d, f, x) == f.dir \in d.abridged /\ Entries[f.dir][x] \notin Dirs

\* An entry is what it must be, in every save if it may be remembered.
MadeRight(d, w, f, x, entry) ==
    /\ entry = Entry(OutAt(d, w, f, x).obj, LostAt(d, f, x) /\ ~ReplacedIn(d, Entries[f.dir][x]))
    /\ Remembers(w) => Always(d, Entries[f.dir][x], entry.obj)

\* What is to be told of an entry, and of all that were made.
NotesAt(d, w, f, x) ==
    OutAt(d, w, f, x).notes
    \cup (IF LostAt(d, f, x) THEN {<<"lost", Append(f.path, x)>>} ELSE {})
FrameNotes(d, w, f) == UNION {NotesAt(d, w, f, x) : x \in DOMAIN f.made}

\* A directory's entries are made, are still to be made, are left out, or
\* are away: the directory that is open below it.
OpenDir(d, w, f, away) ==
    /\ DOMAIN f = {"dir", "path", "todo", "made"}
    /\ f.dir \in Dirs /\ f.path \in Seq(Names)
    /\ f.todo \subseteq DOMAIN Entries[f.dir]
    /\ f.made = [x \in DOMAIN f.made |-> f.made[x]]
    /\ DOMAIN f.made = KeptIn(w, f) \ (f.todo \cup away)
    /\ \A x \in DOMAIN f.made : MadeRight(d, w, f, x, f.made[x])

\* The directory of h is the one that is open below that of f.
Below(d, w, f, h) ==
    /\ h.path = Append(f.path, Last(h.path))
    /\ Last(h.path) \in KeptIn(w, f) \ f.todo
    /\ h.dir = Entries[f.dir][Last(h.path)]
    /\ ~UnlistedIn(d, w, h.dir)

Away(w, i) == IF i < Len(w.frames) THEN {Last(w.frames[i + 1].path)} ELSE {}
Told(notes) == {note \in notes : note[1] # "restored"}
ToTell(d, w) == UNION {FrameNotes(d, w, w.frames[i]) : i \in DOMAIN w.frames}

WorkRight(d, w) ==
    /\ DOMAIN w = {"frames", "root", "mode", "id", "excl", "notes"}
    /\ w.frames \in Seq(Range(w.frames)) /\ w.frames # <<>>
    /\ w.frames[1].dir = w.root /\ w.frames[1].path = <<>>
    /\ \A i \in DOMAIN w.frames :
         /\ OpenDir(d, w, w.frames[i], Away(w, i))
         /\ i < Len(w.frames) => Below(d, w, w.frames[i], w.frames[i + 1])
    /\ w.mode = "repair" => Told(w.notes) = ToTell(d, w)

\* What is remembered may be used in every save that looks it up.
MapInv ==
    /\ damage \in Damages
    /\ fileMap \cap Missing = {}
    /\ excludes # {} => DOMAIN dirMap = {}
    /\ \A n \in DOMAIN dirMap : Always(damage, n, dirMap[n])

FramesInv == Busy => WorkRight(damage, work) /\ work.excl = excludes

\* Every save that was rewritten is right.
SaveRight(d, save) ==
    save.mode \in {"rewrite", "repair"} =>
        /\ save.tree = Outcome(d, save.id, save.excl)[save.from][<<>>].obj
        /\ save.mode = "repair" =>
             Told(save.notes) = Outcome(d, save.id, save.excl)[save.from][<<>>].notes

AllRight(d, c) == \A i \in DOMAIN c : SaveRight(d, c[i])
SavesInv == \A c \in have : c \notin Node => AllRight(damage, c)

\* Only saves of directories are rewritten; tips are histories under way.
TipInv ==
    /\ pc \notin {"append", "copy"} => tip = None
    /\ pc = "append" /\ Spec0.mode # "copy" => todo \in Seq({Original(n) : n \in Dirs})
    /\ Busy => work.mode \in {"rewrite", "repair"}

ConvertInv == MapInv /\ FramesInv /\ SavesInv /\ TipInv


-----------------------------------------------------------------------------
(***************************************************************************)
(* Steps of a rewriting                                                    *)
(***************************************************************************)

\* What becomes of a node that is not a directory, of one that is replaced.
LEMMA LeafOut ==
    ASSUME NEW d, NEW n \in Node \ Dirs, ~ReplacedIn(d, n)
    PROVE  \A id, excl : \A p \in Seq(Names) :
               Outcome(d, id, excl)[n][p] =
                   [obj |-> Copy(n),
                    notes |-> IF n \in d.mismatched \ d.missing THEN {<<"fixed", p>>} ELSE {}]
<1> SUFFICES ASSUME NEW id, NEW excl, NEW p \in Seq(Names)
             PROVE  Outcome(d, id, excl)[n][p] =
                   [obj |-> Copy(n),
                    notes |-> IF n \in d.mismatched \ d.missing THEN {<<"fixed", p>>} ELSE {}]
  OBVIOUS
<1> DEFINE out == Outcome(d, id, excl)
<1>1. out[n][p] = OutBody(d, id, excl, out, n, p)
  BY OutcomeIs
<1> HIDE DEF out
<1>2. OutBody(d, id, excl, out, n, p) =
          [obj |-> Copy(n),
           notes |-> IF n \in d.mismatched \ d.missing THEN {<<"fixed", p>>} ELSE {}]
  BY DEF OutBody
<1>3. QED
  BY <1>1, <1>2 DEF out

LEMMA ReplacedOut ==
    ASSUME NEW d, NEW n \in Node, ReplacedIn(d, n)
    PROVE  \A id, excl : \A p \in Seq(Names) :
               Outcome(d, id, excl)[n][p] =
                   [obj |-> Replacement(n, id), notes |-> {<<"replaced", p>>}]
<1> SUFFICES ASSUME NEW id, NEW excl, NEW p \in Seq(Names)
             PROVE  Outcome(d, id, excl)[n][p] =
                        [obj |-> Replacement(n, id), notes |-> {<<"replaced", p>>}]
  OBVIOUS
<1> DEFINE out == Outcome(d, id, excl)
<1>1. out[n][p] = OutBody(d, id, excl, out, n, p)
  BY OutcomeIs
<1> HIDE DEF out
<1>2. OutBody(d, id, excl, out, n, p) = [obj |-> Replacement(n, id), notes |-> {<<"replaced", p>>}]
  BY DEF OutBody
<1>3. QED
  BY <1>1, <1>2 DEF out

\* The names of an open directory.
LEMMA OpenNames ==
    ASSUME NEW d, NEW w, NEW f, NEW away, OpenDir(d, w, f, away), NEW x \in DOMAIN Entries[f.dir]
    PROVE  Entries[f.dir][x] \in Node /\ Append(f.path, x) \in Seq(Names)
BY NamesOf DEF OpenDir

\* All that is asked of a directory rests on how a save is rewritten, not on
\* how far it has come.
LEMMA SameSave ==
    ASSUME NEW d, NEW w, NEW w2, w2.id = w.id, w2.excl = w.excl, w2.mode = w.mode
    PROVE  /\ \A f, away : OpenDir(d, w2, f, away) = OpenDir(d, w, f, away)
           /\ \A f, h : Below(d, w2, f, h) = Below(d, w, f, h)
           /\ \A f, x : NotesAt(d, w2, f, x) = NotesAt(d, w, f, x)
           /\ \A f : FrameNotes(d, w2, f) = FrameNotes(d, w, f)
           /\ \A f, x, e : MadeRight(d, w2, f, x, e) = MadeRight(d, w, f, x, e)
           /\ Remembers(w2) = Remembers(w)
<1>1. \A f, x : OutAt(d, w2, f, x) = OutAt(d, w, f, x)
  BY DEF OutAt
<1>2. Remembers(w2) = Remembers(w)
  BY DEF Remembers
<1>3. \A f, x, e : MadeRight(d, w2, f, x, e) = MadeRight(d, w, f, x, e)
  BY <1>1, <1>2 DEF MadeRight
<1>4. \A f : KeptIn(w2, f) = KeptIn(w, f)
  BY DEF KeptIn
<1>5. \A f, away : OpenDir(d, w2, f, away) = OpenDir(d, w, f, away)
  BY <1>3, <1>4 DEF OpenDir
<1>6. \A f, h : Below(d, w2, f, h) = Below(d, w, f, h)
  BY <1>4 DEF Below, UnlistedIn
<1>7. \A f, x : NotesAt(d, w2, f, x) = NotesAt(d, w, f, x)
  BY <1>1 DEF NotesAt
<1>8. \A f : FrameNotes(d, w2, f) = FrameNotes(d, w, f)
  BY <1>7 DEF FrameNotes
<1>9. QED
  BY <1>2, <1>3, <1>5, <1>6, <1>7, <1>8

\* The stack with another top.
LEMMA TopSeq ==
    ASSUME NEW s, s \in Seq(Range(s)), s # <<>>, NEW f
    PROVE  LET s2 == Append(Front(s), f)
           IN /\ Len(s) \in Nat \ {0} /\ DOMAIN s = 1..Len(s)
              /\ s2 \in Seq(Range(s2)) /\ s2 # <<>> /\ Len(s2) = Len(s) /\ DOMAIN s2 = 1..Len(s)
              /\ \A i \in 1..(Len(s) - 1) : s2[i] = s[i]
              /\ s2[Len(s)] = f
<1> DEFINE S == Range(s) \cup {f}
           b == Front(s)
           s2 == Append(b, f)
<1>1. s \in Seq(S) /\ f \in S
  OBVIOUS
<1> HIDE DEF S
<1>2. Len(s) \in Nat \ {0} /\ DOMAIN s = 1..Len(s)
  BY <1>1
<1>3. /\ b \in Seq(S) /\ Len(b) = Len(s) - 1
      /\ \A i \in 1..(Len(s) - 1) : b[i] = s[i]
  BY <1>1, <1>2 DEF Front
<1> HIDE DEF b
<1>4. /\ s2 \in Seq(S) /\ Len(s2) = Len(s) /\ DOMAIN s2 = 1..Len(s)
      /\ \A i \in 1..(Len(s) - 1) : s2[i] = b[i]
      /\ s2[Len(s)] = f
  <2>1. /\ s2 \in Seq(S) /\ Len(s2) = Len(b) + 1
        /\ \A i \in 1..Len(b) : s2[i] = b[i]
        /\ s2[Len(b) + 1] = f
    BY <1>1, <1>3, AppendProperties
  <2> HIDE DEF s2
  <2>2. DOMAIN s2 = 1..Len(s2)
    BY <2>1
  <2>3. QED
    BY <1>2, <1>3, <2>1, <2>2
<1> HIDE DEF s2
<1>5. s2 \in Seq(Range(s2)) /\ s2 # <<>>
  BY <1>2, <1>4 DEF Range
<1>6. QED
  BY <1>2, <1>3, <1>4, <1>5 DEF s2, b

\* One more entry is done: those above are as they were.
LEMMA TopStep ==
    ASSUME NEW d, NEW w, WorkRight(d, w), NEW f, NEW notes,
           f.dir = Last(w.frames).dir, f.path = Last(w.frames).path,
           OpenDir(d, w, f, {}),
           w.mode = "repair" =>
               FrameNotes(d, w, f) = FrameNotes(d, w, Last(w.frames)) \cup Told(notes)
    PROVE  WorkRight(d, [w EXCEPT !.frames = Append(Front(@), f), !.notes = @ \cup notes])
<1> DEFINE w2 == [w EXCEPT !.frames = Append(Front(@), f), !.notes = @ \cup notes]
           s == w.frames
           s2 == Append(Front(s), f)
           n == Len(s)
<1>1. DOMAIN w = {"frames", "root", "mode", "id", "excl", "notes"}
  BY DEF WorkRight
<1>2. /\ w2.frames = s2 /\ w2.root = w.root /\ w2.mode = w.mode /\ w2.id = w.id
      /\ w2.excl = w.excl /\ w2.notes = w.notes \cup notes
      /\ DOMAIN w2 = {"frames", "root", "mode", "id", "excl", "notes"}
  BY <1>1
<1> HIDE DEF w2
<1>3. s \in Seq(Range(s)) /\ s # <<>>
  BY DEF WorkRight
<1>4. /\ n \in Nat \ {0} /\ DOMAIN s = 1..n
      /\ s2 \in Seq(Range(s2)) /\ s2 # <<>> /\ Len(s2) = n /\ DOMAIN s2 = 1..n
      /\ \A i \in 1..(n - 1) : s2[i] = s[i]
      /\ s2[n] = f /\ Last(s) = s[n]
  BY <1>3, TopSeq DEF Last
<1> HIDE DEF s2
<1>5. \A i \in 1..n : s2[i].dir = s[i].dir /\ s2[i].path = s[i].path
  <2>1. \A i \in 1..n : i = n \/ i \in 1..(n - 1)
    BY <1>4
  <2>2. QED
    BY <1>4, <2>1
<1>6. s2[1].dir = w.root /\ s2[1].path = <<>>
  BY <1>4, <1>5 DEF WorkRight
<1>7. \A i \in 1..n : Away(w2, i) = Away(w, i)
  <2>1. \A i \in 1..n : i < n => i + 1 \in 1..n
    BY <1>4
  <2>2. QED
    BY <1>2, <1>4, <1>5, <2>1 DEF Away
<1>8. ASSUME NEW i \in 1..n
      PROVE  /\ OpenDir(d, w2, s2[i], Away(w2, i))
             /\ i < n => Below(d, w2, s2[i], s2[i + 1])
  <2>1. OpenDir(d, w, s[i], Away(w, i)) /\ (i < n => Below(d, w, s[i], s[i + 1]))
    BY <1>4 DEF WorkRight
  <2>2. OpenDir(d, w, s2[i], Away(w, i))
    <3>1. CASE i = n
      <4>1. Away(w, n) = {}
        BY <1>4 DEF Away
      <4>2. QED
        BY <1>4, <3>1, <4>1
    <3>2. CASE i # n
      BY <1>4, <2>1, <3>2
    <3>3. QED
      BY <3>1, <3>2
  <2>3. i < n => Below(d, w, s2[i], s2[i + 1])
    <3>1. SUFFICES ASSUME i < n
                  PROVE  Below(d, w, s2[i], s2[i + 1])
      OBVIOUS
    <3>2. s2[i] = s[i] /\ i + 1 \in 1..n
      BY <1>4, <3>1
    <3>3. s2[i + 1].dir = s[i + 1].dir /\ s2[i + 1].path = s[i + 1].path
      BY <1>5, <3>2
    <3>4. QED
      BY <2>1, <3>1, <3>2, <3>3 DEF Below
  <2>4. QED
    BY <1>2, <1>7, <2>2, <2>3, SameSave
<1>9. ASSUME w.mode = "repair"
      PROVE  Told(w2.notes) = ToTell(d, w2)
  <2>1. Told(w.notes) = ToTell(d, w)
    BY <1>9 DEF WorkRight
  <2>2. Told(w2.notes) = Told(w.notes) \cup Told(notes)
    BY <1>2 DEF Told
  <2>3. \A i \in 1..n : FrameNotes(d, w2, s2[i]) = FrameNotes(d, w, s2[i])
    BY <1>2, SameSave
  <2>4. FrameNotes(d, w, s2[n]) = FrameNotes(d, w, s[n]) \cup Told(notes)
    BY <1>4, <1>9
  <2> DEFINE N(i) == FrameNotes(d, w, s[i])
             N2(i) == FrameNotes(d, w2, s2[i])
  <2>5. ToTell(d, w) = UNION {N(i) : i \in 1..n}
    BY <1>4 DEF ToTell
  <2>6. ToTell(d, w2) = UNION {N2(i) : i \in 1..n}
    BY <1>2, <1>4 DEF ToTell
  <2>7. \A i \in 1..n : i # n => N2(i) = N(i)
    BY <1>4, <2>3
  <2>8. N2(n) = N(n) \cup Told(notes) /\ n \in 1..n
    BY <1>4, <2>3, <2>4
  <2> HIDE DEF N, N2
  <2>9. UNION {N2(i) : i \in 1..n} = (UNION {N(i) : i \in 1..n}) \cup Told(notes)
    BY <2>7, <2>8
  <2>10. QED
    BY <2>1, <2>2, <2>5, <2>6, <2>9
<1>10. WorkRight(d, w2)
  BY <1>2, <1>4, <1>6, <1>8, <1>9 DEF WorkRight
<1>11. QED
  BY <1>10 DEF w2

\* The directory that is open at the bottom has nothing open below it.
LEMMA TopIsOpen ==
    ASSUME NEW d, NEW w, WorkRight(d, w)
    PROVE  OpenDir(d, w, Last(w.frames), {})
<1> DEFINE s == w.frames
           n == Len(s)
<1>1. s \in Seq(Range(s)) /\ s # <<>>
  BY DEF WorkRight
<1>2. n \in Nat \ {0} /\ DOMAIN s = 1..n /\ n \in 1..n /\ Last(s) = s[n]
  BY <1>1 DEF Last
<1>3. Away(w, n) = {}
  BY <1>2 DEF Away
<1>4. OpenDir(d, w, s[n], Away(w, n))
  BY <1>2 DEF WorkRight
<1>5. QED
  BY <1>2, <1>3, <1>4

\* One more entry is made, of those still to be made or of the one that was
\* away.
LEMMA MadeOne ==
    ASSUME NEW d, NEW w, NEW f, NEW away, OpenDir(d, w, f, away),
           NEW name \in KeptIn(w, f), name \in f.todo \cup away, away \subseteq {name},
           NEW entry, MadeRight(d, w, f, name, entry),
           NEW g, DOMAIN g = {"dir", "path", "todo", "made"}, g.dir = f.dir, g.path = f.path,
           g.todo = f.todo \ {name}, g.made = With(f.made, name, entry)
    PROVE  /\ OpenDir(d, w, g, {})
           /\ FrameNotes(d, w, g) = FrameNotes(d, w, f) \cup NotesAt(d, w, f, name)
<1>1. /\ DOMAIN g.made = DOMAIN f.made \cup {name}
      /\ \A x \in DOMAIN g.made : g.made[x] = IF x = name THEN entry ELSE f.made[x]
      /\ g.made = [x \in DOMAIN g.made |-> g.made[x]]
  BY DEF With
<1>2. /\ KeptIn(w, g) = KeptIn(w, f)
      /\ \A x : OutAt(d, w, g, x) = OutAt(d, w, f, x) /\ LostAt(d, g, x) = LostAt(d, f, x)
  BY DEF KeptIn, OutAt, LostAt
<1>3. \A x, e : MadeRight(d, w, g, x, e) = MadeRight(d, w, f, x, e)
  BY <1>2 DEF MadeRight
<1>4. \A x : NotesAt(d, w, g, x) = NotesAt(d, w, f, x)
  BY <1>2 DEF NotesAt
<1>5. /\ f.dir \in Dirs /\ f.path \in Seq(Names) /\ f.todo \subseteq DOMAIN Entries[f.dir]
      /\ DOMAIN f.made = KeptIn(w, f) \ (f.todo \cup away)
      /\ \A x \in DOMAIN f.made : MadeRight(d, w, f, x, f.made[x])
  BY DEF OpenDir
<1>6. DOMAIN g.made = KeptIn(w, g) \ (g.todo \cup {})
  BY <1>1, <1>2, <1>5
<1>7. \A x \in DOMAIN g.made : MadeRight(d, w, g, x, g.made[x])
  BY <1>1, <1>3, <1>5
<1>8. OpenDir(d, w, g, {})
  BY <1>1, <1>5, <1>6, <1>7 DEF OpenDir
<1> DEFINE N(x) == NotesAt(d, w, f, x)
<1>9. FrameNotes(d, w, g) = UNION {N(x) : x \in DOMAIN g.made}
  BY <1>4 DEF FrameNotes
<1>10. FrameNotes(d, w, f) = UNION {N(x) : x \in DOMAIN f.made}
  BY DEF FrameNotes
<1> HIDE DEF N
<1>11. FrameNotes(d, w, g) = FrameNotes(d, w, f) \cup N(name)
  BY <1>1, <1>9, <1>10
<1>12. QED
  BY <1>8, <1>11 DEF N

\* What is put is what the entry must be, and is told of as it must be.
LEMMA PutStep ==
    ASSUME WorkRight(damage, work), NEW name \in Top.todo, Path(name) \notin work.excl,
           NEW obj, NEW lost, NEW notes, Put(name, obj, lost, notes),
           MadeRight(damage, work, Top, name, Entry(obj, lost)),
           work.mode = "repair" => Told(notes) = NotesAt(damage, work, Top, name)
    PROVE  WorkRight(damage, work')
<1> DEFINE entry == Entry(obj, lost)
           f == [Top EXCEPT !.todo = @ \ {name}, !.made = With(Top.made, name, entry)]
<1>1. work' = [work EXCEPT !.frames = Append(Front(@), f), !.notes = @ \cup notes]
  BY DEF Put, Done
<1>2. OpenDir(damage, work, Top, {})
  BY TopIsOpen DEF Top
<1>3. name \in KeptIn(work, Top)
  BY <1>2 DEF OpenDir, KeptIn, Kept, Path
<1>4. DOMAIN Top = {"dir", "path", "todo", "made"}
  BY <1>2 DEF OpenDir
<1>5. /\ DOMAIN f = {"dir", "path", "todo", "made"} /\ f.dir = Top.dir /\ f.path = Top.path
      /\ f.todo = Top.todo \ {name} /\ f.made = With(Top.made, name, entry)
  BY <1>4
<1> HIDE DEF f, entry
<1>6. /\ OpenDir(damage, work, f, {})
      /\ FrameNotes(damage, work, f) =
             FrameNotes(damage, work, Top) \cup NotesAt(damage, work, Top, name)
  <2>1. MadeRight(damage, work, Top, name, entry)
    BY DEF entry
  <2>2. QED
    BY <1>2, <1>3, <1>5, <2>1, MadeOne
<1>7. QED
  BY <1>1, <1>5, <1>6, TopStep DEF Top

\* A name that is excluded is not kept.
LEMMA ExcludeStep ==
    ASSUME WorkRight(damage, work), NEW name \in Top.todo, Exclude(name)
    PROVE  WorkRight(damage, work')
<1> DEFINE f == [Top EXCEPT !.todo = @ \ {name}, !.made = Top.made]
<1>1. work' = [work EXCEPT !.frames = Append(Front(@), f), !.notes = @ \cup {}]
  BY DEF Exclude, Done
<1>2. OpenDir(damage, work, Top, {})
  BY TopIsOpen DEF Top
<1>3. name \notin KeptIn(work, Top)
  BY DEF Exclude, KeptIn, Kept, Path
<1>4. DOMAIN Top = {"dir", "path", "todo", "made"}
  BY <1>2 DEF OpenDir
<1>5. /\ DOMAIN f = {"dir", "path", "todo", "made"} /\ f.dir = Top.dir /\ f.path = Top.path
      /\ f.todo = Top.todo \ {name} /\ f.made = Top.made
  BY <1>4
<1> HIDE DEF f
<1>6. /\ KeptIn(work, f) = KeptIn(work, Top)
      /\ \A x : OutAt(damage, work, f, x) = OutAt(damage, work, Top, x)
                /\ LostAt(damage, f, x) = LostAt(damage, Top, x)
  BY <1>5 DEF KeptIn, OutAt, LostAt
<1>7. OpenDir(damage, work, f, {})
  <2>1. \A x, e : MadeRight(damage, work, f, x, e) = MadeRight(damage, work, Top, x, e)
    BY <1>5, <1>6 DEF MadeRight
  <2>2. QED
    BY <1>2, <1>3, <1>5, <1>6, <2>1 DEF OpenDir
<1>8. FrameNotes(damage, work, f) = FrameNotes(damage, work, Top) \cup Told({})
  <2>1. \A x : NotesAt(damage, work, f, x) = NotesAt(damage, work, Top, x)
    BY <1>5, <1>6 DEF NotesAt
  <2>2. QED
    BY <1>5, <2>1 DEF FrameNotes, Told
<1>9. QED
  BY <1>1, <1>5, <1>7, <1>8, TopStep DEF Top

\* What an entry of the open directory is.
LEMMA EntryFacts ==
    ASSUME WorkRight(damage, work), MapInv, NEW name \in Top.todo
    PROVE  /\ Child(name) \in Node /\ Path(name) \in Seq(Names)
           /\ damage.mismatched \subseteq Links /\ damage.noMeta \subseteq Links
           /\ Kind[Child(name)] # "link" => Child(name) \notin Links
           /\ Kind[Child(name)] = "dir" <=> Child(name) \in Dirs
<1>1. OpenDir(damage, work, Top, {})
  BY TopIsOpen DEF Top
<1>2. name \in DOMAIN Entries[Top.dir]
  BY <1>1 DEF OpenDir
<1>3. Child(name) \in Node /\ Path(name) \in Seq(Names)
  BY <1>1, <1>2, OpenNames DEF Child, Path
<1>4. damage.mismatched \subseteq Links /\ damage.noMeta \subseteq Links
  BY RewriteParameters DEF MapInv
<1>5. QED
  BY <1>3, <1>4 DEF Links, Dirs

\* How to see that an entry is right.
LEMMA EntryIsRight ==
    ASSUME NEW name, NEW obj, NEW lost, NEW told,
           Outcome(damage, work.id, work.excl)[Child(name)][Path(name)] = [obj |-> obj, notes |-> told],
           lost = (LostMeta /\ Child(name) \notin Dirs /\ ~ReplacedIn(damage, Child(name))),
           Remembers(work) => Always(damage, Child(name), obj)
    PROVE  /\ MadeRight(damage, work, Top, name, Entry(obj, lost))
           /\ NotesAt(damage, work, Top, name) =
                  told \cup (IF LostMeta /\ Child(name) \notin Dirs THEN {<<"lost", Path(name)>>} ELSE {})
<1>1. OutAt(damage, work, Top, name) = [obj |-> obj, notes |-> told]
  BY DEF OutAt, Child, Path
<1>2. LostAt(damage, Top, name) = (LostMeta /\ Child(name) \notin Dirs)
  BY DEF LostAt, LostMeta, Lost, Child
<1>3. Entry(obj, lost) = Entry(OutAt(damage, work, Top, name).obj,
                               LostAt(damage, Top, name) /\ ~ReplacedIn(damage, Child(name)))
  <2>1. lost = (LostAt(damage, Top, name) /\ ~ReplacedIn(damage, Child(name)))
    BY <1>2
  <2>2. OutAt(damage, work, Top, name).obj = obj
    BY <1>1
  <2>3. QED
    BY <2>1, <2>2
<1>4. Entry(obj, lost).obj = obj
  BY DEF Entry
<1>5. MadeRight(damage, work, Top, name, Entry(obj, lost))
  BY <1>3, <1>4 DEF MadeRight, Child
<1>6. OutAt(damage, work, Top, name).notes = told
  BY <1>1
<1>7. QED
  BY <1>2, <1>5, <1>6 DEF NotesAt, Path

\* A directory that was converted before.
LEMMA ReuseDirStep ==
    ASSUME WorkRight(damage, work), work.excl = excludes, MapInv,
           NEW name \in Top.todo, ReuseDir(name)
    PROVE  WorkRight(damage, work')
<1> DEFINE n == Child(name)
<1>1. /\ Path(name) \notin work.excl /\ n \in Dirs
      /\ n \in DOMAIN dirMap /\ Put(name, dirMap[n], FALSE, {})
  BY EntryFacts DEF ReuseDir, Included
<1>2. work.excl = {} /\ Always(damage, n, dirMap[n])
  BY <1>1 DEF MapInv
<1> HIDE DEF n
<1>3. Outcome(damage, work.id, work.excl)[n][Path(name)] = [obj |-> dirMap[n], notes |-> {}]
  <2>1. Path(name) \in Seq(Names)
    BY EntryFacts
  <2>2. QED
    BY <1>2, <2>1 DEF Always
<1>4. /\ MadeRight(damage, work, Top, name, Entry(dirMap[n], FALSE))
      /\ NotesAt(damage, work, Top, name) = {}
  BY <1>1, <1>2, <1>3, EntryIsRight DEF n
<1>5. Told({}) = {}
  BY DEF Told
<1>6. QED
  BY <1>1, <1>4, <1>5, PutStep

\* What is replaced, with the notes a replacement in it may come with.
LEMMA ReplaceStep ==
    ASSUME WorkRight(damage, work), MapInv, NEW name \in Top.todo,
           Path(name) \notin work.excl, ReplacedIn(damage, Child(name)), Repairing,
           NEW notes, PutReplacement(name, notes),
           notes = IF LostMeta /\ Child(name) \notin Dirs THEN {<<"lost", Path(name)>>} ELSE {}
    PROVE  WorkRight(damage, work')
<1> DEFINE n == Child(name)
           new == Replacement(n, work.id)
           told == {<<"replaced", Path(name)>>}
<1>1. Outcome(damage, work.id, work.excl)[n][Path(name)] = [obj |-> new, notes |-> told]
  BY EntryFacts, ReplacedOut
<1>2. ~Remembers(work)
  BY DEF Repairing, Remembers
<1>3. Put(name, new, FALSE, notes \cup told)
  BY DEF PutReplacement
<1>4. Told(notes \cup told) = notes \cup told
  BY DEF Told
<1> HIDE DEF new, told, n
<1>5. /\ MadeRight(damage, work, Top, name, Entry(new, FALSE))
      /\ NotesAt(damage, work, Top, name) = told \cup notes
  BY <1>1, <1>2, EntryIsRight DEF n
<1>6. QED
  BY <1>3, <1>4, <1>5, PutStep

LEMMA ReplacedSteps ==
    ASSUME WorkRight(damage, work), MapInv, NEW name \in Top.todo,
           ReplaceDir(name) \/ ReplaceFile(name) \/ ReplaceLink(name)
    PROVE  WorkRight(damage, work')
<1> DEFINE n == Child(name)
<1>1. CASE ReplaceDir(name)
  <2>1. /\ Path(name) \notin work.excl /\ Kind[n] = "dir" /\ n \in Dirs
        /\ Repairing /\ n \in Missing /\ PutReplacement(name, {})
    BY <1>1, EntryFacts DEF ReplaceDir, Included
  <2>2. ReplacedIn(damage, n)
    BY <2>1 DEF ReplacedIn, Missing
  <2>3. QED
    BY <2>1, <2>2, ReplaceStep
<1>2. CASE ReplaceFile(name)
  <2>1. /\ Path(name) \notin work.excl /\ Kind[n] = "file" /\ n \notin Dirs
        /\ Repairing /\ n \in Missing /\ PutReplacement(name, LostNote(name))
    BY <1>2, EntryFacts DEF ReplaceFile, Included
  <2>2. ReplacedIn(damage, n)
    BY <2>1 DEF ReplacedIn, Missing
  <2>3. LostNote(name) = IF LostMeta /\ n \notin Dirs THEN {<<"lost", Path(name)>>} ELSE {}
    BY <2>1 DEF LostNote
  <2>4. QED
    BY <2>1, <2>2, <2>3, ReplaceStep
<1>3. CASE ReplaceLink(name)
  <2>1. /\ Path(name) \notin work.excl /\ Kind[n] = "link" /\ n \notin Dirs
        /\ Repairing /\ n \in NoMeta \cap Missing /\ ~LostMeta /\ PutReplacement(name, {})
    BY <1>3, EntryFacts DEF ReplaceLink, Included
  <2>2. ReplacedIn(damage, n)
    BY <2>1 DEF ReplacedIn, Missing, NoMeta
  <2>3. QED
    BY <2>1, <2>2, ReplaceStep
<1>4. QED
  BY <1>1, <1>2, <1>3

\* What is rewritten in one step and not replaced.
LEMMA LeafStep ==
    ASSUME WorkRight(damage, work), MapInv, NEW name \in Top.todo,
           Path(name) \notin work.excl, Child(name) \notin Dirs, ~ReplacedIn(damage, Child(name)),
           NEW notes, Put(name, Copy(Child(name)), LostMeta, notes),
           Told(notes) = (IF Child(name) \in damage.mismatched \ Missing THEN {<<"fixed", Path(name)>>} ELSE {})
                         \cup LostNote(name),
           Child(name) \in damage.mismatched \ Missing => Repairing
    PROVE  WorkRight(damage, work')
<1> DEFINE n == Child(name)
           Leaf(p) == [obj |-> Copy(n),
                       notes |-> IF n \in damage.mismatched \ damage.missing THEN {<<"fixed", p>>} ELSE {}]
           told == IF n \in damage.mismatched \ Missing THEN {<<"fixed", Path(name)>>} ELSE {}
<1>1. n \in Node \ Dirs /\ Path(name) \in Seq(Names)
  BY EntryFacts
<1>2. \A id, excl : \A p \in Seq(Names) : Outcome(damage, id, excl)[n][p] = Leaf(p)
  BY <1>1, LeafOut
<1>3. Outcome(damage, work.id, work.excl)[n][Path(name)] = [obj |-> Copy(n), notes |-> told]
  <2> HIDE DEF n
  <2>1. QED
    BY <1>1, <1>2 DEF Missing
<1>4. Remembers(work) => Always(damage, n, Copy(n))
  <2>1. SUFFICES ASSUME Remembers(work)
                PROVE  Always(damage, n, Copy(n))
    OBVIOUS
  <2>2. n \notin damage.mismatched \ damage.missing
    BY <2>1 DEF Remembers, Repairing, Missing
  <2> HIDE DEF n
  <2>3. \A p : Leaf(p) = [obj |-> Copy(n), notes |-> {}]
    BY <2>2
  <2>4. QED
    BY <1>2, <2>3 DEF Always
<1>5. LostMeta = (LostMeta /\ n \notin Dirs /\ ~ReplacedIn(damage, n))
  BY DEF LostMeta, Lost
<1>6. LostNote(name) = IF LostMeta /\ n \notin Dirs THEN {<<"lost", Path(name)>>} ELSE {}
  BY DEF LostNote
<1> HIDE DEF told
<1>7. /\ MadeRight(damage, work, Top, name, Entry(Copy(n), LostMeta))
      /\ NotesAt(damage, work, Top, name) = told \cup LostNote(name)
  BY <1>3, <1>4, <1>5, <1>6, EntryIsRight
<1>8. Told(notes) = NotesAt(damage, work, Top, name)
  BY <1>7 DEF told
<1>9. QED
  BY <1>7, <1>8, PutStep

LEMMA RewrittenSteps ==
    ASSUME WorkRight(damage, work), MapInv, NEW name \in Top.todo,
           RewriteSpecial(name) \/ RewriteFile(name) \/ RewriteLink(name)
    PROVE  WorkRight(damage, work')
<1> DEFINE n == Child(name)
<1>1. Told(LostNote(name)) = LostNote(name)
  BY DEF Told, LostNote
<1>2. CASE RewriteSpecial(name)
  <2>1. /\ Path(name) \notin work.excl /\ Kind[n] = "special" /\ n \notin Dirs
        /\ n \notin damage.mismatched /\ Put(name, Copy(n), LostMeta, LostNote(name))
    BY <1>2, EntryFacts DEF RewriteSpecial, Included
  <2>2. ~ReplacedIn(damage, n)
    BY <2>1 DEF ReplacedIn
  <2>3. QED
    BY <1>1, <2>1, <2>2, LeafStep
<1>3. CASE RewriteFile(name)
  <2>1. /\ Path(name) \notin work.excl /\ Kind[n] = "file" /\ n \notin Dirs
        /\ n \notin damage.mismatched /\ MayRead(n) /\ Put(name, Copy(n), LostMeta, LostNote(name))
    BY <1>3, EntryFacts DEF RewriteFile, Included
  <2>2. ~ReplacedIn(damage, n)
    BY <2>1 DEF ReplacedIn, MayRead, MapInv, Missing
  <2>3. QED
    BY <1>1, <2>1, <2>2, LeafStep
<1>4. CASE RewriteLink(name)
  <2> DEFINE note == IF n \in Missing THEN {<<"restored", Path(name)>>}
                     ELSE IF n \in damage.mismatched THEN {<<"fixed", Path(name)>>}
                     ELSE {}
  <2>1. /\ Path(name) \notin work.excl /\ Kind[n] = "link" /\ n \notin Dirs
        /\ n \notin NoMeta /\ ~LostMeta
        /\ n \in Missing \/ n \notin damage.mismatched \/ Repairing
        /\ Put(name, Copy(n), FALSE, note)
    BY <1>4, EntryFacts DEF RewriteLink, Included
  <2>2. ~ReplacedIn(damage, n)
    BY <2>1 DEF ReplacedIn, NoMeta
  <2>3. LostMeta = FALSE /\ LostNote(name) = {}
    BY <2>1 DEF LostMeta, Lost, LostNote
  <2>4. Put(name, Copy(n), LostMeta, note)
    BY <2>1, <2>3
  <2>5. Told(note) = IF n \in damage.mismatched \ Missing THEN {<<"fixed", Path(name)>>} ELSE {}
    BY DEF Told
  <2> HIDE DEF note
  <2>6. QED
    BY <2>1, <2>2, <2>3, <2>4, <2>5, LeafStep
<1>5. QED
  BY <1>2, <1>3, <1>4

\* A directory all of whose entries are made is what it must be.
LEMMA WholeDir ==
    ASSUME NEW d, NEW w, NEW f, OpenDir(d, w, f, {}), f.todo = {}, ~UnlistedIn(d, w, f.dir),
           w.mode \in {"rewrite", "repair"}
    PROVE  /\ Outcome(d, w.id, w.excl)[f.dir][f.path].obj = Tree(f.made)
           /\ Outcome(d, w.id, w.excl)[f.dir][f.path].notes = FrameNotes(d, w, f)
           /\ Remembers(w) => Always(d, f.dir, Tree(f.made))
<1> DEFINE n == f.dir
           p == f.path
           K == KeptIn(w, f)
           out == Outcome(d, w.id, w.excl)
           O(x) == OutAt(d, w, f, x)
           lost(x) == LostAt(d, f, x)
<1>1. /\ n \in Dirs /\ n \in Node /\ p \in Seq(Names) /\ DOMAIN f.made = K
      /\ f.made = [x \in DOMAIN f.made |-> f.made[x]]
      /\ \A x \in K : MadeRight(d, w, f, x, f.made[x])
  BY DEF OpenDir, Dirs
<1>2. ~ReplacedIn(d, n)
  BY DEF UnlistedIn, ReplacedIn
<1>3. out[n][p] = OutBody(d, w.id, w.excl, out, n, p)
  BY <1>1, OutcomeIs
<1>4. K = Kept(n, p, w.excl)
  BY DEF KeptIn
<1>5. \A x : O(x) = out[Entries[n][x]][Append(p, x)]
  BY DEF OutAt
<1>6. \A x : lost(x) = (n \in d.abridged /\ Entries[n][x] \notin Dirs)
  BY DEF LostAt
<1>7. OutBody(d, w.id, w.excl, out, n, p) =
        [obj |-> Tree([x \in K |-> Entry(O(x).obj, lost(x) /\ ~ReplacedIn(d, Entries[n][x]))]),
         notes |-> (UNION {O(x).notes : x \in K})
                   \cup {<<"lost", Append(p, x)>> : x \in {y \in K : lost(y)}}]
  BY <1>1, <1>2 DEF OutBody, KeptIn, OutAt, LostAt
<1> HIDE DEF out, K, O, lost
<1>8. \A x \in K : f.made[x] = Entry(O(x).obj, lost(x) /\ ~ReplacedIn(d, Entries[n][x]))
  BY <1>1 DEF MadeRight, O, lost
<1>9. f.made = [x \in K |-> Entry(O(x).obj, lost(x) /\ ~ReplacedIn(d, Entries[n][x]))]
  BY <1>1, <1>8
<1>10. out[n][p].obj = Tree(f.made)
  BY <1>3, <1>7, <1>9
<1> DEFINE L == {<<"lost", Append(p, x)>> : x \in {y \in K : lost(y)}}
           N(x) == O(x).notes \cup (IF lost(x) THEN {<<"lost", Append(p, x)>>} ELSE {})
<1>11. out[n][p].notes = (UNION {O(x).notes : x \in K}) \cup L
  BY <1>3, <1>7
<1>12. FrameNotes(d, w, f) = UNION {N(x) : x \in K}
  BY <1>1 DEF FrameNotes, NotesAt, O, lost
<1>13. UNION {N(x) : x \in K} = (UNION {O(x).notes : x \in K}) \cup L
  <2>1. ASSUME NEW note
        PROVE  note \in UNION {N(x) : x \in K} <=> \E x \in K : note \in N(x)
    OBVIOUS
  <2>2. ASSUME NEW note
        PROVE  note \in L <=> \E x \in K : lost(x) /\ note = <<"lost", Append(p, x)>>
    OBVIOUS
  <2> DEFINE notes(x) == O(x).notes
             P(x) == <<"lost", Append(p, x)>>
  <2>3. \A x, note : note \in N(x) <=> note \in notes(x) \/ (lost(x) /\ note = P(x))
    OBVIOUS
  <2>4. \A note : note \in L <=> \E x \in K : lost(x) /\ note = P(x)
    BY <2>2
  <2> HIDE DEF N, notes, P, L
  <2>5. (UNION {N(x) : x \in K}) = (UNION {notes(x) : x \in K}) \cup L
    BY <2>3, <2>4
  <2>6. QED
    BY <2>5 DEF notes
<1>14. ASSUME Remembers(w)
       PROVE  Always(d, n, Tree(f.made))
  <2>1. w.mode # "repair" /\ w.excl = {} /\ n \notin d.abridged
    BY <1>14 DEF Remembers, UnlistedIn
  <2> DEFINE K2 == DOMAIN Entries[n]
             C(x) == f.made[x].obj
  <2>2. K = K2
    BY <2>1 DEF K, KeptIn, Kept
  <2>3. \A x \in K : Always(d, Entries[n][x], C(x)) /\ lost(x) = FALSE
    BY <1>1, <1>14, <2>1 DEF MadeRight, lost, LostAt
  <2>4. \A x \in K : f.made[x] = Entry(C(x), FALSE)
    <3>1. \A x \in K : f.made[x] = Entry(O(x).obj, FALSE)
      BY <1>8, <2>3
    <3>2. \A o : Entry(o, FALSE).obj = o
      BY DEF Entry
    <3>3. \A x \in K : C(x) = O(x).obj
      BY <3>1, <3>2
    <3> HIDE DEF C
    <3>4. QED
      BY <3>1, <3>3
  <2>5. f.made = [x \in K2 |-> Entry(C(x), FALSE)]
    BY <1>1, <2>2, <2>4
  <2>6. ASSUME NEW id, NEW q \in Seq(Names)
        PROVE  Outcome(d, id, {})[n][q] = [obj |-> Tree(f.made), notes |-> {}]
    <3> DEFINE o == Outcome(d, id, {})
               R(x) == o[Entries[n][x]][Append(q, x)]
               l(x) == n \in d.abridged /\ Entries[n][x] \notin Dirs
    <3>1. o[n][q] = OutBody(d, id, {}, o, n, q)
      BY <1>1, OutcomeIs
    <3>2. Kept(n, q, {}) = K2
      BY DEF Kept
    <3>3. OutBody(d, id, {}, o, n, q) =
            [obj |-> Tree([x \in K2 |-> Entry(R(x).obj, l(x) /\ ~ReplacedIn(d, Entries[n][x]))]),
             notes |-> (UNION {R(x).notes : x \in K2})
                       \cup {<<"lost", Append(q, x)>> : x \in {y \in K2 : l(y)}}]
      BY <1>1, <1>2, <3>2 DEF OutBody
    <3>4. \A x \in K2 : Append(q, x) \in Seq(Names)
      BY <1>1, NamesOf
    <3>5. \A x \in K2 : R(x) = [obj |-> C(x), notes |-> {}]
      <4> HIDE DEF K2, C
      <4>1. QED
        BY <2>2, <2>3, <3>4 DEF Always
    <3>6. \A x \in K2 : (l(x) /\ ~ReplacedIn(d, Entries[n][x])) = FALSE
      BY <2>1
    <3>7. [x \in K2 |-> Entry(R(x).obj, l(x) /\ ~ReplacedIn(d, Entries[n][x]))] = f.made
      <4> HIDE DEF R, C, l, K2
      <4> DEFINE m(x) == l(x) /\ ~ReplacedIn(d, Entries[n][x])
      <4>1. \A x \in K2 : R(x).obj = C(x)
        BY <3>5
      <4>2. \A x \in K2 : m(x) = FALSE
        BY <3>6
      <4> HIDE DEF m
      <4>3. [x \in K2 |-> Entry(R(x).obj, m(x))] = f.made
        BY <2>5, <4>1, <4>2
      <4>4. QED
        BY <4>3 DEF m
    <3>8. (UNION {R(x).notes : x \in K2}) = {}
      <4> HIDE DEF R, K2
      <4>1. QED
        BY <3>5
    <3>9. {<<"lost", Append(q, x)>> : x \in {y \in K2 : l(y)}} = {}
      BY <2>1
    <3> HIDE DEF o, R, l, K2
    <3>10. QED
      BY <3>1, <3>3, <3>7, <3>8, <3>9 DEF o
  <2>7. QED
    BY <2>6 DEF Always
<1>15. QED
  BY <1>10, <1>11, <1>12, <1>13, <1>14 DEF out

\* A directory is opened below the last one.
LEMMA EnterDirStep ==
    ASSUME WorkRight(damage, work), MapInv, NEW name \in Top.todo, EnterDir(name)
    PROVE  WorkRight(damage, work')
<1> DEFINE s == work.frames
           n == Len(s)
           f == [Top EXCEPT !.todo = @ \ {name}]
           h == Frame(Child(name), Path(name))
           b == Append(Front(s), f)
           s2 == Append(b, h)
<1>1. /\ Path(name) \notin work.excl /\ Child(name) \in Dirs /\ ~Unlisted(Child(name))
      /\ work' = [work EXCEPT !.frames = s2]
  BY EntryFacts DEF EnterDir, Included
<1>2. OpenDir(damage, work, Top, {})
  BY TopIsOpen DEF Top
<1>3. s \in Seq(Range(s)) /\ s # <<>> /\ DOMAIN work = {"frames", "root", "mode", "id", "excl", "notes"}
  BY DEF WorkRight
<1>4. /\ work'.frames = s2 /\ work'.root = work.root /\ work'.mode = work.mode
      /\ work'.id = work.id /\ work'.excl = work.excl /\ work'.notes = work.notes
      /\ DOMAIN work' = {"frames", "root", "mode", "id", "excl", "notes"}
  BY <1>1, <1>3
<1>5. /\ DOMAIN f = {"dir", "path", "todo", "made"} /\ f.dir = Top.dir /\ f.path = Top.path
      /\ f.todo = Top.todo \ {name} /\ f.made = Top.made
  BY <1>2 DEF OpenDir
<1>6. /\ DOMAIN h = {"dir", "path", "todo", "made"} /\ h.dir = Child(name) /\ h.path = Path(name)
      /\ h.todo = DOMAIN Entries[Child(name)] /\ h.made = <<>>
  BY DEF Frame
<1> HIDE DEF f, h
<1>7. /\ n \in Nat \ {0} /\ DOMAIN s = 1..n
      /\ b \in Seq(Range(b)) /\ b # <<>> /\ Len(b) = n /\ DOMAIN b = 1..n
      /\ \A i \in 1..(n - 1) : b[i] = s[i]
      /\ b[n] = f /\ Top = s[n]
  BY <1>3, TopSeq DEF Last, Top
<1> HIDE DEF b
<1>8. /\ s2 \in Seq(Range(s2)) /\ s2 # <<>> /\ Len(s2) = n + 1 /\ DOMAIN s2 = 1..(n + 1)
      /\ \A i \in 1..(n - 1) : s2[i] = s[i]
      /\ s2[n] = f /\ s2[n + 1] = h
  <2> DEFINE S == Range(b) \cup {h}
  <2>1. b \in Seq(S) /\ h \in S
    BY <1>7
  <2> HIDE DEF S
  <2>2. /\ s2 \in Seq(S) /\ Len(s2) = Len(b) + 1
        /\ \A i \in 1..Len(b) : s2[i] = b[i]
        /\ s2[Len(b) + 1] = h
    BY <2>1, AppendProperties
  <2> HIDE DEF s2
  <2>3. DOMAIN s2 = 1..(n + 1)
    BY <1>7, <2>2
  <2>4. s2 \in Seq(Range(s2)) /\ s2 # <<>>
    <3>1. n + 1 # 0
      BY <1>7
    <3>2. QED
      BY <1>7, <2>2, <3>1, SeqOfRange
  <2>5. \A i \in 1..(n - 1) : i \in 1..n
    BY <1>7
  <2>6. n \in 1..n
    BY <1>7
  <2>7. QED
    BY <1>7, <2>2, <2>3, <2>4, <2>5, <2>6
<1> HIDE DEF s2
<1>9. name = Last(h.path) /\ name \in KeptIn(work, Top) /\ name \in DOMAIN Entries[Top.dir]
  <2>1. Top.path \in Seq(Names) /\ name \in DOMAIN Entries[Top.dir] /\ Top.dir \in Dirs
    BY <1>2 DEF OpenDir
  <2>2. name \in Names
    BY <2>1, NamesOf
  <2>3. Last(Append(Top.path, name)) = name
    <3> HIDE DEF Names
    <3>1. QED
      BY <2>1, <2>2 DEF Last
  <2>4. QED
    BY <1>1, <1>6, <2>1, <2>3 DEF Path, KeptIn, Kept
<1>10. OpenDir(damage, work, f, {name})
  <2>1. /\ KeptIn(work, f) = KeptIn(work, Top)
        /\ \A x : OutAt(damage, work, f, x) = OutAt(damage, work, Top, x)
                  /\ LostAt(damage, f, x) = LostAt(damage, Top, x)
    BY <1>5 DEF KeptIn, OutAt, LostAt
  <2>2. \A x, e : MadeRight(damage, work, f, x, e) = MadeRight(damage, work, Top, x, e)
    BY <1>5, <2>1 DEF MadeRight
  <2>3. f.todo \cup {name} = Top.todo
    BY <1>5
  <2>4. QED
    BY <1>2, <1>5, <2>1, <2>2, <2>3 DEF OpenDir
<1>11. OpenDir(damage, work, h, {})
  <2>1. DOMAIN h.made = {} /\ h.made = [x \in DOMAIN h.made |-> h.made[x]]
    BY <1>6
  <2>2. KeptIn(work, h) \ (h.todo \cup {}) = {}
    BY <1>6 DEF KeptIn, Kept
  <2>3. QED
    BY <1>1, <1>6, <2>1, <2>2, EntryFacts DEF OpenDir
<1>12. Below(damage, work, f, h)
  BY <1>1, <1>5, <1>6, <1>9 DEF Below, Path, Child, KeptIn, UnlistedIn, Unlisted, Missing, Lost, Repairing
<1>13. ASSUME NEW i \in 1..(n + 1)
       PROVE  /\ OpenDir(damage, work', s2[i], Away(work', i))
              /\ i < n + 1 => Below(damage, work', s2[i], s2[i + 1])
  <2>1. CASE i = n + 1
    <3>1. Away(work', i) = {}
      BY <1>4, <1>7, <1>8, <2>1 DEF Away
    <3>2. OpenDir(damage, work', h, {})
      BY <1>4, <1>11, SameSave
    <3>3. ~(i < n + 1) /\ s2[i] = h
      BY <1>7, <1>8, <2>1
    <3>4. QED
      BY <3>1, <3>2, <3>3
  <2>2. CASE i = n
    <3>1. Away(work', i) = {name} /\ s2[i] = f /\ s2[i + 1] = h
      BY <1>4, <1>7, <1>8, <1>9, <2>2 DEF Away
    <3>2. QED
      BY <1>4, <1>10, <1>12, <3>1, SameSave
  <2>3. CASE i < n
    <3>1. i \in 1..(n - 1) /\ i + 1 \in 1..n /\ i < Len(s2)
      BY <1>7, <1>8, <2>3
    <3>2. OpenDir(damage, work, s[i], Away(work, i)) /\ Below(damage, work, s[i], s[i + 1])
      BY <1>7, <2>3, <3>1 DEF WorkRight
    <3>3. s2[i] = s[i] /\ s2[i + 1].dir = s[i + 1].dir /\ s2[i + 1].path = s[i + 1].path
      <4>1. i + 1 = n \/ i + 1 \in 1..(n - 1)
        BY <1>7, <3>1
      <4>2. QED
        BY <1>5, <1>7, <1>8, <3>1, <4>1
    <3>4. Away(work', i) = Away(work, i)
      BY <1>4, <2>3, <3>1, <3>3 DEF Away
    <3>5. Below(damage, work, s2[i], s2[i + 1])
      BY <3>2, <3>3 DEF Below
    <3>6. QED
      BY <1>4, <3>2, <3>3, <3>4, <3>5, SameSave
  <2>4. QED
    BY <1>7, <2>1, <2>2, <2>3
<1>14. ASSUME work.mode = "repair"
       PROVE  Told(work'.notes) = ToTell(damage, work')
  <2>1. Told(work.notes) = ToTell(damage, work)
    BY <1>14 DEF WorkRight
  <2>2. FrameNotes(damage, work, f) = FrameNotes(damage, work, Top)
    <3>1. \A x : NotesAt(damage, work, f, x) = NotesAt(damage, work, Top, x)
      BY <1>5 DEF NotesAt, OutAt, LostAt
    <3>2. QED
      BY <1>5, <3>1 DEF FrameNotes
  <2>3. FrameNotes(damage, work, h) = {}
    BY <1>6 DEF FrameNotes
  <2> DEFINE N(i) == FrameNotes(damage, work, s[i])
             N2(i) == FrameNotes(damage, work', s2[i])
  <2>4. ToTell(damage, work) = UNION {N(i) : i \in 1..n}
    BY <1>7 DEF ToTell
  <2>5. ToTell(damage, work') = UNION {N2(i) : i \in 1..(n + 1)}
    BY <1>4, <1>8 DEF ToTell
  <2>6. \A g : FrameNotes(damage, work', g) = FrameNotes(damage, work, g)
    BY <1>4, SameSave
  <2>7. \A i \in 1..n : N2(i) = N(i)
    <3>1. \A m \in Nat : \A i \in 1..m : i = m \/ i \in 1..(m - 1)
      OBVIOUS
    <3>2. \A i \in 1..n : i = n \/ i \in 1..(n - 1)
      BY <1>7, <3>1
    <3>3. QED
      BY <1>7, <1>8, <2>2, <2>6, <3>2
  <2>8. N2(n + 1) = {}
    BY <1>8, <2>3, <2>6
  <2>9. 1..(n + 1) = (1..n) \cup {n + 1}
    <3>1. \A m \in Nat : 1..(m + 1) = (1..m) \cup {m + 1}
      OBVIOUS
    <3>2. QED
      BY <1>7, <3>1
  <2> HIDE DEF N, N2
  <2>10. UNION {N2(i) : i \in 1..(n + 1)} = UNION {N(i) : i \in 1..n}
    BY <2>7, <2>8, <2>9
  <2>11. QED
    BY <1>4, <2>1, <2>4, <2>5, <2>10
<1>15. s2[1].dir = work.root /\ s2[1].path = <<>>
  <2>1. s[1].dir = work.root /\ s[1].path = <<>>
    BY DEF WorkRight
  <2>2. 1 = n \/ 1 \in 1..(n - 1)
    <3>1. \A m \in Nat \ {0} : 1 = m \/ 1 \in 1..(m - 1)
      OBVIOUS
    <3>2. QED
      BY <1>7, <3>1
  <2>3. QED
    BY <1>5, <1>7, <1>8, <2>1, <2>2
<1>16. QED
  BY <1>4, <1>8, <1>13, <1>14, <1>15 DEF WorkRight

\* A directory is done: it is an entry of the one above, and remembered if
\* the next save would make the same of it.
LEMMA FinishDirStep ==
    ASSUME WorkRight(damage, work), work.excl = excludes, MapInv,
           work.mode \in {"rewrite", "repair"}, FinishDir
    PROVE  WorkRight(damage, work') /\ MapInv'
<1> DEFINE s == work.frames
           n == Len(s)
           k == n - 1
           up == s[k]
           name == Last(Top.path)
           new == Tree(Top.made)
           entry == Entry(new, FALSE)
           u == [up EXCEPT !.made = With(@, name, entry)]
           b == SubSeq(s, 1, n - 2)
           s2 == Append(b, u)
<1>1. /\ Top.todo = {} /\ n > 1 /\ work' = [work EXCEPT !.frames = s2]
      /\ dirMap' = IF MayRemember THEN With(dirMap, Top.dir, new) ELSE dirMap
      /\ UNCHANGED <<damage, fileMap, excludes>>
  BY DEF FinishDir
<1>2. s \in Seq(Range(s)) /\ s # <<>> /\ DOMAIN work = {"frames", "root", "mode", "id", "excl", "notes"}
  BY DEF WorkRight
<1>3. /\ work'.frames = s2 /\ work'.root = work.root /\ work'.mode = work.mode
      /\ work'.id = work.id /\ work'.excl = work.excl /\ work'.notes = work.notes
      /\ DOMAIN work' = {"frames", "root", "mode", "id", "excl", "notes"}
  BY <1>1, <1>2
<1>4. /\ n \in Nat /\ k \in Nat /\ k >= 1 /\ n = k + 1 /\ n - 2 = k - 1 /\ DOMAIN s = 1..n
      /\ k \in 1..n /\ n \in 1..n /\ k < n /\ Top = s[n]
  BY <1>1, <1>2 DEF Last, Top
<1>5. Away(work, k) = {name} /\ Away(work, n) = {}
  BY <1>4 DEF Away
<1>6. /\ OpenDir(damage, work, up, {name}) /\ OpenDir(damage, work, Top, {})
      /\ Below(damage, work, up, Top)
  <2>1. /\ OpenDir(damage, work, s[k], Away(work, k)) /\ OpenDir(damage, work, s[n], Away(work, n))
        /\ Below(damage, work, s[k], s[k + 1])
    BY <1>4 DEF WorkRight
  <2>2. QED
    BY <1>4, <1>5, <2>1
<1>7. /\ DOMAIN u = {"dir", "path", "todo", "made"} /\ u.dir = up.dir /\ u.path = up.path
      /\ u.todo = up.todo /\ u.made = With(up.made, name, entry)
  BY <1>6 DEF OpenDir
<1> HIDE DEF u, entry
<1>8. /\ b \in Seq(Range(s)) /\ Len(b) = k - 1 /\ \A i \in 1..(k - 1) : b[i] = s[i]
  <2>1. 1..(n - 2) \subseteq DOMAIN s
    BY <1>4
  <2>2. \A m \in Nat : m >= 1 => 1..(m - 1) \subseteq 1..(m + 1) /\ m - 1 \in Nat
    OBVIOUS
  <2>3. k - 1 \in Nat /\ 1..(k - 1) \subseteq 1..n
    BY <1>4, <2>2
  <2>4. b = SubSeq(s, 1, k - 1)
    BY <1>4
  <2> HIDE DEF b, n, k
  <2>5. QED
    BY <1>2, <1>4, <2>3, <2>4, SubSeqProperties
<1> HIDE DEF b
<1>9. /\ s2 \in Seq(Range(s2)) /\ s2 # <<>> /\ Len(s2) = k /\ DOMAIN s2 = 1..k
      /\ \A i \in 1..(k - 1) : s2[i] = s[i]
      /\ s2[k] = u
  <2> DEFINE S == Range(s) \cup {u}
  <2>1. b \in Seq(S) /\ u \in S
    BY <1>8
  <2> HIDE DEF S
  <2>2. /\ s2 \in Seq(S) /\ Len(s2) = Len(b) + 1
        /\ \A i \in 1..Len(b) : s2[i] = b[i]
        /\ s2[Len(b) + 1] = u
    BY <2>1, AppendProperties
  <2>3. Len(b) + 1 = k
    BY <1>4, <1>8
  <2> HIDE DEF s2, k
  <2>4. DOMAIN s2 = 1..k /\ k # 0
    BY <1>4, <2>2, <2>3
  <2>5. s2 \in Seq(Range(s2)) /\ s2 # <<>>
    BY <2>2, <2>3, <2>4, SeqOfRange
  <2>6. QED
    BY <1>8, <2>2, <2>3, <2>4, <2>5
<1> HIDE DEF s2
<1>10. /\ Outcome(damage, work.id, work.excl)[Top.dir][Top.path].obj = new
       /\ Outcome(damage, work.id, work.excl)[Top.dir][Top.path].notes = FrameNotes(damage, work, Top)
       /\ Remembers(work) => Always(damage, Top.dir, new)
  BY <1>1, <1>6, WholeDir DEF Below
<1>11. /\ name \in KeptIn(work, up) \ up.todo
       /\ Top.dir = Entries[up.dir][name] /\ Top.path = Append(up.path, name)
       /\ Top.dir \in Dirs
  BY <1>6 DEF Below, OpenDir
<1> HIDE DEF name, new
<1>12. /\ OutAt(damage, work, up, name).obj = new
       /\ OutAt(damage, work, up, name).notes = FrameNotes(damage, work, Top)
       /\ LostAt(damage, up, name) = FALSE
  BY <1>10, <1>11 DEF OutAt, LostAt
<1>13. /\ MadeRight(damage, work, up, name, entry)
       /\ NotesAt(damage, work, up, name) = FrameNotes(damage, work, Top)
  <2>1. entry = Entry(OutAt(damage, work, up, name).obj,
                      LostAt(damage, up, name) /\ ~ReplacedIn(damage, Entries[up.dir][name]))
    <3>1. (LostAt(damage, up, name) /\ ~ReplacedIn(damage, Entries[up.dir][name])) = FALSE
      BY <1>12
    <3>2. QED
      BY <1>12, <3>1 DEF entry
  <2>2. entry.obj = new
    BY DEF entry, Entry
  <2>3. QED
    BY <1>10, <1>11, <1>12, <2>1, <2>2 DEF MadeRight, NotesAt
<1>14. /\ OpenDir(damage, work, u, {})
       /\ FrameNotes(damage, work, u) = FrameNotes(damage, work, up) \cup FrameNotes(damage, work, Top)
  <2>1. u.todo = up.todo \ {name} /\ name \in up.todo \cup {name} /\ name \in KeptIn(work, up)
    BY <1>7, <1>11
  <2> HIDE DEF up
  <2>2. QED
    BY <1>6, <1>7, <1>13, <2>1, MadeOne
<1>15. \A i \in 1..k : s2[i].dir = s[i].dir /\ s2[i].path = s[i].path
  <2>1. \A i \in 1..k : i = k \/ i \in 1..(k - 1)
    BY <1>4
  <2>2. QED
    BY <1>7, <1>9, <2>1
<1>16. ASSUME NEW i \in 1..k
       PROVE  /\ OpenDir(damage, work', s2[i], Away(work', i))
              /\ i < k => Below(damage, work', s2[i], s2[i + 1])
  <2>1. CASE i = k
    <3>1. Away(work', i) = {}
      BY <1>3, <1>4, <1>9, <2>1 DEF Away
    <3>2. OpenDir(damage, work', u, {})
      BY <1>3, <1>14, SameSave
    <3>3. ~(i < k) /\ s2[i] = u
      BY <1>4, <1>9, <2>1
    <3>4. QED
      BY <3>1, <3>2, <3>3
  <2>2. CASE i # k
    <3>1. i \in 1..(k - 1) /\ i + 1 \in 1..k /\ i < k /\ i < n /\ i \in 1..n
      BY <1>4, <2>2
    <3>2. OpenDir(damage, work, s[i], Away(work, i)) /\ Below(damage, work, s[i], s[i + 1])
      BY <1>4, <3>1 DEF WorkRight
    <3>3. s2[i] = s[i] /\ s2[i + 1].dir = s[i + 1].dir /\ s2[i + 1].path = s[i + 1].path
      BY <1>9, <1>15, <3>1
    <3>4. Away(work', i) = Away(work, i)
      BY <1>3, <1>9, <3>1, <3>3 DEF Away
    <3>5. Below(damage, work, s2[i], s2[i + 1])
      BY <3>2, <3>3 DEF Below
    <3>6. QED
      BY <1>3, <3>2, <3>3, <3>4, <3>5, SameSave
  <2>3. QED
    BY <2>1, <2>2
<1>17. ASSUME work.mode = "repair"
       PROVE  Told(work'.notes) = ToTell(damage, work')
  <2>1. Told(work.notes) = ToTell(damage, work)
    BY <1>17 DEF WorkRight
  <2> DEFINE N(i) == FrameNotes(damage, work, s[i])
             N2(i) == FrameNotes(damage, work', s2[i])
  <2>2. ToTell(damage, work) = UNION {N(i) : i \in 1..n}
    BY <1>4 DEF ToTell
  <2>3. ToTell(damage, work') = UNION {N2(i) : i \in 1..k}
    BY <1>3, <1>9 DEF ToTell
  <2>4. \A g : FrameNotes(damage, work', g) = FrameNotes(damage, work, g)
    BY <1>3, SameSave
  <2>5. \A i \in 1..k : i # k => N2(i) = N(i)
    <3>1. \A i \in 1..k : i = k \/ i \in 1..(k - 1)
      BY <1>4
    <3>2. QED
      BY <1>9, <2>4, <3>1
  <2>6. N2(k) = N(k) \cup N(n)
    BY <1>4, <1>9, <1>14, <2>4
  <2>7. 1..n = (1..k) \cup {n} /\ k \in 1..k
    <3>1. \A m \in Nat : m >= 1 => 1..(m + 1) = (1..m) \cup {m + 1} /\ m \in 1..m
      OBVIOUS
    <3>2. QED
      BY <1>4, <3>1
  <2> HIDE DEF N, N2, n, k
  <2>8. UNION {N2(i) : i \in 1..k} = UNION {N(i) : i \in 1..n}
    BY <2>5, <2>6, <2>7
  <2>9. QED
    BY <1>3, <2>1, <2>2, <2>3, <2>8
<1>18. s2[1].dir = work.root /\ s2[1].path = <<>>
  <2>1. 1 \in 1..k
    BY <1>4
  <2>2. QED
    BY <1>15, <2>1 DEF WorkRight
<1>19. WorkRight(damage, work')
  BY <1>3, <1>9, <1>16, <1>17, <1>18 DEF WorkRight
<1>20. MapInv'
  <2>1. CASE MayRemember
    <3>1. Remembers(work) /\ work.excl = {}
      BY <2>1 DEF MayRemember, Remembers, Repairing
    <3>2. dirMap' = With(dirMap, Top.dir, new) /\ Always(damage, Top.dir, new)
      BY <1>1, <1>10, <2>1, <3>1
    <3>3. /\ DOMAIN dirMap' = DOMAIN dirMap \cup {Top.dir}
          /\ \A x \in DOMAIN dirMap' : dirMap'[x] = IF x = Top.dir THEN new ELSE dirMap[x]
      BY <3>2 DEF With
    <3>4. excludes' = {}
      BY <1>1, <3>1
    <3>5. \A x \in DOMAIN dirMap' : Always(damage, x, dirMap'[x])
      BY <3>2, <3>3 DEF MapInv
    <3>6. QED
      BY <1>1, <3>4, <3>5 DEF MapInv, Missing
  <2>2. CASE ~MayRemember
    BY <1>1, <2>2 DEF MapInv, Missing
  <2>3. QED
    BY <2>1, <2>2
<1>21. QED
  BY <1>19, <1>20

\* A step of a rewriting keeps it right, and what is remembered.
LEMMA RewriteStepConverts ==
    ASSUME WorkRight(damage, work), work.excl = excludes, MapInv,
           work.mode \in {"rewrite", "repair"}, RewriteStep
    PROVE  WorkRight(damage', work') /\ work'.excl = excludes' /\ MapInv' /\ work'.mode = work.mode
           /\ damage' = damage
<1>1. work'.mode = work.mode /\ work'.excl = work.excl
  <2>1. "mode" \in DOMAIN work /\ "excl" \in DOMAIN work
    BY DEF WorkRight
  <2>2. QED
    BY <2>1, RewriteStepKeeps
<1>2. CASE FinishDir
  <2>1. damage' = damage /\ excludes' = excludes
    BY <1>2 DEF FinishDir
  <2>2. QED
    BY <1>1, <1>2, <2>1, FinishDirStep
<1>3. CASE ~FinishDir
  <2>1. PICK name \in Top.todo :
            \/ Exclude(name) \/ ReuseDir(name) \/ ReplaceDir(name) \/ EnterDir(name)
            \/ RewriteSpecial(name) \/ RewriteFile(name) \/ ReplaceFile(name)
            \/ RewriteLink(name) \/ ReplaceLink(name)
    BY <1>3 DEF RewriteStep
  <2>2. WorkRight(damage, work')
    BY <2>1, ExcludeStep, ReuseDirStep, ReplacedSteps, EnterDirStep, RewrittenSteps
  <2>3. /\ damage' = damage /\ dirMap' = dirMap /\ excludes' = excludes
        /\ fileMap' = fileMap \/ (RewriteFile(name) /\ fileMap' = fileMap \cup {Child(name)})
    <3>1. RewriteFile(name) \/ UNCHANGED <<damage, mapping>>
      BY <2>1 DEF Exclude, ReuseDir, ReplaceDir, EnterDir, RewriteSpecial, ReplaceFile,
         RewriteLink, ReplaceLink
    <3>2. CASE RewriteFile(name)
      BY <3>2 DEF RewriteFile
    <3>3. CASE UNCHANGED <<damage, mapping>>
      BY <3>3 DEF mapping
    <3>4. QED
      BY <3>1, <3>2, <3>3
  <2>4. fileMap' \cap Missing = {}
    <3>1. RewriteFile(name) => MayRead(Child(name))
      BY DEF RewriteFile
    <3>2. QED
      BY <2>3, <3>1 DEF MapInv, MayRead
  <2>5. MapInv'
    BY <2>3, <2>4 DEF MapInv, Missing
  <2>6. QED
    BY <1>1, <2>2, <2>3, <2>5
<1>4. QED
  BY <1>2, <1>3

\* A new rewriting.
LEMMA BeginSaveStep ==
    ASSUME MapInv, NEW root \in Dirs, NEW mode, NEW id, NEW excl, BeginSave(root, mode, id, excl)
    PROVE  /\ WorkRight(damage', work') /\ work'.excl = excludes' /\ MapInv' /\ work'.mode = mode
           /\ damage' = damage
<1> DEFINE f == Frame(root, <<>>)
           w == [frames |-> <<f>>, root |-> root, mode |-> mode,
                 id |-> id, excl |-> excl, notes |-> {}]
<1>1. /\ work' = w /\ damage' = damage /\ fileMap' = fileMap /\ excludes' = excl
      /\ dirMap' = IF excludes = excl THEN dirMap ELSE <<>>
  BY DEF BeginSave
<1>2. /\ DOMAIN f = {"dir", "path", "todo", "made"} /\ f.dir = root /\ f.path = <<>>
      /\ f.todo = DOMAIN Entries[root] /\ f.made = <<>>
  BY DEF Frame
<1> HIDE DEF f
<1>3. /\ DOMAIN w = {"frames", "root", "mode", "id", "excl", "notes"}
      /\ w.frames = <<f>> /\ w.root = root /\ w.mode = mode /\ w.excl = excl /\ w.notes = {}
  OBVIOUS
<1> HIDE DEF w
<1>4. /\ w.frames \in Seq(Range(w.frames)) /\ w.frames # <<>>
      /\ Len(w.frames) = 1 /\ DOMAIN w.frames = {1} /\ w.frames[1] = f
  <2>1. <<f>> \in Seq({f}) /\ <<f>> # <<>> /\ Len(<<f>>) = 1 /\ DOMAIN <<f>> = {1} /\ <<f>>[1] = f
    OBVIOUS
  <2>2. QED
    BY <1>3, <2>1, SeqOfRange
<1>5. OpenDir(damage, w, f, {})
  <2>1. DOMAIN f.made = {} /\ f.made = [x \in DOMAIN f.made |-> f.made[x]]
    BY <1>2
  <2>2. KeptIn(w, f) \ (f.todo \cup {}) = {}
    BY <1>2 DEF KeptIn, Kept
  <2>3. <<>> \in Seq(Names)
    BY EmptySeq
  <2>4. QED
    BY <1>2, <2>1, <2>2, <2>3 DEF OpenDir
<1>6. Away(w, 1) = {}
  BY <1>4 DEF Away
<1>7. Told(w.notes) = ToTell(damage, w)
  <2>1. FrameNotes(damage, w, f) = {}
    BY <1>2 DEF FrameNotes
  <2>2. QED
    BY <1>3, <1>4, <2>1 DEF ToTell, Told
<1>8. WorkRight(damage, w)
  <2>1. \A i \in DOMAIN w.frames :
          OpenDir(damage, w, w.frames[i], Away(w, i)) /\ ~(i < Len(w.frames))
    <3>1. OpenDir(damage, w, w.frames[1], Away(w, 1))
      BY <1>4, <1>5, <1>6
    <3>2. \A i \in DOMAIN w.frames : i = 1
      BY <1>4
    <3>3. ~(1 < Len(w.frames))
      BY <1>4
    <3>4. QED
      BY <3>1, <3>2, <3>3
  <2>2. w.frames[1].dir = w.root /\ w.frames[1].path = <<>>
    BY <1>2, <1>3, <1>4
  <2>3. DOMAIN w = {"frames", "root", "mode", "id", "excl", "notes"}
    BY <1>3
  <2>4. QED
    BY <1>4, <1>7, <2>1, <2>2, <2>3 DEF WorkRight
<1>9. MapInv'
  BY <1>1 DEF MapInv, Missing
<1>10. QED
  BY <1>1, <1>3, <1>8, <1>9

\* The save that is rewritten.
LEMMA NewSaveRight ==
    ASSUME WorkRight(damage, work), work.mode \in {"rewrite", "repair"},
           SaveRewritten, ~Unlisted(work.root)
    PROVE  SaveRight(damage, NewSave)
<1> DEFINE s == work.frames
           out == Outcome(damage, work.id, work.excl)[work.root][<<>>]
<1>1. Len(s) = 1 /\ Top.todo = {} /\ s \in Seq(Range(s))
  BY DEF SaveRewritten, WorkRight
<1>2. DOMAIN s = {1} /\ Top = s[1]
  BY <1>1 DEF Last, Top
<1>3. Top.dir = work.root /\ Top.path = <<>>
  BY <1>2 DEF WorkRight
<1>4. OpenDir(damage, work, Top, {})
  BY TopIsOpen DEF Top
<1>5. ~UnlistedIn(damage, work, Top.dir)
  BY <1>3 DEF UnlistedIn, Unlisted, Missing, Lost, Repairing
<1>6. out.obj = Tree(Top.made) /\ out.notes = FrameNotes(damage, work, Top)
  BY <1>1, <1>3, <1>4, <1>5, WholeDir
<1>7. ToTell(damage, work) = FrameNotes(damage, work, Top)
  BY <1>2 DEF ToTell
<1>8. work.mode = "repair" => Told(work.notes) = out.notes
  BY <1>6, <1>7 DEF WorkRight
<1> HIDE DEF out
<1>9. /\ NewSave.from = work.root /\ NewSave.mode = work.mode /\ NewSave.id = work.id
      /\ NewSave.excl = work.excl /\ NewSave.tree = Tree(Top.made) /\ NewSave.notes = work.notes
  BY DEF NewSave
<1>10. QED
  BY <1>6, <1>8, <1>9 DEF SaveRight, out

-----------------------------------------------------------------------------
(***************************************************************************)
(* What the steps of the command do to conversions and saves               *)
(***************************************************************************)

\* A save appended to a history that is there.
LEMMA AppendedRight ==
    ASSUME NodesAreNoCommits, SavesInv, NEW c, c = <<>> \/ (IsHistory(c) /\ c \in have),
           NEW save, SaveRight(damage, save)
    PROVE  AllRight(damage, Append(c, save))
<1> DEFINE S == Range(c) \cup {save}
           d == Append(c, save)
<1>1. c \in Seq(Range(c))
  <2>1. CASE c = <<>>
    BY <2>1, EmptySeq
  <2>2. QED
    BY <2>1 DEF IsHistory
<1>2. c \in Seq(S) /\ save \in S
  BY <1>1
<1> HIDE DEF S
<1>3. AllRight(damage, c)
  <2>1. CASE c = <<>>
    BY <2>1 DEF AllRight
  <2>2. CASE IsHistory(c) /\ c \in have
    BY <2>2 DEF SavesInv, NodesAreNoCommits, IsHistory
  <2>3. QED
    BY <2>1, <2>2
<1>4. /\ Len(c) \in Nat /\ DOMAIN d = 1..(Len(c) + 1) /\ DOMAIN c = 1..Len(c)
      /\ \A i \in 1..Len(c) : d[i] = c[i]
      /\ d[Len(c) + 1] = save
  BY <1>2
<1> HIDE DEF d
<1>5. ASSUME NEW i \in DOMAIN d
      PROVE  SaveRight(damage, d[i])
  <2>1. i \in 1..Len(c) \/ i = Len(c) + 1
    BY <1>4
  <2>2. CASE i \in 1..Len(c)
    BY <1>3, <1>4, <2>2 DEF AllRight
  <2>3. CASE i = Len(c) + 1
    BY <1>4, <2>3
  <2>4. QED
    BY <2>1, <2>2, <2>3
<1>6. QED
  BY <1>5 DEF AllRight, d

\* The source's saves were not rewritten.
LEMMA SourceRight ==
    ASSUME NodesAreNoCommits, NEW k \in DOMAIN SrcSaves
    PROVE  /\ \A i \in DOMAIN SrcCommit(k) : SrcCommit(k)[i].mode = "copy"
           /\ \A stop, d : \A x \in Walk(SrcCommit(k), stop) : x \notin Node => AllRight(d, x)
<1> DEFINE c == SrcCommit(k)
<1>1. IsHistory(c)
  BY SourceIsObject
<1>2. c \notin Node
  BY <1>1 DEF IsHistory, NodesAreNoCommits
<1>3. /\ k \in Nat \ {0} /\ c \in Seq(Range(c)) /\ Len(c) = k /\ DOMAIN c = 1..k
      /\ \A i \in 1..k : c[i] = Original(SrcSaves[i])
  <2>1. k \in Nat \ {0} /\ c = [i \in 1..k |-> Original(SrcSaves[i])]
    BY GetParameters DEF SrcCommit
  <2> HIDE DEF c
  <2>2. c \in Seq(Range(c))
    BY <1>1 DEF IsHistory
  <2>3. DOMAIN c = 1..k /\ DOMAIN c = 1..Len(c) /\ Len(c) \in Nat
    BY <2>1, <2>2
  <2>4. QED
    BY <2>1, <2>2, <2>3
<1> HIDE DEF c
<1>4. \A i \in 1..k : c[i].mode = "copy"
  BY <1>3 DEF Original
<1>5. ASSUME NEW stop, NEW d, NEW x \in Walk(c, stop), x \notin Node
      PROVE  AllRight(d, x)
  <2>1. c \notin stop
    BY <1>5 DEF Walk
  <2>2. Walk(c, stop) \subseteq Around(c)
    BY <1>1, <2>1, AroundIsWhole, WalkIsLeast DEF IsObject
  <2>3. PICK j \in 1..k : x = SubSeq(c, 1, j)
    BY <1>2, <1>3, <1>5, <2>2 DEF Around
  <2>4. DOMAIN x = 1..j /\ \A i \in 1..j : x[i] = c[i] /\ i \in 1..k
    BY <1>3, <2>3
  <2>5. \A i \in DOMAIN x : x[i].mode = "copy"
    BY <1>4, <2>4
  <2>6. QED
    BY <2>5 DEF AllRight, SaveRight
<1>6. QED
  BY <1>3, <1>4, <1>5 DEF c

\* Appends of a target that is rewritten: saves of directories.
LEMMA AppendsAreDirs ==
    ASSUME NEW at, at.spec \in Specs, Suits(at.spec), Picking(at.spec), at.spec.mode # "copy"
    PROVE  Appends(at) \in Seq({Original(n) : n \in Dirs})
<1> DEFINE spec == at.spec
           S == {Original(n) : n \in Dirs}
           k == spec.src
           c == SrcCommit(k)
<1>1. spec.src \in Node \cup DOMAIN SrcSaves /\ Node \cap Nat = {}
  BY GetParameters
<1>2. DOMAIN SrcSaves = 1..Len(SrcSaves) /\ Len(SrcSaves) \in Nat
  BY GetParameters
<1>3. k \notin Node /\ k \in 1..Len(SrcSaves)
  BY <1>1, <1>2 DEF Suits, Picking
<1>4. Source(spec) = c
  BY <1>2, <1>3 DEF Source
<1>5. \A i \in 1..k : SrcSaves[i] \in Dirs
  BY <1>2, <1>3, GetParameters
<1>6. c \in [1..k -> S]
  BY <1>5 DEF SrcCommit
<1> HIDE DEF c, S
<1>7. c \in Seq(S) /\ Len(c) = k /\ c[k] \in S
  BY <1>2, <1>3, <1>6
<1>8. CASE spec.method = "append"
  <2>1. Appends(at) = c
    BY <1>3, <1>4, <1>8 DEF Appends
  <2>2. QED
    BY <1>7, <2>1 DEF S
<1>9. CASE spec.method # "append"
  <2>1. Appends(at) = <<c[k]>>
    BY <1>4, <1>7, <1>9 DEF Appends, Last, Picking
  <2>2. <<c[k]>> \in Seq(S)
    BY <1>7
  <2>3. QED
    BY <2>1, <2>2 DEF S
<1>10. QED
  BY <1>8, <1>9

\* Parts of the invariant that a step does not touch.
LEMMA MapStays ==
    ASSUME MapInv, FramesInv, UNCHANGED <<damage, mapping, work>>
    PROVE  MapInv' /\ FramesInv'
BY DEF mapping, MapInv, FramesInv, Busy, Missing

LEMMA SavesStay ==
    ASSUME SavesInv, UNCHANGED <<damage, have>>
    PROVE  SavesInv'
BY DEF SavesInv

LEMMA SavesGrow ==
    ASSUME SavesInv, damage' = damage, NEW x, have' = have \cup {x},
           x \notin Node => AllRight(damage, x)
    PROVE  SavesInv'
BY DEF SavesInv

LEMMA TipStays ==
    ASSUME TipInv, UNCHANGED <<work, pc, todo, tip, targets>>
    PROVE  TipInv'
BY DEF TipInv, Spec0, Target, Busy

\* The command ends, or goes on to another target.
LEMMA TipGone ==
    ASSUME TipInv, pc' \notin {"append", "copy"}, tip' = None, work' = work \/ work' = NoWork
    PROVE  TipInv'
BY DEF TipInv, Busy

LEMMA InitConverts ==
    ASSUME NodesAreNoCommits, Init
    PROVE  ConvertInv
<1>1. /\ damage \in Damages /\ dirMap = <<>> /\ fileMap = {} /\ excludes = {} /\ work = NoWork
      /\ refs \in [Refs -> {None} \cup {SrcCommit(k) : k \in DOMAIN SrcSaves}]
      /\ have = UNION {Whole(refs[r]) : r \in {q \in Refs : refs[q] # None}}
      /\ pc = "idle" /\ tip = None
  BY DEF Init
<1>2. MapInv /\ FramesInv /\ TipInv
  BY <1>1 DEF MapInv, FramesInv, TipInv, Busy
<1>3. ASSUME NEW x \in have, x \notin Node
      PROVE  AllRight(damage, x)
  <2>1. PICK r \in Refs : refs[r] # None /\ x \in Whole(refs[r])
    BY <1>1
  <2>2. PICK k \in DOMAIN SrcSaves : refs[r] = SrcCommit(k)
    BY <1>1, <2>1
  <2>3. x \in Walk(SrcCommit(k), {})
    BY <2>1, <2>2 DEF Whole
  <2>4. QED
    BY <1>3, <2>3, SourceRight
<1>4. SavesInv
  BY <1>3 DEF SavesInv
<1>5. QED
  BY <1>2, <1>4 DEF ConvertInv

LEMMA ResolveTargetsConverts ==
    ASSUME GetInv, ConvertInv, ResolveTargets
    PROVE  ConvertInv'
<1>1. /\ pc = "idle" /\ pc' = "next" /\ dirMap' = <<>> /\ fileMap' = {} /\ excludes' = {}
      /\ UNCHANGED <<damage, work, have, tip>>
  BY DEF ResolveTargets
<1>2. ~Busy /\ tip = None
  BY <1>1 DEF GetInv, WorkInv, ConvertInv, TipInv
<1>3. MapInv' /\ FramesInv'
  BY <1>1, <1>2 DEF ConvertInv, MapInv, FramesInv, Busy
<1>4. SavesInv' /\ TipInv'
  BY <1>1, <1>2, SavesStay, TipGone DEF ConvertInv
<1>5. QED
  BY <1>3, <1>4 DEF ConvertInv

LEMMA BeginConverts ==
    ASSUME GetInv, ConvertInv, Begin
    PROVE  ConvertInv'
<1>1. UNCHANGED <<damage, mapping, work, have, targets>> /\ targets # <<>>
  BY DEF Begin
<1>2. MapInv' /\ FramesInv' /\ SavesInv'
  BY <1>1, MapStays, SavesStay DEF ConvertInv
<1>3. Spec0' = Spec0
  BY <1>1 DEF Spec0, Target
<1>4. Spec0 \in Specs /\ Suits(Spec0)
  BY <1>1, FirstTarget DEF GetInv
<1>5. pc' \in {"append", "copy"} /\ (pc' = "append" => Picking(Spec0) /\ todo' = Appends(Target))
  BY DEF Begin, Picking
<1>6. pc' = "append" /\ Spec0.mode # "copy" => todo' \in Seq({Original(n) : n \in Dirs})
  BY <1>4, <1>5, AppendsAreDirs DEF Spec0
<1>7. TipInv'
  BY <1>1, <1>3, <1>5, <1>6 DEF ConvertInv, TipInv, Busy
<1>8. QED
  BY <1>2, <1>7 DEF ConvertInv

\* The command dies.
LEMMA DieConverts ==
    ASSUME ConvertInv, Die, UNCHANGED <<damage, mapping, have>>, work' = work \/ work' = NoWork
    PROVE  ConvertInv'
<1>1. pc' = "idle" /\ tip' = None
  BY DEF Die
<1>2. MapInv' /\ FramesInv'
  <2>1. CASE work' = work
    BY <2>1, MapStays DEF ConvertInv
  <2>2. CASE work' = NoWork
    BY <2>2 DEF ConvertInv, MapInv, FramesInv, Busy, mapping, Missing
  <2>3. QED
    BY <2>1, <2>2
<1>3. SavesInv' /\ TipInv'
  BY <1>1, SavesStay, TipGone DEF ConvertInv
<1>4. QED
  BY <1>2, <1>3 DEF ConvertInv

LEMMA CopyObjectConverts ==
    ASSUME NodesAreNoCommits, GetInv, ConvertInv, CopyObject
    PROVE  ConvertInv'
<1>1. /\ Copying /\ targets # <<>>
      /\ UNCHANGED <<damage, mapping, work, pc, todo, tip, targets>>
  BY DEF CopyObject, Copying, GetInv, TargetsInv
<1>2. PICK x \in Walk(CopyRoot, have) : have' = have \cup {x}
  BY DEF CopyObject
<1>3. ASSUME x \notin Node
      PROVE  AllRight(damage, x)
  <2>1. CASE CopyRoot \in Node
    <3>1. Around(CopyRoot) = Node /\ CopyRoot \notin have
      BY <1>2, <2>1 DEF Around, Walk
    <3>2. Walk(CopyRoot, have) \subseteq Around(CopyRoot)
      BY <2>1, <3>1, AroundIsWhole, WalkIsLeast DEF IsObject
    <3>3. QED
      BY <1>2, <1>3, <3>1, <3>2
  <2>2. CASE CopyRoot \notin Node
    <3>1. pc = "copy"
      <4>1. SUFFICES ASSUME pc = "append"
                    PROVE  FALSE
        BY <1>1 DEF Copying
      <4>2. todo \in Seq({Original(n) : n \in Node}) /\ todo # <<>>
        BY <1>1, <4>1 DEF GetInv, AppendInv, Copying
      <4>3. PICK n \in Node : Head(todo) = Original(n)
        BY <4>2
      <4>4. QED
        BY <2>2, <4>1, <4>3 DEF CopyRoot, Original
    <3>2. CopyRoot = Source(Spec0) /\ Spec0 \in Specs
      BY <1>1, <3>1, FirstTarget DEF GetInv, CopyInv, CopyRoot
    <3>3. Spec0.src \in DOMAIN SrcSaves /\ Source(Spec0) = SrcCommit(Spec0.src)
      BY <2>2, <3>2, GetParameters DEF Source
    <3>4. QED
      BY <1>2, <1>3, <3>2, <3>3, SourceRight
  <2>3. QED
    BY <2>1, <2>2
<1>4. QED
  BY <1>1, <1>2, <1>3, MapStays, SavesGrow, TipStays DEF ConvertInv

\* A save is appended, and what was under way is done.
LEMMA AppendConverts ==
    ASSUME NodesAreNoCommits, GetInv, ConvertInv, pc = "append", todo # <<>>,
           NEW save, SaveRight(damage, save),
           tip' = Append(tip, save), todo' = Tail(todo), have' = have \cup {tip'},
           UNCHANGED <<damage, mapping, pc, targets>>, work' = NoWork
    PROVE  ConvertInv'
<1>1. tip = <<>> \/ (IsHistory(tip) /\ tip \in have)
  BY DEF GetInv, AppendInv
<1>2. AllRight(damage, tip')
  BY <1>1, AppendedRight DEF ConvertInv
<1>3. SavesInv'
  <2> DEFINE x == tip'
  <2>1. AllRight(damage, x) /\ have' = have \cup {x}
    BY <1>2
  <2> HIDE DEF x
  <2>2. QED
    BY <2>1, SavesGrow DEF ConvertInv
<1>4. MapInv' /\ FramesInv'
  BY DEF ConvertInv, MapInv, FramesInv, Busy, mapping, Missing
<1>5. Spec0' = Spec0
  BY DEF Spec0, Target
<1>6. Spec0.mode # "copy" => todo' \in Seq({Original(n) : n \in Dirs})
  <2> DEFINE S == {Original(n) : n \in Dirs}
  <2>1. Spec0.mode # "copy" => todo \in Seq(S)
    BY DEF ConvertInv, TipInv
  <2> HIDE DEF S
  <2>2. Spec0.mode # "copy" => todo' \in Seq(S)
    BY <2>1
  <2>3. QED
    BY <2>2 DEF S
<1>7. TipInv'
  BY <1>5, <1>6 DEF TipInv, Busy
<1>8. QED
  BY <1>3, <1>4, <1>7 DEF ConvertInv

LEMMA AppendCopiedConverts ==
    ASSUME NodesAreNoCommits, GetInv, ConvertInv, AppendCopied
    PROVE  ConvertInv'
<1>1. /\ pc = "append" /\ Copying
      /\ tip' = Append(tip, Head(todo)) /\ todo' = Tail(todo) /\ have' = have \cup {tip'}
      /\ UNCHANGED <<damage, mapping, pc, targets, work>>
  BY DEF AppendCopied
<1>2. todo # <<>> /\ Spec0.mode = "copy"
  BY <1>1 DEF Copying
<1>3. work = NoWork
  BY <1>2 DEF GetInv, WorkInv, Busy
<1>4. PICK n \in Node : Head(todo) = Original(n)
  <2>1. todo \in Seq({Original(n) : n \in Node})
    BY <1>1 DEF GetInv, AppendInv
  <2>2. QED
    BY <1>2, <2>1
<1>5. SaveRight(damage, Head(todo))
  BY <1>4 DEF SaveRight, Original
<1>6. QED
  BY <1>1, <1>2, <1>3, <1>5, AppendConverts

LEMMA AppendRewrittenConverts ==
    ASSUME NodesAreNoCommits, GetInv, ConvertInv, AppendRewritten
    PROVE  ConvertInv'
<1>1. /\ SaveRewritten /\ ~Unlisted(work.root)
      /\ tip' = Append(tip, NewSave) /\ todo' = Tail(todo) /\ have' = have \cup {tip'}
      /\ work' = NoWork /\ UNCHANGED <<damage, mapping, pc, targets>>
  BY DEF AppendRewritten
<1>2. Busy /\ pc = "append" /\ todo # <<>>
  BY <1>1 DEF SaveRewritten, GetInv, WorkInv
<1>3. WorkRight(damage, work) /\ work.mode \in {"rewrite", "repair"}
  BY <1>2 DEF ConvertInv, FramesInv, TipInv
<1>4. SaveRight(damage, NewSave)
  BY <1>1, <1>3, NewSaveRight
<1> DEFINE save == NewSave
<1>5. SaveRight(damage, save) /\ tip' = Append(tip, save)
  BY <1>1, <1>4
<1> HIDE DEF save
<1>6. QED
  BY <1>1, <1>2, <1>5, AppendConverts

LEMMA BeginRewriteConverts ==
    ASSUME GetInv, ConvertInv, BeginRewrite
    PROVE  ConvertInv'
<1>1. /\ pc = "append" /\ todo # <<>> /\ Spec0.mode # "copy"
      /\ BeginSave(Head(todo).from, Spec0.mode, Spec0.id, Spec0.excl)
      /\ UNCHANGED <<have, pc, targets, todo, tip>>
  BY DEF BeginRewrite, getVars
<1>2. Head(todo).from \in Dirs
  <2>1. todo \in Seq({Original(n) : n \in Dirs})
    BY <1>1 DEF ConvertInv, TipInv
  <2>2. PICK n \in Dirs : Head(todo) = Original(n)
    BY <1>1, <2>1
  <2>3. QED
    BY <2>2 DEF Original
<1>3. Spec0.mode \in {"rewrite", "repair"}
  <2>1. targets # <<>>
    BY <1>1 DEF GetInv, TargetsInv
  <2>2. QED
    BY <1>1, <2>1, FirstTarget, GetParameters DEF GetInv
<1>4. /\ WorkRight(damage', work') /\ work'.excl = excludes' /\ MapInv'
      /\ work'.mode = Spec0.mode /\ damage' = damage
  BY <1>1, <1>2, BeginSaveStep DEF ConvertInv
<1>5. Spec0' = Spec0
  BY <1>1 DEF Spec0, Target
<1>6. TipInv'
  BY <1>1, <1>3, <1>4, <1>5 DEF ConvertInv, TipInv
<1>7. QED
  BY <1>1, <1>4, <1>6, SavesStay DEF ConvertInv, FramesInv

LEMMA RewritingConverts ==
    ASSUME ConvertInv, Rewriting
    PROVE  ConvertInv'
<1>1. RewriteStep /\ Busy /\ UNCHANGED <<have, pc, targets, todo, tip>>
  BY DEF Rewriting, RewriteStep, getVars
<1>2. WorkRight(damage, work) /\ work.excl = excludes /\ work.mode \in {"rewrite", "repair"}
  BY <1>1 DEF ConvertInv, FramesInv, TipInv
<1>3. /\ WorkRight(damage', work') /\ work'.excl = excludes' /\ MapInv'
      /\ work'.mode = work.mode /\ damage' = damage
  BY <1>1, <1>2, RewriteStepConverts DEF ConvertInv
<1>4. Spec0' = Spec0
  BY <1>1 DEF Spec0, Target
<1>5. TipInv'
  BY <1>1, <1>2, <1>3, <1>4 DEF ConvertInv, TipInv
<1>6. QED
  BY <1>1, <1>3, <1>5, SavesStay DEF ConvertInv, FramesInv

LEMMA OtherMovesConverts ==
    ASSUME NodesAreNoCommits, GetInv, ConvertInv, NEW r \in Branches, OtherMoves(r)
    PROVE  ConvertInv'
<1> DEFINE save == [Original(SrcSaves[1]) EXCEPT !.mode = "other"]
           old == IF refs[r] = None THEN <<>> ELSE refs[r]
           new == Append(old, save)
<1>1. RefsInv /\ r \in Refs
  BY DEF GetInv, Refs
<1>2. /\ refs' = [refs EXCEPT ![r] = new] /\ have' = have \cup {refs'[r]}
      /\ UNCHANGED <<damage, mapping, work, pc, targets, todo, tip>>
  BY DEF OtherMoves
<1>3. SaveRight(damage, save)
  BY DEF SaveRight, Original
<1>4. old = <<>> \/ (IsHistory(old) /\ old \in have)
  BY <1>1 DEF RefsInv
<1> HIDE DEF save
<1>5. AllRight(damage, new)
  BY <1>3, <1>4, AppendedRight DEF ConvertInv
<1> HIDE DEF new, old
<1>6. refs'[r] = new
  BY <1>1, <1>2 DEF RefsInv
<1>7. QED
  BY <1>2, <1>5, <1>6, MapStays, SavesGrow, TipStays DEF ConvertInv

LEMMA NextConverts ==
    ASSUME NodesAreNoCommits, GetInv, ConvertInv, [Next]_allVars
    PROVE  ConvertInv'
<1>1. CASE ResolveTargets
  BY <1>1, ResolveTargetsConverts
<1>2. CASE Begin
  BY <1>2, BeginConverts
<1>3. CASE RefuseFf
  BY <1>3, DieConverts DEF RefuseFf
<1>4. CASE CopyObject
  BY <1>4, CopyObjectConverts
<1>5. CASE CopyFails
  BY <1>5, DieConverts DEF CopyFails
<1>6. CASE AppendCopied
  BY <1>6, AppendCopiedConverts
<1>7. CASE BeginRewrite
  BY <1>7, BeginRewriteConverts
<1>8. CASE Rewriting
  BY <1>8, RewritingConverts
<1>9. CASE RewriteFails
  BY <1>9, DieConverts DEF RewriteFails
<1>10. CASE AppendRewritten
  BY <1>10, AppendRewrittenConverts
<1>11. CASE Handled
  <2>1. UNCHANGED <<damage, mapping, work, have>> /\ tip' = None /\ pc' \in {"next", "refs"}
    BY <1>11 DEF Handled
  <2>2. QED
    BY <2>1, MapStays, SavesStay, TipGone DEF ConvertInv
<1>12. CASE (\E r \in Refs : UpdateRef(r)) \/ UNCHANGED allVars
  <2>1. UNCHANGED <<damage, mapping, work, have, pc, targets, todo, tip>>
    BY <1>12 DEF UpdateRef, allVars, getVars
  <2>2. QED
    BY <2>1, MapStays, SavesStay, TipStays DEF ConvertInv
<1>13. CASE Finish
  <2>1. UNCHANGED <<damage, mapping, work, have, tip>> /\ pc = "refs" /\ pc' = "idle"
    BY <1>13 DEF Finish
  <2>2. tip' = None
    BY <2>1 DEF ConvertInv, TipInv
  <2>3. QED
    BY <2>1, <2>2, MapStays, SavesStay, TipGone DEF ConvertInv
<1>14. CASE \E r \in Branches : OtherMoves(r)
  BY <1>14, OtherMovesConverts
<1>15. QED
  BY <1>1, <1>2, <1>3, <1>4, <1>5, <1>6, <1>7, <1>8, <1>9, <1>10, <1>11, <1>12, <1>13,
     <1>14 DEF Next

-----------------------------------------------------------------------------
(***************************************************************************)
(* The theorems about conversions                                          *)
(***************************************************************************)

\* What a rewriting has made, what it remembers and what was appended are
\* what the conversion without any memory makes.
THEOREM ConvertAlways ==
    ASSUME NodesAreNoCommits
    PROVE  Spec => []ConvertInv
<1>1. Init => ConvertInv
  BY InitConverts
<1>2. GetInv /\ ConvertInv /\ [Next]_allVars => ConvertInv'
  BY NextConverts
<1>3. QED
  BY <1>1, <1>2, GetAlways, PTL DEF Spec

\* The saves bup get made are right.
LEMMA NewSavesRight ==
    ASSUME NodesAreNoCommits, GetInv, ConvertInv, NEW s \in NewSaves
    PROVE  SaveRight(damage, s) /\ s.mode \in {"rewrite", "repair"}
<1>1. s.mode \in {"rewrite", "repair"}
  BY DEF NewSaves
<1>2. PICK c : /\ c \in {refs[r] : r \in Refs} \cup {updated[r].new : r \in DOMAIN updated} \cup {tip}
               /\ IsCommit(c) /\ s \in Range(c)
  BY DEF NewSaves
<1>3. PICK i \in DOMAIN c : s = c[i]
  BY <1>2 DEF Range
<1>4. CASE c \in have
  <2>1. AllRight(damage, c)
    BY <1>2, <1>4 DEF ConvertInv, SavesInv, IsCommit
  <2>2. SaveRight(damage, c[i])
    BY <2>1 DEF AllRight
  <2>3. QED
    BY <1>1, <1>3, <2>2
<1>5. CASE c = tip /\ c \notin have
  <2>1. pc \in {"append", "copy"}
    BY <1>2, <1>5 DEF IsCommit, ConvertInv, TipInv
  <2>2. pc # "append"
    BY <1>3, <1>5 DEF GetInv, AppendInv
  <2>3. tip = Source(Spec0)
    BY <2>1, <2>2 DEF GetInv, CopyInv
  <2>4. Spec0 \in Specs
    BY <2>1, FirstTarget DEF GetInv, TargetsInv
  <2>5. Spec0.src \in DOMAIN SrcSaves /\ Source(Spec0) = SrcCommit(Spec0.src)
    BY <1>2, <1>5, <2>3, <2>4, GetParameters DEF Source, IsCommit
  <2>6. s.mode = "copy"
    BY <1>3, <1>5, <2>3, <2>5, SourceRight
  <2>7. QED
    BY <1>1, <2>6
<1>6. c \in have \/ c = tip
  BY <1>2 DEF GetInv, RefsInv, UpdatedInv, IsCommit
<1>7. QED
  BY <1>1, <1>4, <1>5, <1>6

\* Rewriter: what was remembered of a directory is only used where the walk
\* would make the same, whichever saves were rewritten before, with whichever
\* excludes and repair ids.
THEOREM SavesAreConvertedAlways ==
    ASSUME NodesAreNoCommits
    PROVE  Spec => []SavesAreConverted
<1>1. GetInv /\ ConvertInv => SavesAreConverted
  BY NewSavesRight DEF SavesAreConverted, SaveRight, Converted
<1>2. QED
  BY <1>1, GetAlways, ConvertAlways, PTL

\* repair.py: the trailers of a repaired save tell of every path where its
\* tree is not what the source says, and of no other.
THEOREM TrailersTellAlways ==
    ASSUME NodesAreNoCommits
    PROVE  Spec => []TrailersTell
<1>1. GetInv /\ ConvertInv => TrailersTell
  BY NewSavesRight DEF TrailersTell, SaveRight, Repairs, Told
<1>2. QED
  BY <1>1, GetAlways, ConvertAlways, PTL
=============================================================================
