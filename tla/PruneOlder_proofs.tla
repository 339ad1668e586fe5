--------------------------- MODULE PruneOlder_proofs ---------------------------
(***************************************************************************)
(* What prune-older keeps and what bup rm removes for it, for every branch *)
(* and every choice of periods.                                            *)
(***************************************************************************)
EXTENDS PruneOlder, FiniteSetTheorems, TLAPS

Types ==
    /\ dates \in Seq(Dates)
    /\ start \in [Periods -> Int]
    /\ listed \in Nat /\ listed <= Len(dates)
    /\ next \in 0..listed
    /\ range \in Periods \cup {"rest"}
    /\ region \in Int
    /\ kept \subseteq 1..listed /\ dropped \subseteq 1..listed
    /\ removed \subseteq Nat
    /\ phase \in {"classify", "rm", "done", "failed"}

\* Before rm every save of the listing is classified.
AllClassified == Classified => next = 0

\* The group that groupby is in: the save classified last belongs to it, and
\* the one that was kept for it.
Group == region # NoRegion =>
    /\ next < listed
    /\ range \in {"dailies", "monthlies", "yearlies"}
    /\ Region(range, dates[next + 1]) = region
    /\ \E j \in kept : j > next /\ Region(range, dates[j]) = region

\* The periods that have had their turn.
Passed ==
    CASE range = "all" -> {}
      [] range = "dailies" -> {"all"}
      [] range = "monthlies" -> {"all", "dailies"}
      [] range = "yearlies" -> {"all", "dailies", "monthlies"}
      [] range = "rest" -> Periods

\* On a branch whose dates do not go back, what is left is older than they
\* reach.
PassedAreOver == InOrder => \A p \in Passed, i \in 1..next : dates[i] < start[p]

Covered(i) ==
    \/ \A p \in Periods : dates[i] < start[p]
    \/ \E p \in Periods, j \in kept :
          /\ j > i
          /\ dates[i] >= start[p]
          /\ Region(p, dates[i]) = Region(p, dates[j])

\* What holds of the classified saves.
SoFar == InOrder =>
    /\ \A i \in dropped : Covered(i)
    /\ NoYearGap => \A p \in Periods \ {"all"}, i \in (next + 1)..listed :
                        IsNewestOfUnit(p, i) => i \in kept

PInv ==
    /\ Types /\ AllClassified /\ Group /\ PassedAreOver /\ SoFar
    /\ RemovesWhatWasListed

-----------------------------------------------------------------------------
(***************************************************************************)
(* Names                                                                   *)
(***************************************************************************)

\* The saves before another one that prints the same, among n of them.
Before(i, n) == {j \in Twins(i, n) : j < i}

\* Sets of saves are finite.
LEMMA SavesFinite ==
    ASSUME NEW n \in Nat, NEW S \in SUBSET (1..n)
    PROVE  IsFiniteSet(S) /\ Cardinality(S) \in Nat
<1>1. IsFiniteSet(1..n)
  BY FS_Interval
<1>2. QED
  BY <1>1, FS_Subset, FS_CardinalityType

\* Saves that come later number none of the earlier ones anew.
LEMMA BeforeStays ==
    ASSUME NEW n \in Nat, NEW m \in Nat, n <= m, NEW i \in 1..n
    PROVE  /\ i \in Twins(i, n) /\ i \in Twins(i, m)
           /\ Twins(i, n) \subseteq Twins(i, m)
           /\ Before(i, n) = Before(i, m)
  BY DEF Twins, Before

\* A date that is printed once has one save.
LEMMA Single ==
    ASSUME NEW n \in Nat, NEW i \in 1..n, Cardinality(Twins(i, n)) = 1
    PROVE  Twins(i, n) = {i}
<1>1. IsFiniteSet(Twins(i, n)) /\ i \in Twins(i, n)
  BY SavesFinite DEF Twins
<1>2. \E x : Twins(i, n) = {x}
  BY <1>1, FS_Singleton
<1>3. QED
  BY <1>1, <1>2

\* Of two saves that print the same the later one has the higher number.
LEMMA NumbersDiffer ==
    ASSUME NEW n \in Nat, NEW i \in 1..n, NEW k \in 1..n, Printed(i) = Printed(k), i < k
    PROVE  Cardinality(Before(i, n)) < Cardinality(Before(k, n))
<1>1. Twins(i, n) = Twins(k, n)
  BY DEF Twins
<1>2. Before(i, n) \cup {i} \subseteq Before(k, n) /\ i \notin Before(i, n)
  BY <1>1 DEF Before, Twins
<1>3. /\ Before(i, n) \in SUBSET (1..n)
      /\ Before(k, n) \in SUBSET (1..n)
  BY DEF Before, Twins
<1>4. /\ IsFiniteSet(Before(i, n)) /\ Cardinality(Before(i, n)) \in Nat
      /\ IsFiniteSet(Before(k, n)) /\ Cardinality(Before(k, n)) \in Nat
  BY <1>3, SavesFinite
<1>5. Cardinality(Before(i, n) \cup {i}) = Cardinality(Before(i, n)) + 1
  BY <1>2, <1>4, FS_AddElement
<1>6. Cardinality(Before(i, n) \cup {i}) <= Cardinality(Before(k, n))
  BY <1>2, <1>4, FS_Subset
<1>7. QED
  BY <1>4, <1>5, <1>6

\* Names tell the saves of a branch apart.
LEMMA NamesDiffer ==
    ASSUME NEW n \in Nat, NEW i \in 1..n, NEW k \in 1..n, SaveName(i, n) = SaveName(k, n)
    PROVE  i = k
<1>1. Printed(i) = Printed(k)
  BY DEF SaveName
<1>2. Twins(i, n) = Twins(k, n) /\ i \in Twins(i, n) /\ k \in Twins(k, n)
  BY <1>1 DEF Twins
<1>3. CASE Cardinality(Twins(i, n)) = 1
  BY <1>2, <1>3, Single
<1>4. CASE Cardinality(Twins(i, n)) # 1
  <2>1. Cardinality(Before(i, n)) = Cardinality(Before(k, n))
    BY <1>2, <1>4 DEF SaveName, Before
  <2>2. Cardinality(Before(i, n)) \in Nat
    BY SavesFinite DEF Before, Twins
  <2>3. ~(i < k) /\ ~(k < i)
    BY <1>1, <2>1, <2>2, NumbersDiffer
  <2>4. QED
    BY <2>3
<1>5. QED
  BY <1>3, <1>4

\* A save that was listed keeps its name as long as a save of that name is
\* there: when a second one that prints the same comes, the name without a number is
\* gone.
LEMMA NameStays ==
    ASSUME NEW n \in Nat, NEW m \in Nat, n <= m, NEW i \in 1..n, NEW k \in 1..m,
           SaveName(i, n) = SaveName(k, m)
    PROVE  SaveName(i, m) = SaveName(i, n)
<1>1. Printed(i) = Printed(k) /\ i \in 1..m
  BY DEF SaveName
<1>2. Twins(i, m) = Twins(k, m)
  BY <1>1 DEF Twins
<1>3. Before(i, n) = Before(i, m) /\ Twins(i, n) \subseteq Twins(i, m) /\ i \in Twins(i, n)
  BY BeforeStays
<1>4. Twins(i, n) \in SUBSET (1..n) /\ Twins(i, m) \in SUBSET (1..m)
  BY DEF Twins
<1>5. CASE Cardinality(Twins(i, n)) = 1
  <2>1. SaveName(k, m)[2] = -1
    BY <1>5 DEF SaveName
  <2>2. Cardinality(Before(k, m)) \in Nat
    BY SavesFinite DEF Before, Twins
  <2>3. Cardinality(Twins(k, m)) = 1
    BY <2>1, <2>2 DEF SaveName, Before
  <2>4. QED
    BY <1>2, <1>5, <2>3 DEF SaveName
<1>6. CASE Cardinality(Twins(i, n)) # 1
  <2>1. Cardinality(Twins(i, m)) # 1
    <3>1. ASSUME Cardinality(Twins(i, m)) = 1
          PROVE  FALSE
      <4>1. Twins(i, m) = {i}
        BY <1>1, <3>1, Single
      <4>2. Twins(i, n) = {i}
        BY <1>3, <4>1
      <4>3. QED
        BY <1>6, <4>2, FS_Singleton
    <3>2. QED
      BY <3>1
  <2>2. QED
    BY <1>3, <1>6, <2>1 DEF SaveName, Before
<1>7. QED
  BY <1>5, <1>6

\* bup rm finds the commits that were listed, or a name is gone.
LEMMA ResolvedAsListed ==
    ASSUME Types, NamesGone = {}
    PROVE  Resolved = dropped
<1> DEFINE m == Len(dates)
<1>1. m \in Nat /\ listed \in Nat /\ listed <= m /\ dropped \subseteq 1..listed
  BY DEF Types
<1>2. dropped \subseteq 1..m
  BY <1>1
<1>3. \A i \in dropped : \E k \in 1..m : SaveName(i, listed) = SaveName(k, m)
  BY DEF NamesGone, Removals
<1> HIDE DEF m
<1>4. ASSUME NEW i \in dropped
      PROVE  SaveName(i, m) = SaveName(i, listed)
  BY <1>1, <1>3, NameStays
<1>5. dropped \subseteq Resolved
  BY <1>2, <1>4 DEF Resolved, Removals, m
<1>6. ASSUME NEW k \in Resolved
      PROVE  k \in dropped
  <2>1. k \in 1..m /\ \E i \in dropped : SaveName(k, m) = SaveName(i, listed)
    BY DEF Resolved, Removals, m
  <2>2. PICK i \in dropped : SaveName(k, m) = SaveName(i, m)
    BY <1>4, <2>1
  <2>3. i = k
    BY <1>1, <1>2, <2>1, <2>2, NamesDiffer
  <2>4. QED
    BY <2>3
<1>7. QED
  BY <1>5, <1>6

-----------------------------------------------------------------------------
(***************************************************************************)
(* Types                                                                   *)
(***************************************************************************)

\* What groupby compares is a number, and none is NoRegion.
LEMMA RegionIs ==
    ASSUME NEW p \in Periods \cup {"rest"}, NEW d \in Dates
    PROVE  /\ Region(p, d) \in Int
           /\ p \in {"dailies", "monthlies", "yearlies"} => Region(p, d) # NoRegion
           /\ p \in {"all", "rest"} => Region(p, d) = NoRegion
  BY PruneParameters DEF Region, NoRegion, Periods

\* A history is a sequence of dates.
LEMMA HistoryIs ==
    ASSUME NEW h \in Histories
    PROVE  h \in Seq(Dates)
<1>1. PICK n \in 0..MaxSaves : h \in [1..n -> Dates]
  BY DEF Histories
<1>2. n \in Nat
  BY PruneParameters
<1>3. QED
  BY <1>1, <1>2

\* The state is well typed at first,
LEMMA TypesInit == Init => Types
<1> SUFFICES ASSUME Init
             PROVE  Types
  OBVIOUS
<1>1. dates \in Seq(Dates) /\ Len(dates) \in Nat
  BY HistoryIs DEF Init
<1>2. Starts \subseteq Int
  BY PruneParameters DEF Starts
<1>3. start \in [Periods -> Int]
  BY <1>2 DEF Init
<1>4. QED
  BY <1>1, <1>3, PruneParameters DEF Init, Types, Periods, NoRegion

\* and after every step.
LEMMA TypesStep == Types /\ [Next]_vars => Types'
<1> SUFFICES ASSUME Types, [Next]_vars
             PROVE  Types'
  OBVIOUS
<1> USE DEF Types
<1>1. next > 0 => dates[next] \in Dates /\ next \in 1..listed
  OBVIOUS
<1>2. CASE ClassifyOne
  <2>1. Region(range, dates[next]) \in Int
    BY <1>1, <1>2, RegionIs DEF ClassifyOne
  <2>2. next' \in 0..listed /\ UNCHANGED <<dates, start, listed, range, removed, phase>>
    BY <1>1, <1>2 DEF ClassifyOne
  <2>3. region' \in Int
    BY <1>2, <2>1 DEF ClassifyOne
  <2>4. kept' \subseteq 1..listed /\ dropped' \subseteq 1..listed
    BY <1>1, <1>2 DEF ClassifyOne, Keep, Drop
  <2>5. QED
    BY <2>2, <2>3, <2>4
<1>3. CASE NextRange
  <2>1. Then[range] \in Periods \cup {"rest"} /\ NoRegion \in Int
    BY <1>3, PruneParameters DEF NextRange, Then, Periods, NoRegion
  <2>2. QED
    BY <1>3, <2>1 DEF NextRange
<1>4. CASE DropRest
  BY <1>1, <1>4 DEF DropRest, Drop
<1>5. CASE ClassifyEnd \/ RmFails
  BY <1>5 DEF ClassifyEnd, RmFails
<1>6. CASE Rm
  BY <1>6 DEF Rm, Resolved
<1>7. ASSUME NEW d \in Dates, ConcurrentSave(d)
      PROVE  Types'
  <2>1. dates' \in Seq(Dates) /\ Len(dates') = Len(dates) + 1
    BY <1>7 DEF ConcurrentSave
  <2>2. QED
    BY <1>7, <2>1 DEF ConcurrentSave
<1>8. CASE UNCHANGED vars
  BY <1>8 DEF vars
<1>9. QED
  BY <1>2, <1>3, <1>4, <1>5, <1>6, <1>7, <1>8 DEF Next

-----------------------------------------------------------------------------
(***************************************************************************)
(* The listing                                                             *)
(***************************************************************************)

\* Whatever is saved meanwhile, the saves that were listed stay as they are,
\* and so does what the properties say of them.
LEMMA ListingStays ==
    ASSUME Types, [Next]_vars
    PROVE  /\ UNCHANGED <<start, listed>>
           /\ \A i \in 1..listed : dates'[i] = dates[i] /\ dates[i] \in Dates
  BY DEF Types, Next, vars, ClassifyOne, NextRange, DropRest, ClassifyEnd, Rm, RmFails,
         ConcurrentSave

\* Whether the branch is in order, has no gap of years, and which save is the
\* newest of its unit depends on the listing alone.
LEMMA OrderStays ==
    ASSUME Types, [Next]_vars
    PROVE  /\ InOrder' <=> InOrder
           /\ NoYearGap' <=> NoYearGap
           /\ \A p \in Periods, i \in 1..listed : IsNewestOfUnit(p, i)' <=> IsNewestOfUnit(p, i)
<1>1. UNCHANGED <<start, listed>> /\ \A i \in 1..listed : dates'[i] = dates[i]
  BY ListingStays
<1>2. listed \in Nat
  BY DEF Types
<1>3. InOrder' <=> InOrder
  BY <1>1 DEF InOrder
<1>4. \A p, i : i \in 1..listed => Region(p, dates[i])' = Region(p, dates[i])
  BY <1>1 DEF Region
<1>5. \A p, i : i \in 1..listed => Unit(p, i)' = Unit(p, i)
  BY <1>1 DEF Unit, Region
<1>6. NoYearGap' <=> NoYearGap
  <2>1. \A i \in 1..(listed - 1) : i \in 1..listed /\ i + 1 \in 1..listed
    BY <1>2
  <2>2. \A p, i : i \in 1..listed => Region(p, dates'[i]) = Region(p, dates[i])
    BY <1>1
  <2>3. QED
    BY <1>1, <1>5, <2>1, <2>2 DEF NoYearGap
<1>7. ASSUME NEW p \in Periods, NEW i \in 1..listed
      PROVE  IsNewestOfUnit(p, i)' <=> IsNewestOfUnit(p, i)
  <2>1. \A j \in (i + 1)..listed : j \in 1..listed
    BY <1>2
  <2>2. QED
    BY <1>1, <1>5, <2>1 DEF IsNewestOfUnit
<1>8. QED
  BY <1>3, <1>6, <1>7

\* A save that stands for another one goes on doing so.
LEMMA CoveredStays ==
    ASSUME Types, [Next]_vars, kept \subseteq kept', NEW i \in 1..listed, Covered(i)
    PROVE  Covered(i)'
<1>1. UNCHANGED <<start, listed>> /\ \A j \in 1..listed : dates'[j] = dates[j]
  BY ListingStays
<1>2. kept \subseteq 1..listed
  BY DEF Types
<1>3. CASE \A p \in Periods : dates[i] < start[p]
  BY <1>1, <1>3 DEF Covered
<1>4. CASE \E p \in Periods, j \in kept :
          /\ j > i
          /\ dates[i] >= start[p]
          /\ Region(p, dates[i]) = Region(p, dates[j])
  BY <1>1, <1>2, <1>4 DEF Covered
<1>5. QED
  BY <1>3, <1>4 DEF Covered

-----------------------------------------------------------------------------
(***************************************************************************)
(* Groups and periods                                                      *)
(***************************************************************************)

\* groupby's key is that of the save just classified, and the group's first
\* save was kept.
LEMMA GroupStep == Types /\ Group /\ [Next]_vars => Group'
<1> SUFFICES ASSUME Types, Types', Group, [Next]_vars, region' # NoRegion
             PROVE  Group'
  BY TypesStep DEF Group
<1>1. UNCHANGED <<start, listed>> /\ \A i \in 1..listed : dates'[i] = dates[i] /\ dates[i] \in Dates
  BY ListingStays
<1>2. CASE ClassifyOne
  <2>1. next \in 1..listed /\ next' = next - 1 /\ range' = range /\ UNCHANGED dates
        /\ region' = Region(range, dates[next])
    BY <1>2 DEF ClassifyOne, Types
  <2>2. range \in {"dailies", "monthlies", "yearlies"}
    BY <1>1, <2>1, RegionIs DEF Types, Periods
  <2>3. CASE IsNewest(next)
    BY <1>1, <1>2, <2>1, <2>2, <2>3 DEF ClassifyOne, Keep, Group, Types
  <2>4. CASE ~IsNewest(next)
    <3>1. region = region' /\ kept' = kept
      BY <1>2, <2>1, <2>4 DEF ClassifyOne, Drop, IsNewest
    <3>2. PICK j \in kept : j > next /\ Region(range, dates[j]) = region
      BY <3>1 DEF Group
    <3>3. j > next' /\ j \in kept' /\ Region(range', dates'[j]) = region'
      BY <1>1, <2>1, <3>1, <3>2 DEF Types
    <3>4. next' < listed' /\ next' + 1 = next
      BY <1>1, <2>1 DEF Types
    <3>5. QED
      BY <2>1, <2>2, <3>3, <3>4 DEF Group
  <2>5. QED
    BY <2>3, <2>4
<1>3. CASE ~ClassifyOne
  <2>1. region' = region /\ range' = range /\ kept' = kept
    BY <1>3 DEF Next, NextRange, DropRest, ClassifyEnd, Rm, RmFails, ConcurrentSave, vars, Drop
  <2>2. next' = next
    BY <1>3, <2>1 DEF Next, NextRange, DropRest, ClassifyEnd, Rm, RmFails, ConcurrentSave, vars,
                      Group
  <2>3. kept \subseteq 1..listed /\ next + 1 \in 1..listed
    BY <2>1 DEF Group, Types
  <2>4. QED
    BY <1>1, <2>1, <2>2, <2>3 DEF Group
<1>4. QED
  BY <1>2, <1>3

\* A period ends at a save older than its start; so are all that follow, on a
\* branch in order.
LEMMA PassedStep == Types /\ PassedAreOver /\ [Next]_vars => PassedAreOver'
<1> SUFFICES ASSUME Types, PassedAreOver, [Next]_vars, InOrder
             PROVE  \A p \in Passed', i \in 1..next' : dates'[i] < start'[p]
  BY OrderStays DEF PassedAreOver
<1>1. UNCHANGED <<start, listed>> /\ \A i \in 1..listed : dates'[i] = dates[i] /\ dates[i] \in Dates
  BY ListingStays
<1>2. next' <= next /\ next \in 0..listed /\ next' \in Int
  BY DEF Types, Next, vars, ClassifyOne, NextRange, DropRest, ClassifyEnd, Rm, RmFails, ConcurrentSave
<1>3. \A i \in 1..next' : i \in 1..next /\ i \in 1..listed
  BY <1>2 DEF Types
<1>4. Passed \subseteq Periods
  BY DEF Passed, Periods, Types
<1>5. CASE NextRange
  <2>1. Passed' \subseteq Passed \cup {range}
    BY <1>5 DEF NextRange, Passed, Then, Periods
  <2>2. next \in 1..listed /\ next' = next /\ dates[next] < start[range]
    <3>1. next \in 1..listed /\ next' = next /\ range \in Periods /\ ~(dates[next] >= start[range])
      BY <1>5 DEF NextRange, InRange, Types
    <3>2. dates[next] \in Int /\ start[range] \in Int
      BY <1>1, <3>1, PruneParameters DEF Types
    <3>3. QED
      BY <3>1, <3>2
  <2>3. ASSUME NEW i \in 1..next
        PROVE  dates[i] < start[range]
    <3>1. i = next \/ (i \in 1..listed /\ i < next)
      BY <2>2 DEF Types
    <3>2. dates[i] <= dates[next]
      <4>1. dates[next] \in Int
        BY <1>1, <2>2, PruneParameters
      <4>2. QED
        BY <2>2, <3>1, <4>1 DEF InOrder
    <3>3. dates[i] \in Int /\ dates[next] \in Int /\ start[range] \in Int
      BY <1>1, <1>5, <2>2, <3>1, PruneParameters DEF Types, NextRange
    <3>4. QED
      BY <2>2, <3>2, <3>3
  <2>4. QED
    BY <1>1, <1>3, <2>1, <2>2, <2>3 DEF PassedAreOver
<1>6. CASE ~NextRange
  <2>1. range' = range
    BY <1>6 DEF Next, vars, ClassifyOne, DropRest, ClassifyEnd, Rm, RmFails, ConcurrentSave
  <2>2. Passed' = Passed
    BY <2>1 DEF Passed
  <2>3. QED
    BY <1>1, <1>3, <2>2 DEF PassedAreOver
<1>7. QED
  BY <1>5, <1>6

-----------------------------------------------------------------------------
(***************************************************************************)
(* What is kept                                                            *)
(***************************************************************************)

\* A save that its group has a newer one for is not the newest of any day,
\* month or year that is still to come.
LEMMA NotNewest ==
    ASSUME Types, Group, PassedAreOver, InOrder, NoYearGap, next > 0,
           range \in {"dailies", "monthlies", "yearlies"},
           Region(range, dates[next]) = region, NEW p \in Periods \ {"all"}
    PROVE  ~IsNewestOfUnit(p, next)
<1>1. next \in 1..listed /\ dates[next] \in Dates
  BY DEF Types
<1>2. region # NoRegion
  <2>1. range \in Periods \cup {"rest"}
    BY DEF Periods
  <2>2. QED
    BY <1>1, <2>1, RegionIs
<1>3. next < listed /\ Region(range, dates[next + 1]) = region
  BY <1>2 DEF Group
<1>4. next + 1 \in 1..listed /\ next \in 1..(listed - 1) /\ dates[next + 1] \in Dates
  BY <1>1, <1>3 DEF Types
<1>5. Unit(range, next) = Unit(range, next + 1)
  BY <1>3, <1>4 DEF NoYearGap, Periods
<1>6. Year[dates[next]] = Year[dates[next + 1]]
  BY <1>5 DEF Unit
<1>7. CASE p \in Passed
  <2>1. dates[next] < start[p]
    <3>1. next \in 1..next
      BY <1>1
    <3>2. QED
      BY <1>7, <3>1 DEF PassedAreOver
  <2>2. dates[next] \in Int /\ start[p] \in Int
    <3>1. dates[next] \in Int
      BY <1>1, PruneParameters
    <3>2. QED
      BY <3>1 DEF Types
  <2>3. ~(dates[next] >= start[p])
    BY ONLY <2>1, <2>2
  <2>4. QED
    BY <2>3 DEF IsNewestOfUnit
<1>8. CASE p \notin Passed
  <2>1. Unit(p, next) = Unit(p, next + 1)
    <3>1. CASE p = range
      BY <1>5, <3>1
    <3>2. CASE p = "yearlies"
      BY <1>6, <3>2 DEF Unit, Region
    <3>3. CASE p = "monthlies" /\ range = "dailies"
      <4>1. Yday[dates[next]] = Yday[dates[next + 1]]
        BY <1>3, <3>3 DEF Region
      <4>2. Mon[dates[next]] = Mon[dates[next + 1]]
        BY <1>1, <1>4, <1>6, <4>1, PruneParameters
      <4>3. QED
        BY <1>6, <3>3, <4>2 DEF Unit, Region
    <3>4. QED
      BY <1>8, <3>1, <3>2, <3>3 DEF Passed, Periods
  <2>2. next + 1 \in (next + 1)..listed
    BY <1>4 DEF Types
  <2>3. QED
    BY <2>1, <2>2 DEF IsNewestOfUnit
<1>9. QED
  BY <1>7, <1>8

\* Each save is classified as the properties say.
LEMMA SoFarStep == Types /\ Group /\ PassedAreOver /\ SoFar /\ [Next]_vars => SoFar'
<1> SUFFICES ASSUME Types, Group, PassedAreOver, SoFar, [Next]_vars
             PROVE  SoFar'
  OBVIOUS
<1> SUFFICES ASSUME InOrder
             PROVE  /\ \A i \in dropped' : Covered(i)'
                    /\ NoYearGap => \A p \in Periods \ {"all"}, i \in (next' + 1)..listed :
                          IsNewestOfUnit(p, i) => i \in kept'
  <2>1. listed' = listed
    BY ListingStays
  <2>2. PICK n \in Nat : n = next'
    BY TypesStep DEF Types
  <2>3. PICK l \in Nat : l = listed
    BY DEF Types
  <2>4. ASSUME NEW i \in (n + 1)..l
        PROVE  i \in 1..l
    BY ONLY n \in Nat, l \in Nat, <2>4
  <2>5. \A i \in (next' + 1)..listed : i \in 1..listed
    BY <2>2, <2>3, <2>4
  <2>6. QED
    BY <2>1, <2>5, OrderStays DEF SoFar
<1>1. dropped \subseteq 1..listed /\ kept \subseteq 1..listed /\ next \in 0..listed /\ listed \in Nat
  BY DEF Types
<1>2. \A i \in dropped : Covered(i)
  BY DEF SoFar
<1>3. kept \subseteq kept'
  BY DEF Next, vars, ClassifyOne, NextRange, DropRest, ClassifyEnd, Rm, RmFails, ConcurrentSave,
         Keep, Drop
<1>4. \A i \in dropped : Covered(i)'
  BY <1>1, <1>2, <1>3, CoveredStays
<1>5. UNCHANGED <<start, listed>> /\ \A i \in 1..listed : dates'[i] = dates[i] /\ dates[i] \in Dates
  BY ListingStays
<1>0. PICK n \in 0..listed : n = next
  BY <1>1
<1>6. CASE UNCHANGED <<next, dropped>>
  BY <1>3, <1>4, <1>6 DEF SoFar
<1>7. CASE next' = next - 1 /\ next > 0 /\ next \in kept' /\ dropped' = dropped
  <2>1. \A i \in (next' + 1)..listed : i = next \/ i \in (next + 1)..listed
    BY <1>1, <1>7
  <2>2. QED
    BY <1>3, <1>4, <1>7, <2>1 DEF SoFar
<1>8. CASE /\ next' = next - 1 /\ next > 0 /\ dropped' = dropped \cup {next}
           /\ Covered(n)'
           /\ NoYearGap => \A p \in Periods \ {"all"} : ~IsNewestOfUnit(p, next)
  <2>1. \A i \in (next' + 1)..listed : i = next \/ i \in (next + 1)..listed
    BY <1>1, <1>8
  <2>2. \A i \in dropped' : Covered(i)'
    BY <1>0, <1>4, <1>8
  <2>3. ASSUME NoYearGap, NEW p \in Periods \ {"all"}, NEW i \in (next' + 1)..listed,
               IsNewestOfUnit(p, i)
        PROVE  i \in kept'
    <3>1. i \in (next + 1)..listed
      BY <1>8, <2>1, <2>3
    <3>2. QED
      BY <1>3, <2>3, <3>1 DEF SoFar
  <2>4. QED
    BY <2>2, <2>3
<1>9. CASE ClassifyOne
  <2>1. next \in 1..listed /\ next > 0 /\ next' = next - 1 /\ InRange(next) /\ UNCHANGED dates
    BY <1>9 DEF ClassifyOne, Types
  <2>2. CASE IsNewest(next)
    BY <1>7, <1>9, <2>1, <2>2 DEF ClassifyOne, Keep
  <2>3. CASE ~IsNewest(next)
    <3>1. dropped' = dropped \cup {next} /\ kept' = kept
      BY <1>9, <2>3 DEF ClassifyOne, Drop
    <3>2. range \in {"dailies", "monthlies", "yearlies"} /\ Region(range, dates[next]) = region
          /\ range \in Periods /\ dates[next] >= start[range]
      BY <2>1, <2>3 DEF IsNewest, InRange, Periods
    <3>3. region # NoRegion
      BY <1>5, <2>1, <3>2, RegionIs
    <3>4. PICK j \in kept : j > next /\ Region(range, dates[j]) = region
      BY <3>3 DEF Group
    <3>5. Covered(n)
      BY <1>0, <3>2, <3>4 DEF Covered
    <3>6. Covered(n)'
      BY <1>0, <1>3, <2>1, <3>5, CoveredStays
    <3>7. NoYearGap => \A p \in Periods \ {"all"} : ~IsNewestOfUnit(p, next)
      BY <2>1, <3>2, NotNewest
    <3>8. QED
      BY <1>8, <2>1, <3>1, <3>6, <3>7
  <2>4. QED
    BY <2>2, <2>3
<1>10. CASE DropRest
  <2>1. /\ next \in 1..listed /\ next > 0 /\ next' = next - 1 /\ dropped' = dropped \cup {next}
        /\ range = "rest"
    BY <1>10 DEF DropRest, Drop, Types
  <2>2. \A p \in Periods : dates[next] < start[p]
    BY <2>1 DEF PassedAreOver, Passed
  <2>3. Covered(n)'
    BY <1>0, <1>3, <2>1, <2>2, CoveredStays DEF Covered
  <2>4. ASSUME NEW p \in Periods
        PROVE  ~IsNewestOfUnit(p, next)
    <3>1. dates[next] \in Int /\ start[p] \in Int
      BY <1>5, <2>1, PruneParameters DEF Types
    <3>2. QED
      BY <2>2, <3>1 DEF IsNewestOfUnit
  <2>5. QED
    BY <1>8, <2>1, <2>3, <2>4
<1>11. QED
  BY <1>6, <1>9, <1>10
     DEF Next, vars, NextRange, ClassifyEnd, Rm, RmFails, ConcurrentSave

-----------------------------------------------------------------------------
(***************************************************************************)
(* The theorems                                                            *)
(***************************************************************************)

\* Nothing is classified at first.
LEMMA PInvInit == Init => PInv
<1> SUFFICES ASSUME Init
             PROVE  PInv
  OBVIOUS
<1>1. Types
  BY TypesInit
<1>2. listed \in Nat /\ next = listed
  BY <1>1 DEF Init, Types
<1>3. QED
  BY <1>1, <1>2
     DEF Init, PInv, AllClassified, Classified, Group, PassedAreOver, Passed, SoFar,
         RemovesWhatWasListed

\* Every step keeps the invariant.
LEMMA PInvStep == PInv /\ [Next]_vars => PInv'
<1> SUFFICES ASSUME PInv, [Next]_vars
             PROVE  PInv'
  OBVIOUS
<1>1. Types' /\ Group' /\ PassedAreOver' /\ SoFar'
  BY TypesStep, GroupStep, PassedStep, SoFarStep DEF PInv
<1>2. AllClassified'
  BY DEF PInv, AllClassified, Classified, Next, vars, ClassifyOne, NextRange, DropRest,
         ClassifyEnd, Rm, RmFails, ConcurrentSave
<1>3. RemovesWhatWasListed'
  <2>1. CASE Rm
    BY <2>1, ResolvedAsListed DEF PInv, Rm, RemovesWhatWasListed
  <2>2. CASE ~Rm
    BY <2>2 DEF PInv, RemovesWhatWasListed, Next, vars, ClassifyOne, NextRange, DropRest,
                ClassifyEnd, RmFails, ConcurrentSave
  <2>3. QED
    BY <2>1, <2>2
<1>4. QED
  BY <1>1, <1>2, <1>3 DEF PInv

\* The invariant of prune-older.
LEMMA Invariant == Spec => []PInv
  BY PInvInit, PInvStep, PTL DEF Spec

\* bup rm, which looks the names up anew, drops the commits that were listed
\* for removal, or none, whatever was saved meanwhile.
THEOREM RemovesListed == Spec => []RemovesWhatWasListed
<1>1. PInv => RemovesWhatWasListed
  BY DEF PInv
<1>2. QED
  BY <1>1, Invariant, PTL

\* A save that is dropped is older than every period or has a newer save that
\* stands for it.
THEOREM DroppedCovered == Spec => []DroppedIsCovered
<1>1. PInv => DroppedIsCovered
  BY DEF PInv, SoFar, DroppedIsCovered, Covered
<1>2. QED
  BY <1>1, Invariant, PTL

\* Every period's newest save of a day, month or year is kept.
THEOREM NewestKept == Spec => []NewestOfUnitKept
<1>1. PInv => NewestOfUnitKept
  <2> SUFFICES ASSUME PInv, Classified, InOrder, NoYearGap,
                      NEW p \in Periods \ {"all"}, NEW i \in 1..listed, IsNewestOfUnit(p, i)
               PROVE  i \in kept
    BY DEF NewestOfUnitKept
  <2>1. i \in (next + 1)..listed
    BY DEF PInv, AllClassified, Types
  <2>2. QED
    BY <2>1 DEF PInv, SoFar
<1>2. QED
  BY <1>1, Invariant, PTL

===============================================================================
