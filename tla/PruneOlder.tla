----------------------------- MODULE PruneOlder -----------------------------
(***************************************************************************)
(* bup prune-older on one branch: the saves are classified newest first,   *)
(* each period in turn taking the saves that are not older than its start, *)
(* and the names of the saves to drop are handed to bup rm, while other    *)
(* processes may add saves.                                                *)
(*                                                                         *)
(* A commit is its position on the branch, 1 the oldest; dates[i] is its   *)
(* author date.                                                            *)
(***************************************************************************)
EXTENDS Integers, Sequences, FiniteSets

CONSTANTS
    Dates,      \* author dates, in seconds since the epoch
    Yday,       \* localtime().tm_yday of a date,
    Mon,        \* .tm_mon,
    Year,       \* and .tm_year
    LocalTime,  \* what strftime prints of it
    Now,        \* --wrt, or the current time
    Extents,    \* what the --keep options may be, in seconds
    Forever,    \* longer than any history
    MaxSaves    \* bound: saves on the branch

ASSUME PruneParameters ==
    /\ Dates \subseteq Int /\ Now \in Int
    /\ Extents \subseteq Nat \ {0} /\ Forever \in Nat /\ MaxSaves \in Nat
    /\ \A d \in Dates : Now - Forever < d /\ d < Now + Forever
    /\ {Yday, Mon, Year} \subseteq [Dates -> Int]
    /\ \A d \in Dates : Forever \notin {Yday[d], Mon[d], Year[d]}
    /\ \A d, e \in Dates :
          Year[d] = Year[e] /\ Yday[d] = Yday[e] => Mon[d] = Mon[e]

VARIABLES
    dates,      \* the branch, oldest save first
    start,      \* period_start
    listed,     \* how many saves rev_list listed
    next,       \* the save classify_saves looks at; 0 after the oldest
    range,      \* the period that takes saves now; "rest" after the last
    region,     \* groupby's current key
    kept, dropped,
    removed,    \* the saves bup_rm dropped
    phase       \* "classify", "rm", "done", "failed"

vars == <<dates, start, listed, next, range, region, kept, dropped,
          removed, phase>>

Periods == {"all", "dailies", "monthlies", "yearlies"}

Then == [all |-> "dailies", dailies |-> "monthlies",
         monthlies |-> "yearlies", yearlies |-> "rest"]

NoRegion == Forever     \* no day, month or year has this number

\* A period that no option names starts at float('inf').
Starts == {Now - e : e \in Extents} \cup {Now + Forever, Now - Forever}

Histories == UNION {[1..n -> Dates] : n \in 0..MaxSaves}

Init ==
    /\ dates \in Histories
    /\ start \in [Periods -> Starts]
    /\ \E p \in Periods : start[p] < Now
    /\ listed = Len(dates) /\ next = listed
    /\ range = "all" /\ region = NoRegion
    /\ kept = {} /\ dropped = {} /\ removed = {}
    /\ phase = "classify"

Region(period, d) ==
    CASE period = "dailies" -> Yday[d]
      [] period = "monthlies" -> Mon[d]
      [] period = "yearlies" -> Year[d]
      [] OTHER -> NoRegion

Keep(i) == kept' = kept \cup {i} /\ dropped' = dropped
Drop(i) == kept' = kept /\ dropped' = dropped \cup {i}

-----------------------------------------------------------------------------
\* partition's predicate.
InRange(i) == range \in Periods /\ dates[i] >= start[range]

\* MISTAKE: the last save of a group is the one kept.
IsNewestLast(i) ==
    range = "all" \/ i = 1 \/ Region(range, dates[i - 1]) # Region(range, dates[i])

\* retain_newest_in_region, and everything in the first period.
IsNewest(i) == range = "all" \/ Region(range, dates[i]) # region

\* The save goes to the current period.
ClassifyOne ==
    /\ phase = "classify"
    /\ next > 0
    /\ InRange(next)
    /\ IF IsNewest(next) THEN Keep(next) ELSE Drop(next)
    /\ region' = Region(range, dates[next])
    /\ next' = next - 1
    /\ UNCHANGED <<dates, start, listed, range, removed, phase>>

\* MISTAKE: the group of the previous period goes on.
NextRangeSameRegion ==
    /\ phase = "classify"
    /\ next > 0
    /\ range \in Periods
    /\ ~InRange(next)
    /\ range' = Then[range]
    /\ UNCHANGED <<dates, start, listed, next, region, kept, dropped,
                   removed, phase>>

\* It does not: the period is over, for good.
NextRange ==
    /\ phase = "classify"
    /\ next > 0
    /\ range \in Periods
    /\ ~InRange(next)
    /\ range' = Then[range]
    /\ region' = NoRegion
    /\ UNCHANGED <<dates, start, listed, next, kept, dropped,
                   removed, phase>>

DropRest ==
    /\ phase = "classify"
    /\ next > 0
    /\ range = "rest"
    /\ Drop(next)
    /\ next' = next - 1
    /\ UNCHANGED <<dates, start, listed, range, region, removed, phase>>

ClassifyEnd ==
    /\ phase = "classify"
    /\ next = 0
    /\ phase' = "rm"
    /\ UNCHANGED <<dates, start, listed, next, range, region, kept, dropped,
                   removed>>

-----------------------------------------------------------------------------
\* What save names are made of; an hour may be repeated.
Printed(i) == LocalTime[dates[i]]

\* The saves of the oldest n whose dates print as that of save i.
Twins(i, n) == {j \in 1..n : Printed(j) = Printed(i)}

\* MISTAKE: numbers count from the newest save.
SaveNameNewestFirst(i, n) ==
    <<Printed(i), IF Cardinality(Twins(i, n)) = 1 THEN -1
                  ELSE Cardinality({j \in Twins(i, n) : j > i})>>

\* save_names_for_commit_utcs: duplicates are numbered, the oldest is 0, and
\* a date that is printed once has no number.
SaveName(i, n) ==
    <<Printed(i), IF Cardinality(Twins(i, n)) = 1 THEN -1
                  ELSE Cardinality({j \in Twins(i, n) : j < i})>>

Removals == {SaveName(i, listed) : i \in dropped}

\* The saves bup_rm finds under those names, now.
Resolved == {i \in 1..Len(dates) : SaveName(i, Len(dates)) \in Removals}

NamesGone == Removals \ {SaveName(i, Len(dates)) : i \in 1..Len(dates)}

\* bup_rm drops them, unless a name is gone: "not proceeding with any
\* removals".
Rm ==
    /\ phase = "rm"
    /\ NamesGone = {}
    /\ removed' = Resolved
    /\ phase' = "done"
    /\ UNCHANGED <<dates, start, listed, next, range, region, kept, dropped>>

RmFails ==
    /\ phase = "rm"
    /\ NamesGone # {}
    /\ phase' = "failed"
    /\ UNCHANGED <<dates, start, listed, next, range, region, kept, dropped,
                   removed>>

\* Another process saves; its clock may be anything.
ConcurrentSave(d) ==
    /\ phase \in {"classify", "rm"}
    /\ Len(dates) < MaxSaves
    /\ dates' = Append(dates, d)
    /\ UNCHANGED <<start, listed, next, range, region, kept, dropped, removed,
                   phase>>

Next ==
    \/ ClassifyOne \/ NextRange \/ DropRest \/ ClassifyEnd
    \/ Rm \/ RmFails
    \/ \E d \in Dates : ConcurrentSave(d)

Spec == Init /\ [][Next]_vars

-----------------------------------------------------------------------------
Classified == phase # "classify"

\* "a typical branch where a new save's date is always the same as or newer
\* than the previous one"
InOrder == \A i, j \in 1..listed : i < j => dates[i] <= dates[j]

\* The calendar day, month or year of a save.
Unit(p, i) == <<Year[dates[i]], Region(p, dates[i])>>

\* No two neighbours share a day of the year, or a month's name, across
\* years.
NoYearGap ==
    \A p \in Periods, i \in 1..(listed - 1) :
        Region(p, dates[i]) = Region(p, dates[i + 1]) => Unit(p, i) = Unit(p, i + 1)

IsNewestOfUnit(p, i) ==
    /\ dates[i] >= start[p]
    /\ \A j \in (i + 1)..listed : Unit(p, j) # Unit(p, i)

\* bup-prune-older: each period retains the newest save of each of its days
\* (months, years), whichever of the overlapping periods takes the save in
\* classify_saves.  Without NoYearGap it is not: groupby compares tm_yday and
\* tm_mon only, so a save a year older than its neighbour counts as the same
\* day.
NewestOfUnitKept ==
    Classified /\ InOrder /\ NoYearGap =>
        \A p \in Periods \ {"all"}, i \in 1..listed :
            IsNewestOfUnit(p, i) => i \in kept

\* A save that classify_saves drops is older than every period, or a newer
\* save stands for it in a period both belong to.
DroppedIsCovered ==
    Classified /\ InOrder =>
        \A i \in dropped :
            \/ \A p \in Periods : dates[i] < start[p]
            \/ \E p \in Periods, j \in kept :
                  /\ j > i
                  /\ dates[i] >= start[p]
                  /\ Region(p, dates[i]) = Region(p, dates[j])

\* bup_rm resolves the names again; a save added since then must not shift
\* them to other commits.
RemovesWhatWasListed == phase = "done" => removed = dropped
=============================================================================
