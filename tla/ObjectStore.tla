---------------------------- MODULE ObjectStore ----------------------------
(***************************************************************************)
(* What a bup repository promises, whatever processes work on it and       *)
(* wherever they die: objects appear, objects nobody can reach may         *)
(* disappear, and a branch only ever moves to a commit that can be         *)
(* restored in full.  The promise lapses for good when a collection leaves *)
(* an index of what it removed: existence checks are wrong from then on.   *)
(***************************************************************************)
EXTENDS ObjectGraph

CONSTANT Refs   \* the branches of the repository

VARIABLES
    stored,     \* the objects that can be read back
    refs,       \* [Refs -> Commits \cup {None}]
    lapsed      \* can an existence check no longer be trusted?

storeVars == <<stored, refs, lapsed>>

\* What a ref still needs: bup-gc(1) may not remove it.
Needed == UNION {ReachFrom(refs[r]) : r \in Refs}

StoreInit ==
    /\ stored = {}
    /\ refs = [r \in Refs |-> None]
    /\ lapsed = FALSE

\* A pack is finished: its objects become readable.
AddObjects ==
    /\ ~lapsed
    /\ stored \subseteq stored' /\ stored' \subseteq Objects
    /\ UNCHANGED <<refs, lapsed>>

\* A pack is unlinked: only objects no ref needs may go.
DropObjects ==
    /\ ~lapsed
    /\ stored' \subseteq stored /\ (stored \ stored') \cap Needed = {}
    /\ UNCHANGED <<refs, lapsed>>

\* A branch moves to a commit that is there with all it needs, or goes away.
MoveRef ==
    /\ ~lapsed
    /\ \E r \in Refs, c \in Commits \cup {None} :
           /\ ReachFrom(c) \subseteq stored
           /\ refs' = [refs EXCEPT ![r] = c]
    /\ UNCHANGED <<stored, lapsed>>

\* From the collection that left such an index on, nothing is promised.
Lapse == lapsed'

StoreNext == AddObjects \/ DropObjects \/ MoveRef \/ Lapse

StoreSpec == StoreInit /\ [][StoreNext]_storeVars
=============================================================================
